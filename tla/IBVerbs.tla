------------------------------ MODULE IBVerbs ------------------------------
(***************************************************************************)
(* The InfiniBand engine: class IBVerbs of src/src/MPI/ibverbs.cpp.        *)
(*                                                                         *)
(* Three kinds of tasks run in it: user tasks that call put, get and the   *)
(* atomics, the user task that calls sync, and the polling task that       *)
(* alternates doLocalProgress, doRemoteProgress, processBlock and          *)
(* processSyncRequest for as long as the process lives.                    *)
(***************************************************************************)
EXTENDS Machine

CONSTANTS
  RingSize,   \* number of counters in m_recvCounts; 1024 in the code
  PostCount   \* receives each process posts when it resizes (remote_size)

ASSUME RingSizeAssumption  == RingSize \in Nat \ {0}
ASSUME PostCountAssumption == PostCount \in Nat

VARIABLES
  m_numMsgs,      \* requests without a polled local completion
  m_numMsgsSync,  \* requests issued since the counters were last reset; the
                  \* code keeps only how many there are for each peer
  m_recvCounts,   \* the ring: arrivals counted per superstep modulo RingSize
  m_sync_counter, \* number of completed synchronisations
  m_sync_cached,  \* is m_sync_cached_value valid?
  m_sync_cached_value,
  m_blockTask,    \* is the sync task blocked on the vote (m_blockTask # NULL)?
  syncRequest,    \* what the polling task still has to complete
  m_qps,          \* the staged and the connected queue pairs, by the number of
                  \* the superstep that made them; 0 for none
  m_postCount,    \* receives posted on the shared receive queue so far
  syncEvents,     \* pending events of the sync task
  at              \* where the sync task is inside IBVerbs::sync

engineVars == <<m_numMsgs, m_numMsgsSync, m_recvCounts, m_sync_counter,
                m_sync_cached, m_sync_cached_value, m_blockTask, syncRequest,
                m_qps, m_postCount, syncEvents, at>>
\* What the members that advance sync leave alone.
rmaVars   == <<m_numMsgs, m_numMsgsSync>>
cacheVars == <<m_sync_cached, m_sync_cached_value>>
doneVars  == <<m_recvCounts, m_sync_counter>>

Modes     == {"DEFAULT", "CACHED", "MSG"}
Locations == {"out", "vote", "reconnect", "reconnected", "drain", "sum", "wait"}
NoRequest == [isActive |-> FALSE, withBarrier |-> FALSE, secondPhase |-> FALSE,
              remoteMsgs |-> 0]

EngineInit ==
  /\ m_numMsgs           = [p \in Procs |-> 0]
  /\ m_numMsgsSync       = [p \in Procs |-> {}]
  /\ m_recvCounts        = [p \in Procs |-> [c \in 0..(RingSize - 1) |-> 0]]
  /\ m_sync_counter      = [p \in Procs |-> 0]
  /\ m_sync_cached       = [p \in Procs |-> FALSE]
  /\ m_sync_cached_value = [p \in Procs |-> 0]
  /\ m_blockTask         = [p \in Procs |-> FALSE]
  /\ syncRequest         = [p \in Procs |-> NoRequest]
  /\ m_qps               = [p \in Procs |-> [staged |-> 0, connected |-> 0]]
  /\ m_postCount         = [p \in Procs |-> 0]
  /\ syncEvents          = [p \in Procs |-> 0]
  /\ at                  = [p \in Procs |-> "out"]

\* The counter of the ring that superstep number c uses.
Cell(c) == c % RingSize

----------------------------------------------------------------------------
(* Remote memory access.  The four operations differ in the data they move;  *)
(* all end in one signalled WRITE_WITH_IMM to the peer, and only that one is  *)
(* counted.                                                                   *)

\* Variant: the issuer does not count what it issues.
Uncounted(p) == UNCHANGED m_numMsgs
CountIssued(p) == m_numMsgs' = [m_numMsgs EXCEPT ![p] = @ + 1]

Post(r, s) ==
  LET w == [req |-> r, step |-> s, imm |-> m_sync_counter[r.src]] IN
  /\ wire'          = wire \cup {w}
  /\ CountIssued(r.src)
  /\ m_numMsgsSync' = [m_numMsgsSync EXCEPT ![r.src] = @ \cup {w}]
  /\ UNCHANGED <<executed, cqLocal, cqRemote, srq, calls, m_blockTask, syncRequest,
                 m_qps, m_postCount, syncEvents, at>>
  /\ UNCHANGED cacheVars
  /\ UNCHANGED doneVars

put(r, s)                  == r.op = "put"       /\ Post(r, s)
get(r, s)                  == r.op = "get"       /\ Post(r, s)
atomic_fetch_and_add(r, s) == r.op = "fetch_add" /\ Post(r, s)
atomic_cmp_and_swp(r, s)   == r.op = "cmp_swp"   /\ Post(r, s)

\* In superstep s new queue pairs are created beside the connected ones.
stageQPs(p, s) == m_qps' = [m_qps EXCEPT ![p].staged = s + 1]

\* Besides, the shared receive queue is filled up.
resizeMesgq(p, s) ==
  /\ stageQPs(p, s)
  /\ srq'         = [srq EXCEPT ![p] = @ + (PostCount - m_postCount[p])]
  /\ m_postCount' = [m_postCount EXCEPT ![p] = PostCount]
  /\ UNCHANGED <<wire, executed, cqLocal, cqRemote, calls, m_blockTask,
                 syncRequest, syncEvents, at>>
  /\ UNCHANGED rmaVars /\ UNCHANGED cacheVars /\ UNCHANGED doneVars

----------------------------------------------------------------------------
(* The polling task *)

\* One completion of doLocalProgress.
doLocalProgress(p) ==
  \E w \in cqLocal[p] :
    /\ cqLocal'   = [cqLocal EXCEPT ![p] = @ \ {w}]
    /\ m_numMsgs' = [m_numMsgs EXCEPT ![p] = @ - 1]
    /\ UNCHANGED <<wire, executed, cqRemote, srq, calls, m_numMsgsSync, m_blockTask,
                   syncRequest, m_qps, m_postCount, syncEvents, at>>
    /\ UNCHANGED cacheVars /\ UNCHANGED doneVars

\* Variant: the consumed receive is not replaced.
NoRepost(p) == UNCHANGED srq
Repost(p)   == srq' = [srq EXCEPT ![p] = @ + 1]

\* One arrival of doRemoteProgress: count it and post a fresh receive.
doRemoteProgress(p) ==
  \E w \in cqRemote[p] :
    /\ cqRemote'     = [cqRemote EXCEPT ![p] = @ \ {w}]
    /\ m_recvCounts' = [m_recvCounts EXCEPT ![p][Cell(w.imm)] = @ + 1]
    /\ Repost(p)
    /\ UNCHANGED <<wire, executed, cqLocal, calls, m_sync_counter, m_blockTask, syncRequest,
                   m_qps, m_postCount, syncEvents, at>>
    /\ UNCHANGED rmaVars /\ UNCHANGED cacheVars

\* The vote has completed: let the sync task run again.
processBlock(p) ==
  /\ m_blockTask[p]
  /\ Completed(p)
  /\ m_blockTask' = [m_blockTask EXCEPT ![p] = FALSE]
  /\ UNCHANGED <<syncRequest, m_qps, m_postCount, syncEvents, at>>
  /\ UNCHANGED rmaVars /\ UNCHANGED cacheVars /\ UNCHANGED doneVars
  /\ UNCHANGED machineVars

\* The end of a synchronisation: the superstep counter moves on and the sync
\* task loses its event, which releases its successors.  Of secondPhase and
\* remoteMsgs each path resets the one that is not reset yet.
FinishSync(p) ==
  /\ syncRequest'    = [syncRequest EXCEPT ![p].isActive = FALSE,
                                           ![p].secondPhase = FALSE,
                                           ![p].remoteMsgs = 0]
  /\ m_sync_counter' = [m_sync_counter EXCEPT ![p] = @ + 1]
  /\ syncEvents'     = [syncEvents EXCEPT ![p] = @ - 1]

\* Variant: one arrival too few is enough.
AlmostEnough(p) ==
  m_recvCounts[p][Cell(m_sync_counter[p])] + 1 >= syncRequest[p].remoteMsgs
Enough(p) ==
  m_recvCounts[p][Cell(m_sync_counter[p])] >= syncRequest[p].remoteMsgs

\* Everything expected has arrived: take it off the counter.
AllArrived(p) ==
  /\ syncRequest[p].isActive
  /\ ~ (syncRequest[p].withBarrier /\ syncRequest[p].secondPhase)
  /\ Enough(p)
  /\ m_recvCounts' = [m_recvCounts EXCEPT
       ![p][Cell(m_sync_counter[p])] = @ - syncRequest[p].remoteMsgs]

processSyncRequest(p) ==
  /\ \/ /\ AllArrived(p)
        /\ syncRequest[p].withBarrier
        /\ syncRequest' = [syncRequest EXCEPT ![p].secondPhase = TRUE,
                                              ![p].remoteMsgs = 0]
        /\ Enter(p, Barrier("barrier"))
        /\ UNCHANGED <<m_sync_counter, syncEvents>>
     \/ /\ AllArrived(p)
        /\ ~ syncRequest[p].withBarrier
        /\ FinishSync(p)
        /\ UNCHANGED calls
     \/ /\ syncRequest[p].isActive
        /\ syncRequest[p].withBarrier /\ syncRequest[p].secondPhase
        /\ Completed(p)
        /\ FinishSync(p)
        /\ UNCHANGED <<m_recvCounts, calls>>
  /\ UNCHANGED <<m_blockTask, m_qps, m_postCount, at>>
  /\ UNCHANGED rmaVars /\ UNCHANGED cacheVars /\ UNCHANGED fabricVars

----------------------------------------------------------------------------
(* sync, in the order of its statements *)

\* Entry: the default mode first votes on aborting and on reconnecting, and
\* blocks its task until the polling task sees the outcome.
SyncEnter(p, mode, abort, resized) ==
  /\ at[p] = "out"
  /\ IF mode = "DEFAULT"
     THEN /\ Enter(p, Call("vote", abort, resized, {}))
          /\ m_blockTask' = [m_blockTask EXCEPT ![p] = TRUE]
          /\ at' = [at EXCEPT ![p] = "vote"]
     ELSE /\ at' = [at EXCEPT ![p] = "drain"]
          /\ UNCHANGED <<calls, m_blockTask>>
  /\ UNCHANGED <<syncRequest, m_qps, m_postCount, syncEvents>>
  /\ UNCHANGED rmaVars /\ UNCHANGED cacheVars /\ UNCHANGED doneVars
  /\ UNCHANGED fabricVars

\* voted[0] and voted[1] of the completed vote.
VotedAbort(p)  == Cardinality({q \in Procs : Contributions(p)[q].abort})
VotedResize(p) == Cardinality({q \in Procs : Contributions(p)[q].resized})
VoteOver(p)    == at[p] = "vote" /\ ~ m_blockTask[p]

\* Somebody aborts: sync returns the count and does nothing else.
SyncAborted(p) ==
  /\ VoteOver(p)
  /\ VotedAbort(p) # 0
  /\ at' = [at EXCEPT ![p] = "out"]
  /\ UNCHANGED <<m_blockTask, syncRequest, m_qps, m_postCount, syncEvents>>
  /\ UNCHANGED rmaVars /\ UNCHANGED cacheVars /\ UNCHANGED doneVars
  /\ UNCHANGED machineVars

\* Nobody aborts: on to the first barrier of reconnectQPs, or past it.
SyncVoted(p) ==
  /\ VoteOver(p)
  /\ VotedAbort(p) = 0
  /\ IF VotedResize(p) > 0
     THEN /\ at' = [at EXCEPT ![p] = "reconnect"]
          /\ Enter(p, Barrier("reconnect"))
     ELSE /\ at' = [at EXCEPT ![p] = "drain"]
          /\ UNCHANGED calls
  /\ UNCHANGED <<m_blockTask, syncRequest, m_qps, m_postCount, syncEvents>>
  /\ UNCHANGED rmaVars /\ UNCHANGED cacheVars /\ UNCHANGED doneVars
  /\ UNCHANGED fabricVars

\* Variant: queue pairs that are connected stay so.
SwapOnce(p) == m_qps' = [m_qps EXCEPT ![p] =
                 [staged |-> 0, connected |-> IF @.connected = 0 THEN @.staged ELSE @.connected]]
Swap(p)     == m_qps' = [m_qps EXCEPT ![p] = [staged |-> 0, connected |-> @.staged]]

\* reconnectQPs after its first barrier: the staged queue pairs replace the
\* connected ones, which are destroyed; then its last barrier.
reconnectQPs(p) ==
  /\ at[p] = "reconnect"
  /\ Completed(p)
  /\ Swap(p)
  /\ DestroyQPs(p)
  /\ Enter(p, Barrier("reconnected"))
  /\ at' = [at EXCEPT ![p] = "reconnected"]
  /\ UNCHANGED <<m_postCount, m_blockTask, syncRequest, syncEvents>>
  /\ UNCHANGED rmaVars /\ UNCHANGED cacheVars /\ UNCHANGED doneVars

SyncReconnected(p) ==
  /\ at[p] = "reconnected"
  /\ Completed(p)
  /\ at' = [at EXCEPT ![p] = "drain"]
  /\ UNCHANGED <<m_blockTask, syncRequest, m_qps, m_postCount, syncEvents>>
  /\ UNCHANGED rmaVars /\ UNCHANGED cacheVars /\ UNCHANGED doneVars
  /\ UNCHANGED machineVars

\* Variant: the barrier that was asked for is forgotten.
RequestNoBarrier(req, withBarrier, remoteMsgs) ==
  [req EXCEPT !.isActive = TRUE, !.withBarrier = FALSE, !.remoteMsgs = remoteMsgs]
Request(req, withBarrier, remoteMsgs) ==
  [req EXCEPT !.isActive = TRUE, !.withBarrier = withBarrier, !.remoteMsgs = remoteMsgs]

\* Hand the request to the polling task; sync returns while it is pending.
Activate(p, withBarrier, remoteMsgs) ==
  /\ syncRequest' = [syncRequest EXCEPT ![p] = Request(@, withBarrier, remoteMsgs)]
  /\ syncEvents'  = [syncEvents EXCEPT ![p] = @ + 1]
  /\ at'          = [at EXCEPT ![p] = "wait"]

\* Variant: the spin on m_numMsgs is gone.
NoSpin(p)  == TRUE
SpinEnd(p) == m_numMsgs[p] = 0

\* The spin on m_numMsgs is over: copy and reset the per-peer counters.  The
\* number of arrivals to expect is then the caller's, the cached one, or the
\* result of an exchange.
Drained(p) ==
  /\ at[p] = "drain"
  /\ SpinEnd(p)
  /\ m_numMsgsSync' = [m_numMsgsSync EXCEPT ![p] = {}]
  /\ UNCHANGED <<m_numMsgs, m_blockTask, m_qps, m_postCount>>
  /\ UNCHANGED doneVars
  /\ UNCHANGED fabricVars

Exchanges(p, mode) == mode = "DEFAULT" \/ (mode = "CACHED" /\ ~ m_sync_cached[p])

SyncKnown(p, mode, withBarrier, value) ==
  /\ Drained(p)
  /\ ~ Exchanges(p, mode)
  /\ Activate(p, withBarrier,
              IF mode = "CACHED" THEN m_sync_cached_value[p] ELSE value)
  /\ UNCHANGED calls /\ UNCHANGED cacheVars

\* Variant: the cache is taken as valid only by who has communicated.
ValidIfBusy(p, mode) == m_sync_cached[p] \/ (mode = "CACHED" /\ m_numMsgsSync[p] # {})
NowValid(p, mode)    == m_sync_cached[p] \/ mode = "CACHED"

\* Variant: the counters are reset before they are copied.
AfterReset(p)   == {}
Contribution(p) == m_numMsgsSync[p]

SyncExchange(p, mode) ==
  /\ Drained(p)
  /\ Exchanges(p, mode)
  /\ m_sync_cached' = [m_sync_cached EXCEPT ![p] = NowValid(p, mode)]
  /\ Enter(p, Call("sum", FALSE, FALSE, Contribution(p)))
  /\ at' = [at EXCEPT ![p] = "sum"]
  /\ UNCHANGED <<m_sync_cached_value, syncRequest, syncEvents>>

\* allreduceSum, of the counters for peer p.
SumFor(p) ==
  Cardinality({w \in UNION {Contributions(p)[q].counts : q \in Procs} : w.req.dst = p})

SyncExchanged(p, mode, withBarrier) ==
  /\ at[p] = "sum"
  /\ Completed(p)
  /\ m_sync_cached' = [m_sync_cached EXCEPT ![p] = @ /\ mode # "DEFAULT"]
  /\ m_sync_cached_value' = [m_sync_cached_value EXCEPT ![p] = SumFor(p)]
  /\ Activate(p, withBarrier, SumFor(p))
  /\ UNCHANGED <<m_blockTask, m_qps, m_postCount>>
  /\ UNCHANGED rmaVars /\ UNCHANGED doneVars /\ UNCHANGED machineVars

\* The sync task has no event left: its successors may run.
SyncReleased(p) ==
  /\ at[p] = "wait"
  /\ syncEvents[p] = 0
  /\ at' = [at EXCEPT ![p] = "out"]
  /\ UNCHANGED <<m_blockTask, syncRequest, m_qps, m_postCount, syncEvents>>
  /\ UNCHANGED rmaVars /\ UNCHANGED cacheVars /\ UNCHANGED doneVars
  /\ UNCHANGED machineVars
=============================================================================
