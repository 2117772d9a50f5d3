-------------------------------- MODULE Spmd --------------------------------
(***************************************************************************)
(* An SPMD program running over the engine: the layers Process::hook,      *)
(* Interface and MessageQueue of src/src/MPI around IBVerbs.               *)
(*                                                                         *)
(* A program is a sequence of supersteps, the same on all processes.  In a *)
(* superstep a process may resize its message queue, issues its remote     *)
(* memory operations in any order, and calls sync; it starts the next      *)
(* superstep when the sync task has completed, which is the dependency     *)
(* between communication tasks that TALPF programs declare.  Nothing makes *)
(* the sync wait for the tasks of the operations ("relaxed behavior" in    *)
(* IBVerbs::sync): sync itself does.                                       *)
(***************************************************************************)
EXTENDS IBVerbs

CONSTANTS
  Programs,   \* the programs considered
  Quitters    \* processes that may return from the spmd function early

Supersteps == [mode : Modes, barrier : BOOLEAN, resize : BOOLEAN,
               rma : SUBSET Requests]

\* How many operations of superstep u are directed at p.
Inbound(u, p) == Cardinality({r \in u.rma : r.dst = p})

\* With LPF_SYNC_CACHED the count exchanged by the first CACHED sync since the
\* last default one holds for the following ones: such supersteps have the same
\* number of arrivals on each process.  LPF_SYNC_DEFAULT includes a barrier.
LegalProgram(prog) ==
  /\ \A s \in DOMAIN prog :
       /\ IsFiniteSet(prog[s].rma)
       /\ prog[s].mode = "DEFAULT" => prog[s].barrier
  /\ \A s, t \in DOMAIN prog :
       /\ s < t
       /\ prog[s].mode = "CACHED" /\ prog[t].mode = "CACHED"
       /\ \A u \in s..t : prog[u].mode # "DEFAULT"
       => \A p \in Procs : Inbound(prog[s], p) = Inbound(prog[t], p)

ASSUME ProgramsAssumption ==
  \A prog \in Programs : prog \in Seq(Supersteps) /\ LegalProgram(prog)

VARIABLES
  program,    \* the program all processes run
  step,       \* per process: supersteps completed
  sent,       \* every work request posted so far
  m_resized,  \* MessageQueue::m_resized
  m_aborted,  \* Interface::m_aborted: abort votes counted, 0 while running
  run,        \* "spmd", "aborting" (in Interface::abort) or "exited"
  status      \* what Process::hook returns

spmdVars == <<program, step, sent, m_resized, m_aborted, run, status>>
vars     == <<machineVars, engineVars, spmdVars>>

Init ==
  /\ MachineInit
  /\ EngineInit
  /\ program \in Programs
  /\ step      = [p \in Procs |-> 0]
  /\ sent      = {}
  /\ m_resized = [p \in Procs |-> FALSE]
  /\ m_aborted = [p \in Procs |-> 0]
  /\ run       = [p \in Procs |-> "spmd"]
  /\ status    = [p \in Procs |-> "none"]

Superstep(p) == program[step[p] + 1]

\* p executes its program: it is in a superstep, and no call of its has told it
\* LPF_ERR_FATAL.
Computing(p) ==
  /\ run[p] = "spmd"
  /\ m_aborted[p] = 0
  /\ step[p] < Len(program)

\* The operations of the current superstep that p has not issued yet.
Pending(p) ==
  {r \in Superstep(p).rma :
     r.src = p /\ \A w \in sent : ~ (w.req = r /\ w.step = step[p])}

----------------------------------------------------------------------------
(* Calls of the program *)

\* talpf_put, talpf_get and the two atomics.
Communicate(p) ==
  /\ Computing(p)
  /\ at[p] = "out"
  /\ Superstep(p).resize => m_resized[p]
  /\ \E r \in Pending(p) :
       \/ put(r, step[p])
       \/ get(r, step[p])
       \/ atomic_fetch_and_add(r, step[p])
       \/ atomic_cmp_and_swp(r, step[p])
  /\ sent' = sent \cup wire'
  /\ UNCHANGED <<program, step, m_resized, m_aborted, run, status>>

\* lpf_resize_message_queue, when it finds the resources.
resizeMesgQueue(p) ==
  /\ Computing(p)
  /\ at[p] = "out"
  /\ Superstep(p).resize /\ ~ m_resized[p]
  /\ resizeMesgq(p, step[p])
  /\ m_resized' = [m_resized EXCEPT ![p] = TRUE]
  /\ UNCHANGED <<program, step, sent, m_aborted, run, status>>

\* talpf_sync.
sync(p) ==
  /\ Computing(p)
  /\ Pending(p) = {}
  /\ Superstep(p).resize => m_resized[p]
  /\ SyncEnter(p, Superstep(p).mode, FALSE, m_resized[p])
  /\ UNCHANGED spmdVars

\* Variant: a process that returns does not vote, it just goes.
NoVote(p)   == FALSE
MustVote(p) == m_aborted[p] = 0

\* The spmd function returns, at its end, early, or after LPF_ERR_FATAL.
\* Unless the process knows that somebody aborted, it now votes for aborting.
Return(p) ==
  /\ run[p] = "spmd"
  /\ at[p] = "out"
  /\ step[p] = Len(program) \/ m_aborted[p] # 0 \/ p \in Quitters
  /\ IF MustVote(p)
     THEN /\ SyncEnter(p, "DEFAULT", TRUE, m_resized[p])
          /\ run' = [run EXCEPT ![p] = "aborting"]
          /\ UNCHANGED status
     ELSE /\ run' = [run EXCEPT ![p] = "exited"]
          /\ status' = [status EXCEPT ![p] = "LPF_ERR_FATAL"]
          /\ UNCHANGED machineVars /\ UNCHANGED engineVars
  /\ UNCHANGED <<program, step, sent, m_resized, m_aborted>>

----------------------------------------------------------------------------
(* The way out of MessageQueue::sync *)

\* Variant: whoever votes for aborting itself is content with the outcome.
Content(p) == "LPF_SUCCESS"
\* A process that is itself leaving has succeeded exactly when everybody is.
Verdict(p) ==
  IF VotedAbort(p) = Cardinality(Procs) THEN "LPF_SUCCESS" ELSE "LPF_ERR_FATAL"

\* The vote says that somebody aborts.
VoteFailed(p) ==
  /\ SyncAborted(p)
  /\ m_aborted' = [m_aborted EXCEPT ![p] = VotedAbort(p)]
  /\ IF run[p] = "aborting"
     THEN /\ run' = [run EXCEPT ![p] = "exited"]
          /\ status' = [status EXCEPT ![p] = Verdict(p)]
     ELSE UNCHANGED <<run, status>>
  /\ UNCHANGED <<program, step, sent, m_resized>>

\* Variant: the request for new queue pairs is never withdrawn.
KeepResized(p)     == UNCHANGED m_resized
WithdrawResized(p) == m_resized' = [m_resized EXCEPT ![p] = FALSE]

\* IBVerbs::sync returns, with the request handed over.
SyncReturns(p) ==
  /\ \/ SyncKnown(p, Superstep(p).mode, Superstep(p).barrier, Inbound(Superstep(p), p))
     \/ SyncExchanged(p, Superstep(p).mode, Superstep(p).barrier)
  /\ WithdrawResized(p)
  /\ UNCHANGED <<program, step, sent, m_aborted, run, status>>

\* The inner steps of the sync task.
SyncContinues(p) ==
  /\ \/ SyncVoted(p)
     \/ reconnectQPs(p)
     \/ SyncReconnected(p)
     \/ SyncExchange(p, Superstep(p).mode)
  /\ UNCHANGED spmdVars

\* The sync task has completed: the next superstep begins.
SyncDone(p) ==
  /\ SyncReleased(p)
  /\ step' = [step EXCEPT ![p] = @ + 1]
  /\ UNCHANGED <<program, sent, m_resized, m_aborted, run, status>>

Program(p) ==
  \/ Communicate(p) \/ resizeMesgQueue(p) \/ sync(p) \/ Return(p)
  \/ VoteFailed(p) \/ SyncReturns(p) \/ SyncContinues(p) \/ SyncDone(p)

----------------------------------------------------------------------------
(* The polling task lives until the process leaves Process::hook.  It calls  *)
(* its four parts in turn; no part depends on what the part before it did, so *)
(* they are actions of their own.                                             *)

Poll(p, part) == run[p] # "exited" /\ part /\ UNCHANGED spmdVars

PollLocal(p)  == Poll(p, doLocalProgress(p))
PollRemote(p) == Poll(p, doRemoteProgress(p))
PollBlock(p)  == Poll(p, processBlock(p))
PollSync(p)   == Poll(p, processSyncRequest(p))

Polling(p) == PollLocal(p) \/ PollRemote(p) \/ PollBlock(p) \/ PollSync(p)

Fabric ==
  /\ \E w \in wire : Deliver(w)
  /\ UNCHANGED <<calls, engineVars, spmdVars>>

AllExited == \A p \in Procs : run[p] = "exited"
Finished  == AllExited /\ UNCHANGED vars

Next ==
  \/ \E p \in Procs : Program(p) \/ Polling(p)
  \/ Fabric
  \/ Finished

Spec == Init /\ [][Next]_vars

\* The threads of a process are scheduled, its polling loop goes round, the
\* fabric delivers, and a program keeps calling until it returns.
Fairness ==
  /\ \A p \in Procs : /\ WF_vars(Program(p))
                      /\ WF_vars(PollLocal(p))
                      /\ WF_vars(PollRemote(p))
                      /\ WF_vars(PollBlock(p))
                      /\ WF_vars(PollSync(p))
  /\ WF_vars(Fabric)

FairSpec == Spec /\ Fairness
----------------------------------------------------------------------------
(* Properties *)

\* Every variable stays in its range: the one type invariant of the model.
CallRecords == [op : CollectiveOps, abort : BOOLEAN, resized : BOOLEAN,
                counts : SUBSET WorkRequests]
MachineType ==
  /\ wire \subseteq WorkRequests
  /\ executed \subseteq WorkRequests
  /\ cqLocal \in [Procs -> SUBSET WorkRequests]
  /\ cqRemote \in [Procs -> SUBSET WorkRequests]
  /\ srq \in [Procs -> Nat]
CountType ==
  /\ m_numMsgs \in [Procs -> Nat]
  /\ m_numMsgsSync \in [Procs -> SUBSET WorkRequests]
  /\ m_recvCounts \in [Procs -> [0..(RingSize - 1) -> Nat]]
  /\ m_sync_counter \in [Procs -> Nat]
CallsType == calls \in [Procs -> Seq(CallRecords)]
SyncType ==
  /\ m_sync_cached \in [Procs -> BOOLEAN]
  /\ m_sync_cached_value \in [Procs -> Nat]
  /\ m_blockTask \in [Procs -> BOOLEAN]
  /\ syncRequest \in [Procs -> [isActive : BOOLEAN, withBarrier : BOOLEAN,
                                secondPhase : BOOLEAN, remoteMsgs : Nat]]
  /\ m_qps \in [Procs -> [staged : Nat, connected : Nat]]
  /\ m_postCount \in [Procs -> 0..PostCount]
  /\ syncEvents \in [Procs -> {0, 1}]
  /\ at \in [Procs -> Locations]
SpmdType ==
  /\ program \in Seq(Supersteps)
  /\ step \in [Procs -> Nat]
  /\ sent \subseteq WorkRequests
  /\ m_resized \in [Procs -> BOOLEAN]
  /\ m_aborted \in [Procs -> Nat]
  /\ run \in [Procs -> {"spmd", "aborting", "exited"}]
  /\ status \in [Procs -> {"none", "LPF_SUCCESS", "LPF_ERR_FATAL"}]
TypeOK == MachineType /\ CountType /\ CallsType /\ SyncType /\ SpmdType

\* Operation r of superstep s has been issued and executed at its target.
IsDelivered(r, s) == \E w \in executed : w.req = r /\ w.step = s

\* "This operation is guaranteed to be completed after a call to the next
\* lpf_sync() exits" (talpf_put): when a process has completed superstep s,
\* whatever it issued there and whatever was directed at it there is in place.
SyncDelivers ==
  \A p \in Procs : \A s \in 0..(m_sync_counter[p] - 1) :
    \A r \in program[s + 1].rma : p \in {r.src, r.dst} => IsDelivered(r, s)

\* The requests of p that have not come back to it: on their way, or lost, or
\* executed with a completion p has not polled.
Outstanding(p) == {w \in sent \ executed : w.req.src = p} \cup cqLocal[p]

\* "The local part of the global communication phase is guaranteed to have
\* finished at exit of this function" (lpf_sync): once sync counts or announces
\* what it sent, none of it is outstanding, whether or not the program waited
\* for the tasks that communicated.
LocalCompletion ==
  \A p \in Procs : at[p] \in {"sum", "wait"} => Outstanding(p) = {}

\* The half of it that holds whatever the program: what a process issued in a
\* superstep that it has left is in place at the other end.
IssuerDelivers ==
  \A p \in Procs : \A s \in 0..(step[p] - 1) :
    \A r \in program[s + 1].rma : r.src = p => IsDelivered(r, s)

\* A barrier promises more than a sync: once one process has completed a
\* superstep with a barrier, every operation of it, between any two processes,
\* is in place.
BarrierDelivers ==
  \A p \in Procs : \A s \in 0..(m_sync_counter[p] - 1) :
    program[s + 1].barrier => \A r \in program[s + 1].rma : IsDelivered(r, s)

\* The complaint "There are more remote completions than the expected" of
\* processSyncRequest never comes: the counter of the superstep that is being
\* synchronised counts nothing but arrivals of that superstep.
NoExcess ==
  \A p \in Procs :
    syncRequest[p].isActive /\ ~ syncRequest[p].secondPhase =>
      m_recvCounts[p][Cell(m_sync_counter[p])] <= syncRequest[p].remoteMsgs

\* All processes make the same collective calls in the same order, which MPI
\* requires: who votes, reconnects, exchanges counters or enters a barrier is
\* decided by each process on its own, from its cache, its request and the vote.
MatchingCollectives ==
  \A p, q \in Procs : \A n \in DOMAIN calls[p] \cap DOMAIN calls[q] :
    calls[p][n].op = calls[q][n].op

\* No request arrives at a shared receive queue without a posted receive:
\* rnr_retry = 0 makes that an error that ends the polling task of the issuer.
ReceivePosted == \A w \in wire : srq[w.req.dst] > 0

\* ASSERT( m_stagedQps[0] ) of reconnectQPs: whoever is outvoted into
\* reconnecting has queue pairs to connect.
StagedWhenReconnecting ==
  \A p \in Procs : at[p] = "reconnect" => m_qps[p].staged # 0

\* "The last invocation of lpf_resize_message_queue() determines the maximum
\* communication pattern in the subsequent supersteps": after the sync of every
\* superstep that resizes, the connected queue pairs are those made in it or in
\* a later one, never any that were connected before.
ResizeTakesEffect ==
  \A p \in Procs : \A s \in 0..(step[p] - 1) :
    program[s + 1].resize => m_qps[p].connected > s

\* The processes that have left Process::hook have been told the same.
ExitAgreement ==
  \A p, q \in Procs :
    run[p] = "exited" /\ run[q] = "exited" => status[p] = status[q]

\* "It is guaranteed however that lpf_sync() calls will not deadlock": a process
\* that has entered a sync comes out of it.
SyncExits == \A p \in Procs : at[p] # "out" ~> at[p] = "out"

\* What m_numMsgs counts: at least the outstanding requests, and exactly those
\* as long as no queue pair is destroyed under a completion.
Conserved ==
  /\ IsFiniteSet(sent) /\ executed \subseteq sent /\ wire \subseteq sent \ executed
  /\ \A p \in Procs :
       /\ IsFiniteSet(cqLocal[p]) /\ cqLocal[p] \subseteq executed
       /\ \A w \in cqLocal[p] : w.req.src = p
       /\ Cardinality(Outstanding(p)) <= m_numMsgs[p]

\* What a process has counted, and what it has contributed, is finite.
FiniteCounts ==
  \A p \in Procs :
    /\ IsFiniteSet(m_numMsgsSync[p])
    /\ \A n \in DOMAIN calls[p] : IsFiniteSet(calls[p][n].counts)

\* Where the sync task of p is, what it has handed over, and what the process
\* is doing belong together.
Phase(p) ==
  /\ syncEvents[p] = IF syncRequest[p].isActive THEN 1 ELSE 0
  /\ syncRequest[p].isActive => at[p] = "wait"
  /\ at[p] # "out" /\ run[p] = "spmd" => step[p] < Len(program)
  /\ at[p] \in {"vote", "reconnect", "reconnected", "sum"} => LastCall(p) > 0
  /\ run[p] = "aborting" => at[p] = "vote" /\ calls[p][LastCall(p)].abort
  /\ run[p] = "exited" => at[p] = "out"
  /\ step[p] <= Len(program)
Phases == \A p \in Procs : Phase(p)

\* A process that has come to the end of a superstep has issued all of it.
AtItsEnd(p) == run[p] = "spmd" /\ at[p] # "out"
AllIssued ==
  \A p \in Procs : \A s \in 0..(Len(program) - 1) :
    s < step[p] \/ (s = step[p] /\ AtItsEnd(p)) =>
      \A r \in program[s + 1].rma :
        r.src = p => \E w \in sent : w.req = r /\ w.step = s

\* The inductive invariant behind TypeOK, LocalCompletion and IssuerDelivers.
IInv ==
  /\ program \in Programs
  /\ TypeOK
  /\ Conserved
  /\ FiniteCounts
  /\ Phases
  /\ AllIssued
  /\ LocalCompletion
  /\ IssuerDelivers

\* The engine implements the promise of Bsp.
Done == {[req |-> w.req, step |-> w.step] : w \in executed}
Promise == INSTANCE Bsp WITH
  issued <- {[req |-> w.req, step |-> w.step] : w \in sent},
  done   <- Done,
  left   <- {p \in Procs : run[p] # "spmd"}

ImplementsBsp == Promise!Spec
=============================================================================
