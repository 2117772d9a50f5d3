------------------------------ MODULE WaitAll ------------------------------
(***************************************************************************)
(* Planned point-to-point messages of src/src/MPI/mpilib.cpp: irecv and    *)
(* isend collect requests, iwaitall completes them.  The tag of a message  *)
(* is the index of its receive at the destination, and whatever MPI has    *)
(* received by itself is taken in that place.  Messages above the size MPI *)
(* accepts go in pieces, the next when the previous one is complete.       *)
(*                                                                         *)
(* Tags are used again in the next round; the barrier at the end keeps the *)
(* rounds apart.  MPI may complete a send before it is received.           *)
(***************************************************************************)
EXTENDS Collectives, SequencesExt

CONSTANTS
  Rounds,      \* the messages of each round: a sequence of sets of messages
  MaxSend      \* m_maxMpiMsgSize

\* From a process, to a tag of a process, of a size.
Planned == [src : Procs, dst : Procs, tag : Nat, size : Nat]

\* The tags of a destination are 0, 1, ..., each for one message.
ASSUME RoundsAssumption ==
  /\ MaxSend \in Nat \ {0}
  /\ Rounds \in Seq(SUBSET Planned)
  /\ \A i \in DOMAIN Rounds :
       /\ IsFiniteSet(Rounds[i])
       /\ \A q \in Procs : LET In == {m \in Rounds[i] : m.dst = q} IN
            /\ {m.tag : m \in In} = 0 .. Cardinality(In) - 1
            /\ \A m, n \in In : m.tag = n.tag => m = n

VARIABLES
  waitall,      \* per process: posting, looping, finishing, barrier or done
  round,        \* per process: its round
  toSend,       \* per process: messages of the round not given to isend yet
  m_irecvs,     \* per process: bytes still expected for every tag
  nMsgs,        \* per process: receives that are not complete
  m_largeSends, \* per process: chunks that a next chunk has to follow
  m_imsgs,      \* per process: last chunks of messages
  channel,      \* per sender and receiver: chunks sent and not received, in order
  buffers       \* per process and tag: the chunks stored there in this round

waitVars == <<waitall, round, toSend, m_irecvs, nMsgs, m_largeSends, m_imsgs,
              channel, buffers, calls>>

Outgoing(p, k) == {m \in Rounds[k] : m.src = p}
Incoming(p, k) == {m \in Rounds[k] : m.dst = p}
MessageAt(p, k, tag) == CHOOSE m \in Incoming(p, k) : m.tag = tag

Smaller(a, b) == IF a <= b THEN a ELSE b

\* The chunk of message m that starts after the first `from` bytes.
ChunkOf(p, m, from) ==
  [msg |-> m, round |-> round[p], from |-> from, n |-> Smaller(MaxSend, m.size - from)]
IsLast(c) == c.from + c.n = c.msg.size

WaitInit ==
  /\ waitall      = [p \in Procs |-> "idle"]
  /\ round        = [p \in Procs |-> 0]
  /\ toSend       = [p \in Procs |-> {}]
  /\ m_irecvs     = [p \in Procs |-> <<>>]
  /\ nMsgs        = [p \in Procs |-> 0]
  /\ m_largeSends = [p \in Procs |-> {}]
  /\ m_imsgs      = [p \in Procs |-> {}]
  /\ channel      = [p \in Procs |-> [q \in Procs |-> <<>>]]
  /\ buffers      = [p \in Procs |-> <<>>]
  /\ calls        = [p \in Procs |-> <<>>]

\* The caller posts the receives of its next round.
irecv(p) ==
  LET k == round[p] + 1
      In == Incoming(p, k)
      n  == Cardinality(In) IN
    /\ waitall[p] = "idle"
    /\ round[p] < Len(Rounds)
    /\ round'    = [round EXCEPT ![p] = k]
    /\ m_irecvs' = [m_irecvs EXCEPT ![p] = [i \in 1 .. n |-> MessageAt(p, k, i - 1).size]]
    /\ nMsgs'    = [nMsgs EXCEPT ![p] = Cardinality({m \in In : m.size > 0})]
    /\ buffers'  = [buffers EXCEPT ![p] = [i \in 1 .. n |-> <<>>]]
    /\ toSend'   = [toSend EXCEPT ![p] = Outgoing(p, k)]
    /\ waitall'  = [waitall EXCEPT ![p] = "posting"]
    /\ UNCHANGED <<m_largeSends, m_imsgs, channel, calls>>

\* Give a chunk to MPI, to be followed by another one or not; an empty
\* message is not sent.
Isend(p, c, others) ==
  /\ channel' = IF c.n = 0 THEN channel
                ELSE [channel EXCEPT ![p][c.msg.dst] = Append(@, c)]
  /\ m_largeSends' = [m_largeSends EXCEPT ![p] = IF IsLast(c) THEN others
                                                 ELSE others \cup {c}]
  /\ m_imsgs' = [m_imsgs EXCEPT ![p] = IF IsLast(c) THEN @ \cup {c} ELSE @]

isend(p) ==
  /\ waitall[p] = "posting"
  /\ \E m \in toSend[p] :
       /\ Isend(p, ChunkOf(p, m, 0), m_largeSends[p])
       /\ toSend' = [toSend EXCEPT ![p] = @ \ {m}]
  /\ UNCHANGED <<waitall, round, m_irecvs, nMsgs, buffers, calls>>

iwaitall(p) ==
  /\ waitall[p] = "posting"
  /\ toSend[p] = {}
  /\ waitall' = [waitall EXCEPT ![p] = "looping"]
  /\ UNCHANGED <<round, toSend, m_irecvs, nMsgs, m_largeSends, m_imsgs, channel,
                 buffers, calls>>

\* A large chunk is complete: the next one follows.
NextChunk(p, c) ==
  /\ waitall[p] = "looping"
  /\ Isend(p, ChunkOf(p, c.msg, c.from + c.n), m_largeSends[p] \ {c})
  /\ UNCHANGED <<waitall, round, toSend, m_irecvs, nMsgs, buffers, calls>>

IsReceived(p, c) == ~ Contains(channel[p][c.msg.dst], c)

\* MPI says so when it likes, at the latest when the chunk has been received.
Testsome(p)      == \E c \in m_largeSends[p] : NextChunk(p, c)
TestReceived(p)  == \E c \in m_largeSends[p] : IsReceived(p, c) /\ NextChunk(p, c)

\* Variant: the loop ends when everything has been received.
OnlyReceives(p) == waitall[p] = "looping" /\ nMsgs[p] > 0
InWaitLoop(p) == waitall[p] = "looping" /\ (nMsgs[p] > 0 \/ m_largeSends[p] # {})

\* Probe and receive: the oldest chunk of some sender, at the index its tag says.
Recv(p) ==
  /\ InWaitLoop(p)
  /\ \E q \in Procs :
       /\ channel[q][p] # <<>>
       /\ LET c == Head(channel[q][p])
              i == c.msg.tag + 1
              left == m_irecvs[p][i] IN
            /\ i \in DOMAIN m_irecvs[p]
            /\ channel'  = [channel EXCEPT ![q][p] = Tail(@)]
            /\ buffers'  = [buffers EXCEPT ![p][i] = Append(@, c)]
            /\ m_irecvs' = [m_irecvs EXCEPT ![p][i] = IF left > MaxSend THEN left - MaxSend ELSE @]
            /\ nMsgs'    = [nMsgs EXCEPT ![p] = IF left > MaxSend THEN @ ELSE @ - 1]
  /\ UNCHANGED <<waitall, round, toSend, m_largeSends, m_imsgs, calls>>

\* The loop ends, and MPI_Waitall starts.
LoopEnds(p) ==
  /\ waitall[p] = "looping"
  /\ ~ InWaitLoop(p)
  /\ m_irecvs' = [m_irecvs EXCEPT ![p] = <<>>]
  /\ waitall'  = [waitall EXCEPT ![p] = "finishing"]
  /\ UNCHANGED <<round, toSend, nMsgs, m_largeSends, m_imsgs, channel, buffers, calls>>

\* A last chunk is complete, for MPI_Waitall.
FinishSend(p, c) ==
  /\ waitall[p] = "finishing"
  /\ m_imsgs' = [m_imsgs EXCEPT ![p] = @ \ {c}]
  /\ UNCHANGED <<waitall, round, toSend, m_irecvs, nMsgs, m_largeSends, channel,
                 buffers, calls>>
WaitSome(p)     == \E c \in m_imsgs[p] : FinishSend(p, c)
WaitReceived(p) == \E c \in m_imsgs[p] : IsReceived(p, c) /\ FinishSend(p, c)

EnterBarrier(p) ==
  /\ waitall[p] = "finishing"
  /\ m_imsgs[p] = {}
  /\ Enter(p, [op |-> "barrier"])
  /\ waitall' = [waitall EXCEPT ![p] = "barrier"]
  /\ UNCHANGED <<round, toSend, m_irecvs, nMsgs, m_largeSends, m_imsgs, channel, buffers>>

\* Variant: nobody waits for the others at the end.
NoBarrier(p) == TRUE
Separated(p) == Completed(p)

LeaveBarrier(p) ==
  /\ waitall[p] = "barrier"
  /\ Separated(p)
  /\ waitall' = [waitall EXCEPT ![p] = "idle"]
  /\ UNCHANGED <<round, toSend, m_irecvs, nMsgs, m_largeSends, m_imsgs, channel,
                 buffers, calls>>

WaitNext ==
  \E p \in Procs : \/ irecv(p) \/ isend(p) \/ iwaitall(p)
                   \/ Testsome(p) \/ Recv(p) \/ LoopEnds(p)
                   \/ WaitSome(p) \/ EnterBarrier(p) \/ LeaveBarrier(p)

WaitSpec == WaitInit /\ [][WaitNext]_waitVars

\* Every process takes part in every round and goes on with its loop; a send
\* is complete at the latest when it has been received.
WaitSteps(p) == \/ irecv(p) \/ isend(p) \/ iwaitall(p) \/ LoopEnds(p)
                \/ EnterBarrier(p) \/ LeaveBarrier(p)

WaitFairness ==
  \A p \in Procs : /\ WF_waitVars(WaitSteps(p)) /\ WF_waitVars(Recv(p))
                  /\ WF_waitVars(TestReceived(p)) /\ WF_waitVars(WaitReceived(p))

----------------------------------------------------------------------------
(* Properties *)

\* The byte of the message after the first i chunks.
EndAt(chunks, i) == IF i = 0 THEN 0 ELSE chunks[i].from + chunks[i].n

\* The chunks are the bytes of message m of round k, in order.
IsMessage(chunks, m, k) ==
  /\ EndAt(chunks, Len(chunks)) = m.size
  /\ \A i \in DOMAIN chunks : /\ chunks[i].msg = m
                              /\ chunks[i].round = k
                              /\ chunks[i].from = EndAt(chunks, i - 1)

(* When a process has left the loop of iwaitall, each of its buffers holds *)
(* the whole of the message that was sent to it in this round, and what    *)
(* waits for a process in the loop is for a receive that it has posted: no *)
(* chunk of a later round, which would use the same tags.                  *)
WaitallDelivers ==
  \A p \in Procs :
    /\ waitall[p] \in {"finishing", "barrier"} =>
         \A m \in Incoming(p, round[p]) : IsMessage(buffers[p][m.tag + 1], m, round[p])
    /\ InWaitLoop(p) =>
         \A q \in Procs : channel[q][p] # <<>> =>
           LET c == Head(channel[q][p]) IN
             /\ c.round = round[p]
             /\ LET buffer == buffers[p][c.msg.tag + 1] IN
                c.from = EndAt(buffer, Len(buffer))

(* iwaitall returns on everybody, whether MPI buffers what is sent or      *)
(* waits for the receiver: sending and receiving share one loop.           *)
WaitallEnds ==
  \A p \in Procs : waitall[p] = "posting" ~> waitall[p] = "idle"
=============================================================================
