--------------------------- MODULE SparseExchange ---------------------------
(***************************************************************************)
(* The sparse total exchange of src/src/MPI/mpilib.cpp (Comm::allToAll     *)
(* with send lists, the NBX algorithm).  Nobody knows from whom or how     *)
(* much it will receive: a process sends with synchronous non-blocking     *)
(* sends, receives whatever arrives, enters a non-blocking barrier when    *)
(* all it sent has been received, and leaves when everybody has entered.   *)
(*                                                                         *)
(* Between two exchanges the caller has a barrier of its own: all messages *)
(* have the same tag, so that those of a next exchange would be taken for  *)
(* this one by a process that has not noticed the end of its barrier.      *)
(***************************************************************************)
EXTENDS Collectives, Functions

CONSTANTS
  SendLists,    \* per process: what it may be asked to send, sets of messages
  MaxMsgSize,   \* the largest message given to MPI at once
  RecvSize,     \* room for what a process receives
  Exchanges     \* bound: exchanges in a row

\* A message of a send list: its place in the caller's arrays, its size.
Messages == [id : Nat, dst : Procs, size : Nat]

ASSUME ExchangeAssumption ==
  /\ MaxMsgSize \in Nat \ {0}
  /\ RecvSize \in Nat
  /\ \A p \in Procs : \A list \in SendLists[p] : list \subseteq Messages

VARIABLES
  nbx,        \* per process: where it is
  exchange,   \* per process: the number of its exchange
  sends,      \* per process: the sends in its arrays, [msg, sent, pending]
  inFlight,   \* chunks sent and not received
  matched,    \* chunks received whose sender has not been told
  received,   \* per process: the chunks received in this exchange
  asked       \* history: per process, the send list of this exchange

exchangeVars == <<nbx, exchange, sends, inFlight, matched, received, asked, calls>>

Min2(a, b) == IF a <= b THEN a ELSE b

\* The next chunk of a send: n bytes after those already sent.
Next_n(s) == Min2(MaxMsgSize, s.msg.size - s.sent)
Chunk(p, s) == [src |-> p, msg |-> s.msg, from |-> s.sent, n |-> Next_n(s),
                exchange |-> exchange[p]]

\* Start the next chunk, if anything is left; a request is pending only then.
Continue(s) == [s EXCEPT !.sent = @ + Next_n(s), !.pending = Next_n(s) > 0]
Continued(p, S) == {Chunk(p, s) : s \in {u \in S : Next_n(u) > 0}}

ExchangeInit ==
  /\ nbx      = [p \in Procs |-> "ready"]
  /\ exchange = [p \in Procs |-> 1]
  /\ sends    = [p \in Procs |-> {}]
  /\ inFlight = {}
  /\ matched  = {}
  /\ received = [p \in Procs |-> <<>>]
  /\ asked    = [p \in Procs |-> {}]
  /\ calls    = [p \in Procs |-> <<>>]

----------------------------------------------------------------------------
(* Comm::allToAll *)

\* The call: the first chunk of every message is on its way.
allToAll(p) ==
  /\ nbx[p] = "ready"
  /\ \E list \in SendLists[p] :
       LET fresh == {[msg |-> m, sent |-> 0, pending |-> FALSE] : m \in list} IN
         /\ asked'    = [asked EXCEPT ![p] = list]
         /\ sends'    = [sends EXCEPT ![p] = {Continue(s) : s \in fresh}]
         /\ inFlight' = inFlight \cup Continued(p, fresh)
  /\ received' = [received EXCEPT ![p] = <<>>]
  /\ nbx' = [nbx EXCEPT ![p] = "sending"]
  /\ UNCHANGED <<exchange, matched, calls>>

Bytes(chunks) == FoldFunction(LAMBDA c, k : c.n + k, 0, chunks)
Room(p) == RecvSize - Bytes(received[p])

InLoop(p) == nbx[p] \in {"sending", "draining"}

\* A message has arrived: it is received if there is room, otherwise the call
\* throws and takes no further part.
Receive(p) ==
  /\ InLoop(p)
  /\ \E c \in inFlight :
       /\ c.msg.dst = p
       /\ \/ /\ c.n <= Room(p)
             /\ received' = [received EXCEPT ![p] = Append(@, c)]
             /\ inFlight' = inFlight \ {c}
             /\ matched'  = matched \cup {c}
             /\ nbx' = nbx
          \/ /\ c.n > Room(p)
             /\ nbx' = [nbx EXCEPT ![p] = "failed"]
             /\ UNCHANGED <<received, inFlight, matched>>
  /\ UNCHANGED <<exchange, sends, asked, calls>>

\* The chunk of a pending send: the last one that was started.
LastChunkOf(p, s) == {c \in matched : c.src = p /\ c.msg = s.msg}

\* The sends that MPI_Testsome finds complete are continued or done.
\* Variant: a chunk that has been received is not followed by the next.
NotContinued(done, s) == IF s \in done THEN [s EXCEPT !.pending = FALSE] ELSE s
Tested(done, s)    == IF s \in done THEN Continue([s EXCEPT !.pending = FALSE]) ELSE s
\* Variant: a send is forgotten once its last chunk has been started.
Unsent(s)          == s.sent < s.msg.size
Unfinished(s)      == s.pending \/ s.sent < s.msg.size

TestSends(p) ==
  /\ nbx[p] = "sending"
  /\ \E done \in SUBSET {s \in sends[p] : s.pending /\ LastChunkOf(p, s) # {}} :
       LET left == {s \in {Tested(done, u) : u \in sends[p]} : Unfinished(s)} IN
         /\ sends'    = [sends EXCEPT ![p] = left]
         /\ inFlight' = inFlight \cup Continued(p, done)
         /\ matched'  = matched \ UNION {LastChunkOf(p, s) : s \in done}
         /\ IF left = {}
              THEN Enter(p, [op |-> "ibarrier"]) /\ nbx' = [nbx EXCEPT ![p] = "draining"]
              ELSE UNCHANGED <<calls, nbx>>
  /\ UNCHANGED <<exchange, received, asked>>

\* MPI_Test finds the barrier complete: the call returns.
TestBarrier(p) ==
  /\ nbx[p] = "draining"
  /\ Completed(p)
  /\ nbx' = [nbx EXCEPT ![p] = "returned"]
  /\ UNCHANGED <<exchange, sends, inFlight, matched, received, asked, calls>>

----------------------------------------------------------------------------
(* The caller *)

CallerEnters(p) ==
  /\ nbx[p] = "returned"
  /\ exchange[p] < Exchanges
  /\ Enter(p, [op |-> "barrier"])
  /\ nbx' = [nbx EXCEPT ![p] = "separating"]
  /\ UNCHANGED <<exchange, sends, inFlight, matched, received, asked>>

CallerLeaves(p) ==
  /\ nbx[p] = "separating"
  /\ Completed(p)
  /\ nbx' = [nbx EXCEPT ![p] = "ready"]
  /\ exchange' = [exchange EXCEPT ![p] = @ + 1]
  /\ UNCHANGED <<sends, inFlight, matched, received, asked, calls>>

Progress(p) == \/ allToAll(p)
               \/ TestSends(p)
               \/ TestBarrier(p)
               \/ CallerEnters(p)
               \/ CallerLeaves(p)

ExchangeNext == \E p \in Procs : Progress(p) \/ Receive(p)

ExchangeSpec == ExchangeInit /\ [][ExchangeNext]_exchangeVars

\* A process goes on with its loop, and what was sent arrives.  The call is
\* collective: every process makes it.
ExchangeFairness ==
  \A p \in Procs : WF_exchangeVars(Progress(p)) /\ WF_exchangeVars(Receive(p))

----------------------------------------------------------------------------
(* Properties *)

\* Where the chunks of message m from q are in what has been received.
From(q, m, chunks) == {i \in DOMAIN chunks : chunks[i].src = q /\ chunks[i].msg = m}

\* The chunks at the places I end with byte n of their message.
Reach(chunks, I, n) ==
  \/ I = {} /\ n = 0
  \/ \E i \in I : (\A j \in I : j <= i) /\ chunks[i].from + chunks[i].n = n

\* One after the other, the chunks are the bytes of a message of this size.
Successive(chunks, I) == \A i \in I : Reach(chunks, {j \in I : j < i}, chunks[i].from)
Complete(chunks, I, size) == Successive(chunks, I) /\ Reach(chunks, I, size)

(* When allToAll returns, the process has received every byte of every     *)
(* message that was sent to it in this exchange, each message in order,    *)
(* and nothing of another exchange.                                        *)
RoundDelivers ==
  \A p \in Procs : nbx[p] = "returned" =>
    /\ \A q \in Procs : \A m \in asked[q] :
         m.dst = p => Complete(received[p], From(q, m, received[p]), m.size)
    /\ \A i \in DOMAIN received[p] :
         /\ received[p][i].exchange = exchange[p]
         /\ received[p][i].msg \in asked[received[p][i].src]

(* When allToAll returns anywhere, nothing that was sent in this exchange  *)
(* is still travelling and nobody is still sending: the loop of NBX looks  *)
(* at its own sends and at the barrier only.                               *)
QuietOnReturn ==
  \A p \in Procs : nbx[p] = "returned" =>
    /\ inFlight = {}
    /\ \A q \in Procs : nbx[q] \notin {"ready", "sending"}

(* Once called, allToAll returns, unless somewhere what arrives is more    *)
(* than there is room for: the exception of that process leaves the others *)
(* in their loops.                                                         *)
ExchangeEnds ==
  \A p \in Procs : nbx[p] = "sending" ~>
    \/ nbx[p] = "returned"
    \/ \E q \in Procs : nbx[q] = "failed"
=============================================================================
