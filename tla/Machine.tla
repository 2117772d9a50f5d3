------------------------------ MODULE Machine ------------------------------
(***************************************************************************)
(* The environment TALPF runs on, as src/src/MPI/ibverbs.cpp uses it: the  *)
(* InfiniBand fabric (reliable connected queue pairs, one completion queue *)
(* for local and one for remote completions, one shared receive queue),    *)
(* and the collectives the engine calls.  Neither is part of the           *)
(* repository.                                                             *)
(***************************************************************************)
EXTENDS Collectives

VARIABLES
  wire,       \* work requests posted and not yet executed at their target
  executed,   \* work requests executed at their target
  cqLocal,    \* per process: completions of its own requests, not yet polled
  cqRemote,   \* per process: arrivals with immediate data, not yet polled
  srq         \* per process: receives posted on the shared receive queue

fabricVars  == <<wire, executed, cqLocal, cqRemote, srq>>
machineVars == <<wire, executed, cqLocal, cqRemote, srq, calls>>

\* The remote memory operations of the API; r.src issues, r.dst is the peer
\* whose memory is read or written.
Ops      == {"put", "get", "fetch_add", "cmp_swp"}
Requests == [src : Procs, dst : Procs, op : Ops, id : Nat]

\* A posted work request.  `step` is the superstep in which the program issued
\* it, which the wire does not carry; `imm` is the immediate data it carries.
WorkRequests == [req : Requests, step : Nat, imm : Nat]

MachineInit ==
  /\ wire     = {}
  /\ executed = {}
  /\ cqLocal  = [p \in Procs |-> {}]
  /\ cqRemote = [p \in Procs |-> {}]
  /\ srq      = [p \in Procs |-> 0]
  /\ calls    = [p \in Procs |-> <<>>]

----------------------------------------------------------------------------
(* InfiniBand *)

SameQP(v, w) == v.req.src = w.req.src /\ v.req.dst = w.req.dst

\* The fabric executes a request at its target: the data is in place, the
\* issuer gets its completion, and the immediate consumes a posted receive.
\* Requests of one queue pair execute in the order they were posted; within a
\* superstep that order is the program's choice, hence not recorded.
Deliver(w) ==
  /\ w \in wire
  /\ \A v \in wire : SameQP(v, w) => w.step <= v.step
  /\ srq[w.req.dst] > 0
  /\ wire'     = wire \ {w}
  /\ executed' = executed \cup {w}
  /\ cqLocal'  = [cqLocal EXCEPT ![w.req.src] = @ \cup {w}]
  /\ cqRemote' = [cqRemote EXCEPT ![w.req.dst] = @ \cup {w}]
  /\ srq'      = [srq EXCEPT ![w.req.dst] = @ - 1]

\* Process p destroys its connected queue pairs.  What was still travelling on
\* them is lost; whether completions that p has not polled survive is the
\* provider's choice.
DestroyQPs(p) ==
  /\ wire' = {w \in wire : w.req.src # p /\ w.req.dst # p}
  /\ \E purge \in BOOLEAN :
       /\ cqLocal'  = [cqLocal  EXCEPT ![p] = IF purge THEN {} ELSE @]
       /\ cqRemote' = [cqRemote EXCEPT ![p] = IF purge THEN {} ELSE @]
  /\ UNCHANGED <<executed, srq>>

----------------------------------------------------------------------------
(* MPI *)

CollectiveOps == {"vote", "reconnect", "reconnected", "sum", "barrier"}

Call(op, abort, resized, counts) ==
  [op |-> op, abort |-> abort, resized |-> resized, counts |-> counts]

Barrier(op) == Call(op, FALSE, FALSE, {})
=============================================================================
