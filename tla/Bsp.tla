-------------------------------- MODULE Bsp --------------------------------
(***************************************************************************)
(* What TALPF promises to an SPMD program (src/include/lpf/core.h): a      *)
(* remote memory operation is complete when the sync that ends its         *)
(* superstep exits, at its issuer and at its target; a sync with a barrier *)
(* lets nobody ahead of a process that has not reached it; and a process   *)
(* is told LPF_SUCCESS only when every process has left the spmd function. *)
(***************************************************************************)
EXTENDS Integers, Sequences, FiniteSets

CONSTANTS Procs, Programs

VARIABLES
  program,    \* what every process executes: a sequence of supersteps
  step,       \* per process: supersteps it has completed
  issued,     \* operations issued, each as [req, step]
  done,       \* operations completed at both ends
  left,       \* processes that have left the spmd function
  status      \* what a process is told in the end

bspVars == <<program, step, issued, done, left, status>>

Superstep(s) == program[s + 1]

Init ==
  /\ program \in Programs
  /\ step    = [p \in Procs |-> 0]
  /\ issued  = {}
  /\ done    = {}
  /\ left    = {}
  /\ status  = [p \in Procs |-> "none"]

\* p issues an operation of its current superstep.
Issue(p) ==
  /\ p \notin left
  /\ step[p] < Len(program)
  /\ \E r \in Superstep(step[p]).rma :
       /\ r.src = p
       /\ [req |-> r, step |-> step[p]] \notin issued
       /\ issued' = issued \cup {[req |-> r, step |-> step[p]]}
  /\ UNCHANGED <<program, step, done, left, status>>

Complete ==
  /\ \E m \in issued : done' = done \cup {m}
  /\ UNCHANGED <<program, step, issued, left, status>>

\* p leaves its superstep: everything it issued there, and everything directed
\* at it there, is complete; a barrier waits for the slowest process.
Sync(p) ==
  /\ p \notin left
  /\ step[p] < Len(program)
  /\ \A r \in Superstep(step[p]).rma :
       p \in {r.src, r.dst} => [req |-> r, step |-> step[p]] \in done
  /\ Superstep(step[p]).barrier => \A q \in Procs : step[p] <= step[q]
  /\ step' = [step EXCEPT ![p] = @ + 1]
  /\ UNCHANGED <<program, issued, done, left, status>>

\* Whoever leaves knowing that another has left before is told so at once.
Leave(p) ==
  /\ p \notin left
  /\ left' = left \cup {p}
  /\ \/ UNCHANGED status
     \/ status[p] = "none" /\ status' = [status EXCEPT ![p] = "LPF_ERR_FATAL"]
  /\ UNCHANGED <<program, step, issued, done>>

Exit(p) ==
  /\ p \in left
  /\ status[p] = "none"
  /\ \/ status' = [status EXCEPT ![p] = "LPF_ERR_FATAL"]
     \/ left = Procs /\ status' = [status EXCEPT ![p] = "LPF_SUCCESS"]
  /\ UNCHANGED <<program, step, issued, done, left>>

Next ==
  \/ \E p \in Procs : Issue(p) \/ Sync(p) \/ Leave(p) \/ Exit(p)
  \/ Complete

Spec == Init /\ [][Next]_bspVars
=============================================================================
