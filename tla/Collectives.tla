---------------------------- MODULE Collectives ----------------------------
(***************************************************************************)
(* The collectives of one MPI communicator, as src/src/MPI uses them.  MPI *)
(* is not part of the repository.  The n-th collective call of every       *)
(* process belongs together.  Calls that do not name the same operation    *)
(* are an error, after which MPI guarantees nothing: here they never       *)
(* complete each other.                                                    *)
(***************************************************************************)
EXTENDS Integers, Sequences, FiniteSets

CONSTANT Procs   \* the processes of the communicator

ASSUME ProcsAssumption == Procs # {} /\ IsFiniteSet(Procs)

VARIABLE calls   \* per process: the collective calls it made, in order

Enter(p, c) == calls' = [calls EXCEPT ![p] = Append(@, c)]

LastCall(p) == Len(calls[p])

\* Every process has entered the collective that p entered last.
Completed(p) ==
  \A q \in Procs : /\ LastCall(p) <= Len(calls[q])
                  /\ calls[q][LastCall(p)].op = calls[p][LastCall(p)].op

\* What the processes contributed to the collective p entered last.
Contributions(p) == [q \in Procs |-> calls[q][LastCall(p)]]
=============================================================================
