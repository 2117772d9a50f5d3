-------------------------------- MODULE Exec --------------------------------
(***************************************************************************)
(* lpf_exec: Process::exec, slave, broadcastSymbol and hook of             *)
(* src/src/MPI/process.cpp, with the constructor of Interface.             *)
(*                                                                         *)
(* All processes but the first wait in Process::slave until the first one  *)
(* calls lpf_exec.  Then the requested processes form a machine, on which  *)
(* the user function runs; all others are divided over them, so that each  *)
(* requested process is the root of a Process object of its own and its    *)
(* function can call lpf_exec again.  Everything is by collective calls,   *)
(* and a failure on one process has to reach the others before they are in *)
(* calls that it will never make.                                          *)
(***************************************************************************)
EXTENDS Integers, Sequences, FiniteSets, FiniteSetsExt

CONSTANTS
  World,      \* the processes of MPI_COMM_WORLD, as integers
  Requests,   \* values of P that the program asks for
  Faults,     \* what may fail: subset of {"table", "symbol", "interface", "clone"}
  NSymbols,   \* args.f_size
  MaxExecs,   \* bound: calls of lpf_exec on one Process object, of lpf_rehook on a machine
  MaxDepth,   \* bound: lpf_exec or lpf_rehook in the function of an lpf_exec, and so on
  MaxFaults   \* bound: failures

ASSUME ExecAssumption ==
  /\ World \subseteq Int /\ World # {} /\ IsFiniteSet(World)
  /\ Requests \subseteq Nat \ {0}
  /\ Faults \subseteq {"table", "symbol", "interface", "clone"}
  /\ {NSymbols, MaxExecs, MaxDepth, MaxFaults} \subseteq Nat

VARIABLES
  stack,   \* per process: its Process objects, the last one in use
  called,  \* per process: the collective calls it has made
  done     \* per process: the communicators of machines it has left

execVars == <<stack, called, done>>

(* A communicator is known by how it was made.  A frame of the stack has    *)
(* the communicator of the Process object, that of the machine on which     *)
(* its owner runs the function, and where the process is:                   *)
(*   slave      waits in Process::slave                                     *)
(*   user       in the function, or in the main program                     *)
(*   split      in the two MPI_Comm_split of Process::exec                  *)
(*   table, symbol, interface, handler, barrier, sync, clone                *)
(*              in that collective call of exec, hook and rehook, on the    *)
(*              machine                                                     *)
Comm(id, members) == [id |-> id, members |-> members]
Frame(at, world, machine) == [at |-> at, world |-> world, machine |-> machine, left |-> 0]

WORLD == Comm(<<>>, World)
SELF  == Comm(<<>>, {})   \* the main program is on no machine

Root(comm) == Min(comm.members)
Pid(q, comm) == Cardinality({r \in comm.members : r < q})

ExecInit ==
  /\ stack  = [q \in World |->
                 <<Frame(IF q = Root(WORLD) THEN "user" ELSE "slave", WORLD, SELF)>>]
  /\ called = [q \in World |-> {}]
  /\ done   = [q \in World |-> {}]

Top(q) == stack[q][Len(stack[q])]
Alive(q) == stack[q] # <<>>
Is(q, at) == Alive(q) /\ Top(q).at = at

----------------------------------------------------------------------------
(* Collective calls *)

Calls(q, comm)  == {c \in called[q] : c.comm = comm}
Number(q, comm) == Cardinality(Calls(q, comm))
NextCall(q, comm, op, val) ==
  [comm |-> comm, i |-> Number(q, comm) + 1, op |-> op, val |-> val]

\* The call q is in has been made by everybody.
Complete(q, comm) == \A r \in comm.members : Number(r, comm) >= Number(q, comm)

Failures == {f \in UNION {{q} \X called[q] : q \in World} : f[2].val = -1}

\* What a process contributes to a call that tells whether somebody has failed.
Verdicts(op) == {0} \cup {v \in {-1} : op \in Faults /\ Cardinality(Failures) < MaxFaults}

\* The result of the allreduce that q is in.  Variant: q knows of its own.
OwnFailed(q, comm) ==
  \E c \in Calls(q, comm) : c.i = Number(q, comm) /\ c.val = -1
Failed(q, comm) ==
  \E r \in comm.members : \E c \in Calls(r, comm) : c.i = Number(q, comm) /\ c.val = -1

\* Go on in the last frame with the next call on the machine.
GoOn(q, frame, op, val) ==
  /\ stack' = [stack EXCEPT ![q][Len(stack[q])] = [frame EXCEPT !.at = op]]
  /\ called' = [called EXCEPT ![q] = @ \cup {NextCall(q, frame.machine, op, val)}]

\* With the return of exec the Process object ends: its destructor tells the
\* slaves, and the process is where it was.  Variant: nobody is told.
Quiet(q, world)  == called[q]
Signal(q, world) == called[q] \cup {NextCall(q, world, "exec", 0)}

\* A function that is run by lpf_rehook keeps the Process object.
Rehooked(q) == /\ Len(stack[q]) > 1
               /\ stack[q][Len(stack[q]) - 1].world = Top(q).world

Leave(q) ==
  LET frame  == Top(q)
      outer  == SubSeq(stack[q], 1, Len(stack[q]) - 1)
      where  == IF outer # <<>> /\ Root(outer[Len(outer)].world) # q THEN "slave" ELSE "user" IN
    /\ stack' = [stack EXCEPT ![q] =
                   IF outer = <<>> THEN <<>> ELSE [outer EXCEPT ![Len(outer)].at = where]]
    /\ called' = [called EXCEPT ![q] = IF Rehooked(q) THEN @ ELSE Signal(q, frame.world)]
    /\ done' = [done EXCEPT ![q] = @ \cup {frame.machine}]

----------------------------------------------------------------------------
(* Starting *)

Split(q, req) ==
  /\ stack' = [stack EXCEPT ![q][Len(stack[q])].at = "split"]
  /\ called' = [called EXCEPT ![q] =
       @ \cup {NextCall(q, Top(q).world, "exec", req),
               [NextCall(q, Top(q).world, "split", req) EXCEPT !.i = @ + 1]}]
  /\ UNCHANGED done

\* The root wakes the slaves.  (When it does not find its symbols, it returns
\* an error before that, and nothing changes.)
StartExec(q, P) ==
  LET world == Top(q).world IN
    /\ Is(q, "user")
    /\ Number(q, world) \div 2 < MaxExecs
    /\ Len(world.id) < MaxDepth
    /\ Split(q, Min({Cardinality(world.members), P}))

\* A slave receives the number of processes; with 0 it returns.
Wake(q) ==
  /\ Is(q, "slave")
  /\ \E c \in Calls(Root(Top(q).world), Top(q).world) :
       /\ c.i = Number(q, Top(q).world) + 1
       /\ IF c.val > 0 THEN Split(q, c.val)
          ELSE /\ stack' = [stack EXCEPT ![q] =
                    LET outer == SubSeq(@, 1, Len(@) - 1) IN
                      IF outer = <<>> THEN <<>>
                      ELSE [outer EXCEPT ![Len(outer)].at = "slave"]]
               /\ called' = [called EXCEPT ![q] = @ \cup {c}]
               /\ UNCHANGED done

InMachine(q, world, req) == Pid(q, world) < req
Subgroup(q, world, req) == Pid(q, world) % req

\* The two splits are done: a requested process has a machine and its own
\* slaves, and finds that there is memory for the symbols; the others wait.
Grouped(q) ==
  LET world == Top(q).world
      i     == Number(q, world)
      req   == (CHOOSE c \in Calls(q, world) : c.i = i).val
      group == {r \in world.members : Subgroup(r, world, req) = Subgroup(q, world, req)}
      sub   == Comm(Append(world.id, <<i, Subgroup(q, world, req)>>), group)
      machine == Comm(Append(world.id, <<i, -1>>),
                      {r \in world.members : InMachine(r, world, req)}) IN
    /\ Is(q, "split")
    /\ Complete(q, world)
    /\ UNCHANGED done
    /\ IF InMachine(q, world, req)
         THEN \E v \in Verdicts("table") :
                /\ stack' = [stack EXCEPT ![q] = Append(@, Frame("table", sub, machine))]
                /\ called' = [called EXCEPT ![q] = @ \cup {NextCall(q, machine, "table", v)}]
         ELSE /\ stack' = [stack EXCEPT ![q] = Append(@, Frame("slave", sub, SELF))]
              /\ UNCHANGED called

----------------------------------------------------------------------------
(* Process::exec and Process::hook on the machine *)

Returned(q, op) == Is(q, op) /\ Complete(q, Top(q).machine)

\* The symbols: the function and as many as the process has room for.
Table(q) ==
  /\ Returned(q, "table")
  /\ \E v \in Verdicts("symbol") :
       GoOn(q, [Top(q) EXCEPT !.left = IF OwnFailed(q, Top(q).machine) THEN 0 ELSE NSymbols],
            "symbol", v)
  /\ UNCHANGED done

\* broadcastSymbol: each of its steps ends with the exchange of failures.
\* After the last symbol comes the constructor of Interface.
NextSymbol(q) ==
  /\ Returned(q, "symbol")
  /\ IF Failed(q, Top(q).machine) THEN Leave(q)
     ELSE LET op == IF Top(q).left > 0 THEN "symbol" ELSE "interface" IN
            /\ \E v \in Verdicts(op) : GoOn(q, [Top(q) EXCEPT !.left = @ - 1], op, v)
            /\ UNCHANGED done

\* A process without memory tells it in the handler of the constructor, and is
\* done.  The handler is also that of the body, where the others throw: they make
\* the same call once more, in which the process that is done cannot join them.
Constructed(q) ==
  /\ Returned(q, "interface")
  /\ IF OwnFailed(q, Top(q).machine) THEN Leave(q)
     ELSE /\ GoOn(q, Top(q), IF Failed(q, Top(q).machine) THEN "handler" ELSE "barrier", 0)
          /\ UNCHANGED done

RunFunction(q) ==
  /\ Returned(q, "barrier")
  /\ stack' = [stack EXCEPT ![q][Len(stack[q])].at = "user"]
  /\ UNCHANGED <<called, done>>

\* The functions on a machine are of one program: what one calls, all call.
Together(q, op) ==
  LET machine == Top(q).machine IN
    \A r \in machine.members : \A c \in Calls(r, machine) :
      c.i = Number(q, machine) + 1 => c.op = op

\* lpf_rehook: a copy of the communicator, on which hook runs the function with
\* the same slaves.
Rehook(q) ==
  LET machine == Top(q).machine IN
    /\ Is(q, "user") /\ machine # SELF
    /\ Together(q, "clone")
    /\ Len(machine.id) < MaxDepth
    /\ Cardinality({c \in Calls(q, machine) : c.op = "clone"}) < MaxExecs
    /\ \E v \in Verdicts("clone") : GoOn(q, Top(q), "clone", v)
    /\ UNCHANGED done

Cloned(q) ==
  LET machine == Top(q).machine
      clone == Comm(Append(machine.id, <<Number(q, machine), -2>>), machine.members) IN
    /\ Returned(q, "clone")
    /\ UNCHANGED done
    /\ IF Failed(q, machine)
         THEN /\ stack' = [stack EXCEPT ![q][Len(stack[q])].at = "user"]
              /\ UNCHANGED called
         ELSE \E v \in Verdicts("interface") :
                /\ stack' = [stack EXCEPT ![q] = Append(@, Frame("interface", Top(q).world, clone))]
                /\ called' = [called EXCEPT ![q] = @ \cup {NextCall(q, clone, "interface", v)}]

\* The function ends; runtime.abort() waits for the others.  The main program
\* ends with the destructor of the Process object.
EndFunction(q) ==
  /\ Is(q, "user")
  /\ IF Len(stack[q]) = 1 THEN Leave(q)
     ELSE Together(q, "sync") /\ GoOn(q, Top(q), "sync", 0) /\ UNCHANGED done

ReturnFromExec(q) == Returned(q, "sync") /\ Leave(q)

ExecStep(q) ==
  \/ Wake(q) \/ Grouped(q) \/ Table(q) \/ NextSymbol(q) \/ Constructed(q)
  \/ RunFunction(q) \/ Rehook(q) \/ Cloned(q) \/ EndFunction(q) \/ ReturnFromExec(q)

ExecNext == \E q \in World : ExecStep(q) \/ \E P \in Requests : StartExec(q, P)

\* Processes run, and the user's functions end.
ExecFairness == \A q \in World : WF_execVars(ExecStep(q))
ExecSpec == ExecInit /\ [][ExecNext]_execVars /\ ExecFairness

----------------------------------------------------------------------------
(* Properties *)

\* Failures after which the code is out of step: the table of symbols of one
\* process does not fit in memory, or its Interface.
Unshared == \E f \in Failures : f[2].op \in {"table", "interface"}

(* On every communicator the processes make the same calls in the same      *)
(* order, and none leaves a machine while another is in a call that it has  *)
(* not made: a failure to look up or to send a symbol on one process ends   *)
(* the lpf_exec of all.                                                     *)
ExecInStep ==
  Unshared \/
  \A q, r \in World : \A c \in called[q] :
    /\ \A d \in called[r] : d.comm.id = c.comm.id =>
         d.comm = c.comm /\ (d.i = c.i => d.op = c.op)
    /\ c.comm \in done[r] => c.i <= Number(r, c.comm)

(* Once the main program has called lpf_exec or has ended, all processes    *)
(* end in time, whatever lpf_exec they were part of: every call returns, and *)
(* no slave waits for a master that is gone.                                *)
ExecEnds ==
  Number(Root(WORLD), WORLD) > 0 ~> (Unshared \/ \A q \in World : ~ Alive(q))
=============================================================================
