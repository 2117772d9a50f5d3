------------------------------ MODULE MCLaunch ------------------------------
(***************************************************************************)
(* How processes come together, run a function and end, and the programs   *)
(* of the repository, for TLC: one component is at work in every           *)
(* behaviour, the others stay as they are.                                 *)
(***************************************************************************)
EXTENDS DynamicHook, Exec, Probe, Jacobi, Nbody

\* Odd and even numbers of steps, with and without the step of the warm-up, two
\* and three processes, and rings of one to four.
Jac(n, solver, steps, warmup) ==
  [nranks |-> n, solver |-> solver, timesteps |-> steps, warmup |-> warmup]
JacobiSettings == {Jac(2, "default", 3, FALSE), Jac(2, "default", 2, TRUE), Jac(2, "default", 1, TRUE),
                   Jac(3, "cached", 2, FALSE), Jac(2, "sleep", 3, FALSE)}
\* A ring of four receives into the same buffer twice in a time step, two time
\* steps do so on every ring.
Ring(n, solver, steps) == [nranks |-> n, solver |-> solver, timesteps |-> steps]
NbodySettings == {Ring(1, "default", 2), Ring(3, "default", 2), Ring(4, "default", 1),
                  Ring(3, "cached", 2), Ring(4, "cached", 1), Ring(3, "ack", 2)}
ExampleSettings == JacobiSettings \cup NbodySettings
ExampleApp(s) == IF s \in JacobiSettings THEN JacobiApp(s) ELSE NbodyApp(s)

VARIABLE part   \* the component at work

mcVars == <<part, hookVars, execVars, probeVars, flowVars>>

MCInit == /\ part \in {"hook", "exec", "probe", "examples"}
          /\ HookInit /\ ExecInit /\ ProbeInit /\ FlowInit
          /\ part # "examples" => setting = Ring(1, "default", 2)

At(p) == part = p /\ part' = p

MCNext ==
  \/ At("hook") /\ HookNext /\ UNCHANGED <<execVars, probeVars, flowVars>>
  \/ At("exec") /\ ExecNext /\ UNCHANGED <<hookVars, probeVars, flowVars>>
  \/ At("probe") /\ ProbeNext /\ UNCHANGED <<hookVars, execVars, flowVars>>
  \/ At("examples") /\ FlowNext /\ UNCHANGED <<hookVars, execVars, probeVars>>

\* The fairness that HookFairness and ExecFairness state, for the component at
\* work.
MCFairness ==
  /\ WF_hookVars(part = "hook" /\ (Listen \/ Confirm))
  /\ \A c \in Clients : /\ WF_hookVars(part = "hook" /\ ClientStep(c))
                        /\ WF_hookVars(part = "hook" /\ AcceptClient(c))
  /\ \A q \in Pids : WF_hookVars(part = "hook" /\ HookStep(q))
  /\ \A q \in World : WF_execVars(part = "exec" /\ ExecStep(q))

MCSpec == MCInit /\ [][MCNext]_mcVars /\ MCFairness

\* The second and the last process have assertions, the server has not.
SomeBuilds == {1, 3}

World3 == 0 .. 2
AllFaults == {"table", "symbol", "interface", "clone"}
Probers2 == {1, 2}

ExampleEffect(task, mem) ==
  CASE task.kind = "block"  -> ComputeBlock(task, mem)
    [] task.kind = "forces" -> AddForces(task, mem)
    [] task.kind = "update" -> UpdateBlock(task, mem)
    [] OTHER                -> mem
=============================================================================
