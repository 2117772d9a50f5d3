------------------------------- MODULE Jacobi -------------------------------
(***************************************************************************)
(* The heat equation of src/examples/jacobi with its three solvers.  Every *)
(* process has a strip of the rows of two matrices; each step computes one *)
(* matrix from the other and puts the outer rows into the halos of the     *)
(* neighbours.  Rows stand for blocks of rows, each with one block of      *)
(* columns, and the value of a row is the time step it is of.              *)
(***************************************************************************)
EXTENDS TaskFlow

CONSTANTS
  Rows,       \* rows of blocks of a process
  SleepStep   \* the step in which the outer processes of the third solver sleep, 4

\* A setting has the number of processes, the solver, the number of time steps
\* and whether there is a warm-up.
Area(m, R) == <<"matrix", m, R>>
IsFirst(r)   == r = 0
IsLast(r, s) == r = s.nranks - 1

\* A put waits for the row that it sends.  Variant: it does not.
PutEarly(m, R) == {}
PutIn(m, R)    == {Area(m, R)}

Outer(m) == {Area(m, R) : R \in {0, 1, Rows, Rows + 1}}

\* jacobiSolver: the tasks name the matrix by its representatives, src to dst;
\* the puts go by the memory slots of the halos.
ComputeAndPut(r, s, src, dst, slot) ==
  [R \in 1 .. Rows |-> Task("block", {Area(src, R - 1), Area(src, R), Area(src, R + 1)},
                                     {Area(dst, R)})]
  \o (IF IsFirst(r) THEN <<>>
      ELSE <<PutTask(PutIn(dst, 1), {}, Area(slot, 1), r - 1, Area(slot, Rows + 1))>>)
  \o (IF IsLast(r, s) THEN <<>>
      ELSE <<PutTask(PutIn(dst, Rows), {}, Area(slot, Rows), r + 1, Area(slot, 0))>>)

\* The other solvers remember how much they receive, and do without a barrier.
CachedSync(dst) == SyncTask(Outer(dst), "cached", FALSE)
StepSync(s, dst) ==
  IF s.solver = "default" THEN DefaultSync(Outer(dst)) ELSE CachedSync(dst)

Step(r, s, src, dst, slot) == ComputeAndPut(r, s, src, dst, slot) \o <<StepSync(s, dst)>>

\* The outer processes of the third solver sleep, in tasks around one step.
Sleep(r, s, t, m) ==
  IF s.solver = "sleep" /\ (IsFirst(r) \/ IsLast(r, s)) /\ t = SleepStep
    THEN <<Task("sleep", {}, Outer(m))>> ELSE <<>>

SyncTasks == <<DefaultSync({}), WaitTask>>

\* solve: the steps swap the matrices, and the slots with them.  The matrices
\* of the configuration are first and the other one.
Solve(r, s, first, steps) ==
  LET src(t) == (first + t) % 2
      dst(t) == (first + t + 1) % 2
      f[t \in 0 .. steps] ==
        IF t = 0 THEN <<>>
        ELSE f[t - 1] \o Sleep(r, s, t - 1, src(t - 1))
                      \o Step(r, s, src(t - 1), dst(t - 1), t % 2)
                      \o Sleep(r, s, t - 1, dst(t - 1)) IN
    f[steps] \o <<WaitTask>> \o SyncTasks

\* Solve ends with a swap in the configuration, if its number of steps is odd.
AfterSolve(timesteps) == timesteps % 2

\* application: the warm-up is one step.
JacobiTasks(r, s) ==
  (IF s.warmup THEN SyncTasks \o Solve(r, s, 0, 1) ELSE <<>>)
  \o SyncTasks
  \o Solve(r, s, IF s.warmup THEN AfterSolve(s.timesteps) ELSE 0, s.timesteps)

JacobiApp(s) ==
  LET strips == 0 .. s.nranks - 1 IN
  [name |-> "jacobi",
   tasks |-> [r \in strips |-> JacobiTasks(r, s)],
   memory |-> [r \in strips |-> [a \in {Area(m, R) : m \in 0 .. 1, R \in 0 .. Rows + 1} |-> 0]]]

\* computeBlock
ComputeBlock(task, mem) ==
  LET a == CHOOSE b \in task.out : TRUE IN
    [mem EXCEPT ![a] = mem[Area(1 - a[2], a[3])] + 1]

----------------------------------------------------------------------------
\* The upper halo of the first process and the lower halo of the last are the
\* border of the surface.
Border(r, s) == {Area(m, 0) : m \in {x \in 0 .. 1 : IsFirst(r)}}
                \cup {Area(m, Rows + 1) : m \in {x \in 0 .. 1 : IsLast(r, s)}}

\* After a warm-up, an odd number of steps starts from the other matrix while
\* the slots are in the order of the first.
Displaced(s) == s.warmup /\ s.timesteps % 2 = 1

(* While a block can be computed, the rows that it reads, halos included,   *)
(* are of one and the same time step: the tasks, the puts and the syncs     *)
(* keep the neighbours neither behind nor ahead, also where no barrier      *)
(* separates the supersteps.                                                *)
HaloFresh ==
  app.name = "jacobi" /\ ~ Displaced(setting) =>
    \A r \in Ranks : \A n \in DOMAIN app.tasks[r] :
      app.tasks[r][n].kind = "block" /\ Ready(r, n) =>
        \A a, b \in app.tasks[r][n].in \ Border(r, setting) : memory[r][a] = memory[r][b]
=============================================================================
