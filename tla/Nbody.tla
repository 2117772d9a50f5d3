------------------------------- MODULE Nbody -------------------------------
(***************************************************************************)
(* The particles of src/examples/nbody with its three solvers.  In every   *)
(* time step the blocks of particles of each process go round the ring of  *)
(* processes, from local memory to one and the other of two buffers, and   *)
(* each process adds up the forces on its own particles.                   *)
(*                                                                         *)
(* A block is known by its process and its time step; a force, by the      *)
(* blocks that it has been computed from.                                  *)
(***************************************************************************)
EXTENDS TaskFlow

CONSTANT NumBlocks   \* conf.num_blocks

Buffer(b, i) == <<b, 0, i>>
BlocksOf(b) == {Buffer(b, i) : i \in 1 .. NumBlocks}
Ack == <<"ack", 0, 0>>   \* no data: what stands for it is a dependency

\* calculate_forces, each block with each
Forces(sendbuf) ==
  [k \in 1 .. NumBlocks * NumBlocks |->
     LET i == (k - 1) \div NumBlocks + 1
         j == 1 + ((k - 1) % NumBlocks) IN
       Task("forces", {Buffer("local", i), Buffer(sendbuf, j)}, {Buffer("forces", i)})]

\* exchange_particles
Exchange(r, nranks, sendbuf, recvbuf) ==
  [i \in 1 .. NumBlocks |->
     PutTask({Buffer(sendbuf, i)}, {Buffer(recvbuf, i)},
             Buffer(sendbuf, i), (r + 1) % nranks, Buffer(recvbuf, i))]

\* The buffer that a round sends from, and the one before received into.
\* Variant: the blocks are received into one buffer.
OneBuffer(k)  == IF k = 0 THEN "local" ELSE "remote1"
SendBuffer(k) == IF k = 0 THEN "local" ELSE IF k % 2 = 1 THEN "remote1" ELSE "remote2"

Exchanged(recvbuf) == BlocksOf(recvbuf) \cup BlocksOf("forces")

\* nbody_solve: one round.  In the last one nothing is sent.
DefaultRound(r, nranks, k) ==
  Forces(SendBuffer(k))
  \o (IF k < nranks - 1 THEN Exchange(r, nranks, SendBuffer(k), SendBuffer(k + 1)) ELSE <<>>)
  \o <<DefaultSync(Exchanged(SendBuffer(k + 1)))>>

\* The second solver remembers how much it receives; in its last round it
\* knows that it is nothing.
CachedRound(r, nranks, k) ==
  Forces(SendBuffer(k))
  \o (IF k < nranks - 1
        THEN Exchange(r, nranks, SendBuffer(k), SendBuffer(k + 1))
             \o <<SyncTask(Exchanged(SendBuffer(k + 1)), "cached", TRUE)>>
        ELSE <<SyncTask(Exchanged(SendBuffer(k + 1)), "msg", TRUE)>>)

\* The third one has no barrier but in the last round; an empty put in every
\* round tells the predecessor that its successor is in this round too.
AckRound(r, nranks, k) ==
  LET out == {Ack} \cup Exchanged(SendBuffer(k + 1)) IN
  Forces(SendBuffer(k))
  \o (IF k < nranks - 1
        THEN Exchange(r, nranks, SendBuffer(k), SendBuffer(k + 1))
             \o <<PutTask({}, {Ack}, Ack, (r - 1) % nranks, Ack), SyncTask(out, "cached", FALSE)>>
        ELSE <<SyncTask(out, "msg", TRUE)>>)

Round(r, s, k) ==
  CASE s.solver = "default" -> DefaultRound(r, s.nranks, k)
    [] s.solver = "cached"  -> CachedRound(r, s.nranks, k)
    [] s.solver = "ack"     -> AckRound(r, s.nranks, k)

\* update_particles
Update == [i \in 1 .. NumBlocks |->
             Task("update", {}, {Buffer("local", i), Buffer("forces", i)})]

NbodyTasks(r, s) ==
  LET rounds[k \in 0 .. s.nranks] == IF k = 0 THEN <<>> ELSE rounds[k - 1] \o Round(r, s, k - 1)
      steps[t \in 0 .. s.timesteps] ==
        IF t = 0 THEN <<>> ELSE steps[t - 1] \o rounds[s.nranks] \o Update IN
    steps[s.timesteps] \o <<WaitTask, DefaultSync({}), WaitTask>>

Particles(r, i, t) == [rank |-> r, block |-> i, step |-> t]

NbodyApp(s) ==
  [name |-> "nbody",
   tasks |-> [r \in 0 .. s.nranks - 1 |-> NbodyTasks(r, s)],
   memory |-> [r \in 0 .. s.nranks - 1 |->
     [a \in {Ack} \cup UNION {BlocksOf(b) : b \in {"local", "remote1", "remote2", "forces"}} |->
        IF a[1] = "local" THEN Particles(r, a[3], 0) ELSE <<>>]]]

\* calculate_forces_block and update_particles_block
AddForces(task, mem) ==
  LET forces == CHOOSE a \in task.out : TRUE
      local  == Buffer("local", forces[3])
      other  == IF task.in = {local} THEN local ELSE CHOOSE a \in task.in : a # local IN
    [mem EXCEPT ![forces] = Append(@, mem[other])]

UpdateBlock(task, mem) ==
  [a \in DOMAIN mem |->
     IF a \notin task.out THEN mem[a]
     ELSE IF a[1] = "forces" THEN <<>> ELSE [mem[a] EXCEPT !.step = @ + 1]]

----------------------------------------------------------------------------
\* The force on the blocks that task n of r moves has been added up from every
\* block of every process exactly once, all of them at the time step of the block.
AddedUp(r, n) ==
  \E i \in 1 .. NumBlocks : Buffer("local", i) \in app.tasks[r][n].out /\
    LET force == memory[r][Buffer("forces", i)]
        now   == memory[r][Buffer("local", i)].step IN
      /\ Len(force) = Cardinality(Ranks) * NumBlocks
      /\ {force[k] : k \in DOMAIN force} =
           {Particles(q, j, now) : q \in Ranks, j \in 1 .. NumBlocks}

\* The third solver on a ring in which a buffer is received into again in the
\* same time step, which is from four processes on.
Overtaken(s) == s.solver = "ack" /\ s.nranks > 3

(* Whenever a block can be moved, the force on it is complete: the ring     *)
(* overwrites no block that is in use, by a block of a later round or of    *)
(* the next time step.  The exception is Overtaken, against the README of   *)
(* the examples, by which the dummy message of the third solver makes a     *)
(* barrier unnecessary.                                                     *)
ForcesComplete ==
  app.name = "nbody" /\ ~ Overtaken(setting) =>
    \A r \in Ranks : \A n \in DOMAIN app.tasks[r] :
      app.tasks[r][n].kind = "update" /\ Ready(r, n) => AddedUp(r, n)

=============================================================================
