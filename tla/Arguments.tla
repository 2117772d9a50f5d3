----------------------------- MODULE Arguments -----------------------------
(***************************************************************************)
(* The constructor of src/src/MPI/init.cpp, which runs before main.  MPI   *)
(* may take arguments out of the command line; main will be given the old  *)
(* array, so that what MPI returns is copied back into the strings of that *)
(* array, in order, leaving empty those that are too short.                *)
(*                                                                         *)
(* MPI returns an array of its own, or edits the old one in place: then    *)
(* the entries of the old array have moved to the front, and behind them   *)
(* are NULL or what was there before.  The constructor does the same in    *)
(* both cases, with the lengths that the old entries had.                  *)
(*                                                                         *)
(* An argument is its length and its place in the array that MPI returns.  *)
(***************************************************************************)
EXTENDS Integers, Sequences, SequencesExt, FiniteSets

CONSTANTS
  Lengths,  \* lengths of arguments
  MaxArgc   \* bound: arguments

ASSUME ArgumentsAssumption == Lengths \subseteq Nat /\ MaxArgc \in Nat

VARIABLES
  copying,     \* the phase: copying, copied, aborted or undefined
  inPlace,     \* has MPI edited the old array?
  target,      \* the old string that an entry of the old array points to, or Null
  arglengths,  \* of the old arguments
  new_argv,    \* the lengths of the new arguments
  new_pos,     \* the old arguments that have been looked at
  modified,    \* the arguments to copy: new ones, by their place, or Empty
  argv         \* what main finds in the old array

argVars == <<copying, inPlace, target, arglengths, new_argv, new_pos, modified, argv>>

Empty   == 0
Garbled == -1   \* an argument with the end of another string behind it
Null    == 0
argc == Len(arglengths)

\* The places that are taken by an argument.
Taken(list) == {k \in DOMAIN list : list[k] # Empty}

\* The new argument that the loop is at.
Current == 1 + Cardinality(Taken(modified))

Increasing(place) == \A i, j \in DOMAIN place : i < j => place[i] < place[j]

NewArray ==
  /\ ~ inPlace
  /\ new_argv \in SeqOf(Lengths, argc) \ {<<>>}
  /\ target = [k \in 1 .. argc |-> k]

\* MPI has kept n of the strings.
EditedInPlace ==
  /\ inPlace
  /\ \E n \in 1 .. argc - 1 : \E kept \in [1 .. n -> 1 .. argc] :
       /\ Increasing(kept)
       /\ new_argv = [i \in 1 .. n |-> arglengths[kept[i]]]
       /\ target \in [1 .. argc -> 0 .. argc]
       /\ \A k \in 1 .. argc : IF k <= n THEN target[k] = kept[k] ELSE target[k] \in {Null, k}

\* MPI_Init does not add arguments.
ArgumentsInit ==
  /\ copying = "copying"
  /\ arglengths \in SeqOf(Lengths, MaxArgc) \ {<<>>}
  /\ inPlace \in BOOLEAN
  /\ NewArray \/ EditedInPlace
  /\ new_pos = 0
  /\ modified = <<>>
  /\ argv = <<>>

\* Variant: the string has no room for an argument of its own length.
TooShortToEnd(size, length) == size >= length
TooShort(size, length)      == size > length

Passes(i) == new_pos < argc /\ TooShort(new_argv[i], arglengths[new_pos + 1])

PushEmpty ==
  /\ copying = "copying" /\ Current <= Len(new_argv)
  /\ Passes(Current)
  /\ modified' = Append(modified, Empty)
  /\ new_pos' = new_pos + 1
  /\ UNCHANGED <<copying, inPlace, target, arglengths, new_argv, argv>>

\* It fits, or there are no more strings.
PushArgument ==
  /\ copying = "copying" /\ Current <= Len(new_argv)
  /\ ~ Passes(Current)
  /\ modified' = Append(modified, Current)
  /\ new_pos' = IF new_pos < argc THEN new_pos + 1 ELSE new_pos
  /\ UNCHANGED <<copying, inPlace, target, arglengths, new_argv, argv>>

\* strncpy(argv[i], modified[i], arglengths[i]), of which modified has been
\* padded: it writes this many characters, zeros behind the end of modified[i],
\* and no zero at all if modified[i] has that length.
Padded(i)  == IF i <= Len(modified) THEN modified[i] ELSE Empty
FillsUp(i) == arglengths[i] = IF Padded(i) = Empty THEN 0 ELSE new_argv[Padded(i)]

\* The last entry from which string t is written.
LastWriter(t) == Max({i \in 1 .. argc : target[i] = t})

\* There is a string, it does not end before that many characters, and if its
\* own end is among them a zero is written.
HasRoom(i) ==
  LET t == target[i] IN
  /\ t # Null /\ arglengths[i] <= arglengths[t] + 1
  /\ arglengths[i] = arglengths[t] + 1 => ~ (FillsUp(i) /\ FillsUp(LastWriter(t)))

\* What string t holds when all have been written.
Stored(t) ==
  LET i == LastWriter(t) IN
  IF FillsUp(i) /\ arglengths[i] < arglengths[t] THEN Garbled ELSE Padded(i)

CopyBack ==
  /\ copying = "copying" /\ Current > Len(new_argv)
  /\ \/ /\ Len(modified) > argc /\ copying' = "aborted"
        /\ UNCHANGED argv
     \/ /\ Len(modified) <= argc /\ copying' = "undefined"
        /\ ~ \A i \in 1 .. argc : HasRoom(i)
        /\ UNCHANGED argv
     \/ /\ Len(modified) <= argc /\ copying' = "copied"
        /\ \A i \in 1 .. argc : HasRoom(i)
        /\ argv' = [k \in 1 .. argc |-> Stored(target[k])]
  /\ UNCHANGED <<inPlace, target, arglengths, new_argv, new_pos, modified>>

ArgumentsNext == PushEmpty \/ PushArgument \/ CopyBack
ArgumentsSpec == ArgumentsInit /\ [][ArgumentsNext]_argVars

----------------------------------------------------------------------------
(* Unless MPI has edited the array in place, the program is given all      *)
(* arguments that MPI has left, in their order and none of them cut off,   *)
(* and nothing is written outside the strings; in any case the constructor *)
(* aborts only when there is no way at all to place the arguments so.  The *)
(* exception is against the comment in init.cpp, which names no case that  *)
(* is not handled: in an array edited in place an entry is NULL, or a      *)
(* string of another length than the one remembered of it.                 *)
ArgumentsKept ==
  /\ ~ inPlace => copying # "undefined"
  /\ ~ inPlace /\ copying = "copied" =>
       /\ Len(argv) = argc
       /\ {argv[k] : k \in Taken(argv)} = 1 .. Len(new_argv)
       /\ \A j, k \in Taken(argv) : j < k => argv[j] < argv[k]
       /\ \A k \in Taken(argv) : new_argv[argv[k]] <= arglengths[k]
  /\ copying = "aborted" =>
       \A place \in [1 .. Len(new_argv) -> 1 .. argc] :
         Increasing(place) => \E i \in DOMAIN place : new_argv[i] > arglengths[place[i]]
=============================================================================
