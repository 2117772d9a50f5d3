-------------------------------- MODULE Time --------------------------------
(***************************************************************************)
(* Points in time and durations, src/src/common/time.cpp: seconds and      *)
(* nanoseconds, the latter never negative, also for negative times.  The   *)
(* library adds, subtracts and compares them: deadlines of connecting and  *)
(* of measuring.                                                           *)
(*                                                                         *)
(* Multiplication is modelled for whole factors of times that are not      *)
(* negative.  For others the truncation of operator*= loses a part.        *)
(***************************************************************************)
EXTENDS Integers

CONSTANTS
  OneSecond,   \* nanoseconds in a second
  MaxSeconds,  \* bound on the seconds of the result and of the operands
  Factors      \* bound: what times are multiplied with

ASSUME TimeAssumption ==
  /\ OneSecond \in Nat \ {0}
  /\ MaxSeconds \in Nat
  /\ Factors \subseteq Int

VARIABLES
  tv_sec, tv_nsec,
  exact        \* history: the time in nanoseconds

timeVars == <<tv_sec, tv_nsec, exact>>

Times == [sec : -MaxSeconds .. MaxSeconds, nsec : 0 .. OneSecond - 1]
Value(t) == t.sec * OneSecond + t.nsec

\* How C divides: towards zero, with a remainder of the sign of x.
Quotient(x, y)  == IF x >= 0 THEN x \div y ELSE - ((-x) \div y)
Remainder(x, y) == IF x >= 0 THEN x % y ELSE - ((-x) % y)

TimeInit == tv_sec = 0 /\ tv_nsec = 0 /\ exact = 0

\* fromSeconds, with a whole number of nanoseconds.
fromSeconds(x) == /\ tv_sec' = x.sec
                  /\ tv_nsec' = x.nsec
                  /\ exact' = Value(x)

minus(x) ==
  /\ exact' = exact - Value(x)
  /\ \/ /\ tv_nsec < x.nsec
        /\ tv_nsec' = OneSecond - x.nsec + tv_nsec
        /\ tv_sec' = tv_sec - x.sec - 1
     \/ /\ tv_nsec >= x.nsec
        /\ tv_nsec' = tv_nsec - x.nsec
        /\ tv_sec' = tv_sec - x.sec

\* Variant: a sum of exactly one second is not carried.
CarriesLate(x) == tv_nsec > OneSecond - x.nsec
Carries(x) == tv_nsec >= OneSecond - x.nsec

plus(x) ==
  /\ exact' = exact + Value(x)
  /\ \/ /\ Carries(x)
        /\ tv_sec' = tv_sec + x.sec + 1
        /\ tv_nsec' = tv_nsec + x.nsec - OneSecond
     \/ /\ ~ Carries(x)
        /\ tv_sec' = tv_sec + x.sec
        /\ tv_nsec' = tv_nsec + x.nsec

times(a) ==
  LET nsec == a * tv_nsec
      rest == Remainder(nsec, OneSecond)
      sec  == Quotient(a * tv_sec * OneSecond + nsec, OneSecond) IN
    /\ tv_sec >= 0
    /\ exact' = a * exact
    /\ \/ rest >= 0 /\ tv_nsec' = rest /\ tv_sec' = sec
       \/ rest < 0 /\ tv_nsec' = rest + OneSecond /\ tv_sec' = sec - 1

InBounds == tv_sec' \in -MaxSeconds .. MaxSeconds

TimeNext == /\ \/ \E x \in Times : fromSeconds(x) \/ plus(x) \/ minus(x)
               \/ \E a \in Factors : times(a)
            /\ InBounds

TimeSpec == TimeInit /\ [][TimeNext]_timeVars

----------------------------------------------------------------------------
(* Properties *)

equals(x) == tv_sec = x.sec /\ tv_nsec = x.nsec

lessThan(x) == ~ (tv_sec > x.sec) /\ ~ (tv_sec = x.sec /\ tv_nsec >= x.nsec)

(* After any calculation the two numbers are the exact time, normalised,   *)
(* also when it is negative, and comparing them compares times.            *)
TimeExact ==
  /\ tv_nsec \in 0 .. OneSecond - 1
  /\ tv_sec * OneSecond + tv_nsec = exact
  /\ \A x \in Times : /\ equals(x) <=> exact = Value(x)
                      /\ lessThan(x) <=> exact < Value(x)
=============================================================================
