------------------------------ MODULE Rate_proofs ------------------------------
(* Proofs about the pace of a loop: for every clock rate, frequency and      *)
(* sequence of jumps of the clock.                                           *)
EXTENDS Rate, TLAPS

LEMMA CycleTime == expected_cycle_time \in Nat
BY RateAssumption DEF expected_cycle_time

LEMMA RateStart == Init => RateInv
<1> SUFFICES ASSUME Init PROVE RateInv
  OBVIOUS
<1>1. setBack \in BOOLEAN
  BY DEF Init
<1>2. now \in Int /\ now \in Clock
  BY RateAssumption DEF Init, Clock
<1>3. QED
  BY <1>1, <1>2, CycleTime DEF Init, RateInv, TypeOK, SleepIsShort, NoBurst

(***************************************************************************)
(* Where a cycle ends, seen from the present: Sleep() plans the next one   *)
(* within a cycle of the clock, and not before this one is over.           *)
(***************************************************************************)
LEMMA CycleEnds ==
  ASSUME RateInv
  PROVE  /\ NextBeg \in Int /\ sleep_time \in Int
         /\ sleep_time <= expected_cycle_time
         /\ NextBeg <= now + expected_cycle_time
         /\ NextBeg >= now - expected_cycle_time
         /\ NextBeg <= now \/ NextBeg = now + sleep_time
         /\ now >= time_beg => NextBeg >= time_beg + expected_cycle_time
BY CycleTime, RateAssumption DEF RateInv, TypeOK, Clock, NextBeg, sleep_time, expected_end

LEMMA RateStep == RateInv /\ [Next]_vars => RateInv'
<1> SUFFICES ASSUME RateInv, [Next]_vars PROVE RateInv'
  OBVIOUS
<1> USE CycleTime, RateAssumption DEF RateInv, TypeOK, SleepIsShort, NoBurst, Clock, history
<1>1. CASE Pass
  BY <1>1 DEF Pass
<1>2. CASE SetClock
  <2>1. PICK t \in Clock : now' = t /\ setBack' = (setBack \/ t < now)
    BY <1>2 DEF SetClock
  <2>2. setBack' \in BOOLEAN
    BY <2>1
  <2>3. ~setBack' => ~setBack /\ ~(t < now)
    BY <2>1, Zenon
  <2>4. ~(t < now) => now' >= now
    BY <2>1
  <2>5. QED
    BY <1>2, <2>1, <2>2, <2>3, <2>4 DEF SetClock
<1>3. CASE Sleep
  BY <1>3, CycleEnds DEF Sleep
<1>4. CASE UNCHANGED vars
  BY <1>4 DEF vars
<1>5. QED
  BY <1>1, <1>2, <1>3, <1>4 DEF Next

THEOREM RateInvariant == Spec => []RateInv
<1>1. QED
  BY RateStart, RateStep, PTL DEF Spec

(***************************************************************************)
(* A sleep lasts at most a cycle, whatever is done to the clock.           *)
(***************************************************************************)
THEOREM ShortSleep == Spec => []SleepIsShort
<1>1. RateInv => SleepIsShort
  BY DEF RateInv
<1>2. QED
  BY <1>1, RateInvariant, PTL

(***************************************************************************)
(* The next cycle starts within a cycle of the clock Sleep() has read.     *)
(***************************************************************************)
THEOREM AtMostOneCycleOff == Spec => []NoBurst
<1>1. RateInv => NoBurst
  BY DEF RateInv
<1>2. QED
  BY <1>1, RateInvariant, PTL

(***************************************************************************)
(* While the clock is not set back, n cycles take n cycle times at least.  *)
(***************************************************************************)
THEOREM NeverFaster == Spec => []NotFaster
<1>1. RateInv => NotFaster
  BY RateAssumption, CycleTime DEF RateInv, NotFaster, TypeOK, Clock
<1>2. QED
  BY <1>1, RateInvariant, PTL
=============================================================================
