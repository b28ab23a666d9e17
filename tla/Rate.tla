--------------------------------- MODULE Rate ---------------------------------
(***************************************************************************)
(* The pace of a loop that works and sleeps, common/util/rate.h, on a      *)
(* system clock that may be set forwards or back at any time, even while   *)
(* the thread sleeps.  All times are in ticks of the clock.                *)
(***************************************************************************)
EXTENDS Integers

CONSTANTS
  Second,    (* ticks in a second: clock::period::den / clock::period::num *)
  frequency, (* cycles in a second, at least 1 (StreamThread::Start)       *)
  MaxTime    (* bound: the clock's last value                              *)

ASSUME RateAssumption == /\ Second \in Nat
                         /\ frequency \in Nat \ {0}
                         /\ MaxTime \in Nat

VARIABLES
  now,      (* clock::now()                                                *)
  time_beg, (* time_beg_                                                   *)
  left,     (* what is left of the sleep                                   *)
  looked,   (* history: the clock when Sleep() last read it                *)
  planned,  (* history: the cycles since the start, each of its due length *)
  start,    (* history: when the loop started                              *)
  setBack   (* history: the clock has been set back                        *)

history == <<looked, planned, start, setBack>>
vars == <<now, time_beg, left, history>>

Clock == 0..MaxTime

expected_cycle_time == Second \div frequency

Init == /\ now \in Clock
        /\ time_beg = now
        /\ left = 0
        /\ looked = now /\ planned = 0 /\ start = now /\ setBack = FALSE

(* Time goes by, for a working or a sleeping thread; a sleep is measured   *)
(* apart from the clock, and may last longer than asked.                   *)
Pass ==
    /\ \E t \in Clock :
         /\ t > now
         /\ now' = t
         /\ left' = IF left > t - now THEN left - (t - now) ELSE 0
    /\ UNCHANGED <<time_beg, history>>

SetClock ==
    /\ \E t \in Clock : /\ now' = t
                        /\ setBack' = (setBack \/ t < now)
    /\ UNCHANGED <<time_beg, left, looked, planned, start>>

(* The end of this cycle, counted anew if the clock was set back. *)
expected_end == IF now < time_beg THEN now + expected_cycle_time
                                  ELSE time_beg + expected_cycle_time

sleep_time == expected_end - now

(* Mutant: the start time is the present one, after each cycle. *)
NextBegNow == now

(* Mutant: a late loop makes up for all the cycles it has missed. *)
NextBegCatchUp == expected_end

(* A loop late by more than a cycle gives up what it has missed. *)
NextBeg == IF now > expected_end + expected_cycle_time THEN now ELSE expected_end

Sleep ==
    /\ left = 0
    /\ left' = IF sleep_time <= 0 THEN 0 ELSE sleep_time
    /\ time_beg' = NextBeg
    /\ looked' = now
    /\ planned' = planned + expected_cycle_time
    /\ planned' <= 2 * MaxTime  (* bound *)
    /\ UNCHANGED <<now, start, setBack>>

Next == Pass \/ SetClock \/ Sleep

Spec == Init /\ [][Next]_vars

-----------------------------------------------------------------------------
TypeOK ==
    /\ now \in Clock /\ looked \in Clock /\ start \in Clock
    /\ time_beg \in Int
    /\ left \in Nat /\ planned \in Nat
    /\ setBack \in BOOLEAN

(***************************************************************************)
(* However the clock is set, a sleep lasts no longer than a cycle: a clock *)
(* set back does not put the loop, and its stream, to sleep for the time   *)
(* the clock has lost.                                                     *)
(***************************************************************************)
SleepIsShort == left <= expected_cycle_time

(***************************************************************************)
(* After Sleep() the next cycle begins within a cycle of the present: a    *)
(* loop that was held up, or whose clock leapt, returns at once for at     *)
(* most one cycle, not in a burst for all it has missed.                   *)
(***************************************************************************)
NoBurst == /\ time_beg <= looked + expected_cycle_time
           /\ time_beg >= looked - expected_cycle_time

(***************************************************************************)
(* As long as the clock is not set back, n cycles take at least n times    *)
(* the cycle time: being late and catching up never makes the loop read    *)
(* more packets than its frequency allows.                                 *)
(***************************************************************************)
NotFaster == ~setBack => now + left - start >= planned

-----------------------------------------------------------------------------
(* The inductive invariant: time_beg_ is at least where the cycles that    *)
(* were planned end, and at most where the sleep ends.                     *)
RateInv ==
    /\ TypeOK
    /\ SleepIsShort
    /\ NoBurst
    /\ ~setBack => /\ time_beg <= now + left
                   /\ start + planned <= time_beg
=============================================================================
