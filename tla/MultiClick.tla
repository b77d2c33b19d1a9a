----------------------------- MODULE MultiClick -----------------------------
(***************************************************************************)
(* The function block MultiClick (library/multiclick.lua) with its rising- *)
(* edge trigger (library/trigger.lua): it counts how often a button is     *)
(* pressed within a period that begins with the first press, and returns   *)
(* the count once, in the first call after the period.                     *)
(*                                                                         *)
(* Execute is one call, with the time that has passed since the call       *)
(* before and the button as it is now.  Clock readings are not kept: the   *)
(* block only looks at now - start, and that difference is "elapsed".      *)
(* heldCalls and rises are history variables: no action reads them.        *)
(***************************************************************************)
EXTENDS Integers

CONSTANTS
    Period,     \* of the block
    MaxGap      \* the longest time between two calls

ASSUME PeriodAssumption == Period \in Nat \ {0}
ASSUME GapAssumption == MaxGap \in Nat \ {0}

VARIABLES
    counting,   \* self.start is not nil
    elapsed,    \* now - self.start, at the last call
    cnt,        \* self.cnt
    last,       \* self.trigger.state
    reported,   \* what the last call returned
    heldCalls,  \* in how many calls without a break the button was seen pressed,
                \* up to two
    rises       \* how often the button was seen to rise since the last report

vars == <<counting, elapsed, cnt, last, reported, heldCalls, rises>>

LevelsOK == counting \in BOOLEAN /\ last \in BOOLEAN

NumbersOK ==
    /\ elapsed \in 0 .. Period - 1
    /\ cnt \in Nat
    /\ reported \in Nat
    /\ heldCalls \in 0 .. 2
    /\ rises \in Nat

TypeOK == LevelsOK /\ NumbersOK

Init ==
    /\ counting = FALSE
    /\ elapsed = 0
    /\ cnt = 0
    /\ last = FALSE
    /\ reported = 0
    /\ heldCalls = 0
    /\ rises = 0

-----------------------------------------------------------------------------

\* R_TRIG:execute(input): whether the input has risen; remembers it.
Rises(input) == ~last /\ input
Trigger(input) == last' = input

\* What an observer of the button notes down in each call.
ObserveHeld(input) ==
    heldCalls' = IF ~input THEN 0 ELSE IF heldCalls = 0 THEN 1 ELSE 2

Observe(input) ==
    /\ ObserveHeld(input)
    /\ rises' = IF input /\ heldCalls = 0 THEN rises + 1 ELSE rises

\* Not counting: the first press starts a period.
Idle(input) ==
    /\ ~counting
    /\ Trigger(input)
    /\ IF Rises(input)
       THEN counting' = TRUE /\ elapsed' = 0 /\ cnt' = 1
       ELSE UNCHANGED <<counting, elapsed, cnt>>
    /\ reported' = 0
    /\ Observe(input)

\* Mutation of Count: the trigger is left out, each call with the button pressed
\* counts.
CountLevel(gap, input) ==
    /\ counting
    /\ elapsed + gap < Period
    /\ elapsed' = elapsed + gap
    /\ Trigger(input)
    /\ cnt' = IF input THEN cnt + 1 ELSE cnt
    /\ reported' = 0
    /\ Observe(input)
    /\ UNCHANGED counting

\* Within the period every further press counts.
Count(gap, input) ==
    /\ counting
    /\ elapsed + gap < Period
    /\ elapsed' = elapsed + gap
    /\ Trigger(input)
    /\ cnt' = IF Rises(input) THEN cnt + 1 ELSE cnt
    /\ reported' = 0
    /\ Observe(input)
    /\ UNCHANGED counting

\* Mutation of Report: the trigger is reset as well.
ReportResetting(gap, input) ==
    /\ counting
    /\ elapsed + gap >= Period
    /\ counting' = FALSE /\ elapsed' = 0
    /\ reported' = cnt
    /\ last' = FALSE
    /\ ObserveHeld(input) /\ rises' = 0
    /\ UNCHANGED cnt

\* Mutation of Report: the first press is not counted.
ReportFurther(gap, input) ==
    /\ counting
    /\ elapsed + gap >= Period
    /\ counting' = FALSE /\ elapsed' = 0
    /\ reported' = cnt - 1
    /\ ObserveHeld(input) /\ rises' = 0
    /\ UNCHANGED <<cnt, last>>

\* After the period the count is returned.  The trigger is not executed, so that
\* this call's input goes unseen.
Report(gap, input) ==
    /\ counting
    /\ elapsed + gap >= Period
    /\ counting' = FALSE /\ elapsed' = 0
    /\ reported' = cnt
    /\ ObserveHeld(input) /\ rises' = 0
    /\ UNCHANGED <<cnt, last>>

\* MultiClick:execute(now, input).
Execute(gap, input) == Idle(input) \/ Count(gap, input) \/ Report(gap, input)

Next == \E gap \in 1 .. MaxGap, input \in BOOLEAN : Execute(gap, input)

Spec == Init /\ [][Next]_vars

\* The task keeps calling.
FairSpec == Spec /\ WF_vars(Next)

-----------------------------------------------------------------------------
(* Properties *)

\* The count differs from the presses an observer sees in the calls since the last
\* report by one at most, in either direction: the only press it may miss or take
\* over is the one that falls into the call that reports.
CountsPresses == counting => cnt \in rises - 1 .. rises + 1

\* Presses are at least two calls apart, which bounds what a period can count: for
\* calls at least one unit of time apart, to half of its length.
CountBounded == counting => 2 * (cnt - 1) <= elapsed

\* A period begins only when the button was seen up in one of the two calls before:
\* a button that stays pressed when its count is reported starts no new one.
HeldButtonStaysQuiet ==
    [][~counting /\ counting' => heldCalls < 2]_vars

\* Every period ends with a report, of one press at least.
PeriodsEnd == counting ~> reported > 0
=============================================================================
