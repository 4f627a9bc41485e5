---------------------------- MODULE PressureAlarm ----------------------------
(***************************************************************************)
(* What the pressure controller promises about its alarm, without screens, *)
(* commands, sensors or fan: a run counts a deficit that starts afresh,    *)
(* moves one at a time, and raises the alarm on reaching the limit, which  *)
(* ends the run; the alarm stands until a new run is prepared or begun.    *)
(***************************************************************************)
EXTENDS Integers

CONSTANT Limit

VARIABLES running, alarm, deficit

alarmVars == <<running, alarm, deficit>>

AlarmInit == running = FALSE /\ alarm = FALSE /\ deficit = 0

\* A run begins, or begins anew, with at most its first sample counted.
Begin == running' = TRUE /\ alarm' = FALSE /\ deficit' \in {0, 1}

\* A new run is prepared, or given up at once.
Withdraw == running' = FALSE /\ alarm' = FALSE /\ deficit' = 0

Count ==
    /\ running /\ ~alarm
    /\ deficit' \in {deficit - 1, deficit + 1} \cap 0..(Limit - 1)
    /\ UNCHANGED <<running, alarm>>

\* A new setpoint forgives what was counted.
Forgive == running /\ deficit' = 0 /\ UNCHANGED <<running, alarm>>

Raise ==
    /\ running /\ deficit = Limit - 1
    /\ running' = FALSE /\ alarm' = TRUE /\ deficit' = 0

Leave == running /\ running' = FALSE /\ deficit' = 0 /\ UNCHANGED alarm

AlarmNext == Begin \/ Withdraw \/ Count \/ Forgive \/ Raise \/ Leave

AlarmSpec == AlarmInit /\ [][AlarmNext]_alarmVars
=============================================================================
