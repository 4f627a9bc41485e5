----------------------------- MODULE Operation ------------------------------
(***************************************************************************)
(* What the screens do to the settings that are commanded and published:   *)
(* an abstraction of MenuHandler without screens, panel, fan and alarm     *)
(* count.  MenuHandler implements it, and StatusLoop is built from it.     *)
(***************************************************************************)
EXTENDS Integers

CONSTANTS TopSpeed, LeastSpeed, Setpoints

VARIABLES running,      \* the pressure controller is on
          speed, setPressure, autoMode, mqttFlag, errorFlag

operationVars == <<running, speed, setPressure, autoMode, mqttFlag, errorFlag>>

OperationInit ==
    /\ running = FALSE /\ speed = 0 /\ setPressure = 0
    /\ autoMode = FALSE /\ mqttFlag = FALSE /\ errorFlag = FALSE

\* The controller's next speed: up, down or the same, each clamped on its side.
Stepped(from) == {from, IF from + 1 >= TopSpeed THEN TopSpeed ELSE from + 1,
                        IF from - 1 <= 0 THEN 0 ELSE from - 1}

\* main() hands a command over.
CommandAuto(value) ==
    /\ ~mqttFlag /\ mqttFlag' = TRUE
    /\ autoMode' = TRUE /\ setPressure' = value
    /\ UNCHANGED <<running, speed, errorFlag>>

CommandManual(value) ==
    /\ ~mqttFlag /\ mqttFlag' = TRUE
    /\ autoMode' = FALSE /\ speed' = value
    /\ UNCHANGED <<running, setPressure, errorFlag>>

\* event() acts upon it: a run starts and the alarm is forgotten, or any run
\* ends.  A press in the same call may leave the run at once.
ObeyAuto ==
    /\ mqttFlag /\ autoMode /\ mqttFlag' = FALSE
    /\ errorFlag' = FALSE
    /\ running' \in BOOLEAN /\ speed' \in Stepped(speed)
    /\ UNCHANGED <<setPressure, autoMode>>

ObeyManual ==
    /\ mqttFlag /\ ~autoMode /\ mqttFlag' = FALSE
    /\ running' = FALSE
    /\ UNCHANGED <<speed, setPressure, autoMode, errorFlag>>

\* One call of event() in a run, which may end it, by a press or by the alarm.
Run ==
    /\ ~mqttFlag /\ running
    /\ speed' \in Stepped(speed)
    /\ running' \in BOOLEAN
    /\ errorFlag' \in (IF running' THEN {errorFlag} ELSE {errorFlag, TRUE})
    /\ UNCHANGED <<setPressure, autoMode, mqttFlag>>

\* The operator turns the speed, or the setpoint, or starts a run with a
\* setpoint; a run is prepared on a screen that clears the alarm.
TurnSpeed ==
    /\ ~mqttFlag /\ ~running
    /\ autoMode' = FALSE /\ speed' \in 0..TopSpeed
    /\ UNCHANGED <<running, setPressure, mqttFlag, errorFlag>>

TurnSetpoint ==
    /\ ~mqttFlag /\ ~running /\ ~errorFlag /\ autoMode' = TRUE
    /\ UNCHANGED <<running, speed, setPressure, mqttFlag, errorFlag>>

StartRun ==
    /\ ~mqttFlag /\ ~running /\ ~errorFlag
    /\ running' = TRUE
    /\ setPressure' \in Setpoints
    /\ autoMode' \in {autoMode, TRUE}
    /\ speed' = IF speed < LeastSpeed THEN LeastSpeed ELSE speed
    /\ UNCHANGED <<mqttFlag, errorFlag>>

ClearAlarm ==
    /\ ~mqttFlag /\ ~running /\ errorFlag' = FALSE
    /\ UNCHANGED <<running, speed, setPressure, autoMode, mqttFlag>>

ObeyStep == ObeyAuto \/ ObeyManual
PanelStep == Run \/ TurnSpeed \/ TurnSetpoint \/ StartRun \/ ClearAlarm

OperationNext ==
    \/ CommandAuto(setPressure') \/ CommandManual(speed')      \* with any value
    \/ ObeyStep \/ PanelStep

OperationSpec == OperationInit /\ [][OperationNext]_operationVars
=============================================================================
