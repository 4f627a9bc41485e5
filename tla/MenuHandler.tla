---------------------------- MODULE MenuHandler ----------------------------
(***************************************************************************)
(* MenuHandler: the screens, the fan and the pressure controller.  One     *)
(* call of event() is one step, as the superloop of main() makes it;       *)
(* between two calls the interrupts set flags and main() applies commands  *)
(* from the MQTT broker and takes connection requests.                     *)
(***************************************************************************)
EXTENDS CredentialEditor

CONSTANTS
    MaxSpeed,       \* 100, the fan's full speed in percent
    MinSpeed,       \* 9, the least speed a pressure run starts with
    MaxPressure,    \* 120, the highest setpoint the encoder reaches
    Deadband,       \* 2, the tolerance around the setpoint
    ErrorLimit,     \* 45, the count of samples that raises the alarm
    Readings,       \* what readPressure() returns: 127 and above become 0, and
                    \* a failed transfer repeats the last reading
    MqttSpeeds,     \* the speeds broker commands carry, unchecked by the code
    MqttPressures,  \* the setpoints broker commands carry, unchecked as well
    BusFaults       \* TRUE: a write to the fan may get lost

ASSUME ControlAssumption ==
    /\ MaxSpeed \in Nat \ {0}
    /\ MinSpeed \in 0..MaxSpeed
    /\ MaxPressure \in Nat
    /\ Deadband \in Nat
    /\ ErrorLimit \in Nat \ {0, 1}
    /\ Readings \subseteq 0..126
    /\ MqttSpeeds \subseteq Int
    /\ MqttPressures \subseteq Int
    /\ BusFaults \in BOOLEAN

VARIABLES
    speed,          \* percent, what the controller steps and the panel sets
    pressure,       \* last reading, and the setpoint while it is edited
    setPressure,    \* setpoint of the controller
    autoMode,
    mqttFlag,       \* a broker command has not been acted upon yet
    errorFlag,
    errorCount,
    fanCmd,         \* value of the last write to the fan's register
    fanReg,         \* what the fan has in that register
    connectNow      \* the operator asked to connect

controlVars == <<speed, pressure, setPressure, autoMode, mqttFlag,
                 errorFlag, errorCount>>
fanVars == <<fanCmd, fanReg>>
vars == <<panelVars, screenVars, editorVars, controlVars, fanVars, connectNow>>

UInt16 == 0..65535

ControlTypeOK ==
    /\ speed \in Int
    /\ pressure \in Nat
    /\ setPressure \in Int
    /\ autoMode \in BOOLEAN
    /\ mqttFlag \in BOOLEAN
    /\ errorFlag \in BOOLEAN
    /\ errorCount \in 0..ErrorLimit
    /\ fanCmd \in UInt16
    /\ fanReg \in UInt16
    /\ connectNow \in BOOLEAN

(***************************************************************************)
(* writeSensor("fan", value): the parameter is a uint16_t; the answer of   *)
(* the bus is not looked at, so that a lost write goes unnoticed.          *)
(***************************************************************************)
AsUInt16(value) == value % 65536

Delivered(reg, value) == IF BusFaults THEN {reg, value} ELSE {value}

WriteFan(value) ==
    /\ fanCmd' = AsUInt16(value)
    /\ fanReg' \in Delivered(fanReg, AsUInt16(value))

\* main() writes 0 to the fan before the loop; the fan may still run at the
\* speed it had before a restart when that write is lost.
Init ==
    /\ menu = "start"
    /\ PanelInit
    /\ EditorInit
    /\ speed = 0
    /\ pressure = 0
    /\ setPressure = 0
    /\ autoMode = FALSE
    /\ mqttFlag = FALSE
    /\ errorFlag = FALSE
    /\ errorCount = 0
    /\ fanCmd = 0
    /\ fanReg \in IF BusFaults THEN {0, AsUInt16(10 * MaxSpeed)} ELSE {0}
    /\ connectNow = FALSE

ToMainMenu == menu' = "mainMenu" /\ highlight' = 0

(***************************************************************************)
(* The cases of event()'s switch.  What is left alone by most of them:     *)
(***************************************************************************)
KeepsControl == UNCHANGED <<controlVars, fanVars>>
KeepsEditor == UNCHANGED editorVars

\* case start: the presses made during the welcome screen are dropped.
StartStep ==
    /\ menu = "start"
    /\ ToMainMenu
    /\ pressed' = pressed \ {"rotP"}
    /\ UNCHANGED <<rotary, menuRot, connectNow>>
    /\ KeepsControl /\ KeepsEditor

\* case status, without what happened to the flags before the switch.  The
\* screen is passed, because a broker command may just have selected it.
StatusScreen ==
    /\ IF "rotP" \in pressed
       THEN ToMainMenu /\ UNCHANGED pressure
       ELSE /\ menu' = "status" /\ UNCHANGED highlight
            /\ pressure' \in Readings
    /\ pressed' = pressed \ {"rotP"}
    /\ UNCHANGED <<rotary, menuRot, connectNow>>
    /\ KeepsEditor

StatusStep ==
    /\ menu = "status"
    /\ StatusScreen
    /\ UNCHANGED <<speed, setPressure, autoMode, mqttFlag, errorFlag,
                   errorCount, fanVars>>

\* Entering setPressureMode clears the error count and the alarm.
NeverClears(press, entry) == FALSE                    \* faulty variant: no reset

ClearsAlarm(press, entry) == press /\ entry = 1

\* case mainMenu.  menuRot may be out of range here (it is left alone by
\* enterCredentials and wifiAndMqtt): then a press selects nothing.
MainMenuStep ==
    /\ menu = "mainMenu"
    /\ pressed' = pressed \ {"rotP"}
    /\ \E t \in TurnsFound :
        LET entry == Scroll(t, 3)
            press == "rotP" \in pressed
        IN  /\ rotary' = t.rotary
            /\ menuRot' = IF press /\ entry = 2 THEN 3 ELSE entry
            /\ highlight' = IF press /\ entry = 2 THEN 0 ELSE Shown(t, 3)
            /\ menu' = CASE press /\ entry = 0 -> "setSpeedMode"
                         [] press /\ entry = 1 -> "setPressureMode"
                         [] press /\ entry = 2 -> "wifiAndMqtt"
                         [] press /\ entry = 3 -> "status"
                         [] OTHER -> menu
            /\ errorCount' = IF ClearsAlarm(press, entry) THEN 0 ELSE errorCount
            /\ errorFlag' = (errorFlag /\ ~ClearsAlarm(press, entry))
    /\ UNCHANGED <<speed, pressure, setPressure, autoMode, mqttFlag, fanVars,
                   connectNow>>
    /\ KeepsEditor

\* case setSpeedMode.
SetSpeedStep ==
    /\ menu = "setSpeedMode"
    /\ pressed' = pressed \ {"rotP"}
    /\ \E t \in TurnsFound :
        /\ rotary' = t.rotary
        /\ IF t.by = 0
           THEN UNCHANGED <<autoMode, speed, fanVars>>
           ELSE /\ autoMode' = FALSE
                /\ speed' = Clamp(speed + t.by, 0, MaxSpeed)
                /\ WriteFan(speed' * 10)
    /\ menu' = IF "rotP" \in pressed THEN "status" ELSE menu
    /\ highlight' = IF "rotP" \in pressed THEN 0 ELSE highlight
    /\ UNCHANGED <<menuRot, pressure, setPressure, mqttFlag, errorFlag,
                   errorCount, connectNow>>
    /\ KeepsEditor

\* case setPressureMode: the setpoint is edited in "pressure"; a press makes
\* it the setpoint, and starts the fan with "speed", not "speed * 10".
SetPressureStep ==
    /\ menu = "setPressureMode"
    /\ pressed' = pressed \ {"rotP"}
    /\ \E t \in TurnsFound :
        /\ rotary' = t.rotary
        /\ autoMode' = (autoMode \/ t.by # 0)
        /\ pressure' = IF t.by = 0 THEN pressure
                       ELSE Clamp(pressure + t.by, 0, MaxPressure)
    /\ IF "rotP" \in pressed
       THEN /\ menu' = "controlPressure"
            /\ setPressure' = pressure'
            /\ speed' = IF speed < MinSpeed THEN MinSpeed ELSE speed
            /\ WriteFan(speed')
       ELSE UNCHANGED <<menu, setPressure, speed, fanVars>>
    /\ UNCHANGED <<menuRot, highlight, mqttFlag, errorFlag, errorCount, connectNow>>
    /\ KeepsEditor

\* The error count after a sample, its limit and its floor, and what the
\* alarm writes to the fan after the controller's own write.
CountedHigh(count, reading) ==                        \* faulty variant: swapped sides
    IF reading < setPressure - (Deadband + 1) THEN count - 1
    ELSE IF reading > setPressure - Deadband THEN count + 1 ELSE count

Counted(count, reading) ==
    IF reading < setPressure - (Deadband + 1) THEN count + 1
    ELSE IF reading > setPressure - Deadband THEN count - 1 ELSE count

AboveLimit(count) == count > ErrorLimit               \* faulty variant: off by one
AtLimit(count) == count >= ErrorLimit

Floor(count) == IF count <= 0 THEN 0 ELSE count

LeftRunning(value) == value                           \* faulty variant
Stopped(value) == 0

\* case controlPressure, with the alarm state that the code before the switch
\* leaves: step the fan towards the setpoint, and once every 3 s (sampled)
\* count how long the setpoint has not been reached.
ControlScreen(flag, count, sampled) ==
    \E reading \in Readings :
        LET low  == reading < setPressure - Deadband
            high == reading > setPressure + Deadband
            counted == Counted(count, reading)
            alarm == sampled /\ AtLimit(counted)
            press == "rotP" \in pressed
        IN  /\ speed' = CASE low -> (IF speed + 1 >= MaxSpeed THEN MaxSpeed ELSE speed + 1)
                          [] high -> (IF speed - 1 <= 0 THEN 0 ELSE speed - 1)
                          [] OTHER -> speed
            /\ pressure' = reading
            /\ errorCount' = IF sampled THEN Floor(counted) ELSE count
            /\ errorFlag' = (flag \/ alarm)
            /\ LET stepped == IF low \/ high THEN AsUInt16(speed' * 10) ELSE fanCmd
               IN  /\ fanCmd' = IF alarm THEN Stopped(stepped) ELSE stepped
                   /\ \E reg \in (IF low \/ high THEN Delivered(fanReg, stepped) ELSE {fanReg}) :
                         fanReg' \in IF alarm THEN Delivered(reg, fanCmd') ELSE {reg}
            /\ pressed' = pressed \ {"rotP"}
            /\ menuRot' = IF alarm THEN 0 ELSE menuRot
            /\ IF alarm \/ press
               THEN ToMainMenu
               ELSE menu' = "controlPressure" /\ UNCHANGED highlight
            /\ UNCHANGED <<rotary, setPressure, autoMode, connectNow>>
            /\ KeepsEditor

ControlStep(sampled) ==
    /\ menu = "controlPressure"
    /\ ControlScreen(errorFlag, errorCount, sampled)
    /\ UNCHANGED mqttFlag

\* case wifiAndMqtt; entered with menuRot = 3 and entry 0 highlighted.
WifiAndMqttStep ==
    /\ menu = "wifiAndMqtt"
    /\ pressed' = pressed \ {"rotP"}
    /\ \E t \in TurnsFound :
        LET entry == Scroll(t, 2)
            press == "rotP" \in pressed
        IN  /\ rotary' = t.rotary
            /\ menuRot' = IF press /\ entry = 1 THEN 0 ELSE entry
            /\ highlight' = IF press /\ entry \in {1, 2} THEN 0 ELSE Shown(t, 2)
            /\ menu' = CASE press /\ entry = 0 -> "connectWifiandMqtt"
                         [] press /\ entry = 1 -> "CredentialsMenu"
                         [] press /\ entry = 2 -> "mainMenu"
                         [] OTHER -> menu
            /\ connectNow' = (connectNow \/ (press /\ entry = 0))
    /\ KeepsControl /\ KeepsEditor

\* case connectWifiandMqtt; credentialsEntered is set here and never read.
ConnectStep ==
    /\ menu = "connectWifiandMqtt"
    /\ ToMainMenu
    /\ UNCHANGED <<panelVars, menuRot, connectNow>>
    /\ KeepsControl /\ KeepsEditor

EditorScreens == EditorStep /\ KeepsControl /\ UNCHANGED connectNow

(***************************************************************************)
(* event(): first a broker command that waits, which selects the screen.   *)
(* The publication of the status, between that and the switch, changes     *)
(* nothing that is modelled here.                                          *)
(***************************************************************************)
AutoCommandEvent(sampled) ==
    /\ mqttFlag /\ autoMode
    /\ mqttFlag' = FALSE
    /\ ControlScreen(FALSE, 0, sampled)

ManualCommandEvent ==
    /\ mqttFlag /\ ~autoMode
    /\ mqttFlag' = FALSE
    /\ WriteFan(speed * 10)
    /\ StatusScreen
    /\ UNCHANGED <<speed, setPressure, autoMode, errorFlag, errorCount>>

ScreenEvent ==
    /\ ~mqttFlag
    /\ \/ StartStep \/ StatusStep \/ MainMenuStep
       \/ SetSpeedStep \/ SetPressureStep
       \/ \E sampled \in BOOLEAN : ControlStep(sampled)
       \/ WifiAndMqttStep \/ ConnectStep \/ EditorScreens

Event ==
    \/ \E sampled \in BOOLEAN : AutoCommandEvent(sampled)
    \/ ManualCommandEvent
    \/ ScreenEvent

(***************************************************************************)
(* What main() does to the handler between two events.                     *)
(***************************************************************************)
\* setAutoMode(true), setSetPressure(value), seterrorcount().
AutoCommand ==
    /\ mqttFlag' = TRUE
    /\ autoMode' = TRUE
    /\ setPressure' \in MqttPressures
    /\ errorCount' = 0
    /\ UNCHANGED <<panelVars, screenVars, editorVars, speed, pressure,
                   errorFlag, fanVars, connectNow>>

\* setAutoMode(false), setSpeed(value).
ManualCommand ==
    /\ mqttFlag' = TRUE
    /\ autoMode' = FALSE
    /\ speed' \in MqttSpeeds
    /\ UNCHANGED <<panelVars, screenVars, editorVars, pressure, setPressure,
                   errorFlag, errorCount, fanVars, connectNow>>

\* main() runs event() right after it applied a command.
MqttCommand == ~mqttFlag /\ (AutoCommand \/ ManualCommand)

\* main() takes the request at the top of its next pass.
TakeConnectRequest ==
    /\ connectNow
    /\ connectNow' = FALSE
    /\ UNCHANGED <<panelVars, screenVars, editorVars, controlVars, fanVars>>

PanelInterrupt ==
    PanelIsr /\ UNCHANGED <<editorVars, controlVars, fanVars, connectNow>>

Next == Event \/ MqttCommand \/ TakeConnectRequest \/ PanelInterrupt

Spec == Init /\ [][Next]_vars

(***************************************************************************)
(* Fairness.  The superloop never stops calling event() (its waits are all *)
(* bounded), and a deadline 3 s ahead is reached again and again, so that  *)
(* a controller that keeps running is sampled again and again.  The        *)
(* operator, the broker and the bus owe nothing.                           *)
(***************************************************************************)
SampledEvent == ~mqttFlag /\ ControlStep(TRUE)

FairSpec == Spec /\ WF_vars(Event) /\ WF_vars(SampledEvent)

(***************************************************************************)
(* Properties.                                                             *)
(***************************************************************************)

\* Types of the whole handler.  errorstatus is not among the menus: no
\* sequence of events reaches that screen.
TypeOK == PanelTypeOK /\ EditorTypeOK /\ ControlTypeOK

\* The pressure screens are locked out by the alarm: a setpoint is edited or
\* controlled only when no alarm stands and the error count is below its
\* limit, whatever path led there, so that a run that starts is never ended
\* by what an earlier run counted (MenuHandler.cpp:87-88, 153-154, 254).
AlarmLocksOutControl ==
    menu \in {"setPressureMode", "controlPressure"}
        => ~errorFlag /\ errorCount < ErrorLimit

\* The handler implements the promise of PressureAlarm: a run is the time the
\* handler spends in controlPressure, its deficit is errorCount.
Alarm == INSTANCE PressureAlarm WITH
    Limit <- ErrorLimit,
    running <- menu = "controlPressure",
    alarm <- errorFlag,
    deficit <- IF menu = "controlPressure" THEN errorCount ELSE 0

KeepsAlarmPromise == Alarm!AlarmSpec

\* The handler does nothing to the published settings that Operation does not
\* allow; StatusLoop is built on that (MenuHandler.cpp:31-42, 83-95, 151-288).
AsOperation == INSTANCE Operation WITH
    TopSpeed <- MaxSpeed,
    LeastSpeed <- MinSpeed,
    Setpoints <- 0..MaxPressure \union Readings,
    running <- menu = "controlPressure"

OperatesAsAbstracted == AsOperation!OperationSpec

\* The step that raises the alarm commands the fan to 0, and as long as the
\* alarm stands only the operator on the speed screen or a manual command of
\* the broker starts it again (MenuHandler.cpp:254-263).
AlarmStopsFan ==
    [][errorFlag' =>
        \/ fanCmd' = 0
        \/ errorFlag /\ fanCmd' = fanCmd
        \/ menu = "setSpeedMode" \/ (mqttFlag /\ ~autoMode)]_vars

\* With speeds from the broker that are percentages, the speed stays one and
\* the fan's register never gets more than full scale.  The clamps of
\* controlPressure hold on one side each (MenuHandler.cpp:226, 234).
SpeedIsPercentage ==
    MqttSpeeds \subseteq 0..MaxSpeed
        => speed \in 0..MaxSpeed /\ fanCmd <= 10 * MaxSpeed

\* When no reading comes near the setpoint (an open duct, a sensor that fails,
\* pressures cut to 0): unless the broker sends commands again and again, a
\* pressure run does not go on for ever, it ends (by the alarm, or because
\* the operator left) or gets a setpoint in reach (MenuHandler.cpp:249-263).
OutOfReach == \A r \in Readings : r < setPressure - (Deadband + 1)

RunEnds ==
    \/ []<>mqttFlag
    \/ (menu = "controlPressure" /\ OutOfReach)
        ~> (menu # "controlPressure" \/ ~OutOfReach)

\* Said by the comment of selectmenu and its companions, "The function should
\* highlight the selected menu item" (tftdisplay.cpp:73): on the menus, the
\* highlighted entry is the selected one.
HighlightedIsSelected ==
    menu \in {"mainMenu", "wifiAndMqtt", "CredentialsMenu"} => highlight = menuRot

\* Said by "throw error and stop the fan" (MenuHandler.cpp:275): the alarm
\* stops the fan.
AlarmReallyStopsFan == [][~errorFlag /\ errorFlag' => fanReg' = 0]_vars
=============================================================================
