----------------------------- MODULE StatusLoop ------------------------------
(***************************************************************************)
(* The superloop of main() between the broker and the menu handler: yield  *)
(* delivers messages to a callback that keeps one command, main() hands it *)
(* over at its next pass, event() obeys it, and publishes a status for     *)
(* every 5 s that went by.  The handler is Operation, which MenuHandler    *)
(* implements; the session is open or lost, as MqttSession has it.         *)
(***************************************************************************)
EXTENDS Operation, Sequences

CONSTANTS
    Messages,       \* what the broker sends: [mode, key, value]
    MaxComing,      \* messages on their way at a time
    MaxOverdue      \* publications that wait at a time: time stops there

ASSUME LoopAssumption ==
    /\ TopSpeed \in Nat /\ LeastSpeed \in 0..TopSpeed /\ Setpoints \subseteq Int
    /\ Messages \subseteq [mode : {"true", "false", "none"},
                           key : {"pressure", "speed", "none"}, value : Int]
    /\ MaxComing \in Nat /\ MaxOverdue \in Nat

VARIABLES
    coming,         \* messages on their way
    slot,           \* MqttWifiManager's automatic, MqttValue, notification
    latest,         \* the last message delivered (history)
    stage,          \* where main() is in its pass
    connected,      \* MenuHandler's connected and main()'s pullInternet
    session,        \* the MQTT session is open
    overdue,        \* periods of 5 s past mqttPoll
    heard           \* the last status the broker got

linkVars == <<connected, session, coming>>
loopVars == <<operationVars, linkVars, slot, latest, stage, overdue, heard>>

NoMessage == [mode |-> "none", key |-> "none", value |-> 0]
NoStatus == [auto |-> FALSE, setpoint |-> -1, error |-> FALSE]

LoopInit ==
    /\ OperationInit
    /\ coming = <<>>
    /\ slot = [automatic |-> FALSE, value |-> 0, notification |-> FALSE]
    /\ latest = NoMessage
    /\ stage = "connect"
    /\ connected = FALSE /\ session = FALSE
    /\ overdue = 0
    /\ heard = NoStatus

\* A pass begins: if a connection was asked for, a new manager tries.  The
\* commands are static members, and outlive it.
Reconnect ==
    /\ stage = "connect"
    /\ stage' = "apply"
    /\ \/ UNCHANGED linkVars
       \/ /\ session' \in BOOLEAN
          /\ connected' = (connected \/ session')
          /\ coming' = <<>>
    /\ UNCHANGED <<operationVars, slot, latest, overdue, heard>>

\* if(mqttWifiManager->isNotification()).
Apply ==
    /\ stage = "apply"
    /\ stage' = "event"
    /\ IF slot.notification
       THEN /\ slot' = [slot EXCEPT !.notification = FALSE]
            /\ IF slot.automatic THEN CommandAuto(slot.value) ELSE CommandManual(slot.value)
       ELSE UNCHANGED <<slot, operationVars>>
    /\ UNCHANGED <<linkVars, latest, overdue, heard>>

\* What publishStatus says: after a command has been obeyed, before the switch.
AlwaysSpeed == speed                                    \* faulty variant
ReportedSetpoint == IF autoMode THEN setPressure ELSE speed

ErrorWhileRunning == errorFlag /\ running               \* faulty variant
ReportedError == errorFlag /\ ~(mqttFlag /\ autoMode)

Status == [auto |-> autoMode, setpoint |-> ReportedSetpoint, error |-> ReportedError]

\* if(connected), if(time_reached(mqttPoll)): one publication, whose failure is
\* only printed; the deadline moves by one period.
Published == connected /\ overdue > 0

Event ==
    /\ stage = "event"
    /\ stage' = "yield"
    /\ heard' = IF Published /\ session THEN Status ELSE heard
    /\ overdue' = IF Published THEN overdue - 1 ELSE overdue
    /\ IF mqttFlag THEN ObeyStep ELSE PanelStep \/ UNCHANGED operationVars
    /\ UNCHANGED <<linkVars, slot, latest>>

\* messageArrivedCallback.
KeepsFirst(s, m) ==                                     \* faulty variant: taken first
    IF s.notification THEN s
    ELSE [automatic |-> m.mode = "true", value |-> m.value, notification |-> TRUE]

Arrived(s, m) ==
    [automatic    |-> IF m.mode = "none" THEN s.automatic ELSE m.mode = "true",
     value        |-> IF m.key = "none" THEN s.value ELSE m.value,
     notification |-> TRUE]

Deliver ==
    /\ stage = "yield" /\ connected /\ session /\ coming # <<>>
    /\ slot' = Arrived(slot, Head(coming))
    /\ latest' = Head(coming)
    /\ coming' = Tail(coming)
    /\ UNCHANGED <<operationVars, stage, connected, session, overdue, heard>>

EndYield ==
    /\ stage = "yield"
    /\ stage' = "connect"
    /\ UNCHANGED <<operationVars, linkVars, slot, latest, overdue, heard>>

BrokerSends ==
    /\ session /\ Len(coming) < MaxComing
    /\ \E m \in Messages : coming' = Append(coming, m)
    /\ UNCHANGED <<operationVars, slot, latest, stage, connected, session, overdue, heard>>

\* A session ends in a publication, a yield or by itself; connected stays.
SessionLost ==
    /\ session /\ session' = FALSE
    /\ coming' = <<>>
    /\ UNCHANGED <<operationVars, slot, latest, stage, connected, overdue, heard>>

Elapse ==
    /\ overdue < MaxOverdue
    /\ overdue' = overdue + 1
    /\ UNCHANGED <<operationVars, linkVars, slot, latest, stage, heard>>

Pass == Reconnect \/ Apply \/ Event \/ EndYield

LoopNext == Pass \/ Deliver \/ BrokerSends \/ SessionLost \/ Elapse

LoopSpec == LoopInit /\ [][LoopNext]_loopVars

\* The loop goes on and so does time; the operator, the broker and the network
\* owe nothing.
FairLoop == LoopSpec /\ WF_loopVars(Pass) /\ WF_loopVars(Elapse)

(***************************************************************************)
(* Properties.                                                             *)
(***************************************************************************)
Values == {m.value : m \in Messages} \union {0}

\* The broker's speeds are not limited: a run steps from them towards the scale.
Reachable(n) ==
    n \in Int /\ \E low \in Values, high \in Values \union {TopSpeed} : low <= n /\ n <= high

LoopTypes ==
    /\ running \in BOOLEAN /\ autoMode \in BOOLEAN
    /\ mqttFlag \in BOOLEAN /\ errorFlag \in BOOLEAN
    /\ Reachable(speed)
    /\ setPressure \in Setpoints \union Values
    /\ coming \in Seq(Messages) /\ Len(coming) <= MaxComing
    /\ slot \in [automatic : BOOLEAN, value : Values, notification : BOOLEAN]
    /\ latest \in Messages \union {NoMessage}
    /\ stage \in {"connect", "apply", "event", "yield"}
    /\ connected \in BOOLEAN /\ session \in BOOLEAN
    /\ overdue \in 0..MaxOverdue

\* A message that names a mode and the value that goes with it.
Complete(m) == <<m.mode, m.key>> \in {<<"true", "pressure">>, <<"false", "speed">>}

Follows(m) ==
    IF m.mode = "true" THEN autoMode /\ setPressure = m.value
    ELSE ~autoMode /\ speed = m.value

\* However many messages came in one yield, whole or with a key left out, and
\* whatever waited in the slot: a command is handed over as the latest complete
\* message has it, its mode with its own value (MqttWifiManager.cpp:41-73,
\* main.cpp:190-204).
AppliedWhole == mqttFlag /\ Complete(latest) => Follows(latest)

\* The speed stays between the ends of the scale and what the broker asked for,
\* and a command in force is whole (MqttWifiManager.cpp:41-73, main.cpp:190-204).
LoopInv == LoopTypes /\ AppliedWhole

\* A complete command is confirmed to the broker by a status that shows its
\* mode and setpoint, unless the session is lost, another message follows or
\* the operator or a run changes the setting first (main.cpp:190-204,
\* MenuHandler.cpp:97-104).
CommandConfirmed ==
    \A m \in {n \in Messages : Complete(n)} :
        (slot.notification /\ latest = m) ~>
            \/ heard.auto = (m.mode = "true") /\ heard.setpoint = m.value
            \/ ~session \/ latest # m
            \/ ~slot.notification /\ ~Follows(m)

\* While the session stays open, the alarm the broker hears of is in the end
\* the alarm that stands, when it stands still: raised or cleared
\* (MenuHandler.cpp:97-104, 255).
AlarmReported ==
    \A e \in BOOLEAN :
        <>[](session /\ errorFlag = e) => <>[](heard.error = e)
=============================================================================
