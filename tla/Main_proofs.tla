---------------------------- MODULE Main_proofs -----------------------------
(***************************************************************************)
(* Proofs about the three views of main(): StatusLoop, for every scale of  *)
(* speeds, every set of messages and any number of them on their way;      *)
(* CredentialStore, for every number of boots; and InterruptHandler, for   *)
(* every clock and every pair of gaps.                                     *)
(***************************************************************************)
EXTENDS StatusLoop, CredentialStore, InterruptHandler, TLAPS

(***************************************************************************)
(* StatusLoop.  The inductive invariant: a command is in force only from   *)
(* its hand-over to the call of event() that obeys it, and in between no   *)
(* message is delivered; and the slot holds what the latest complete       *)
(* message says, taken or not.                                             *)
(***************************************************************************)
ObeyedAtOnce == mqttFlag => stage = "event"

SlotIsLatest ==
    Complete(latest) => slot.automatic = (latest.mode = "true") /\ slot.value = latest.value

LoopIInv == LoopInv /\ ObeyedAtOnce /\ SlotIsLatest

\* The values of the messages, and the slot's before any message.
LEMMA ValueTypes ==
    /\ Values \subseteq Int /\ 0 \in Values
    /\ \A m \in Messages : m.value \in Values
    /\ TopSpeed \in Int /\ 0 <= TopSpeed
BY LoopAssumption DEF Values

\* Every speed on the scale is reachable, and so is the next one of a run,
\* from inside the scale or beyond either end of it.
LEMMA OnScale == ASSUME NEW n \in 0..TopSpeed PROVE Reachable(n)
BY ValueTypes DEF Reachable

LEMMA ValueReachable == ASSUME NEW n \in Values PROVE Reachable(n)
BY ValueTypes DEF Reachable

LEMMA StepReachable ==
    ASSUME NEW n, Reachable(n), NEW next \in Stepped(n)
    PROVE  Reachable(next)
<1>1. PICK low \in Values, high \in Values \union {TopSpeed} : low <= n /\ n <= high
    BY DEF Reachable
<1>2. n \in Int /\ low \in Int /\ high \in Int /\ TopSpeed \in Int /\ 0 <= TopSpeed
    BY <1>1, ValueTypes DEF Reachable
<1>3. CASE next = n
    BY <1>3
<1>4. CASE next = TopSpeed \/ next = 0
    BY <1>2, <1>4, OnScale
<1>5. CASE next = n + 1 /\ ~(n + 1 >= TopSpeed)
    <2>1. low <= next /\ next <= TopSpeed /\ next \in Int
        BY <1>1, <1>2, <1>5
    <2> QED BY <2>1 DEF Reachable
<1>6. CASE next = n - 1 /\ ~(n - 1 <= 0)
    <2>1. 0 <= next /\ next <= high /\ next \in Int
        BY <1>1, <1>2, <1>6
    <2> QED BY <2>1, ValueTypes DEF Reachable
<1> QED BY <1>3, <1>4, <1>5, <1>6 DEF Stepped

\* What the handler does by itself keeps its settings' types.
LEMMA HandlerTypes ==
    ASSUME LoopTypes, ObeyStep \/ PanelStep
    PROVE  /\ running' \in BOOLEAN /\ autoMode' \in BOOLEAN
           /\ mqttFlag' = FALSE /\ errorFlag' \in BOOLEAN
           /\ Reachable(speed') /\ setPressure' \in Setpoints \union Values
<1>1. /\ running \in BOOLEAN /\ autoMode \in BOOLEAN /\ errorFlag \in BOOLEAN
      /\ ~mqttFlag => mqttFlag = FALSE
      /\ Reachable(speed) /\ setPressure \in Setpoints \union Values
    BY DEF LoopTypes
<1>2. CASE ObeyAuto
    <2>1. Reachable(speed')
        BY <1>1, <1>2, StepReachable DEF ObeyAuto
    <2> QED BY <1>1, <1>2, <2>1, Zenon DEF ObeyAuto
<1>3. CASE ObeyManual
    BY <1>1, <1>3 DEF ObeyManual
<1>4. CASE Run
    <2>1. Reachable(speed')
        BY <1>1, <1>4, StepReachable DEF Run
    <2>2. errorFlag' \in BOOLEAN
        BY <1>1, <1>4 DEF Run
    <2> QED BY <1>1, <1>4, <2>1, <2>2 DEF Run
<1>5. CASE TurnSpeed
    BY <1>1, <1>5, OnScale DEF TurnSpeed
<1>6. CASE TurnSetpoint
    BY <1>1, <1>6, Zenon DEF TurnSetpoint
<1>7. CASE StartRun
    <2>1. Reachable(LeastSpeed)
        BY OnScale, LoopAssumption
    <2>2. Reachable(speed')
        BY <1>1, <1>7, <2>1 DEF StartRun
    <2>3. autoMode' \in BOOLEAN
        BY <1>1, <1>7, Zenon DEF StartRun
    <2> QED BY <1>1, <1>7, <2>2, <2>3 DEF StartRun
<1>8. CASE ClearAlarm
    BY <1>1, <1>8 DEF ClearAlarm
<1> QED BY <1>2, <1>3, <1>4, <1>5, <1>6, <1>7, <1>8 DEF ObeyStep, PanelStep

LEMMA LoopStarts == LoopInit => LoopIInv
<1> SUFFICES ASSUME LoopInit PROVE LoopIInv
    OBVIOUS
<1>1. LoopTypes
    <2>1. Reachable(speed) /\ setPressure \in Setpoints \union Values
        BY ValueTypes, ValueReachable DEF LoopInit, OperationInit
    <2>2. slot \in [automatic : BOOLEAN, value : Values, notification : BOOLEAN]
        BY ValueTypes DEF LoopInit
    <2>3. coming \in Seq(Messages) /\ Len(coming) <= MaxComing /\ overdue \in 0..MaxOverdue
        BY LoopAssumption DEF LoopInit
    <2> QED BY <2>1, <2>2, <2>3 DEF LoopTypes, LoopInit, OperationInit
<1>2. ~mqttFlag /\ ~Complete(latest)
    BY DEF LoopInit, OperationInit, NoMessage, Complete
<1> QED BY <1>1, <1>2 DEF LoopIInv, LoopInv, AppliedWhole, ObeyedAtOnce, SlotIsLatest

\* A step that leaves the handler, the slot and main()'s place alone.
LEMMA ElsewhereKeeps ==
    ASSUME LoopIInv, UNCHANGED <<operationVars, slot, latest, stage>>,
           coming' \in Seq(Messages), Len(coming') <= MaxComing,
           connected' \in BOOLEAN, session' \in BOOLEAN, overdue' \in 0..MaxOverdue
    PROVE  LoopIInv'
<1>1. LoopTypes'
    BY DEF LoopIInv, LoopInv, LoopTypes, operationVars
<1>2. AppliedWhole' /\ ObeyedAtOnce' /\ SlotIsLatest'
    BY DEF LoopIInv, LoopInv, AppliedWhole, Follows, Complete, ObeyedAtOnce, SlotIsLatest,
           operationVars
<1> QED BY <1>1, <1>2 DEF LoopIInv, LoopInv

\* A step of main() outside the handler, from a place where no command is in
\* force.
LEMMA PassKeeps ==
    ASSUME LoopIInv, UNCHANGED operationVars, stage # "event",
           stage' \in {"connect", "apply", "event", "yield"},
           slot' \in [automatic : BOOLEAN, value : Values, notification : BOOLEAN],
           latest' \in Messages \union {NoMessage}, SlotIsLatest',
           coming' \in Seq(Messages), Len(coming') <= MaxComing,
           connected' \in BOOLEAN, session' \in BOOLEAN, overdue' \in 0..MaxOverdue
    PROVE  LoopIInv'
<1>1. LoopTypes'
    BY DEF LoopIInv, LoopInv, LoopTypes, operationVars
<1>2. ~mqttFlag'
    BY DEF LoopIInv, ObeyedAtOnce, operationVars
<1> QED BY <1>1, <1>2 DEF LoopIInv, LoopInv, AppliedWhole, ObeyedAtOnce

LEMMA StepApply == ASSUME LoopIInv, Apply PROVE LoopIInv'
<1>1. /\ stage = "apply" /\ stage' = "event" /\ UNCHANGED <<linkVars, latest, overdue, heard>>
    BY DEF Apply
<1>2. LoopTypes /\ SlotIsLatest /\ ~mqttFlag
    BY <1>1 DEF LoopIInv, LoopInv, ObeyedAtOnce
<1>3. CASE ~slot.notification
    <2>1. UNCHANGED <<slot, operationVars>>
        BY <1>3 DEF Apply
    <2> QED BY <1>1, <1>2, <2>1 DEF LoopIInv, LoopInv, LoopTypes, AppliedWhole, ObeyedAtOnce,
                                    SlotIsLatest, Complete, linkVars, operationVars
<1>4. CASE slot.notification
    <2>1. /\ slot' = [slot EXCEPT !.notification = FALSE]
          /\ IF slot.automatic THEN CommandAuto(slot.value) ELSE CommandManual(slot.value)
        BY <1>4 DEF Apply
    <2>2. /\ slot \in [automatic : BOOLEAN, value : Values, notification : BOOLEAN]
          /\ slot.value \in Values
        BY <1>2 DEF LoopTypes
    <2>3. /\ slot' \in [automatic : BOOLEAN, value : Values, notification : BOOLEAN]
          /\ slot'.automatic = slot.automatic /\ slot'.value = slot.value
        BY <2>1, <2>2
    <2>4. SlotIsLatest'
        BY <1>1, <1>2, <2>3 DEF SlotIsLatest, Complete
    <2>5. CASE slot.automatic
        <3>1. /\ mqttFlag' = TRUE /\ autoMode' = TRUE /\ setPressure' = slot.value
              /\ UNCHANGED <<running, speed, errorFlag>>
            BY <2>1, <2>5 DEF CommandAuto
        <3>2. LoopTypes'
            BY <1>1, <1>2, <2>2, <2>3, <3>1 DEF LoopTypes, linkVars
        <3>3. AppliedWhole' /\ ObeyedAtOnce'
            BY <1>1, <1>2, <2>5, <3>1 DEF AppliedWhole, ObeyedAtOnce, SlotIsLatest, Complete,
                                          Follows
        <3> QED BY <2>4, <3>2, <3>3 DEF LoopIInv, LoopInv
    <2>6. CASE ~slot.automatic
        <3>1. /\ mqttFlag' = TRUE /\ autoMode' = FALSE /\ speed' = slot.value
              /\ UNCHANGED <<running, setPressure, errorFlag>>
            BY <2>1, <2>6 DEF CommandManual
        <3>2. LoopTypes'
            BY <1>1, <1>2, <2>2, <2>3, <3>1, ValueReachable DEF LoopTypes, linkVars
        <3>3. AppliedWhole' /\ ObeyedAtOnce'
            BY <1>1, <1>2, <2>6, <3>1 DEF AppliedWhole, ObeyedAtOnce, SlotIsLatest, Complete,
                                          Follows
        <3> QED BY <2>4, <3>2, <3>3 DEF LoopIInv, LoopInv
    <2> QED BY <2>5, <2>6
<1> QED BY <1>3, <1>4

LEMMA StepEvent == ASSUME LoopIInv, Event PROVE LoopIInv'
<1>1. /\ stage = "event" /\ stage' = "yield" /\ UNCHANGED <<linkVars, slot, latest>>
      /\ overdue' = IF Published THEN overdue - 1 ELSE overdue
      /\ IF mqttFlag THEN ObeyStep ELSE PanelStep \/ UNCHANGED operationVars
    BY DEF Event
<1>2. LoopTypes /\ SlotIsLatest
    BY DEF LoopIInv, LoopInv
<1>3. overdue' \in 0..MaxOverdue
    BY <1>1, <1>2, LoopAssumption DEF LoopTypes, Published
<1>4. /\ running' \in BOOLEAN /\ autoMode' \in BOOLEAN
      /\ mqttFlag' = FALSE /\ errorFlag' \in BOOLEAN
      /\ Reachable(speed') /\ setPressure' \in Setpoints \union Values
    <2>1. CASE ObeyStep \/ PanelStep
        BY <1>2, <2>1, HandlerTypes
    <2>2. CASE ~mqttFlag /\ UNCHANGED operationVars
        <3>1. mqttFlag \in BOOLEAN /\ ~mqttFlag /\ mqttFlag' = mqttFlag
            BY <1>2, <2>2 DEF LoopTypes, operationVars
        <3>2. mqttFlag' = FALSE
            BY <3>1
        <3> QED BY <1>2, <2>2, <3>2 DEF LoopTypes, operationVars
    <2> QED BY <1>1, <2>1, <2>2
<1>5. LoopTypes'
    BY <1>1, <1>2, <1>3, <1>4 DEF LoopTypes, linkVars
<1>6. AppliedWhole' /\ ObeyedAtOnce' /\ SlotIsLatest'
    BY <1>1, <1>2, <1>4 DEF AppliedWhole, ObeyedAtOnce, SlotIsLatest, Complete
<1> QED BY <1>5, <1>6 DEF LoopIInv, LoopInv

LEMMA StepDeliver == ASSUME LoopIInv, Deliver PROVE LoopIInv'
<1>1. /\ stage = "yield" /\ coming # <<>> /\ slot' = Arrived(slot, Head(coming))
      /\ latest' = Head(coming) /\ coming' = Tail(coming)
      /\ UNCHANGED <<operationVars, stage, connected, session, overdue, heard>>
    BY DEF Deliver
<1>2. LoopTypes
    BY DEF LoopIInv, LoopInv
<1>3. /\ latest' \in Messages /\ coming' \in Seq(Messages) /\ Len(coming') <= MaxComing
    <2>1. coming \in Seq(Messages) /\ Len(coming) \in Nat /\ Len(coming) <= MaxComing
        BY <1>2 DEF LoopTypes
    <2>2. Head(coming) \in Messages /\ Tail(coming) \in Seq(Messages)
          /\ Len(Tail(coming)) = Len(coming) - 1
        BY <1>1, <2>1
    <2> QED BY <1>1, <2>1, <2>2, LoopAssumption
<1>4. PICK m \in Messages : m = Head(coming)
    BY <1>1, <1>3
<1>5. slot \in [automatic : BOOLEAN, value : Values, notification : BOOLEAN]
    BY <1>2 DEF LoopTypes
<1>6. /\ slot' \in [automatic : BOOLEAN, value : Values, notification : BOOLEAN]
      /\ Complete(m) => slot'.automatic = (m.mode = "true") /\ slot'.value = m.value
    <2>1. m.value \in Values
        BY ValueTypes
    <2>2. (IF m.mode = "none" THEN slot.automatic ELSE m.mode = "true") \in BOOLEAN
        BY <1>5
    <2>3. (IF m.key = "none" THEN slot.value ELSE m.value) \in Values
        BY <1>5, <2>1
    <2>4. slot' = [automatic    |-> IF m.mode = "none" THEN slot.automatic ELSE m.mode = "true",
                   value        |-> IF m.key = "none" THEN slot.value ELSE m.value,
                   notification |-> TRUE]
        BY <1>1, <1>4 DEF Arrived
    <2>5. Complete(m) => m.mode # "none" /\ m.key # "none"
        BY DEF Complete
    <2> QED BY <2>2, <2>3, <2>4, <2>5
<1>7. SlotIsLatest'
    BY <1>1, <1>4, <1>6 DEF SlotIsLatest, Complete
<1> QED BY <1>1, <1>2, <1>3, <1>6, <1>7, PassKeeps DEF LoopTypes

LEMMA LoopSteps == LoopIInv /\ [LoopNext]_loopVars => LoopIInv'
<1> SUFFICES ASSUME LoopIInv, [LoopNext]_loopVars PROVE LoopIInv'
    OBVIOUS
<1>1. LoopTypes /\ SlotIsLatest
    BY DEF LoopIInv, LoopInv
<1>2. /\ coming \in Seq(Messages) /\ Len(coming) <= MaxComing
      /\ connected \in BOOLEAN /\ session \in BOOLEAN /\ overdue \in 0..MaxOverdue
      /\ slot \in [automatic : BOOLEAN, value : Values, notification : BOOLEAN]
      /\ latest \in Messages \union {NoMessage}
    BY <1>1 DEF LoopTypes
<1>3. <<>> \in Seq(Messages) /\ Len(<<>>) <= MaxComing
    BY LoopAssumption
<1>4. CASE UNCHANGED loopVars
    BY <1>2, <1>4, ElsewhereKeeps DEF loopVars, linkVars
<1>5. CASE Reconnect
    <2>1. coming' \in Seq(Messages) /\ Len(coming') <= MaxComing
        BY <1>2, <1>3, <1>5 DEF Reconnect, linkVars
    <2>2. connected' \in BOOLEAN /\ session' \in BOOLEAN
        BY <1>2, <1>5, Zenon DEF Reconnect, linkVars
    <2>3. SlotIsLatest'
        BY <1>1, <1>5 DEF Reconnect, SlotIsLatest, Complete
    <2> QED BY <1>2, <1>5, <2>1, <2>2, <2>3, PassKeeps DEF Reconnect
<1>6. CASE Apply
    BY <1>6, StepApply
<1>7. CASE Event
    BY <1>7, StepEvent
<1>8. CASE EndYield
    <2>1. SlotIsLatest'
        BY <1>1, <1>8 DEF EndYield, SlotIsLatest, Complete
    <2> QED BY <1>2, <1>8, <2>1, PassKeeps DEF EndYield, linkVars
<1>9. CASE Deliver
    BY <1>9, StepDeliver
<1>10. CASE BrokerSends
    <2>1. PICK m \in Messages : coming' = Append(coming, m)
        BY <1>10 DEF BrokerSends
    <2>2. coming' \in Seq(Messages) /\ Len(coming') = Len(coming) + 1
        BY <1>2, <2>1
    <2>3. Len(coming') <= MaxComing
        BY <1>2, <1>10, <2>2, LoopAssumption DEF BrokerSends
    <2> QED BY <1>2, <1>10, <2>2, <2>3, ElsewhereKeeps DEF BrokerSends
<1>11. CASE SessionLost
    BY <1>2, <1>3, <1>11, ElsewhereKeeps DEF SessionLost
<1>12. CASE Elapse
    <2>1. overdue' \in 0..MaxOverdue
        BY <1>2, <1>12, LoopAssumption DEF Elapse
    <2> QED BY <1>2, <1>12, <2>1, ElsewhereKeeps DEF Elapse, linkVars
<1> QED BY <1>4, <1>5, <1>6, <1>7, <1>8, <1>9, <1>10, <1>11, <1>12 DEF LoopNext, Pass

\* Whatever messages come, in whatever number and with whatever keys left out,
\* a command that is in force is the latest complete message's, mode and value
\* alike, and the speed stays between the ends of the scale and of what was
\* asked for (MqttWifiManager.cpp:41-73, main.cpp:190-204).
THEOREM CommandsWhole == LoopSpec => []LoopInv
<1>1. LoopIInv => LoopInv
    BY DEF LoopIInv
<1> QED BY <1>1, LoopStarts, LoopSteps, PTL DEF LoopSpec

-----------------------------------------------------------------------------
(* CredentialStore.                                                        *)

(***************************************************************************)
(* The inductive invariant.  During a boot the records in front of         *)
(* the one worked on are erased; the boot never finds a complete set, so   *)
(* that it is the operator's request alone that leads to a connection; and *)
(* what the request leaves in main()'s variables is a set that stood in    *)
(* the menu, whose fields are entered in order.                            *)
(***************************************************************************)
ErasedSoFar ==
    /\ at = "erase" => \A i \in Records : i < record => eeprom[i] = Nothing
    /\ at = "read" => \A i \in Records : eeprom[i] = Nothing

Booting == at \in {"erase", "read"} => manager = NoManager /\ ~connectNow

Requested ==
    /\ connectNow \/ at = "store" => \E n \in 0..entered : creds = SetOf(n)
    /\ at # "erase" /\ at # "store" => record = 1

EnteredFirst == \A i \in Records : i > entered => fields[i] = Unentered(i)

StoreIInv == StoreInv /\ ErasedSoFar /\ Booting /\ Requested /\ EnteredFirst

\* The first record is in front of none.
LEMMA NoneBeforeFirst == \A i \in Records : ~(i < 1)
BY DEF Records

LEMMA TextTypes ==
    /\ Nothing \in Texts /\ Torn \in Texts
    /\ \A b \in 1..MaxBoots : b \in Texts
    /\ \A i \in Records : Unentered(i) \in Texts
BY DEF Texts, Nothing, Torn, Blank, Unentered

LEMMA StoreStarts == Init => StoreIInv
<1> SUFFICES ASSUME Init PROVE StoreIInv
    OBVIOUS
<1>1. StoreTypes
    <2>1. /\ eeprom \in [Records -> Texts] /\ creds \in [Records -> Texts]
          /\ fields \in [Records -> Texts]
        BY TextTypes DEF Init, NoCreds, NoFields
    <2>2. boots \in 1..MaxBoots /\ record \in Records /\ entered \in 0..4
        BY BootsAssumption DEF Init, Records
    <2> QED BY <2>1, <2>2 DEF Init, StoreTypes, Places
<1>2. ConnectsAsEntered /\ NothingOldStored
    BY DEF Init, ConnectsAsEntered, NothingOldStored
<1>3. ErasedSoFar /\ Booting /\ Requested /\ EnteredFirst
    BY NoneBeforeFirst DEF Init, ErasedSoFar, Booting, Requested, EnteredFirst, NoFields
<1> QED BY <1>1, <1>2, <1>3 DEF StoreIInv, StoreInv

-----------------------------------------------------------------------------
(* The steps.                                                              *)

\* As long as the menu's fields stay, so do the sets that stood in them.
LEMMA SetsStay ==
    ASSUME fields' = fields, entered' = entered
    PROVE  /\ \A n : SetOf(n)' = SetOf(n)
           /\ EnteredFirst => EnteredFirst'
BY DEF SetOf, EnteredFirst

\* The record after another one of the four, unless it was the last.
LEMMA Advanced ==
    ASSUME StoreTypes, NEW last \in BOOLEAN, NEW next \in Places,
           record = Port => last, Advance(last, next)
    PROVE  record' \in Records /\ at' \in Places
<1>1. record \in Records /\ at \in Places
    BY DEF StoreTypes
<1>2. CASE last
    BY <1>1, <1>2 DEF Advance, Records
<1>3. CASE ~last
    BY <1>1, <1>3 DEF Advance, Records, Port
<1> QED BY <1>2, <1>3

LEMMA StepEraseRecord == ASSUME StoreIInv, EraseRecord PROVE StoreIInv'
<1> USE DEF StoreIInv, StoreInv
<1>1. eeprom' = [eeprom EXCEPT ![record] = Nothing] /\ record \in Records
    BY DEF EraseRecord, Erased, StoreTypes
<1>2. /\ UNCHANGED <<boots, creds, connectNow, manager, fields, entered, request>>
      /\ at = "erase"
    BY DEF EraseRecord, menuVars
<1>3. Advance(record = Port, "read")
    BY DEF EraseRecord, LastErased
<1>4. StoreTypes'
    <2>1. record' \in Records /\ at' \in Places
        BY <1>3, Advanced DEF Places
    <2>2. eeprom' \in [Records -> Texts]
        BY <1>1, TextTypes DEF StoreTypes
    <2> QED BY <1>2, <2>1, <2>2 DEF StoreTypes
<1>5. \A i \in Records : i < record \/ i = record => eeprom'[i] = Nothing
    BY <1>1, <1>2 DEF ErasedSoFar, StoreTypes
<1>6. ErasedSoFar'
    <2>1. \A i \in Records : i < record + 1 => i < record \/ i = record
        BY <1>1 DEF Records
    <2>2. CASE record = Port
        <3>1. \A i \in Records : i < record \/ i = record
            BY <2>2 DEF Records, Port
        <3> QED BY <1>3, <1>5, <2>2, <3>1 DEF Advance, ErasedSoFar
    <2>3. CASE record # Port
        BY <1>2, <1>3, <1>5, <2>1, <2>3 DEF Advance, ErasedSoFar
    <2> QED BY <2>2, <2>3
<1>7. /\ at' \in {"erase", "read"}
      /\ at' = "read" => record' = 1
    BY <1>2, <1>3 DEF Advance
<1>8. manager' = NoManager /\ ~connectNow'
    BY <1>2 DEF Booting
<1>9. ConnectsAsEntered' /\ NothingOldStored'
    BY <1>7, <1>8 DEF ConnectsAsEntered, NothingOldStored
<1>10. Booting' /\ Requested'
    BY <1>7, <1>8 DEF Booting, Requested
<1> QED BY <1>2, <1>4, <1>6, <1>9, <1>10, SetsStay

LEMMA StepReadAll == ASSUME StoreIInv, ReadAll PROVE StoreIInv'
<1> USE DEF StoreIInv, StoreInv
<1>1. /\ at = "read" /\ at' = "connect" /\ creds' = eeprom
      /\ UNCHANGED <<eeprom, boots, record, manager, fields, entered, request>>
    BY DEF ReadAll, menuVars
<1>2. \A i \in Records : eeprom[i] = Nothing
    BY <1>1 DEF ErasedSoFar
<1>3. ~connectNow'
    <2>1. 1 \in Records
        BY DEF Records
    <2> QED BY <1>2, <2>1 DEF ReadAll
<1>4. StoreTypes'
    <2>1. creds' \in [Records -> Texts] /\ at' \in Places
        BY <1>1 DEF StoreTypes, Places
    <2>2. connectNow' \in BOOLEAN
        BY <1>3, Zenon DEF ReadAll
    <2>3. /\ eeprom' \in [Records -> Texts] /\ boots' \in 1..MaxBoots /\ record' \in Records
          /\ fields' \in [Records -> Texts] /\ entered' \in 0..4
        BY <1>1 DEF StoreTypes
    <2>4. request' \in BOOLEAN
        BY <1>1, Zenon DEF StoreTypes
    <2>5. manager' = NoManager \/ manager' \in [Records -> Texts]
        BY <1>1 DEF StoreTypes
    <2> QED BY <2>1, <2>2, <2>3, <2>4, <2>5 DEF StoreTypes
<1>5. ConnectsAsEntered' /\ NothingOldStored'
    BY <1>1, <1>2 DEF ConnectsAsEntered, NothingOldStored, IsStored, Booting
<1>6. ErasedSoFar' /\ Booting' /\ Requested'
    BY <1>1, <1>3 DEF ErasedSoFar, Booting, Requested
<1> QED BY <1>1, <1>4, <1>5, <1>6, SetsStay

LEMMA StepConnect == ASSUME StoreIInv, Connect PROVE StoreIInv'
<1> USE DEF StoreIInv, StoreInv
<1>1. /\ at = "connect" /\ at' = "take" /\ ~connectNow'
      /\ manager' = (IF connectNow THEN creds ELSE manager)
      /\ UNCHANGED <<eeprom, boots, record, creds, fields, entered, request>>
    BY DEF Connect, menuVars
<1>2. StoreTypes'
    <2>1. /\ eeprom' \in [Records -> Texts] /\ boots' \in 1..MaxBoots /\ record' \in Records
          /\ creds' \in [Records -> Texts] /\ fields' \in [Records -> Texts]
          /\ entered' \in 0..4
        BY <1>1 DEF StoreTypes
    <2>2. at' \in Places
        BY <1>1 DEF Places
    <2>3. connectNow' \in BOOLEAN
        BY Zenon DEF Connect
    <2>4. request' \in BOOLEAN
        BY <1>1, Zenon DEF StoreTypes
    <2>5. manager' = NoManager \/ manager' \in [Records -> Texts]
        BY <1>1 DEF StoreTypes
    <2> QED BY <2>1, <2>2, <2>3, <2>4, <2>5 DEF StoreTypes
<1>3. ConnectsAsEntered'
    <2>1. CASE connectNow
        <3>1. PICK n \in 0..entered : creds = SetOf(n)
            BY <2>1 DEF Requested
        <3>2. manager' = SetOf(n)' /\ n \in 0..entered'
            BY <1>1, <2>1, <3>1, SetsStay
        <3> QED BY <3>2 DEF ConnectsAsEntered
    <2>2. CASE ~connectNow
        BY <1>1, <2>2, SetsStay DEF ConnectsAsEntered
    <2> QED BY <2>1, <2>2
<1>4. NothingOldStored'
    BY <1>1 DEF NothingOldStored, IsStored
<1>5. ErasedSoFar' /\ Booting' /\ Requested'
    BY <1>1 DEF ErasedSoFar, Booting, Requested
<1> QED BY <1>1, <1>2, <1>3, <1>4, <1>5, SetsStay

LEMMA StepTakeRequest == ASSUME StoreIInv, TakeRequest PROVE StoreIInv'
<1> USE DEF StoreIInv, StoreInv
<1>1. /\ at = "take" /\ connectNow' = (connectNow \/ request) /\ request' = FALSE
      /\ UNCHANGED <<eeprom, boots, record, manager, fields, entered>>
    BY DEF TakeRequest, ConnectsNext
<1>2. \/ request /\ creds' = fields /\ at' = "store"
      \/ ~request /\ creds' = creds /\ at' = "event"
    BY DEF TakeRequest
<1>3. StoreTypes'
    BY <1>1, <1>2 DEF StoreTypes, Places
<1>4. ConnectsAsEntered'
    BY <1>1, SetsStay DEF ConnectsAsEntered
<1>5. NothingOldStored'
    <2>1. CASE at' = "event"
        BY <1>1, <1>2, <2>1 DEF NothingOldStored, IsStored
    <2>2. CASE at' = "store"
        <3>1. record' = 1
            BY <1>1 DEF Requested
        <3> QED BY <1>1, <2>2, <3>1, NoneBeforeFirst DEF NothingOldStored
    <2> QED BY <1>2, <2>1, <2>2
<1>6. Requested'
    <2>1. record' = 1
        BY <1>1 DEF Requested
    <2>2. CASE request
        <3>1. fields \in [Records -> Texts] /\ entered \in 0..4
            BY DEF StoreTypes
        <3>2. \E n \in 0..entered : fields = SetOf(n)
            <4>1. fields = SetOf(entered) /\ entered \in 0..entered
                BY <3>1 DEF SetOf, EnteredFirst, Records
            <4> QED BY <4>1
        <3>3. \E n \in 0..entered' : creds' = SetOf(n)'
            BY <1>1, <1>2, <2>2, <3>2, SetsStay
        <3> QED BY <2>1, <3>3 DEF Requested
    <2>3. CASE ~request
        BY <1>1, <1>2, <2>1, <2>3, SetsStay DEF Requested
    <2> QED BY <2>2, <2>3
<1>7. ErasedSoFar' /\ Booting'
    BY <1>2 DEF ErasedSoFar, Booting
<1> QED BY <1>1, <1>3, <1>4, <1>5, <1>6, <1>7, SetsStay

\* A record that was written, or left out under an empty text, is as taken.
LEMMA RecordIsStored ==
    ASSUME StoreIInv, StoreRecord
    PROVE  /\ \A i \in Records : i = record => IsStored(i)'
           /\ eeprom'[record] \in {Nothing, Unentered(record), fields[record]}
           /\ \A i \in Records : i # record => eeprom'[i] = eeprom[i]
<1> USE DEF StoreIInv, StoreInv
<1>1. /\ at = "store" /\ record \in Records /\ eeprom \in [Records -> Texts]
      /\ creds' = creds
    BY DEF StoreRecord, StoreTypes
<1>2. PICK n \in 0..entered : creds = SetOf(n)
    BY <1>1 DEF Requested
<1>3. creds[record] \in {Unentered(record), fields[record]}
    BY <1>1, <1>2 DEF SetOf
<1>4. CASE Writes(record, creds[record])
    <2>1. eeprom' = [eeprom EXCEPT ![record] = creds[record]]
        BY <1>4 DEF StoreRecord
    <2> QED BY <1>1, <1>3, <2>1 DEF IsStored
<1>5. CASE ~Writes(record, creds[record])
    <2>1. eeprom' = eeprom /\ record # Port /\ creds[record] = Nothing
        BY <1>5 DEF StoreRecord, Writes
    <2>2. Unentered(record) # Nothing
        BY <2>1 DEF Unentered, Blank, Nothing
    <2>3. fields[record] = Nothing
        BY <1>3, <2>1, <2>2
    <2>4. eeprom[record] \in {Nothing, Unentered(record)}
        BY <1>1, <2>3 DEF NothingOldStored
    <2> QED BY <1>1, <2>1, <2>4 DEF IsStored
<1> QED BY <1>4, <1>5

LEMMA StepStoreRecord == ASSUME StoreIInv, StoreRecord PROVE StoreIInv'
<1> USE DEF StoreIInv, StoreInv
<1>1. /\ at = "store" /\ Advance(record = Port, "event") /\ record \in Records
      /\ UNCHANGED <<boots, creds, connectNow, manager, fields, entered, request>>
    BY DEF StoreRecord, menuVars, StoreTypes
<1>2. eeprom' \in {eeprom, [eeprom EXCEPT ![record] = creds[record]]}
    BY DEF StoreRecord
<1>3. StoreTypes'
    <2>1. record' \in Records /\ at' \in Places
        BY <1>1, Advanced DEF Places
    <2>2. eeprom' \in [Records -> Texts]
        BY <1>1, <1>2 DEF StoreTypes
    <2> QED BY <1>1, <2>1, <2>2 DEF StoreTypes
<1>4. \/ record = Port /\ at' = "event" /\ record' = 1
      \/ record # Port /\ at' = "store" /\ record' = record + 1
    BY <1>1 DEF Advance
<1>5. NothingOldStored'
    <2>1. \A i \in Records : i < record \/ i = record => IsStored(i)'
        <3>1. \A i \in Records : i < record => i # record
            BY <1>1 DEF Records
        <3>2. \A i \in Records : i < record => IsStored(i)'
            BY <1>1, <3>1, RecordIsStored DEF NothingOldStored, IsStored
        <3> QED BY <3>2, RecordIsStored
    <2>2. \A i \in Records : (eeprom[i] \in {Nothing, Unentered(i), fields[i]})'
        BY <1>1, RecordIsStored DEF NothingOldStored
    <2>3. CASE record = Port
        <3>1. \A i \in Records : i < record \/ i = record
            BY <2>3 DEF Records, Port
        <3> QED BY <1>4, <2>1, <2>2, <2>3, <3>1 DEF NothingOldStored
    <2>4. CASE record # Port
        <3>1. \A i \in Records : i < record + 1 => i < record \/ i = record
            BY <1>1 DEF Records
        <3> QED BY <1>4, <2>1, <2>2, <2>4, <3>1 DEF NothingOldStored
    <2> QED BY <2>3, <2>4
<1>6. ConnectsAsEntered'
    BY <1>1, SetsStay DEF ConnectsAsEntered
<1>7. Requested'
    BY <1>1, <1>4, SetsStay DEF Requested
<1>8. ErasedSoFar' /\ Booting'
    BY <1>4 DEF ErasedSoFar, Booting
<1> QED BY <1>1, <1>3, <1>5, <1>6, <1>7, <1>8, SetsStay

\* The next field is entered behind the ones that make up the earlier sets.
LEMMA FieldEntered ==
    ASSUME StoreIInv, EnterField
    PROVE  /\ fields' \in [Records -> Texts] /\ entered' \in 0..4 /\ entered < entered'
           /\ \A n \in 0..entered : SetOf(n)' = SetOf(n)
           /\ EnteredFirst'
           /\ \A i \in Records : fields[i] \in {Unentered(i), fields'[i]}
<1> USE DEF StoreIInv, StoreInv
<1>1. /\ entered \in 0..3 /\ entered' = entered + 1
      /\ fields \in [Records -> Texts] /\ boots \in 1..MaxBoots
    BY DEF EnterField, StoreTypes
<1>2. PICK text \in Enterable(entered + 1) : fields' = [fields EXCEPT ![entered + 1] = text]
    BY DEF EnterField
<1>3. text \in Texts
    BY <1>1, <1>2, TextTypes DEF Enterable
<1>4. entered + 1 \in Records
    BY <1>1 DEF Records
<1>5. \A i \in Records : i # entered + 1 => fields'[i] = fields[i]
    BY <1>1, <1>2, <1>4
<1>6. \A n \in 0..entered : SetOf(n)' = SetOf(n)
    <2>1. ASSUME NEW n \in 0..entered, NEW i \in Records, i <= n
          PROVE  i # entered + 1
        BY <1>1, <2>1 DEF Records
    <2> QED BY <1>5, <2>1 DEF SetOf
<1>7. EnteredFirst'
    <2>1. ASSUME NEW i \in Records, i > entered + 1
          PROVE  i # entered + 1 /\ i > entered
        BY <1>1, <2>1 DEF Records
    <2> QED BY <1>1, <1>5, <2>1 DEF EnteredFirst
<1>8. \A i \in Records : fields[i] \in {Unentered(i), fields'[i]}
    <2>1. fields[entered + 1] = Unentered(entered + 1)
        BY <1>1, <1>4 DEF EnteredFirst
    <2> QED BY <1>5, <2>1
<1> QED BY <1>1, <1>2, <1>3, <1>4, <1>6, <1>7, <1>8

LEMMA StepMenuEvent == ASSUME StoreIInv, MenuEvent PROVE StoreIInv'
<1> USE DEF StoreIInv, StoreInv
<1>1. /\ at = "event" /\ at' = "connect"
      /\ UNCHANGED <<eeprom, boots, record, creds, connectNow, manager>>
    BY DEF MenuEvent
<1>2. request' \in BOOLEAN
    BY Zenon DEF MenuEvent, EnterField, menuVars, StoreTypes
<1>3. /\ fields' \in [Records -> Texts] /\ entered' \in 0..4
      /\ \A n \in 0..entered : SetOf(n)' = SetOf(n) /\ n \in 0..entered'
      /\ EnteredFirst'
      /\ \A i \in Records : fields[i] \in {Unentered(i), fields'[i]}
    <2>1. entered \in 0..4 /\ fields \in [Records -> Texts]
        BY DEF StoreTypes
    <2>2. CASE EnterField
        BY <2>1, <2>2, FieldEntered
    <2>3. CASE ~EnterField
        <3>1. fields' = fields /\ entered' = entered
            BY <2>3 DEF MenuEvent, menuVars
        <3> QED BY <2>1, <3>1, SetsStay
    <2> QED BY <2>2, <2>3
<1>4. StoreTypes'
    BY <1>1, <1>2, <1>3 DEF StoreTypes, Places
<1>5. ConnectsAsEntered'
    BY <1>1, <1>3 DEF ConnectsAsEntered
<1>6. NothingOldStored'
    <2>1. \A i \in Records : IsStored(i)'
        BY <1>1 DEF NothingOldStored, IsStored
    <2>2. \A i \in Records : (eeprom[i] \in {Nothing, Unentered(i), fields[i]})'
        BY <1>1, <1>3 DEF NothingOldStored
    <2> QED BY <1>1, <2>1, <2>2 DEF NothingOldStored
<1>7. ErasedSoFar' /\ Booting' /\ Requested'
    BY <1>1, <1>3 DEF ErasedSoFar, Booting, Requested
<1> QED BY <1>3, <1>4, <1>5, <1>6, <1>7

LEMMA StepPowerFailure == ASSUME StoreIInv, PowerFailure PROVE StoreIInv'
<1> USE DEF StoreIInv, StoreInv
<1>1. /\ boots < MaxBoots /\ boots' = boots + 1
      /\ at' = "erase" /\ record' = 1 /\ creds' = NoCreds /\ connectNow' = FALSE
      /\ manager' = NoManager /\ fields' = NoFields /\ entered' = 0 /\ request' = FALSE
    BY DEF PowerFailure
<1>2. StoreTypes'
    <2>1. eeprom' \in [Records -> Texts]
        BY TextTypes DEF PowerFailure, StoreTypes
    <2>2. creds' \in [Records -> Texts] /\ fields' \in [Records -> Texts]
        BY <1>1, TextTypes DEF NoCreds, NoFields
    <2>3. boots' \in 1..MaxBoots /\ record' \in Records /\ entered' \in 0..4
        BY <1>1, BootsAssumption DEF StoreTypes, Records
    <2> QED BY <1>1, <2>1, <2>2, <2>3 DEF StoreTypes, Places
<1>3. ConnectsAsEntered' /\ NothingOldStored'
    BY <1>1 DEF ConnectsAsEntered, NothingOldStored
<1>4. ErasedSoFar' /\ Booting' /\ Requested' /\ EnteredFirst'
    BY <1>1, NoneBeforeFirst DEF ErasedSoFar, Booting, Requested, EnteredFirst, NoFields
<1> QED BY <1>2, <1>3, <1>4

LEMMA StoreSteps == StoreIInv /\ [Next]_vars => StoreIInv'
<1> SUFFICES ASSUME StoreIInv, [Next]_vars PROVE StoreIInv'
    OBVIOUS
<1>1. CASE UNCHANGED vars
    <2>1. UNCHANGED <<eeprom, boots, at, record, creds, connectNow, manager,
                      fields, entered, request>>
        BY <1>1 DEF vars, mainVars, menuVars
    <2>2. StoreTypes' /\ NothingOldStored'
        BY <2>1 DEF StoreIInv, StoreInv, StoreTypes, NothingOldStored, IsStored
    <2>3. ConnectsAsEntered' /\ Requested' /\ EnteredFirst'
        BY <2>1, SetsStay DEF StoreIInv, StoreInv, ConnectsAsEntered, Requested
    <2>4. ErasedSoFar' /\ Booting'
        BY <2>1 DEF StoreIInv, ErasedSoFar, Booting
    <2> QED BY <2>2, <2>3, <2>4 DEF StoreIInv, StoreInv
<1>2. CASE Main
    BY <1>2, StepEraseRecord, StepReadAll, StepConnect, StepTakeRequest, StepStoreRecord,
       StepMenuEvent DEF Main
<1>3. CASE PowerFailure
    BY <1>3, StepPowerFailure
<1> QED BY <1>1, <1>2, <1>3 DEF Next

\* Power may fail before, between and in the middle of the writes of any
\* number of boots, and any field the menu lets be empty may be so: what is
\* connected with is a set that stood in the menu since this boot, and each
\* record the loop leaves behind holds what was taken of that set, but for the
\* blank of an earlier request under an empty text (main.cpp:74-88, 151-157,
\* 177-188; eeprom.cpp:125).
THEOREM StoreKeepsOneSet == Spec => []StoreInv
<1>1. StoreIInv => StoreInv
    BY DEF StoreIInv
<1> QED BY <1>1, StoreStarts, StoreSteps, PTL DEF Spec
-----------------------------------------------------------------------------
(* InterruptHandler: the selection moves only as often as a turn was let   *)
(* through, the unsigned difference of two readings of a clock that wraps  *)
(* debounces, and the statements of the loop and the callback implement    *)
(* FrontPanel's one-step polls.                                            *)

\* The loop is about to clear a flag only after it found it up, and nothing
\* else clears it.
FlagUp ==
    /\ place = "clear" => rotaryturned
    /\ place = "clearButton" => "rotP" \in pressed

\* While the last edge is recent the clock difference is the true time; only
\* after that may a whole turn of the clock hide in it.
RecentIsTrue == since <= PressGap => Elapsed = since

HandlerIInv == HandlerInv /\ FlagUp /\ RecentIsTrue

\* Unsigned subtraction on a clock of w ticks, for every w.
LEMMA ClockDifference ==
    ASSUME NEW w \in Nat, NEW a \in 0..(w - 1), NEW b \in 0..(w - 1)
    PROVE  (a - b) % w = IF b <= a THEN a - b ELSE a - b + w
<1>1. w > 0
    OBVIOUS
<1>2. CASE b <= a
    BY <1>1, <1>2
<1>3. CASE a < b
    <2>1. (a - b + w) % w = a - b + w
        BY <1>1, <1>3
    <2> QED BY <1>1, <1>3, <2>1
<1> QED BY <1>2, <1>3

LEMMA ClockStep ==
    ASSUME NEW w \in Nat, NEW a \in 0..(w - 1)
    PROVE  (a + 1) % w = IF a + 1 < w THEN a + 1 ELSE 0
<1>1. CASE a + 1 < w
    BY <1>1
<1>2. CASE a + 1 = w
    BY <1>2
<1> QED BY <1>1, <1>2

LEMMA Clock ==
    /\ ClockWrap \in Nat /\ TurnGap \in Nat /\ PressGap \in Nat /\ MaxSince \in Nat
    /\ TurnGap < PressGap /\ PressGap < ClockWrap /\ PressGap < MaxSince
BY DebounceAssumption

\* At the start no edge has been let through.
LEMMA HandlerStarts == HandlerInit => HandlerIInv
<1> SUFFICES ASSUME HandlerInit PROVE HandlerIInv
    OBVIOUS
<1>1. HandlerTypeOK
    <2>1. rotaryturned \in BOOLEAN
        BY Zenon DEF HandlerInit
    <2>2. since \in 0..MaxSince
        BY Clock DEF HandlerInit
    <2> QED BY <2>1, <2>2 DEF HandlerInit, HandlerTypeOK, Panel!Clicks, HandlerPlaces
<1>2. ScrollsWereTurns /\ FlagUp
    BY DEF HandlerInit, ScrollsWereTurns, FlagUp
<1>3. RecentIsTrue
    BY Clock, ClockDifference DEF HandlerInit, RecentIsTrue, Elapsed
<1> QED BY <1>1, <1>2, <1>3 DEF HandlerIInv, HandlerInv

\* A tick moves the clock and the true time alike, until the true time is no
\* longer told.
LEMMA StepTick == ASSUME HandlerIInv, Tick PROVE HandlerIInv'
<1> USE DEF HandlerIInv, HandlerInv
<1>1. /\ now \in 0..(ClockWrap - 1) /\ timestamp \in 0..(ClockWrap - 1)
      /\ since \in 0..MaxSince /\ timestamp' = timestamp
      /\ now' = (now + 1) % ClockWrap
      /\ since' = IF since < MaxSince THEN since + 1 ELSE since
    BY DEF HandlerTypeOK, Tick
<1>2. now' = IF now + 1 < ClockWrap THEN now + 1 ELSE 0
    BY <1>1, Clock, ClockStep
<1>3. now' \in 0..(ClockWrap - 1) /\ since' \in 0..MaxSince
    BY <1>1, <1>2, Clock
<1>4. HandlerTypeOK'
    <2>1. rotaryturned' \in BOOLEAN
        BY Zenon DEF Tick, HandlerTypeOK
    <2>2. /\ count' \in Panel!Clicks /\ pressed' \in SUBSET Operable /\ place' \in HandlerPlaces
          /\ menuRot' \in 0..3 /\ highlight' \in 0..3 /\ owed' \in Int
        BY DEF Tick, HandlerTypeOK
    <2> QED BY <1>1, <1>3, <2>1, <2>2 DEF HandlerTypeOK
<1>5. ScrollsWereTurns' /\ FlagUp'
    BY DEF Tick, ScrollsWereTurns, FlagUp
<1>6. RecentIsTrue'
    <2>1. SUFFICES ASSUME since' <= PressGap PROVE Elapsed' = since'
        BY DEF RecentIsTrue
    <2>2. since' = since + 1 /\ since <= PressGap /\ since + 1 < ClockWrap
        BY <1>1, <2>1, Clock
    <2>3. Elapsed = since
        BY <2>2 DEF RecentIsTrue
    <2>4. Elapsed = IF timestamp <= now THEN now - timestamp
                    ELSE now - timestamp + ClockWrap
        BY <1>1, Clock, ClockDifference DEF Elapsed
    <2>5. Elapsed' = IF timestamp <= now' THEN now' - timestamp
                     ELSE now' - timestamp + ClockWrap
        BY <1>1, <1>3, Clock, ClockDifference DEF Elapsed
    <2> QED BY <1>1, <1>2, <2>2, <2>3, <2>4, <2>5, Clock
<1> QED BY <1>3, <1>4, <1>5, <1>6

\* An edge that is let through starts the count of the true time again.
LEMMA Restarts ==
    ASSUME HandlerTypeOK, NEW gap \in Nat, LetThrough(gap), now' = now
    PROVE  /\ timestamp' \in 0..(ClockWrap - 1) /\ since' \in 0..MaxSince
           /\ RecentIsTrue'
<1>1. timestamp' = now /\ since' = 0 /\ now \in 0..(ClockWrap - 1)
    BY DEF LetThrough, HandlerTypeOK
<1>2. Elapsed' = 0
    BY <1>1, Clock, ClockDifference DEF Elapsed
<1> QED BY <1>1, <1>2, Clock DEF RecentIsTrue

LEMMA StepTurnEdge == ASSUME HandlerIInv, NEW d \in Panel!Clicks, TurnEdge(d) PROVE HandlerIInv'
<1> USE DEF HandlerIInv, HandlerInv
<1>1. /\ LetThrough(TurnGap) /\ rotaryturned' = TRUE /\ count' = d /\ owed' = owed + 1
      /\ UNCHANGED <<now, pressed, place, menuRot, highlight>>
    BY DEF TurnEdge
<1>2. /\ timestamp' \in 0..(ClockWrap - 1) /\ since' \in 0..MaxSince
      /\ RecentIsTrue'
    BY <1>1, Clock, Restarts
<1>3. HandlerTypeOK'
    BY <1>1, <1>2 DEF HandlerTypeOK
<1>4. ScrollsWereTurns'
    BY <1>1 DEF ScrollsWereTurns, HandlerTypeOK
<1>5. FlagUp'
    BY <1>1 DEF FlagUp
<1> QED BY <1>2, <1>3, <1>4, <1>5

LEMMA StepPressEdge == ASSUME HandlerIInv, NEW b \in Operable, PressEdge(b) PROVE HandlerIInv'
<1> USE DEF HandlerIInv, HandlerInv
<1>1. /\ LetThrough(PressGap) /\ pressed' = pressed \cup {b}
      /\ UNCHANGED <<now, rotaryturned, count, place, menuRot, highlight, owed>>
    BY DEF PressEdge
<1>2. /\ timestamp' \in 0..(ClockWrap - 1) /\ since' \in 0..MaxSince
      /\ RecentIsTrue'
    BY <1>1, Clock, Restarts
<1>3. HandlerTypeOK'
    <2>1. rotaryturned' \in BOOLEAN
        BY <1>1, Zenon DEF HandlerTypeOK
    <2>2. pressed' \in SUBSET Operable
        BY <1>1 DEF HandlerTypeOK
    <2> QED BY <1>1, <1>2, <2>1, <2>2 DEF HandlerTypeOK
<1>4. ScrollsWereTurns' /\ FlagUp'
    BY <1>1 DEF ScrollsWereTurns, FlagUp
<1> QED BY <1>2, <1>3, <1>4

\* A statement of the loop takes no time and no timestamp.
LEMMA StepLoop == ASSUME HandlerIInv, Loop PROVE HandlerIInv'
<1> USE DEF HandlerIInv, HandlerInv
<1>1. UNCHANGED <<now, timestamp, since>>
    BY DEF Loop, TestTurn, ClearTurn, ReadCount, TestButton, ClearButton
<1>2. RecentIsTrue'
    BY <1>1 DEF RecentIsTrue, Elapsed
<1>3. rotaryturned' \in BOOLEAN
    BY Zenon DEF HandlerTypeOK, Loop, TestTurn, ClearTurn, Cleared, ReadCount,
                 TestButton, ClearButton
<1>4. count' = count /\ place' \in HandlerPlaces /\ pressed' \in SUBSET Operable
    BY DEF HandlerTypeOK, HandlerPlaces, Loop, TestTurn, ClearTurn, ReadCount, TestButton,
           ClearButton
<1>5. menuRot' \in 0..3 /\ highlight' \in 0..3 /\ owed' \in Int
    BY DEF HandlerTypeOK, WrapEntry, Panel!Clicks, Loop, TestTurn, ClearTurn, ReadCount,
           TestButton, ClearButton
<1>6. HandlerTypeOK'
    BY <1>1, <1>3, <1>4, <1>5 DEF HandlerTypeOK
<1>7. ScrollsWereTurns' /\ FlagUp'
    <2>1. CASE TestTurn
        BY <2>1 DEF TestTurn, ScrollsWereTurns, FlagUp
    <2>2. CASE ClearTurn
        BY <2>2 DEF ClearTurn, Cleared, ScrollsWereTurns, FlagUp
    <2>3. CASE ReadCount
        BY <2>3 DEF ReadCount, ScrollsWereTurns, FlagUp, HandlerTypeOK
    <2>4. CASE TestButton
        BY <2>4 DEF TestButton, ScrollsWereTurns, FlagUp
    <2>5. CASE ClearButton
        BY <2>5 DEF ClearButton, ScrollsWereTurns, FlagUp
    <2> QED BY <2>1, <2>2, <2>3, <2>4, <2>5 DEF Loop
<1> QED BY <1>2, <1>6, <1>7

LEMMA HandlerSteps == HandlerIInv /\ [HandlerNext]_handlerVars => HandlerIInv'
<1> SUFFICES ASSUME HandlerIInv, [HandlerNext]_handlerVars PROVE HandlerIInv'
    OBVIOUS
<1>1. CASE UNCHANGED handlerVars
    BY <1>1 DEF handlerVars, HandlerIInv, HandlerInv, HandlerTypeOK, ScrollsWereTurns, FlagUp,
                RecentIsTrue, Elapsed
<1>2. CASE Tick
    BY <1>2, StepTick
<1>3. CASE Callback
    BY <1>3, StepTurnEdge, StepPressEdge DEF Callback
<1>4. CASE Loop
    BY <1>4, StepLoop
<1> QED BY <1>1, <1>2, <1>3, <1>4 DEF HandlerNext

\* However often the callback interrupts the poll, the selection stays on an
\* entry of the menu and moves only as often as a turn was let through
\* (Interrupt_Handler.cpp:39, MenuHandler.cpp:136-147).
THEOREM ScrollsCounted == HandlerSpec => []HandlerInv
<1>1. HandlerIInv => HandlerInv
    BY DEF HandlerIInv
<1> QED BY <1>1, HandlerStarts, HandlerSteps, PTL DEF HandlerSpec

-----------------------------------------------------------------------------
(* The debounce.                                                           *)

\* A callback that finds a short time behind it lets nothing through.
LEMMA LateEnough ==
    ASSUME HandlerIInv, NEW gap \in Nat, gap <= PressGap, LetThrough(gap)
    PROVE  since > gap
<1>1. Elapsed > gap /\ since \in 0..MaxSince
    BY DEF LetThrough, HandlerIInv, HandlerInv, HandlerTypeOK
<1>2. SUFFICES ASSUME since <= gap PROVE FALSE
    BY <1>1, Clock
<1>3. Elapsed = since
    BY <1>1, <1>2, Clock DEF HandlerIInv, RecentIsTrue
<1> QED BY <1>1, <1>2, <1>3

\* No turn within 50 ms and no press within 500 ms of the last edge let
\* through, for every clock that is longer than the gaps
\* (Interrupt_Handler.cpp:26-27, 40-41).
THEOREM EdgesAreApart == HandlerSpec => Debounced
<1> DEFINE Apart == /\ owed' > owed => since > TurnGap
                    /\ pressed' \ pressed # {} => since > PressGap
<1>1. HandlerIInv /\ [HandlerNext]_handlerVars => [Apart]_handlerVars
    <2> SUFFICES ASSUME HandlerIInv, HandlerNext PROVE Apart
        BY DEF handlerVars
    <2>1. owed \in Int
        BY DEF HandlerIInv, HandlerInv, HandlerTypeOK
    <2>2. CASE Tick
        BY <2>1, <2>2 DEF Tick
    <2>3. CASE \E d \in Panel!Clicks : TurnEdge(d)
        <3>1. LetThrough(TurnGap) /\ UNCHANGED pressed
            BY <2>3 DEF TurnEdge
        <3> QED BY <3>1, Clock, LateEnough
    <2>4. CASE \E b \in Operable : PressEdge(b)
        <3>1. LetThrough(PressGap) /\ UNCHANGED owed
            BY <2>4 DEF PressEdge
        <3> QED BY <3>1, <2>1, Clock, LateEnough
    <2>5. CASE Loop
        BY <2>1, <2>5 DEF Loop, TestTurn, ClearTurn, ReadCount, TestButton, ClearButton
    <2> QED BY <2>2, <2>3, <2>4, <2>5 DEF HandlerNext, Callback
<1> QED BY <1>1, HandlerStarts, HandlerSteps, PTL DEF HandlerSpec, Debounced

-----------------------------------------------------------------------------
(* The refinement.  While the loop stands between clearing the flag and    *)
(* reading the count, the panel's turn is still to be found; the poll of   *)
(* the panel is ReadCount.                                                 *)

Rotary == [turned |-> rotaryturned \/ place = "count", count |-> count]

LEMMA FlagDown ==
    ASSUME NEW r \in [turned : BOOLEAN, count : Panel!Clicks]
    PROVE  [r EXCEPT !.turned = FALSE] = [turned |-> FALSE, count |-> r.count]
<1> DEFINE q == [r EXCEPT !.turned = FALSE]
<1>1. q \in [turned : BOOLEAN, count : Panel!Clicks]
    OBVIOUS
<1>2. q.turned = FALSE
    OBVIOUS
<1>3. q.count = r.count
    OBVIOUS
<1>4. q = [turned |-> q.turned, count |-> q.count]
    <2>1. \A p \in [turned : BOOLEAN, count : Panel!Clicks] :
              p = [turned |-> p.turned, count |-> p.count]
        OBVIOUS
    <2> HIDE DEF q
    <2> QED BY <1>1, <2>1
<1> HIDE DEF q
<1>5. q = [turned |-> FALSE, count |-> r.count]
    BY <1>2, <1>3, <1>4
<1> QED BY <1>5 DEF q

LEMMA InitPanel == HandlerInit => Panel!PanelInit
<1> SUFFICES ASSUME HandlerInit PROVE Panel!PanelInit
    OBVIOUS
<1>1. (rotaryturned \/ place = "count") = FALSE
    BY DEF HandlerInit
<1> QED BY <1>1 DEF HandlerInit, Panel!PanelInit

\* What the loop does between two statements of which the panel speaks.
LEMMA Unseen ==
    ASSUME HandlerIInv, (Tick \/ TestTurn \/ ClearTurn \/ TestButton) \/ UNCHANGED handlerVars
    PROVE  UNCHANGED <<Rotary, pressed, menuRot, highlight>>
<1>1. UNCHANGED <<count, pressed, menuRot, highlight>>
    BY DEF Tick, TestTurn, ClearTurn, TestButton, handlerVars
<1>2. (rotaryturned \/ place = "count")' = (rotaryturned \/ place = "count")
    <2>1. CASE TestTurn
        BY <2>1 DEF TestTurn
    <2>2. CASE ClearTurn
        BY <2>2 DEF ClearTurn, Cleared, HandlerIInv, FlagUp
    <2>3. CASE TestButton
        BY <2>3 DEF TestButton
    <2>4. CASE Tick \/ UNCHANGED handlerVars
        BY <2>4 DEF Tick, handlerVars
    <2> QED BY <2>1, <2>2, <2>3, <2>4
<1> QED BY <1>1, <1>2 DEF Rotary

LEMMA TurnIsPanelTurn ==
    ASSUME NEW d \in Panel!Clicks, TurnEdge(d)
    PROVE  Panel!TurnIsr(d)
<1>1. (rotaryturned \/ place = "count")' = TRUE /\ count' = d
    BY DEF TurnEdge
<1> QED BY <1>1 DEF TurnEdge, Panel!TurnIsr

LEMMA PressIsPanelPress ==
    ASSUME NEW b \in Operable, PressEdge(b)
    PROVE  Panel!PressIsr(b)
<1>1. (rotaryturned \/ place = "count")' = (rotaryturned \/ place = "count") /\ count' = count
    BY DEF PressEdge
<1> QED BY <1>1 DEF PressEdge, Panel!PressIsr

\* A flag that is up when the count is read was raised by a turn after the
\* clear: the panel's poll finds that turn's direction and leaves it up.
LEMMA ReadIsPoll == ASSUME HandlerIInv, ReadCount PROVE Panel!PollTurn
<1>1. /\ place = "count" /\ place' = "button" /\ menuRot' = WrapEntry(menuRot + count)
      /\ highlight' = menuRot' /\ UNCHANGED <<rotaryturned, count, pressed>>
    BY DEF ReadCount
<1>2. Rotary.turned /\ Rotary.count = count /\ count \in Panel!Clicks
    BY <1>1 DEF Rotary, HandlerIInv, HandlerInv, HandlerTypeOK
<1>3. Rotary' = [turned |-> rotaryturned, count |-> count]
    <2>1. (rotaryturned \/ place = "count")' = rotaryturned
        BY <1>1 DEF HandlerIInv, HandlerInv, HandlerTypeOK
    <2> QED BY <1>1, <2>1 DEF Rotary
<1> DEFINE t == [by |-> count, rotary |-> Rotary']
<1>4. t \in Panel!TurnsFound
    <2>1. CASE rotaryturned = TRUE
        BY <1>2, <1>3, <2>1 DEF Panel!TurnsFound, Rotary
    <2>2. CASE rotaryturned = FALSE
        <3>1. [Rotary EXCEPT !.turned = FALSE] = [turned |-> FALSE, count |-> count]
            <4>1. Rotary \in [turned : BOOLEAN, count : Panel!Clicks]
                BY <1>2, Zenon DEF Rotary
            <4> QED BY <1>2, <4>1, FlagDown
        <3>2. Rotary' = [turned |-> FALSE, count |-> count]
            BY <1>3, <2>2
        <3> QED BY <1>2, <3>1, <3>2 DEF Panel!TurnsFound, Rotary
    <2> QED BY <2>1, <2>2 DEF HandlerIInv, HandlerInv, HandlerTypeOK
<1>5. t.by # 0
    BY <1>2 DEF Panel!Clicks
<1>6. menuRot' = Panel!Scroll(t, 3) /\ highlight' = Panel!Shown(t, 3)
    BY <1>1, <1>5 DEF Panel!Scroll, Panel!Shown, Panel!Wrap, WrapEntry
<1> QED BY <1>1, <1>2, <1>4, <1>6 DEF Panel!PollTurn, Rotary

LEMMA ClearIsPoll ==
    ASSUME HandlerIInv, ClearButton
    PROVE  "rotP" \in Operable /\ Panel!PollPress("rotP")
<1>1. "rotP" \in pressed /\ "rotP" \in Operable
    BY DEF ClearButton, HandlerIInv, FlagUp, HandlerInv, HandlerTypeOK
<1>2. (rotaryturned \/ place = "count")' = (rotaryturned \/ place = "count") /\ count' = count
    BY DEF ClearButton
<1> QED BY <1>1, <1>2 DEF ClearButton, Panel!PollPress

\* The callback between any two statements of the loop does what an interrupt
\* between two one-step polls does: MenuHandler and the credential editor may
\* be read as polling FrontPanel (Interrupt_Handler.cpp:23-46,
\* MenuHandler.cpp:136-144).
THEOREM HandlerPolls == HandlerSpec => PollsThePanel
<1>1. HandlerIInv /\ [HandlerNext]_handlerVars
        => [Panel!PanelNext]_<<Rotary, pressed, "mainMenu", menuRot, highlight>>
    <2> SUFFICES ASSUME HandlerIInv, [HandlerNext]_handlerVars
                 PROVE  Panel!PanelNext \/ UNCHANGED <<Rotary, pressed, "mainMenu", menuRot, highlight>>
        OBVIOUS
    <2>1. CASE (Tick \/ TestTurn \/ ClearTurn \/ TestButton) \/ UNCHANGED handlerVars
        BY <2>1, Unseen
    <2>2. CASE Callback
        BY <2>2, TurnIsPanelTurn, PressIsPanelPress
           DEF Callback, Panel!PanelNext, Panel!PanelIsr
    <2>3. CASE ReadCount
        BY <2>3, ReadIsPoll DEF Panel!PanelNext
    <2>4. CASE ClearButton
        BY <2>4, ClearIsPoll DEF Panel!PanelNext
    <2> QED BY <2>1, <2>2, <2>3, <2>4 DEF HandlerNext, Loop
<1>2. HandlerIInv /\ [HandlerNext]_handlerVars => [Panel!PanelNext]_<<Panel!panelVars, Panel!screenVars>>
    BY <1>1 DEF Rotary, Panel!panelVars, Panel!screenVars
<1> QED BY <1>2, InitPanel, HandlerStarts, HandlerSteps, PTL DEF HandlerSpec, PollsThePanel, Panel!PanelSpec
=============================================================================
