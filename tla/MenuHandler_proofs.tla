-------------------------- MODULE MenuHandler_proofs --------------------------
(***************************************************************************)
(* Proofs about MenuHandler and the credential editor it contains, for     *)
(* every number of keys and every bound on the texts, every scale of       *)
(* speeds and pressures, every deadband and alarm limit, and with or       *)
(* without bus faults.                                                     *)
(***************************************************************************)
EXTENDS MenuHandler, TLAPS

(***************************************************************************)
(* The editor on its own (EditorSpec).                                     *)
(***************************************************************************)

editorAll == <<panelVars, screenVars, editorVars>>

\* What the event loop finds in the encoder's flags has the right type.
LEMMA TurnsFoundType ==
    ASSUME PanelTypeOK, NEW t \in TurnsFound
    PROVE  /\ t.by \in {-1, 0, 1}
           /\ t.rotary \in [turned : BOOLEAN, count : Clicks]
<1>1. CASE ~rotary.turned
    BY <1>1 DEF TurnsFound, PanelTypeOK
<1>2. CASE rotary.turned
    <2>1. CASE t = [by |-> rotary.count, rotary |-> [rotary EXCEPT !.turned = FALSE]]
        BY <2>1 DEF PanelTypeOK, Clicks
    <2>2. CASE \E d \in Clicks : t = [by |-> d, rotary |-> [turned |-> TRUE, count |-> d]]
        BY <2>2 DEF Clicks
    <2> QED BY <1>2, <2>1, <2>2 DEF TurnsFound
<1> QED BY <1>1, <1>2

\* Scrolling and its display stay within the natural numbers.
LEMMA ScrollType ==
    ASSUME PanelTypeOK, NEW t \in TurnsFound, NEW last \in Nat
    PROVE  Scroll(t, last) \in Nat /\ Shown(t, last) \in Nat
<1>1. t.by \in {-1, 0, 1} BY TurnsFoundType
<1>2. menuRot \in Nat /\ highlight \in Nat BY DEF PanelTypeOK
<1> QED BY <1>1, <1>2 DEF Scroll, Shown, Wrap

\* The save button stores in the first field of the order not entered yet.
LEMMA FieldToSaveIsFirst ==
    \/ FieldToSave = "nothing"
    \/ \E i \in 1..4 : /\ FieldToSave = FieldOrder[i]
                       /\ FieldOrder[i] \notin entered
                       /\ \A j \in 1..(i-1) : FieldOrder[j] \in entered
<1> DEFINE First(i) == FieldOrder[i] \notin entered
                       /\ \A j \in 1..(i-1) : FieldOrder[j] \in entered
<1>1. CASE \A i \in 1..4 : FieldOrder[i] \in entered
    BY <1>1 DEF FieldToSave, AllEntered
<1>2. CASE ~ \A i \in 1..4 : FieldOrder[i] \in entered
    <2>1. \E i \in 1..4 : First(i)
        <3>1. CASE FieldOrder[1] \notin entered
            <4>1. First(1) BY <3>1
            <4> QED BY <4>1
        <3>2. CASE FieldOrder[1] \in entered /\ FieldOrder[2] \notin entered
            <4>1. First(2)
                <5>1. \A j \in 1..(2-1) : j = 1 OBVIOUS
                <5> QED BY <3>2, <5>1
            <4> QED BY <4>1
        <3>3. CASE /\ FieldOrder[1] \in entered /\ FieldOrder[2] \in entered
                   /\ FieldOrder[3] \notin entered
            <4>1. First(3)
                <5>1. \A j \in 1..(3-1) : j = 1 \/ j = 2 OBVIOUS
                <5> QED BY <3>3, <5>1
            <4> QED BY <4>1
        <3>4. CASE /\ FieldOrder[1] \in entered /\ FieldOrder[2] \in entered
                   /\ FieldOrder[3] \in entered /\ FieldOrder[4] \notin entered
            <4>1. First(4)
                <5>1. \A j \in 1..(4-1) : j = 1 \/ j = 2 \/ j = 3 OBVIOUS
                <5> QED BY <3>4, <5>1
            <4> QED BY <4>1
        <3>5. \A i \in 1..4 : i = 1 \/ i = 2 \/ i = 3 \/ i = 4 OBVIOUS
        <3> HIDE DEF First
        <3> QED BY <1>2, <3>1, <3>2, <3>3, <3>4, <3>5
    <2> DEFINE i0 == CHOOSE i \in 1..4 : First(i)
    <2>2. i0 \in 1..4 /\ First(i0)
        <3> HIDE DEF First
        <3> QED BY <2>1
    <2>3. FieldToSave = FieldOrder[i0]
        BY <1>2 DEF FieldToSave, AllEntered, FirstFree
    <2> HIDE DEF i0
    <2> QED BY <2>2, <2>3
<1> QED BY <1>1, <1>2

\* ... which is a field.
LEMMA FieldToSaveType == FieldToSave \in Fields \cup {"nothing"}
BY FieldToSaveIsFirst DEF Fields

LEMMA FieldsAre == Fields = {"ssid", "password", "ip", "port"}
<1>1. \A i \in 1..4 : i = 1 \/ i = 2 \/ i = 3 \/ i = 4 OBVIOUS
<1>2. /\ FieldOrder[1] = "ssid" /\ FieldOrder[2] = "password"
      /\ FieldOrder[3] = "ip" /\ FieldOrder[4] = "port"
    BY DEF FieldOrder
<1> QED BY <1>1, <1>2 DEF Fields

(***************************************************************************)
(* Type correctness, one lemma per action of the editor: MenuHandler makes *)
(* the same steps.                                                         *)
(***************************************************************************)
LEMMA CredentialsMenuTypes ==
    ASSUME EditorTypes, CredentialsMenuStep
    PROVE  EditorTypes'
<1> USE DEF EditorTypes
<1>1. PICK t \in TurnsFound :
        /\ rotary' = t.rotary
        /\ pressed' = pressed \ {"rotP"}
        /\ menuRot' = Scroll(t, 2)
        /\ highlight' \in {0, Shown(t, 2)}
        /\ menu' \in {"enterCredentials", "wifiAndMqtt", menu}
        /\ key' \in {"up", key}
        /\ isWiFi' \in BOOLEAN
        /\ isMqtt' \in BOOLEAN
    BY Zenon DEF CredentialsMenuStep
<1>2. t.rotary \in [turned : BOOLEAN, count : Clicks] BY TurnsFoundType
<1>3. Scroll(t, 2) \in Nat /\ Shown(t, 2) \in Nat BY ScrollType
<1>4. PanelTypeOK' BY <1>1, <1>2, <1>3 DEF PanelTypeOK, Menus
<1>5. EditorTypeOK' BY <1>1 DEF EditorTypeOK, CredentialsMenuStep
<1> QED BY <1>4, <1>5

LEMMA PromptTypes ==
    ASSUME EditorTypes, Prompt
    PROVE  EditorTypes'
<1>1. PanelTypeOK' BY DEF EditorTypes, PanelTypeOK, Prompt, panelVars
<1>2. asked' \in Fields \cup {"nothing"}
    <2>1. FirstMissing(<<"ssid", "password">>) \in Fields \cup {"nothing"}
        BY FieldsAre DEF FirstMissing
    <2>2. FirstMissing(<<"ip", "port">>) \in Fields \cup {"nothing"}
        BY FieldsAre DEF FirstMissing
    <2> QED BY <2>1, <2>2 DEF Prompt, Asks
<1>3. EditorTypeOK' BY <1>2 DEF EditorTypes, EditorTypeOK, Prompt, Keyboards
<1> QED BY <1>1, <1>3 DEF EditorTypes

\* What one pass over the keyboard screen does to the text, by name.
LEMMA EnterTextEffect ==
    ASSUME EditorTypes, KeyAssumption, EnterText
    PROVE  \E field \in Fields \cup {"nothing"}, left \in 0..MaxTyped :
             /\ field \in {"nothing", FieldToSave}
             /\ typed' \in {0, left}
             /\ shown' \in {left, shown, typed, typed + 1} /\ shown' \in 0..MaxTyped
             /\ field = "nothing" =>
                   typed' = left /\ (shown' = left \/ (left = typed /\ shown' = shown))
             /\ field # "nothing" =>
                   typed' = 0 /\ shown' = left /\ (left > 0 \/ (typed = 0 /\ shown > 0))
             /\ saved' = [f \in Fields |-> IF f = field THEN left ELSE saved[f]]
             /\ entered' = IF field # "nothing" THEN entered \cup {field} ELSE entered
             /\ key' = IF field \in {"ssid", "ip"} THEN "up" ELSE key
             /\ isWiFi' = (isWiFi /\ field # "password")
             /\ isMqtt' = (isMqtt /\ field # "port")
             /\ menu' = IF field \in {"password", "port"} THEN "CredentialsMenu" ELSE menu
<1> DEFINE pushed  == IF "rotP" \in pressed THEN typed + 1 ELSE typed
           erases  == "sw1" \in pressed /\ pushed > 0
           left    == IF erases THEN pushed - 1 ELSE pushed
           display == IF erases THEN left
                      ELSE IF "rotP" \in pressed THEN pushed ELSE shown
           saves   == "sw0" \in pressed /\ display > 0
           field   == IF saves THEN FieldToSave ELSE "nothing"
<1>1. typed \in 0..MaxTyped /\ shown \in 0..MaxTyped /\ MaxTyped \in Nat
    BY DEF EditorTypes, EditorTypeOK, KeyAssumption
<1>2. /\ pushed <= MaxTyped
      /\ typed' = IF field # "nothing" THEN 0 ELSE left
      /\ shown' = IF saves THEN left ELSE display
      /\ saved' = [f \in Fields |-> IF f = field THEN left ELSE saved[f]]
      /\ entered' = IF field # "nothing" THEN entered \cup {field} ELSE entered
      /\ key' = IF field \in {"ssid", "ip"} THEN "up" ELSE key
      /\ isWiFi' = (isWiFi /\ field # "password")
      /\ isMqtt' = (isMqtt /\ field # "port")
      /\ menu' = IF field \in {"password", "port"} THEN "CredentialsMenu" ELSE menu
    BY DEF EnterText, ShownAfterSave
<1>3. pushed \in 0..MaxTyped /\ left \in 0..MaxTyped /\ display \in 0..MaxTyped
    BY <1>1, <1>2
<1>4. field \in Fields \cup {"nothing"} /\ field \in {"nothing", FieldToSave}
    BY FieldToSaveType
<1>5. shown' \in {left, shown, typed, typed + 1} /\ shown' \in 0..MaxTyped
    BY <1>2, <1>3
<1>6. typed' \in {0, left} BY <1>2
<1>7. field = "nothing" => typed' = left /\ (shown' = left \/ (left = typed /\ shown' = shown))
    <2>1. display = left \/ (left = typed /\ display = shown)
        BY <1>1
    <2>2. shown' \in {left, display}
        BY <1>2
    <2> HIDE DEF field, left, display
    <2> QED BY <1>2, <2>1, <2>2
<1>8. field # "nothing" => typed' = 0 /\ shown' = left /\ (left > 0 \/ (typed = 0 /\ shown > 0))
    <2>1. field # "nothing" => saves
        OBVIOUS
    <2>2. saves /\ ~(left > 0) => typed = 0 /\ shown > 0
        BY <1>1, <1>3
    <2>3. saves => shown' = left
        BY <1>2
    <2>4. left \in 0..MaxTyped
        BY <1>3
    <2> HIDE DEF field, left, saves
    <2> QED BY <1>1, <1>2, <2>1, <2>2, <2>3, <2>4
<1> HIDE DEF field, left
<1> QED BY <1>2, <1>3, <1>4, <1>5, <1>6, <1>7, <1>8

LEMMA EnterTextTypes ==
    ASSUME EditorTypes, KeyAssumption, EnterText
    PROVE  EditorTypes'
<1>1. PICK field \in Fields \cup {"nothing"}, left \in 0..MaxTyped :
         /\ typed' \in {0, left}
         /\ shown' \in 0..MaxTyped
         /\ saved' = [f \in Fields |-> IF f = field THEN left ELSE saved[f]]
         /\ entered' = IF field # "nothing" THEN entered \cup {field} ELSE entered
         /\ key' = IF field \in {"ssid", "ip"} THEN "up" ELSE key
         /\ isWiFi' = (isWiFi /\ field # "password")
         /\ isMqtt' = (isMqtt /\ field # "port")
         /\ menu' = IF field \in {"password", "port"} THEN "CredentialsMenu" ELSE menu
    BY EnterTextEffect
<1>2. asked' = asked /\ keyboard' \in Keyboards
    BY DEF EnterText, EditorTypes, EditorTypeOK, NextKeyboard, Keyboards
<1>3. EditorTypeOK'
    BY <1>1, <1>2 DEF EditorTypes, EditorTypeOK, KeyAssumption
<1>4. PanelTypeOK'
    <2>1. KeyCount(keyboard') - 1 \in Nat
        BY DEF KeyCount, KeyAssumption
    <2>2. PICK t \in TurnsFound :
            /\ rotary' = t.rotary
            /\ menuRot' = Scroll(t, KeyCount(keyboard') - 1)
            /\ highlight' \in {0, menuRot', Shown(t, KeyCount(keyboard') - 1)}
        BY DEF EnterText
    <2>3. t.rotary \in [turned : BOOLEAN, count : Clicks]
        BY TurnsFoundType DEF EditorTypes
    <2>4. menuRot' \in Nat /\ highlight' \in Nat
        BY <2>1, <2>2, ScrollType DEF EditorTypes
    <2>5. menu' \in Menus /\ pressed' = {}
        BY <1>1 DEF EnterText, EditorTypes, PanelTypeOK, Menus
    <2> QED BY <2>2, <2>3, <2>4, <2>5 DEF PanelTypeOK
<1> QED BY <1>3, <1>4 DEF EditorTypes

LEMMA PanelIsrTypes ==
    ASSUME PanelTypeOK, OperableAssumption, PanelIsr
    PROVE  PanelTypeOK'
<1>1. CASE \E d \in Clicks : TurnIsr(d)
    BY <1>1 DEF PanelTypeOK, TurnIsr
<1>2. CASE \E b \in Operable : PressIsr(b)
    <2>1. PICK b \in Operable : PressIsr(b) BY <1>2
    <2>2. b \in Buttons BY DEF OperableAssumption
    <2> QED BY <2>1, <2>2 DEF PanelTypeOK, PressIsr
<1> QED BY <1>1, <1>2 DEF PanelIsr

(***************************************************************************)
(* The order in which the fields are entered, and the answer to a prompt.  *)
(***************************************************************************)
\* A save keeps the order, by FieldToSaveIsFirst; nothing else enters a field.
LEMMA EnterTextInOrder ==
    ASSUME EditorTypes, KeyAssumption, EnteredInOrder, EnterText
    PROVE  EnteredInOrder'
<1>1. PICK field \in {"nothing", FieldToSave} :
        entered' = IF field # "nothing" THEN entered \cup {field} ELSE entered
    BY EnterTextEffect
<1>2. CASE field = "nothing"
    BY <1>1, <1>2 DEF EnteredInOrder
<1>3. CASE field # "nothing"
    <2>1. PICK k \in 1..4 : /\ field = FieldOrder[k]
                            /\ \A j \in 1..(k-1) : FieldOrder[j] \in entered
        BY <1>1, <1>3, FieldToSaveIsFirst
    <2>2. entered' = entered \cup {FieldOrder[k]} BY <1>1, <1>3, <2>1
    <2>3. SUFFICES ASSUME NEW i \in 1..4, NEW j \in 1..4, i < j, FieldOrder[j] \in entered'
                   PROVE  FieldOrder[i] \in entered'
        BY DEF EnteredInOrder
    <2>4. CASE FieldOrder[j] \in entered
        BY <2>2, <2>3, <2>4 DEF EnteredInOrder
    <2>5. CASE FieldOrder[j] = FieldOrder[k]
        <3>1. j = k BY <2>5 DEF FieldOrder
        <3>2. i \in 1..(k-1) BY <2>3, <3>1
        <3> QED BY <2>1, <2>2, <3>2
    <2> QED BY <2>2, <2>3, <2>4, <2>5
<1> QED BY <1>1, <1>2, <1>3

\* What was asked is current: with the keyboard on the screen during the
\* Wi-Fi entry, the prompt named the first Wi-Fi field still missing.
PromptCurrent ==
    menu = "enterCredentials" /\ key = "down" /\ isWiFi /\ asked # "nothing"
        => asked = FirstMissing(<<"ssid", "password">>)

EditorInv == EditorTypes /\ EnteredInOrder /\ PromptCurrent

\* The last field entered is the k-th.
LastIs(k) ==
    /\ FieldOrder[k] \in entered
    /\ \A j \in 1..4 : FieldOrder[j] \in entered => j <= k

\* The text shown is the one typed, or nothing is typed and it is the one saved
\* last.
ShownTypedOrSaved ==
    \/ shown = typed
    \/ typed = 0 /\ \E k \in 1..4 : LastIs(k) /\ saved[FieldOrder[k]] > 0

TextsInv == EmptyFollowsText /\ ShownTypedOrSaved

LEMMA EditorInitInv == EditorStart => EditorInv
<1> SUFFICES ASSUME menu = "CredentialsMenu", PanelInit, EditorInit PROVE EditorInv
    BY DEF EditorStart
<1>1. PanelTypeOK BY DEF PanelInit, PanelTypeOK, Clicks, Menus
<1>2. EditorTypeOK
    <2>1. 0 \in 0..MaxTyped BY KeyAssumption DEF KeyAssumption
    <2>2. saved \in [Fields -> 0..MaxTyped] BY <2>1 DEF EditorInit
    <2> QED BY <2>1, <2>2 DEF EditorInit, EditorTypeOK, Keyboards
<1>3. EnteredInOrder BY DEF EditorInit, EnteredInOrder
<1>4. PromptCurrent BY DEF PromptCurrent
<1> QED BY <1>1, <1>2, <1>3, <1>4 DEF EditorInv, EditorTypes

LEMMA EditorNextInv == EditorInv /\ [EditorNext]_editorAll => EditorInv'
<1> SUFFICES ASSUME EditorInv, [EditorNext]_editorAll PROVE EditorInv'
    OBVIOUS
<1> USE DEF EditorInv
<1>1. CASE CredentialsMenuStep
    <2>1. EditorTypes' BY <1>1, CredentialsMenuTypes
    <2>2. EnteredInOrder' BY <1>1 DEF CredentialsMenuStep, EnteredInOrder
    <2>3. menu' = "enterCredentials" => key' = "up" BY <1>1 DEF CredentialsMenuStep
    <2>4. PromptCurrent' BY <2>3 DEF PromptCurrent
    <2> QED BY <2>1, <2>2, <2>4
<1>2. CASE Prompt
    <2>1. EditorTypes' BY <1>2, PromptTypes
    <2>2. entered' = entered BY <1>2 DEF Prompt
    <2>3. isWiFi => asked' = FirstMissing(<<"ssid", "password">>) /\ isWiFi' = isWiFi
        BY <1>2 DEF Prompt, Asks
    <2>4. isWiFi' = isWiFi BY <1>2 DEF Prompt
    <2>5. EnteredInOrder' BY <2>2 DEF EnteredInOrder
    <2>6. PromptCurrent' BY <2>2, <2>3, <2>4 DEF PromptCurrent, FirstMissing
    <2> QED BY <2>1, <2>5, <2>6
<1>3. CASE EnterText
    <2>1. EditorTypes' BY <1>3, KeyAssumption, EnterTextTypes
    <2>2. EnteredInOrder' BY <1>3, KeyAssumption, EnterTextInOrder
    <2>3. PromptCurrent'
        <3>1. PICK field \in {"nothing", FieldToSave} :
                /\ entered' = IF field # "nothing" THEN entered \cup {field} ELSE entered
                /\ key' = IF field \in {"ssid", "ip"} THEN "up" ELSE key
                /\ isWiFi' = (isWiFi /\ field # "password")
                /\ menu' = IF field \in {"password", "port"} THEN "CredentialsMenu" ELSE menu
            BY <1>3, KeyAssumption, EnterTextEffect
        <3>2. asked' = asked /\ key = "down" /\ menu = "enterCredentials"
            BY <1>3 DEF EnterText
        <3>3. field \in Fields \cup {"nothing"} BY FieldToSaveType
        <3>4. CASE field = "nothing"
            BY <3>1, <3>2, <3>4 DEF PromptCurrent, FirstMissing
        <3>5. CASE field \in {"ssid", "ip"}
            BY <3>1, <3>5 DEF PromptCurrent
        <3>6. CASE field \in {"password", "port"}
            BY <3>1, <3>6 DEF PromptCurrent
        <3> QED BY <3>3, <3>4, <3>5, <3>6, FieldsAre
    <2> QED BY <2>1, <2>2, <2>3
<1>4. CASE Interrupted
    BY <1>4 DEF Interrupted, EditorTypes, PanelTypeOK, EditorTypeOK, EnteredInOrder,
                PromptCurrent, panelVars, editorVars, Menus
<1>5. CASE Reopened
    BY <1>5 DEF Reopened, EditorTypes, PanelTypeOK, EditorTypeOK, EnteredInOrder,
                PromptCurrent, editorVars, Menus
<1>6. CASE PanelIsr /\ UNCHANGED editorVars
    <2>1. PanelTypeOK' BY <1>6, OperableAssumption, PanelIsrTypes DEF EditorTypes
    <2>2. EditorTypeOK' BY <1>6 DEF EditorTypes, EditorTypeOK, editorVars
    <2>3. menu' = menu BY <1>6 DEF PanelIsr, TurnIsr, PressIsr
    <2>4. EnteredInOrder' /\ PromptCurrent'
        BY <1>6, <2>3 DEF EnteredInOrder, PromptCurrent, FirstMissing, editorVars
    <2> QED BY <2>1, <2>2, <2>4 DEF EditorTypes
<1>7. CASE UNCHANGED editorAll
    BY <1>7 DEF editorAll, panelVars, screenVars, editorVars, EditorTypes, PanelTypeOK,
                EditorTypeOK, EnteredInOrder, PromptCurrent, FirstMissing
<1> QED BY <1>1, <1>2, <1>3, <1>4, <1>5, <1>6, <1>7 DEF EditorNext, EditorStep

\* An empty text is saved only while the one saved before is still shown.
LEMMA EnterTextFollows ==
    ASSUME EditorInv, TextsInv, EnterText
    PROVE  TextsInv'
<1> USE DEF EditorInv, TextsInv
<1>1. PICK field \in {"nothing", FieldToSave}, left \in 0..MaxTyped :
        /\ field = "nothing" =>
              typed' = left /\ (shown' = left \/ (left = typed /\ shown' = shown))
        /\ field # "nothing" =>
              typed' = 0 /\ shown' = left /\ (left > 0 \/ (typed = 0 /\ shown > 0))
        /\ saved' = [f \in Fields |-> IF f = field THEN left ELSE saved[f]]
        /\ entered' = IF field # "nothing" THEN entered \cup {field} ELSE entered
    BY KeyAssumption, EnterTextEffect
<1>2. \A i \in 1..4 : FieldOrder[i] \in Fields
    BY DEF Fields
<1>3. saved \in [Fields -> Nat]
    BY KeyAssumption DEF EditorTypes, EditorTypeOK, KeyAssumption
<1>4. CASE field = "nothing"
    <2>1. saved' = saved /\ entered' = entered
        BY <1>1, <1>3, <1>4, FieldsAre
    <2>2. \/ shown' = typed'
          \/ typed' = typed /\ shown' = shown
        BY <1>1, <1>4
    <2>3. EmptyFollowsText'
        BY <2>1 DEF EmptyFollowsText
    <2>4. ShownTypedOrSaved'
        BY <2>1, <2>2 DEF ShownTypedOrSaved, LastIs
    <2> QED BY <2>3, <2>4
<1>5. CASE field # "nothing"
    <2>1. PICK k \in 1..4 : /\ field = FieldOrder[k] /\ FieldOrder[k] \notin entered
                            /\ \A j \in 1..(k-1) : FieldOrder[j] \in entered
        BY <1>1, <1>5, FieldToSaveIsFirst
    <2>2. \A i \in 1..4 : FieldOrder[i] = FieldOrder[k] => i = k
        BY DEF FieldOrder
    <2>3. /\ saved'[FieldOrder[k]] = left
          /\ \A i \in 1..4 : i # k => saved'[FieldOrder[i]] = saved[FieldOrder[i]]
        BY <1>1, <1>2, <2>1, <2>2
    <2>4. entered' = entered \cup {FieldOrder[k]}
        BY <1>1, <1>5, <2>1
    <2>5. \A i \in 1..4 : FieldOrder[i] \in entered => i < k
        BY <2>1 DEF EnteredInOrder
    <2>6. LastIs(k)'
        BY <2>2, <2>4, <2>5 DEF LastIs
    <2>7. left > 0 \/ (k > 1 /\ saved[FieldOrder[k - 1]] > 0)
        <3>1. SUFFICES ASSUME ~(left > 0) PROVE k > 1 /\ saved[FieldOrder[k - 1]] > 0
            OBVIOUS
        <3>2. PICK m \in 1..4 : LastIs(m) /\ saved[FieldOrder[m]] > 0
            BY <1>1, <1>5, <3>1 DEF ShownTypedOrSaved
        <3>3. m < k
            BY <2>5, <3>2 DEF LastIs
        <3>4. k - 1 \in 1..(k-1) /\ k - 1 \in 1..4
            BY <3>3
        <3>5. k - 1 <= m
            BY <2>1, <3>2, <3>4 DEF LastIs
        <3>6. m = k - 1
            BY <3>3, <3>5
        <3> QED BY <3>2, <3>3, <3>6
    <2>8. EmptyFollowsText'
        <3>1. SUFFICES ASSUME NEW i \in 1..4, FieldOrder[i] \in entered',
                              saved'[FieldOrder[i]] = 0
                       PROVE  i > 1 /\ saved'[FieldOrder[i - 1]] > 0
            BY DEF EmptyFollowsText
        <3>2. CASE i = k
            <4>1. k > 1 /\ saved[FieldOrder[k - 1]] > 0
                BY <2>3, <2>7, <3>1, <3>2
            <4>2. k - 1 \in 1..4 /\ k - 1 # k
                BY <4>1
            <4> QED BY <2>3, <3>2, <4>1, <4>2
        <3>3. CASE i # k
            <4>1. FieldOrder[i] \in entered /\ saved[FieldOrder[i]] = 0
                BY <2>2, <2>3, <2>4, <3>1, <3>3
            <4>2. i > 1 /\ saved[FieldOrder[i - 1]] > 0 /\ i < k
                BY <2>5, <4>1 DEF EmptyFollowsText
            <4>3. i - 1 \in 1..4 /\ i - 1 # k
                BY <4>2
            <4> QED BY <2>3, <4>2, <4>3
        <3> QED BY <3>2, <3>3
    <2>9. ShownTypedOrSaved'
        <3>1. CASE left > 0
            BY <1>1, <1>5, <2>3, <2>6, <3>1 DEF ShownTypedOrSaved
        <3>2. CASE ~(left > 0)
            BY <1>1, <1>5, <3>2 DEF ShownTypedOrSaved
        <3> QED BY <3>1, <3>2
    <2> QED BY <2>8, <2>9
<1> QED BY <1>4, <1>5

LEMMA EditorInvariant == EditorSpec => []EditorInv
<1> SUFFICES /\ EditorStart => EditorInv
             /\ EditorInv /\ [EditorNext]_editorAll => EditorInv'
    BY PTL DEF EditorSpec, editorAll
<1> QED BY EditorInitInv, EditorNextInv

(***************************************************************************)
(* The theorems.                                                           *)
(***************************************************************************)
\* The fields are entered in the order ssid, password, ip, port, whatever the
\* number of keys and the length of the texts (MenuHandler.cpp:459-492).
LEMMA FieldsInOrder == EditorSpec => []EnteredInOrder
<1>1. EditorInv => EnteredInOrder BY DEF EditorInv
<1> QED BY EditorInvariant, <1>1, PTL

\* The first field is never empty and no two in a row are, whatever the length
\* of the texts and however often the operator erases, saves and comes back
\* (MenuHandler.cpp:444-492).
LEMMA NoTwoEmpty == EditorSpec => []EmptyFollowsText
<1>1. EditorStart => TextsInv
    BY DEF EditorStart, EditorInit, TextsInv, EmptyFollowsText, ShownTypedOrSaved
<1>2. EditorInv /\ TextsInv /\ [EditorNext]_editorAll => TextsInv'
    <2> SUFFICES ASSUME EditorInv, TextsInv, [EditorNext]_editorAll PROVE TextsInv'
        OBVIOUS
    <2>1. CASE EnterText
        BY <2>1, EnterTextFollows
    <2>2. CASE ~EnterText
        <3>1. UNCHANGED <<typed, shown, saved, entered>>
            BY <2>2 DEF EditorNext, EditorStep, CredentialsMenuStep, Prompt, Interrupted,
                        Reopened, editorVars, editorAll
        <3> QED BY <3>1 DEF TextsInv, EmptyFollowsText, ShownTypedOrSaved, LastIs
    <2> QED BY <2>1, <2>2
<1>3. TextsInv => EmptyFollowsText
    BY DEF TextsInv
<1> QED BY EditorInvariant, <1>1, <1>2, <1>3, PTL DEF EditorSpec, editorAll

\* What is entered is a prefix of a configuration, without an empty field but
\* behind a text, whatever the operator does and whoever interrupts
\* (MenuHandler.cpp:456-492).
THEOREM WellFilled == EditorSpec => []FieldsWellFilled
BY FieldsInOrder, NoTwoEmpty, PTL DEF FieldsWellFilled

\* A save made while the Wi-Fi entry is filled in goes to the field that the
\* prompt on the screen named (MenuHandler.cpp:363-373, 459-475).
THEOREM WiFiPrompts == EditorSpec => WiFiPromptAnswered
<1> DEFINE Answered == isWiFi /\ asked # "nothing" /\ entered' # entered
                        => entered' = entered \cup {asked}
<1>1. EditorInv /\ [EditorNext]_editorAll => [Answered]_editorAll
    <2> SUFFICES ASSUME EditorInv, [EditorNext]_editorAll,
                        isWiFi, asked # "nothing", entered' # entered
                 PROVE  entered' = entered \cup {asked}
        OBVIOUS
    <2>1. EnterText
        BY DEF EditorNext, EditorStep, CredentialsMenuStep, Prompt, Interrupted,
               Reopened, editorVars, editorAll
    <2>2. PICK field \in {"nothing", FieldToSave} :
            entered' = IF field # "nothing" THEN entered \cup {field} ELSE entered
        BY <2>1, KeyAssumption, EnterTextEffect DEF EditorInv
    <2>3. field = FieldToSave /\ field # "nothing" /\ entered' = entered \cup {field}
        BY <2>2
    <2>4. asked = FirstMissing(<<"ssid", "password">>)
        BY <2>1 DEF EditorInv, PromptCurrent, EnterText
    <2>5. asked \in {"ssid", "password"} /\ asked \notin entered
          /\ (asked = "password" => "ssid" \in entered)
        BY <2>4 DEF FirstMissing
    <2>6. PICK k \in 1..4 : /\ field = FieldOrder[k] /\ FieldOrder[k] \notin entered
                            /\ \A j \in 1..(k-1) : FieldOrder[j] \in entered
        BY <2>3, FieldToSaveIsFirst
    <2>7. FieldOrder[1] = "ssid" /\ FieldOrder[2] = "password" BY DEF FieldOrder
    <2>8. CASE k = 1
        BY <2>3, <2>5, <2>6, <2>7, <2>8
    <2>9. CASE k = 2
        <3>1. "ssid" \in entered
            <4>1. 1 \in 1..(k-1) BY <2>9
            <4> QED BY <4>1, <2>6, <2>7
        <3> QED BY <2>3, <2>5, <2>6, <2>7, <2>9, <3>1
    <2>10. CASE k \in 3..4
        <3>1. 1 \in 1..(k-1) /\ 2 \in 1..(k-1) BY <2>10
        <3>2. "ssid" \in entered /\ "password" \in entered BY <2>6, <2>7, <3>1
        <3> QED BY <2>5, <3>2
    <2> QED BY <2>6, <2>8, <2>9, <2>10
<1>2. [][Answered]_editorAll => WiFiPromptAnswered
    BY PTL DEF WiFiPromptAnswered, editorAll
<1> QED BY EditorInvariant, <1>1, <1>2, PTL DEF EditorSpec, editorAll

\* A field that was entered keeps its text for good.
THEOREM EnteredForGood == EditorSpec => EnteredIsFinal
<1> DEFINE Kept == \A f \in entered : f \in entered' /\ saved'[f] = saved[f]
<1>1. EditorInv /\ [EditorNext]_editorAll => [Kept]_<<saved, entered>>
    <2> SUFFICES ASSUME EditorInv, [EditorNext]_editorAll,
                        <<saved, entered>>' # <<saved, entered>>, NEW f \in entered
                 PROVE  f \in entered' /\ saved'[f] = saved[f]
        OBVIOUS
    <2>1. EnterText
        BY DEF EditorNext, EditorStep, CredentialsMenuStep, Prompt, Interrupted,
               Reopened, editorVars, editorAll
    <2>2. PICK field \in {"nothing", FieldToSave}, left \in 0..MaxTyped :
            /\ entered' = IF field # "nothing" THEN entered \cup {field} ELSE entered
            /\ saved' = [g \in Fields |-> IF g = field THEN left ELSE saved[g]]
        BY <2>1, KeyAssumption, EnterTextEffect DEF EditorInv
    <2>3. f \in Fields BY DEF EditorInv, EditorTypes, EditorTypeOK
    <2>4. f # field
        <3>1. CASE field = "nothing" BY <2>3, <3>1, FieldsAre
        <3>2. CASE field # "nothing"
            <4>1. field \notin entered BY <2>2, <3>2, FieldToSaveIsFirst
            <4> QED BY <4>1
        <3> QED BY <3>1, <3>2
    <2> QED BY <2>2, <2>3, <2>4
<1>2. [][Kept]_<<saved, entered>> => EnteredIsFinal
    BY PTL DEF EnteredIsFinal
<1> QED BY EditorInvariant, <1>1, <1>2, PTL DEF EditorSpec, editorAll

(***************************************************************************)
(* The whole handler.                                                      *)
(***************************************************************************)

\* The inductive invariant.  The type of errorCount needs the lock-out: the
\* count stays below the limit only because the alarm ends the run.
IInv == TypeOK /\ AlarmLocksOutControl

\* The types of the constants, for the provers.
LEMMA ConstantTypes ==
    /\ MaxSpeed \in Nat /\ MinSpeed \in Nat /\ MaxPressure \in Nat /\ Deadband \in Nat
    /\ ErrorLimit \in Nat /\ ErrorLimit > 1 /\ Readings \subseteq Nat
<1>1. MaxSpeed \in Nat BY ControlAssumption DEF ControlAssumption
<1>2. MinSpeed \in Nat BY ControlAssumption, <1>1 DEF ControlAssumption
<1>3. ErrorLimit \in Nat \ {0, 1} BY ControlAssumption DEF ControlAssumption
<1>4. Readings \subseteq Nat BY ControlAssumption DEF ControlAssumption
<1>5. MaxPressure \in Nat /\ Deadband \in Nat BY ControlAssumption DEF ControlAssumption
<1>6. ErrorLimit > 1 BY <1>3, SMTT(60)
<1> QED BY <1>1, <1>2, <1>3, <1>4, <1>5, <1>6

\* Any integer written to the fan reaches the bus as a 16-bit word.
LEMMA AsUInt16Type == \A value \in Int : AsUInt16(value) \in UInt16
BY SMTT(60) DEF AsUInt16, UInt16

LEMMA WriteFanType ==
    ASSUME fanReg \in UInt16, NEW value \in Int, WriteFan(value)
    PROVE  fanCmd' \in UInt16 /\ fanReg' \in UInt16
BY AsUInt16Type DEF WriteFan, Delivered

LEMMA ClampType ==
    ASSUME NEW n \in Int, NEW high \in Nat
    PROVE  Clamp(n, 0, high) \in 0..high
BY DEF Clamp

LEMMA InitInv == Init => IInv
<1> SUFFICES ASSUME Init PROVE IInv OBVIOUS
<1> USE DEF Init
<1>1. PanelTypeOK BY DEF PanelInit, PanelTypeOK, Clicks, Menus
<1>2. EditorTypeOK
    <2>1. 0 \in 0..MaxTyped BY KeyAssumption DEF KeyAssumption
    <2>2. saved \in [Fields -> 0..MaxTyped] BY <2>1 DEF EditorInit
    <2> QED BY <2>1, <2>2 DEF EditorInit, EditorTypeOK, Keyboards
<1>3. fanReg \in UInt16
    <2>1. 10 * MaxSpeed \in Int /\ 0 \in UInt16 BY ConstantTypes DEF UInt16
    <2>2. AsUInt16(10 * MaxSpeed) \in UInt16 BY <2>1, AsUInt16Type
    <2> QED BY <2>1, <2>2
<1>4. ControlTypeOK
    <2>1. errorCount \in 0..ErrorLimit BY ConstantTypes
    <2>2. fanCmd \in UInt16 BY DEF UInt16
    <2>3. speed \in Int /\ pressure \in Nat /\ setPressure \in Int OBVIOUS
    <2>4. /\ autoMode \in BOOLEAN /\ mqttFlag \in BOOLEAN
          /\ errorFlag \in BOOLEAN /\ connectNow \in BOOLEAN
        OBVIOUS
    <2> HIDE DEF Init
    <2> QED BY <1>3, <2>1, <2>2, <2>3, <2>4 DEF ControlTypeOK
<1>5. AlarmLocksOutControl BY DEF AlarmLocksOutControl
<1> QED BY <1>1, <1>2, <1>4, <1>5 DEF IInv, TypeOK

(***************************************************************************)
(* One lemma per action.                                                   *)
(***************************************************************************)
\* The status screen, whichever way it was reached.
LEMMA StatusScreenTypes ==
    ASSUME TypeOK, StatusScreen
    PROVE  PanelTypeOK' /\ EditorTypeOK' /\ pressure' \in Nat
           /\ menu' \in {"mainMenu", "status"} /\ connectNow' = connectNow
<1>1. pressure' \in Nat /\ menu' \in {"mainMenu", "status"} /\ highlight' \in {0, highlight}
    <2>1. CASE "rotP" \in pressed
        BY <2>1 DEF StatusScreen, ToMainMenu, TypeOK, ControlTypeOK
    <2>2. CASE "rotP" \notin pressed
        BY <2>2, ConstantTypes DEF StatusScreen
    <2> QED BY <2>1, <2>2
<1>2. PanelTypeOK' BY <1>1 DEF StatusScreen, TypeOK, PanelTypeOK, Menus
<1>3. EditorTypeOK' BY DEF StatusScreen, KeepsEditor, editorVars, TypeOK, EditorTypeOK
<1> QED BY <1>1, <1>2, <1>3 DEF StatusScreen

LEMMA StartStepInv == IInv /\ StartStep => IInv'
<1> SUFFICES ASSUME IInv, StartStep PROVE IInv' OBVIOUS
<1>1. PanelTypeOK' BY DEF IInv, TypeOK, StartStep, ToMainMenu, PanelTypeOK, Menus
<1>2. EditorTypeOK' BY DEF IInv, TypeOK, StartStep, KeepsEditor, editorVars, EditorTypeOK
<1>3. ControlTypeOK'
    BY DEF IInv, TypeOK, StartStep, KeepsControl, controlVars, fanVars, ControlTypeOK
<1>4. AlarmLocksOutControl' BY DEF StartStep, ToMainMenu, AlarmLocksOutControl
<1> QED BY <1>1, <1>2, <1>3, <1>4 DEF IInv, TypeOK

LEMMA StatusStepInv == IInv /\ StatusStep => IInv'
<1> SUFFICES ASSUME IInv, StatusStep PROVE IInv' OBVIOUS
<1>1. /\ PanelTypeOK' /\ EditorTypeOK' /\ pressure' \in Nat
      /\ menu' \in {"mainMenu", "status"} /\ connectNow' = connectNow
    BY StatusScreenTypes DEF StatusStep, IInv
<1>2. ControlTypeOK'
    BY <1>1 DEF StatusStep, fanVars, IInv, TypeOK, ControlTypeOK
<1> QED BY <1>1, <1>2 DEF IInv, TypeOK, AlarmLocksOutControl

LEMMA MainMenuStepInv == IInv /\ MainMenuStep => IInv'
<1> SUFFICES ASSUME IInv, MainMenuStep PROVE IInv' OBVIOUS
<1> USE DEF IInv, TypeOK
<1>1. PICK t \in TurnsFound :
        /\ rotary' = t.rotary
        /\ menuRot' \in {3, Scroll(t, 3)}
        /\ highlight' \in {0, Shown(t, 3)}
        /\ menu' \in {"setSpeedMode", "setPressureMode", "wifiAndMqtt", "status", menu}
        /\ errorCount' \in {0, errorCount}
        /\ errorFlag' \in BOOLEAN
        /\ menu' = "setPressureMode" => errorCount' = 0 /\ errorFlag' = FALSE
    <2>1. PICK t \in TurnsFound :
            LET entry == Scroll(t, 3)
                press == "rotP" \in pressed
            IN  /\ rotary' = t.rotary
                /\ menuRot' = IF press /\ entry = 2 THEN 3 ELSE entry
                /\ highlight' = IF press /\ entry = 2 THEN 0 ELSE Shown(t, 3)
                /\ menu' = CASE press /\ entry = 0 -> "setSpeedMode"
                             [] press /\ entry = 1 -> "setPressureMode"
                             [] press /\ entry = 2 -> "wifiAndMqtt"
                             [] press /\ entry = 3 -> "status"
                             [] OTHER -> menu
                /\ errorCount' = IF press /\ entry = 1 THEN 0 ELSE errorCount
                /\ errorFlag' = (errorFlag /\ ~(press /\ entry = 1))
        BY DEF MainMenuStep, ClearsAlarm
    <2>2. menu = "mainMenu" BY DEF MainMenuStep
    <2> QED BY <2>1, <2>2
<1>2. t.rotary \in [turned : BOOLEAN, count : Clicks] BY TurnsFoundType
<1>3. Scroll(t, 3) \in Nat /\ Shown(t, 3) \in Nat BY ScrollType
<1>4. PanelTypeOK' BY <1>1, <1>2, <1>3 DEF MainMenuStep, PanelTypeOK, Menus
<1>5. EditorTypeOK' BY DEF MainMenuStep, KeepsEditor, editorVars, EditorTypeOK
<1>6. ControlTypeOK'
    BY <1>1, ConstantTypes DEF MainMenuStep, ControlTypeOK, fanVars
<1>7. menu = "mainMenu" BY DEF MainMenuStep
<1>8. AlarmLocksOutControl'
    BY <1>1, <1>7, ConstantTypes DEF AlarmLocksOutControl
<1> QED BY <1>4, <1>5, <1>6, <1>8

LEMMA SetSpeedStepInv == IInv /\ SetSpeedStep => IInv'
<1> SUFFICES ASSUME IInv, SetSpeedStep PROVE IInv' OBVIOUS
<1> USE DEF IInv, TypeOK
<1>1. PICK t \in TurnsFound :
        /\ rotary' = t.rotary
        /\ IF t.by = 0
           THEN UNCHANGED <<autoMode, speed, fanVars>>
           ELSE /\ autoMode' = FALSE
                /\ speed' = Clamp(speed + t.by, 0, MaxSpeed)
                /\ WriteFan(speed' * 10)
    BY DEF SetSpeedStep
<1>2. t.by \in {-1, 0, 1} /\ t.rotary \in [turned : BOOLEAN, count : Clicks]
    BY TurnsFoundType
<1>3. PanelTypeOK' BY <1>1, <1>2 DEF SetSpeedStep, PanelTypeOK, Menus
<1>4. EditorTypeOK' BY DEF SetSpeedStep, KeepsEditor, editorVars, EditorTypeOK
<1>5. ControlTypeOK'
    <2>1. CASE t.by = 0
        BY <1>1, <2>1 DEF SetSpeedStep, ControlTypeOK, fanVars
    <2>2. CASE t.by # 0
        <3>1. speed' \in Int
            <4>1. speed + t.by \in Int BY <1>2 DEF ControlTypeOK
            <4>2. Clamp(speed + t.by, 0, MaxSpeed) \in 0..MaxSpeed
                BY <4>1, ClampType, ConstantTypes
            <4> QED BY <1>1, <2>2, <4>2
        <3>2. fanCmd' \in UInt16 /\ fanReg' \in UInt16
            BY <1>1, <2>2, <3>1, WriteFanType DEF ControlTypeOK
        <3> QED BY <1>1, <2>2, <3>1, <3>2 DEF SetSpeedStep, ControlTypeOK
    <2> QED BY <2>1, <2>2
<1>6. AlarmLocksOutControl' BY DEF SetSpeedStep, AlarmLocksOutControl
<1> QED BY <1>3, <1>4, <1>5, <1>6

LEMMA SetPressureStepInv == IInv /\ SetPressureStep => IInv'
<1> SUFFICES ASSUME IInv, SetPressureStep PROVE IInv' OBVIOUS
<1> USE DEF IInv, TypeOK
<1>1. PICK t \in TurnsFound :
        /\ rotary' = t.rotary
        /\ autoMode' = (autoMode \/ t.by # 0)
        /\ pressure' = IF t.by = 0 THEN pressure ELSE Clamp(pressure + t.by, 0, MaxPressure)
    BY DEF SetPressureStep
<1>2. t.by \in {-1, 0, 1} /\ t.rotary \in [turned : BOOLEAN, count : Clicks]
    BY TurnsFoundType
<1>3. menu' \in Menus
    BY DEF SetPressureStep, PanelTypeOK, Menus
<1>4. PanelTypeOK' BY <1>1, <1>2, <1>3 DEF SetPressureStep, PanelTypeOK
<1>5. EditorTypeOK' BY DEF SetPressureStep, KeepsEditor, editorVars, EditorTypeOK
<1>6. pressure' \in Nat /\ autoMode' \in BOOLEAN
    <2>1. pressure + t.by \in Int /\ pressure \in Nat BY <1>2 DEF ControlTypeOK
    <2>2. Clamp(pressure + t.by, 0, MaxPressure) \in 0..MaxPressure
        BY <2>1, ClampType, ConstantTypes
    <2>3. autoMode' \in BOOLEAN BY <1>1 DEF ControlTypeOK
    <2> QED BY <1>1, <2>1, <2>2, <2>3
<1>7. ControlTypeOK'
    <2>1. CASE "rotP" \in pressed
        <3>1. /\ speed' = IF speed < MinSpeed THEN MinSpeed ELSE speed
              /\ setPressure' = pressure' /\ WriteFan(speed')
            BY <2>1 DEF SetPressureStep
        <3>2. speed' \in Int
            BY <3>1, ConstantTypes DEF ControlTypeOK
        <3>3. fanCmd' \in UInt16 /\ fanReg' \in UInt16
            BY <3>1, <3>2, WriteFanType DEF ControlTypeOK
        <3> QED BY <1>6, <3>1, <3>2, <3>3 DEF SetPressureStep, ControlTypeOK
    <2>2. CASE "rotP" \notin pressed
        BY <1>6, <2>2 DEF SetPressureStep, ControlTypeOK, fanVars
    <2> QED BY <2>1, <2>2
<1>8. AlarmLocksOutControl' BY DEF SetPressureStep, AlarmLocksOutControl
<1> QED BY <1>4, <1>5, <1>7, <1>8

(***************************************************************************)
(* The controller.  Its step is used twice, by the screen itself and by an *)
(* automatic command, which passes an alarm state it has just cleared.     *)
(***************************************************************************)
\* The effect of the step on the alarm, which all properties rest on.
LEMMA ControlScreenAlarm ==
    ASSUME TypeOK, NEW flag \in BOOLEAN, NEW count \in 0..(ErrorLimit - 1),
           NEW sampled \in BOOLEAN, ControlScreen(flag, count, sampled)
    PROVE  /\ errorCount' \in {count - 1, count, count + 1} \cap 0..ErrorLimit
           /\ errorFlag' \in BOOLEAN
           /\ menu' \in {"mainMenu", "controlPressure"}
           /\ \/ errorFlag' = flag /\ errorCount' < ErrorLimit
              \/ /\ errorFlag' = TRUE /\ errorCount' = ErrorLimit /\ count = ErrorLimit - 1
                 /\ fanCmd' = 0 /\ menu' = "mainMenu"
<1>1. PICK reading \in Readings :
        LET counted == IF reading < setPressure - (Deadband + 1) THEN count + 1
                       ELSE IF reading > setPressure - Deadband THEN count - 1
                       ELSE count
            alarm == sampled /\ counted >= ErrorLimit
        IN  /\ errorCount' = IF ~sampled THEN count ELSE IF counted <= 0 THEN 0 ELSE counted
            /\ errorFlag' = (flag \/ alarm)
            /\ alarm => fanCmd' = 0
            /\ menu' \in {"mainMenu", "controlPressure"}
            /\ alarm => menu' = "mainMenu"
    BY DEF ControlScreen, ToMainMenu, Counted, AtLimit, Floor, Stopped
<1> DEFINE counted == IF reading < setPressure - (Deadband + 1) THEN count + 1
                      ELSE IF reading > setPressure - Deadband THEN count - 1
                      ELSE count
           alarm == sampled /\ counted >= ErrorLimit
<1>2. counted \in {count - 1, count, count + 1} OBVIOUS
<1>3. /\ errorCount' = IF ~sampled THEN count ELSE IF counted <= 0 THEN 0 ELSE counted
      /\ errorFlag' = (flag \/ alarm)
      /\ alarm => fanCmd' = 0
      /\ menu' \in {"mainMenu", "controlPressure"}
      /\ alarm => menu' = "mainMenu"
    BY <1>1
<1>4. ErrorLimit \in Nat /\ ErrorLimit > 1 /\ count \in Nat /\ count < ErrorLimit
    BY ConstantTypes
<1> HIDE DEF counted
<1>5. CASE alarm
    <2>1. counted = ErrorLimit /\ count = ErrorLimit - 1
        BY <1>2, <1>4, <1>5
    <2>2. errorCount' = ErrorLimit BY <1>3, <1>4, <1>5, <2>1
    <2>3. errorFlag' = TRUE BY <1>3, <1>5, Zenon
    <2>4. ErrorLimit \in {count - 1, count, count + 1} \cap 0..ErrorLimit BY <1>4, <2>1
    <2>5. fanCmd' = 0 /\ menu' = "mainMenu" BY <1>3, <1>5
    <2> HIDE DEF alarm
    <2> QED BY <2>1, <2>2, <2>3, <2>4, <2>5
<1>6. CASE ~alarm
    <2>1. errorFlag' = flag BY <1>3, <1>6
    <2>2. errorCount' \in {count - 1, count, count + 1} \cap 0..(ErrorLimit - 1)
        <3>1. CASE ~sampled BY <1>3, <1>4, <3>1
        <3>2. CASE sampled /\ counted <= 0 BY <1>2, <1>3, <1>4, <3>2
        <3>3. CASE sampled /\ counted > 0 BY <1>2, <1>3, <1>4, <1>6, <3>3
        <3> QED BY <1>2, <1>4, <3>1, <3>2, <3>3
    <2> QED BY <1>3, <1>4, <2>1, <2>2
<1> QED BY <1>5, <1>6

\* The effect of the step on the other variables.
LEMMA ControlScreenTypes ==
    ASSUME TypeOK, NEW flag, NEW count, NEW sampled, ControlScreen(flag, count, sampled)
    PROVE  /\ PanelTypeOK' /\ EditorTypeOK'
           /\ speed' \in Int /\ pressure' \in Nat /\ fanCmd' \in UInt16 /\ fanReg' \in UInt16
           /\ UNCHANGED <<setPressure, autoMode, connectNow>>
<1>1. PICK reading \in Readings :
        LET low  == reading < setPressure - Deadband
            high == reading > setPressure + Deadband
            counted == IF reading < setPressure - (Deadband + 1) THEN count + 1
                       ELSE IF reading > setPressure - Deadband THEN count - 1
                       ELSE count
            alarm == sampled /\ counted >= ErrorLimit
            stepped == IF low \/ high THEN AsUInt16(speed' * 10) ELSE fanCmd
        IN  /\ speed' = CASE low -> (IF speed + 1 >= MaxSpeed THEN MaxSpeed ELSE speed + 1)
                          [] high -> (IF speed - 1 <= 0 THEN 0 ELSE speed - 1)
                          [] OTHER -> speed
            /\ pressure' = reading
            /\ fanCmd' = IF alarm THEN 0 ELSE stepped
            /\ \E reg \in (IF low \/ high THEN Delivered(fanReg, stepped) ELSE {fanReg}) :
                     fanReg' \in IF alarm THEN Delivered(reg, 0) ELSE {reg}
            /\ pressed' = pressed \ {"rotP"}
            /\ menuRot' \in {0, menuRot}
            /\ menu' \in {"mainMenu", "controlPressure"}
            /\ highlight' \in {0, highlight}
            /\ UNCHANGED <<rotary, setPressure, autoMode, connectNow>>
            /\ UNCHANGED editorVars
    BY DEF ControlScreen, ToMainMenu, KeepsEditor, Counted, AtLimit, Stopped
<1>2. speed' \in Int /\ pressure' \in Nat
    <2>1. speed \in Int /\ reading \in Nat /\ MaxSpeed \in Nat
        BY ConstantTypes DEF TypeOK, ControlTypeOK
    <2>2. speed' \in {MaxSpeed, speed + 1, 0, speed - 1, speed} BY <1>1
    <2> QED BY <1>1, <2>1, <2>2
<1>3. AsUInt16(speed' * 10) \in UInt16
    <2>1. speed' * 10 \in Int BY <1>2
    <2> QED BY <2>1, AsUInt16Type
<1>4. fanCmd \in UInt16 /\ fanReg \in UInt16 /\ 0 \in UInt16
    <2>1. fanCmd \in UInt16 /\ fanReg \in UInt16 BY DEF TypeOK, ControlTypeOK
    <2>2. 0 \in UInt16 BY DEF UInt16
    <2> QED BY <2>1, <2>2
<1>5. fanCmd' \in UInt16 /\ fanReg' \in UInt16
    <2>1. PICK stepped \in {AsUInt16(speed' * 10), fanCmd} :
            /\ fanCmd' \in {0, stepped}
            /\ \E reg \in Delivered(fanReg, stepped) \cup {fanReg} :
                   fanReg' \in Delivered(reg, 0) \cup {reg}
        BY <1>1, Zenon
    <2>2. stepped \in UInt16 BY <1>3, <1>4
    <2> QED BY <1>4, <2>1, <2>2 DEF Delivered
<1>6. PanelTypeOK' BY <1>1 DEF TypeOK, PanelTypeOK, Menus
<1>7. EditorTypeOK' BY <1>1 DEF TypeOK, EditorTypeOK, editorVars
<1> QED BY <1>1, <1>2, <1>5, <1>6, <1>7

LEMMA ControlScreenInv ==
    ASSUME TypeOK, NEW flag \in BOOLEAN, flag = FALSE,
           NEW count \in 0..(ErrorLimit - 1), NEW sampled \in BOOLEAN,
           ControlScreen(flag, count, sampled), mqttFlag' \in BOOLEAN
    PROVE  IInv'
<1>1. /\ PanelTypeOK' /\ EditorTypeOK'
      /\ speed' \in Int /\ pressure' \in Nat /\ fanCmd' \in UInt16 /\ fanReg' \in UInt16
      /\ UNCHANGED <<setPressure, autoMode, connectNow>>
    BY ControlScreenTypes
<1>2. /\ errorCount' \in 0..ErrorLimit /\ errorFlag' \in BOOLEAN
      /\ menu' = "controlPressure" => ~errorFlag' /\ errorCount' < ErrorLimit
      /\ menu' # "setPressureMode"
    BY ControlScreenAlarm
<1>3. ControlTypeOK' BY <1>1, <1>2 DEF TypeOK, ControlTypeOK
<1>4. AlarmLocksOutControl' BY <1>2 DEF AlarmLocksOutControl
<1> QED BY <1>1, <1>3, <1>4 DEF IInv, TypeOK

LEMMA ControlStepInv ==
    ASSUME IInv, NEW sampled \in BOOLEAN, ~mqttFlag, ControlStep(sampled)
    PROVE  IInv'
<1>1. menu = "controlPressure" /\ ControlScreen(errorFlag, errorCount, sampled)
      /\ mqttFlag' = mqttFlag
    BY DEF ControlStep
<1>2. errorFlag = FALSE /\ errorCount \in 0..(ErrorLimit - 1)
    BY <1>1, ConstantTypes DEF IInv, TypeOK, ControlTypeOK, AlarmLocksOutControl
<1>3. mqttFlag' \in BOOLEAN BY <1>1 DEF IInv, TypeOK, ControlTypeOK
<1> QED BY <1>1, <1>2, <1>3, ControlScreenInv DEF IInv

LEMMA AutoCommandEventInv ==
    ASSUME IInv, NEW sampled \in BOOLEAN, AutoCommandEvent(sampled)
    PROVE  IInv'
<1>1. ControlScreen(FALSE, 0, sampled) /\ mqttFlag' = FALSE BY DEF AutoCommandEvent
<1>2. 0 \in 0..(ErrorLimit - 1) BY ConstantTypes
<1> QED BY <1>1, <1>2, ControlScreenInv DEF IInv

LEMMA ManualCommandEventInv == IInv /\ ManualCommandEvent => IInv'
<1> SUFFICES ASSUME IInv, ManualCommandEvent PROVE IInv' OBVIOUS
<1>1. /\ PanelTypeOK' /\ EditorTypeOK' /\ pressure' \in Nat
      /\ menu' \in {"mainMenu", "status"} /\ connectNow' = connectNow
    BY StatusScreenTypes DEF ManualCommandEvent, IInv
<1>2. fanCmd' \in UInt16 /\ fanReg' \in UInt16
    <2>1. speed * 10 \in Int /\ fanReg \in UInt16 BY DEF IInv, TypeOK, ControlTypeOK
    <2>2. WriteFan(speed * 10) BY DEF ManualCommandEvent
    <2> QED BY <2>1, <2>2, WriteFanType
<1>3. ControlTypeOK'
    BY <1>1, <1>2 DEF ManualCommandEvent, IInv, TypeOK, ControlTypeOK
<1>4. AlarmLocksOutControl' BY <1>1 DEF AlarmLocksOutControl
<1> QED BY <1>1, <1>3, <1>4 DEF IInv, TypeOK

LEMMA WifiAndMqttStepInv == IInv /\ WifiAndMqttStep => IInv'
<1> SUFFICES ASSUME IInv, WifiAndMqttStep PROVE IInv' OBVIOUS
<1> USE DEF IInv, TypeOK
<1>1. PICK t \in TurnsFound :
        /\ rotary' = t.rotary
        /\ menuRot' \in {0, Scroll(t, 2)}
        /\ highlight' \in {0, Shown(t, 2)}
        /\ menu' \in {"connectWifiandMqtt", "CredentialsMenu", "mainMenu", menu}
        /\ connectNow' \in BOOLEAN
    BY Zenon DEF WifiAndMqttStep
<1>2. t.rotary \in [turned : BOOLEAN, count : Clicks] BY TurnsFoundType
<1>3. Scroll(t, 2) \in Nat /\ Shown(t, 2) \in Nat BY ScrollType
<1>4. PanelTypeOK' BY <1>1, <1>2, <1>3 DEF WifiAndMqttStep, PanelTypeOK, Menus
<1>5. EditorTypeOK' BY DEF WifiAndMqttStep, KeepsEditor, editorVars, EditorTypeOK
<1>6. ControlTypeOK'
    BY <1>1 DEF WifiAndMqttStep, KeepsControl, controlVars, fanVars, ControlTypeOK
<1>7. AlarmLocksOutControl'
    BY <1>1 DEF WifiAndMqttStep, KeepsControl, controlVars, AlarmLocksOutControl
<1> QED BY <1>4, <1>5, <1>6, <1>7

LEMMA ConnectStepInv == IInv /\ ConnectStep => IInv'
<1> SUFFICES ASSUME IInv, ConnectStep PROVE IInv' OBVIOUS
<1> USE DEF IInv, TypeOK
<1>1. PanelTypeOK' BY DEF ConnectStep, ToMainMenu, panelVars, PanelTypeOK, Menus
<1>2. EditorTypeOK' BY DEF ConnectStep, KeepsEditor, editorVars, EditorTypeOK
<1>3. ControlTypeOK' BY DEF ConnectStep, KeepsControl, controlVars, fanVars, ControlTypeOK
<1>4. AlarmLocksOutControl' BY DEF ConnectStep, ToMainMenu, AlarmLocksOutControl
<1> QED BY <1>1, <1>2, <1>3, <1>4

LEMMA EditorScreensInv == IInv /\ EditorScreens => IInv'
<1> SUFFICES ASSUME IInv, EditorScreens PROVE IInv' OBVIOUS
<1>1. EditorTypes BY DEF IInv, TypeOK, EditorTypes
<1>2. EditorTypes'
    BY <1>1, KeyAssumption, CredentialsMenuTypes, PromptTypes, EnterTextTypes
    DEF EditorScreens, EditorStep
<1>3. ControlTypeOK'
    BY DEF EditorScreens, KeepsControl, controlVars, fanVars, IInv, TypeOK, ControlTypeOK
<1>4. menu' \notin {"setPressureMode", "controlPressure"}
    <2>1. CASE CredentialsMenuStep BY <2>1 DEF CredentialsMenuStep
    <2>2. CASE Prompt BY <2>2 DEF Prompt
    <2>3. CASE EnterText
        <3>1. menu = "enterCredentials" BY <2>3 DEF EnterText
        <3>2. menu' \in {"CredentialsMenu", menu}
            BY <1>1, <2>3, KeyAssumption, EnterTextEffect
        <3> QED BY <3>1, <3>2
    <2> QED BY <2>1, <2>2, <2>3 DEF EditorScreens, EditorStep
<1>5. AlarmLocksOutControl' BY <1>4 DEF AlarmLocksOutControl
<1> QED BY <1>2, <1>3, <1>5 DEF IInv, TypeOK, EditorTypes

\* Commands of the broker, requests and interrupts leave the screen alone;
\* a command can only lower the error count.
LEMMA OutsideInv ==
    IInv /\ (MqttCommand \/ TakeConnectRequest \/ PanelInterrupt \/ UNCHANGED vars) => IInv'
<1> USE DEF IInv, TypeOK
<1>1. ASSUME IInv, MqttCommand PROVE IInv'
    <2>1. PanelTypeOK' BY <1>1 DEF MqttCommand, AutoCommand, ManualCommand, panelVars,
                                   screenVars, PanelTypeOK
    <2>2. EditorTypeOK' BY <1>1 DEF MqttCommand, AutoCommand, ManualCommand, editorVars,
                                    EditorTypeOK
    <2>3. ControlTypeOK' /\ AlarmLocksOutControl'
        <3>1. CASE AutoCommand
            <4>1. setPressure' \in Int
                BY <3>1, ControlAssumption DEF AutoCommand, ControlAssumption
            <4>2. 0 \in 0..ErrorLimit /\ 0 < ErrorLimit BY ConstantTypes
            <4>3. ControlTypeOK' BY <1>1, <3>1, <4>1, <4>2 DEF AutoCommand, fanVars, ControlTypeOK
            <4>4. AlarmLocksOutControl'
                BY <1>1, <3>1, <4>2 DEF AutoCommand, screenVars, AlarmLocksOutControl
            <4> QED BY <4>3, <4>4
        <3>2. CASE ManualCommand
            <4>1. speed' \in Int
                BY <3>2, ControlAssumption DEF ManualCommand, ControlAssumption
            <4>2. ControlTypeOK' BY <1>1, <3>2, <4>1 DEF ManualCommand, fanVars, ControlTypeOK
            <4>3. AlarmLocksOutControl'
                BY <1>1, <3>2 DEF ManualCommand, screenVars, AlarmLocksOutControl
            <4> QED BY <4>2, <4>3
        <3> QED BY <1>1, <3>1, <3>2 DEF MqttCommand
    <2> QED BY <2>1, <2>2, <2>3
<1>2. ASSUME IInv, TakeConnectRequest \/ UNCHANGED vars PROVE IInv'
    <2>1. UNCHANGED <<panelVars, screenVars, editorVars, controlVars, fanVars>>
          /\ connectNow' \in {FALSE, connectNow}
        BY <1>2 DEF TakeConnectRequest, vars
    <2>2. PanelTypeOK' BY <1>2, <2>1 DEF panelVars, screenVars, PanelTypeOK
    <2>3. EditorTypeOK' BY <1>2, <2>1 DEF editorVars, EditorTypeOK
    <2>4. ControlTypeOK' BY <1>2, <2>1 DEF controlVars, fanVars, ControlTypeOK
    <2>5. AlarmLocksOutControl' BY <1>2, <2>1 DEF screenVars, controlVars, AlarmLocksOutControl
    <2> QED BY <2>2, <2>3, <2>4, <2>5
<1>3. ASSUME IInv, PanelInterrupt PROVE IInv'
    <2>1. PanelTypeOK' BY <1>3, OperableAssumption, PanelIsrTypes DEF PanelInterrupt
    <2>2. EditorTypeOK' BY <1>3 DEF PanelInterrupt, editorVars, EditorTypeOK
    <2>3. ControlTypeOK' BY <1>3 DEF PanelInterrupt, controlVars, fanVars, ControlTypeOK
    <2>4. menu' = menu BY <1>3 DEF PanelInterrupt, PanelIsr, TurnIsr, PressIsr
    <2>5. AlarmLocksOutControl'
        BY <1>3, <2>4 DEF PanelInterrupt, controlVars, AlarmLocksOutControl
    <2> QED BY <2>1, <2>2, <2>3, <2>5
<1> QED BY <1>1, <1>2, <1>3

LEMMA NextInv == IInv /\ [Next]_vars => IInv'
<1> SUFFICES ASSUME IInv, [Next]_vars PROVE IInv' OBVIOUS
<1>1. CASE \E sampled \in BOOLEAN : AutoCommandEvent(sampled)
    BY <1>1, AutoCommandEventInv
<1>2. CASE ManualCommandEvent
    BY <1>2, ManualCommandEventInv
<1>3. CASE ScreenEvent
    <2>1. CASE \E sampled \in BOOLEAN : ControlStep(sampled)
        BY <1>3, <2>1, ControlStepInv DEF ScreenEvent
    <2>2. CASE ~ \E sampled \in BOOLEAN : ControlStep(sampled)
        BY <1>3, <2>2, StartStepInv, StatusStepInv, MainMenuStepInv, SetSpeedStepInv,
           SetPressureStepInv, WifiAndMqttStepInv, ConnectStepInv, EditorScreensInv
        DEF ScreenEvent
    <2> QED BY <2>1, <2>2
<1>4. CASE MqttCommand \/ TakeConnectRequest \/ PanelInterrupt \/ UNCHANGED vars
    BY <1>4, OutsideInv
<1> QED BY <1>1, <1>2, <1>3, <1>4 DEF Next, Event

LEMMA Invariant == Spec => []IInv
BY InitInv, NextInv, PTL DEF Spec

(***************************************************************************)
(* The theorems.                                                           *)
(***************************************************************************)
\* The handler never leaves its types: in particular the fan is only sent
\* 16-bit words and errorstatus is never the screen.
THEOREM TypeCorrect == Spec => []TypeOK
<1>1. IInv => TypeOK BY DEF IInv
<1> QED BY Invariant, <1>1, PTL

\* The pressure screens are entered only with the alarm withdrawn and the
\* error count below its limit, by every path.
THEOREM LockedOut == Spec => []AlarmLocksOutControl
<1>1. IInv => AlarmLocksOutControl BY DEF IInv
<1> QED BY Invariant, <1>1, PTL

(***************************************************************************)
(* What a step can do to the screen and the alarm, in one place.           *)
(***************************************************************************)
\* Steps that neither come from nor lead to the controller and leave the
\* alarm, the fan and the count alone.
Quiet ==
    /\ menu # "controlPressure" /\ menu' # "controlPressure"
    /\ errorFlag' = errorFlag /\ errorCount' = errorCount /\ fanCmd' = fanCmd
    /\ menu' = "setPressureMode" => menu = "setPressureMode"

LEMMA QuietSteps ==
    ASSUME IInv,
           StartStep \/ StatusStep \/ WifiAndMqttStep \/ ConnectStep \/ EditorScreens
    PROVE  Quiet
<1>1. CASE StartStep
    BY <1>1 DEF StartStep, ToMainMenu, KeepsControl, controlVars, fanVars, Quiet
<1>2. CASE StatusStep
    <2>1. menu' \in {"mainMenu", "status"} BY <1>2, StatusScreenTypes DEF StatusStep, IInv
    <2> QED BY <1>2, <2>1 DEF StatusStep, fanVars, Quiet
<1>3. CASE WifiAndMqttStep
    <2>1. menu' \in {"connectWifiandMqtt", "CredentialsMenu", "mainMenu", menu}
        BY <1>3, Zenon DEF WifiAndMqttStep
    <2> QED BY <1>3, <2>1 DEF WifiAndMqttStep, KeepsControl, controlVars, fanVars, Quiet
<1>4. CASE ConnectStep
    BY <1>4 DEF ConnectStep, ToMainMenu, KeepsControl, controlVars, fanVars, Quiet
<1>5. CASE EditorScreens
    <2>1. menu \in {"CredentialsMenu", "enterCredentials"}
        BY <1>5 DEF EditorScreens, EditorStep, CredentialsMenuStep, Prompt, EnterText
    <2>2. menu' \in {"CredentialsMenu", "enterCredentials", "wifiAndMqtt"}
        <3>1. CASE CredentialsMenuStep BY <3>1 DEF CredentialsMenuStep
        <3>2. CASE Prompt BY <2>1, <3>2 DEF Prompt
        <3>3. CASE EnterText
            <4>1. menu' \in {"CredentialsMenu", menu}
                BY <3>3, KeyAssumption, EnterTextEffect DEF IInv, TypeOK, EditorTypes
            <4> QED BY <2>1, <4>1
        <3> QED BY <1>5, <3>1, <3>2, <3>3 DEF EditorScreens, EditorStep
    <2> QED BY <1>5, <2>1, <2>2 DEF EditorScreens, KeepsControl, controlVars, fanVars, Quiet
<1> QED BY <1>1, <1>2, <1>3, <1>4, <1>5

LEMMA MainMenuAlarm ==
    ASSUME IInv, MainMenuStep
    PROVE  /\ menu = "mainMenu" /\ menu' # "controlPressure" /\ fanCmd' = fanCmd
           /\ \/ /\ menu' # "setPressureMode"
                 /\ errorFlag' = errorFlag /\ errorCount' = errorCount
              \/ errorFlag' = FALSE /\ errorCount' = 0
<1>1. PICK t \in TurnsFound :
        LET entry == Scroll(t, 3)
            press == "rotP" \in pressed
        IN  /\ menu' = CASE press /\ entry = 0 -> "setSpeedMode"
                         [] press /\ entry = 1 -> "setPressureMode"
                         [] press /\ entry = 2 -> "wifiAndMqtt"
                         [] press /\ entry = 3 -> "status"
                         [] OTHER -> menu
            /\ errorCount' = IF press /\ entry = 1 THEN 0 ELSE errorCount
            /\ errorFlag' = (errorFlag /\ ~(press /\ entry = 1))
    BY DEF MainMenuStep, ClearsAlarm
<1>2. menu = "mainMenu" /\ fanCmd' = fanCmd BY DEF MainMenuStep, fanVars
<1> DEFINE arms == "rotP" \in pressed /\ Scroll(t, 3) = 1
<1>3. CASE arms
    <2>1. errorFlag' = FALSE BY <1>1, <1>3, Zenon
    <2>2. errorCount' = 0 /\ menu' = "setPressureMode" BY <1>1, <1>3
    <2> QED BY <1>2, <2>1, <2>2
<1>4. CASE ~arms
    <2>1. menu' \in {"setSpeedMode", "wifiAndMqtt", "status", "mainMenu"}
        BY <1>1, <1>2, <1>4
    <2>2. errorCount' = errorCount BY <1>1, <1>4
    <2>3. errorFlag' = errorFlag
        <3>1. errorFlag' = (errorFlag /\ ~arms) BY <1>1, Zenon
        <3>2. errorFlag \in BOOLEAN BY DEF IInv, TypeOK, ControlTypeOK
        <3> HIDE DEF arms
        <3> QED BY <1>4, <3>1, <3>2
    <2> QED BY <1>2, <2>1, <2>2, <2>3
<1> QED BY <1>3, <1>4

(***************************************************************************)
(* A setpoint is edited with a count of zero: the second part of the       *)
(* invariant that the refinement needs, so that a run begins afresh.       *)
(***************************************************************************)
FreshSetpoint == menu = "setPressureMode" => errorCount = 0

LEMMA FreshSetpointInit == Init => FreshSetpoint
BY DEF Init, FreshSetpoint

LEMMA CommandKeepsScreen ==
    ASSUME MqttCommand
    PROVE  menu' = menu /\ errorFlag' = errorFlag /\ fanCmd' = fanCmd
           /\ errorCount' \in {0, errorCount}
BY DEF MqttCommand, AutoCommand, ManualCommand, screenVars, fanVars

LEMMA InterruptKeepsScreen ==
    ASSUME TakeConnectRequest \/ PanelInterrupt \/ UNCHANGED vars
    PROVE  menu' = menu /\ errorFlag' = errorFlag /\ fanCmd' = fanCmd
           /\ errorCount' = errorCount
BY DEF TakeConnectRequest, PanelInterrupt, PanelIsr, TurnIsr, PressIsr, vars, screenVars,
       controlVars, fanVars

\* The controller's step, from a state of the invariant.
LEMMA ControlStepAlarm ==
    ASSUME IInv, NEW sampled \in BOOLEAN, ControlStep(sampled)
    PROVE  /\ menu = "controlPressure" /\ errorFlag = FALSE
           /\ errorCount \in 0..(ErrorLimit - 1)
           /\ errorCount' \in {errorCount - 1, errorCount, errorCount + 1} \cap 0..ErrorLimit
           /\ menu' \in {"mainMenu", "controlPressure"}
           /\ \/ errorFlag' = FALSE /\ errorCount' < ErrorLimit
              \/ /\ errorFlag' = TRUE /\ errorCount = ErrorLimit - 1
                 /\ fanCmd' = 0 /\ menu' = "mainMenu"
<1>1. menu = "controlPressure" /\ ControlScreen(errorFlag, errorCount, sampled)
    BY DEF ControlStep
<1>2. errorFlag = FALSE /\ errorCount \in 0..(ErrorLimit - 1)
    BY <1>1, ConstantTypes DEF IInv, TypeOK, ControlTypeOK, AlarmLocksOutControl
<1> QED BY <1>1, <1>2, ControlScreenAlarm DEF IInv

\* The step of an automatic command.
LEMMA AutoCommandAlarm ==
    ASSUME IInv, NEW sampled \in BOOLEAN, AutoCommandEvent(sampled)
    PROVE  /\ menu' \in {"mainMenu", "controlPressure"}
           /\ errorFlag' = FALSE /\ errorCount' \in {0, 1}
<1>1. ControlScreen(FALSE, 0, sampled) BY DEF AutoCommandEvent
<1>2. 0 \in 0..(ErrorLimit - 1) /\ 0 # ErrorLimit - 1 BY ConstantTypes
<1>3. /\ errorCount' \in {0 - 1, 0, 0 + 1} \cap 0..ErrorLimit
      /\ menu' \in {"mainMenu", "controlPressure"}
      /\ \/ errorFlag' = FALSE
         \/ 0 = ErrorLimit - 1
    BY <1>1, <1>2, ControlScreenAlarm DEF IInv
<1> QED BY <1>2, <1>3, ConstantTypes

LEMMA ManualCommandAlarm ==
    ASSUME IInv, ManualCommandEvent
    PROVE  /\ menu' \in {"mainMenu", "status"} /\ mqttFlag /\ ~autoMode
           /\ errorFlag' = errorFlag /\ errorCount' = errorCount
BY StatusScreenTypes DEF ManualCommandEvent, IInv

LEMMA SetPressureAlarm ==
    ASSUME IInv, SetPressureStep
    PROVE  /\ menu = "setPressureMode" /\ menu' \in {"setPressureMode", "controlPressure"}
           /\ errorFlag = FALSE /\ errorFlag' = FALSE /\ errorCount' = errorCount
BY DEF SetPressureStep, IInv, TypeOK, ControlTypeOK, AlarmLocksOutControl

LEMMA SetSpeedAlarm ==
    ASSUME SetSpeedStep
    PROVE  /\ menu = "setSpeedMode" /\ menu' \in {"status", "setSpeedMode"}
           /\ errorFlag' = errorFlag /\ errorCount' = errorCount
BY DEF SetSpeedStep

\* Every step is one of those above.
LEMMA StepCases ==
    ASSUME IInv, [Next]_vars
    PROVE  \/ StartStep \/ StatusStep \/ WifiAndMqttStep \/ ConnectStep \/ EditorScreens
           \/ MainMenuStep \/ SetSpeedStep \/ SetPressureStep
           \/ \E sampled \in BOOLEAN : ControlStep(sampled)
           \/ \E sampled \in BOOLEAN : AutoCommandEvent(sampled)
           \/ ManualCommandEvent
           \/ MqttCommand
           \/ TakeConnectRequest \/ PanelInterrupt \/ UNCHANGED vars
BY DEF Next, Event, ScreenEvent

LEMMA FreshSetpointNext ==
    ASSUME IInv, FreshSetpoint, [Next]_vars
    PROVE  FreshSetpoint'
<1>1. CASE StartStep \/ StatusStep \/ WifiAndMqttStep \/ ConnectStep \/ EditorScreens
    BY <1>1, QuietSteps DEF Quiet, FreshSetpoint
<1>2. CASE MainMenuStep BY <1>2, MainMenuAlarm DEF FreshSetpoint
<1>3. CASE SetSpeedStep BY <1>3, SetSpeedAlarm DEF FreshSetpoint
<1>4. CASE SetPressureStep BY <1>4, SetPressureAlarm DEF FreshSetpoint
<1>5. CASE \E sampled \in BOOLEAN : ControlStep(sampled)
    BY <1>5, ControlStepAlarm DEF FreshSetpoint
<1>6. CASE \E sampled \in BOOLEAN : AutoCommandEvent(sampled)
    BY <1>6, AutoCommandAlarm DEF FreshSetpoint
<1>7. CASE ManualCommandEvent BY <1>7, ManualCommandAlarm DEF FreshSetpoint
<1>8. CASE MqttCommand BY <1>8, CommandKeepsScreen DEF FreshSetpoint
<1>9. CASE TakeConnectRequest \/ PanelInterrupt \/ UNCHANGED vars
    BY <1>9, InterruptKeepsScreen DEF FreshSetpoint
<1> QED BY StepCases, <1>1, <1>2, <1>3, <1>4, <1>5, <1>6, <1>7, <1>8, <1>9

LEMMA FreshInvariant == Spec => [](IInv /\ FreshSetpoint)
<1>1. Init => FreshSetpoint BY FreshSetpointInit
<1>2. IInv /\ FreshSetpoint /\ [Next]_vars => FreshSetpoint' BY FreshSetpointNext
<1> QED BY <1>1, <1>2, Invariant, PTL DEF Spec

(***************************************************************************)
(* The alarm.                                                              *)
(***************************************************************************)
\* Raising the alarm commands the fan to stop, and nothing but the operator
\* on the speed screen or a manual command starts it while the alarm stands.
THEOREM AlarmHoldsFan == Spec => AlarmStopsFan
<1> DEFINE Holds == errorFlag' =>
                      \/ fanCmd' = 0
                      \/ errorFlag /\ fanCmd' = fanCmd
                      \/ menu = "setSpeedMode" \/ (mqttFlag /\ ~autoMode)
<1>1. IInv /\ [Next]_vars => Holds
    <2> SUFFICES ASSUME IInv, [Next]_vars, errorFlag'
                 PROVE  \/ fanCmd' = 0
                        \/ errorFlag /\ fanCmd' = fanCmd
                        \/ menu = "setSpeedMode" \/ (mqttFlag /\ ~autoMode)
        OBVIOUS
    <2>1. CASE StartStep \/ StatusStep \/ WifiAndMqttStep \/ ConnectStep \/ EditorScreens
        BY <2>1, QuietSteps DEF Quiet
    <2>2. CASE MainMenuStep BY <2>2, MainMenuAlarm
    <2>3. CASE SetSpeedStep BY <2>3, SetSpeedAlarm
    <2>4. CASE SetPressureStep BY <2>4, SetPressureAlarm
    <2>5. CASE \E sampled \in BOOLEAN : ControlStep(sampled) BY <2>5, ControlStepAlarm
    <2>6. CASE \E sampled \in BOOLEAN : AutoCommandEvent(sampled) BY <2>6, AutoCommandAlarm
    <2>7. CASE ManualCommandEvent BY <2>7, ManualCommandAlarm
    <2>8. CASE MqttCommand BY <2>8, CommandKeepsScreen
    <2>9. CASE TakeConnectRequest \/ PanelInterrupt \/ UNCHANGED vars
        BY <2>9, InterruptKeepsScreen
    <2> QED BY StepCases, <2>1, <2>2, <2>3, <2>4, <2>5, <2>6, <2>7, <2>8, <2>9
<1>2. [][Holds]_vars => AlarmStopsFan BY PTL DEF AlarmStopsFan
<1> QED BY Invariant, <1>1, <1>2, PTL DEF Spec

\* MenuHandler implements PressureAlarm: the count of a run starts afresh,
\* moves by one, and reaches the limit exactly when the alarm ends the run;
\* the alarm stands until a new run is asked for.
THEOREM AlarmRefinement == Spec => KeepsAlarmPromise
<1> USE DEF Alarm!Begin, Alarm!Withdraw, Alarm!Count, Alarm!Forgive, Alarm!Raise,
            Alarm!Leave
<1>1. Init => Alarm!AlarmInit BY DEF Init, Alarm!AlarmInit
<1>2. IInv /\ FreshSetpoint /\ [Next]_vars => [Alarm!AlarmNext]_Alarm!alarmVars
    <2> SUFFICES ASSUME IInv, FreshSetpoint, [Next]_vars
                 PROVE  Alarm!AlarmNext \/ UNCHANGED Alarm!alarmVars
        OBVIOUS
    <2> USE DEF Alarm!AlarmNext, Alarm!alarmVars
    <2>1. CASE StartStep \/ StatusStep \/ WifiAndMqttStep \/ ConnectStep \/ EditorScreens
        BY <2>1, QuietSteps DEF Quiet
    <2>2. CASE MainMenuStep BY <2>2, MainMenuAlarm
    <2>3. CASE SetSpeedStep BY <2>3, SetSpeedAlarm
    <2>4. CASE SetPressureStep
        BY <2>4, SetPressureAlarm DEF FreshSetpoint
    <2>5. CASE \E sampled \in BOOLEAN : ControlStep(sampled)
        <3>1. PICK sampled \in BOOLEAN : ControlStep(sampled) BY <2>5
        <3>2. /\ menu = "controlPressure" /\ errorFlag = FALSE
              /\ errorCount \in 0..(ErrorLimit - 1)
              /\ errorCount' \in {errorCount - 1, errorCount, errorCount + 1} \cap 0..ErrorLimit
              /\ menu' \in {"mainMenu", "controlPressure"}
            BY <3>1, ControlStepAlarm
        <3>3. \/ errorFlag' = FALSE /\ errorCount' < ErrorLimit
              \/ /\ errorFlag' = TRUE /\ errorCount = ErrorLimit - 1
                 /\ menu' = "mainMenu"
            BY <3>1, ControlStepAlarm
        <3>4. CASE errorFlag' = TRUE
            BY <3>2, <3>3, <3>4
        <3>5. CASE errorFlag' = FALSE /\ menu' = "mainMenu"
            BY <3>2, <3>5
        <3>6. CASE errorFlag' = FALSE /\ menu' = "controlPressure" /\ errorCount' = errorCount
            BY <3>2, <3>6
        <3>7. CASE /\ errorFlag' = FALSE /\ menu' = "controlPressure"
                   /\ errorCount' # errorCount /\ errorCount' < ErrorLimit
            <4>1. errorCount' \in {errorCount - 1, errorCount + 1} \cap 0..(ErrorLimit - 1)
                BY <3>2, <3>7, ConstantTypes
            <4> QED BY <3>2, <3>7, <4>1
        <3> QED BY <3>2, <3>3, <3>4, <3>5, <3>6, <3>7
    <2>6. CASE \E sampled \in BOOLEAN : AutoCommandEvent(sampled)
        <3>1. /\ menu' \in {"mainMenu", "controlPressure"}
              /\ errorFlag' = FALSE /\ errorCount' \in {0, 1}
            BY <2>6, AutoCommandAlarm
        <3> QED BY <3>1
    <2>7. CASE ManualCommandEvent BY <2>7, ManualCommandAlarm
    <2>8. CASE MqttCommand BY <2>8, CommandKeepsScreen
    <2>9. CASE TakeConnectRequest \/ PanelInterrupt \/ UNCHANGED vars
        BY <2>9, InterruptKeepsScreen
    <2> QED BY StepCases, <2>1, <2>2, <2>3, <2>4, <2>5, <2>6, <2>7, <2>8, <2>9
<1> QED BY FreshInvariant, <1>1, <1>2, PTL DEF Spec, KeepsAlarmPromise, Alarm!AlarmSpec

(***************************************************************************)
(* The speed stays a percentage when the broker's speeds are.              *)
(***************************************************************************)
Percentage == speed \in 0..MaxSpeed /\ fanCmd <= 10 * MaxSpeed

\* The 16-bit conversion never increases a natural number.
LEMMA ConversionShrinks == \A n \in Nat : AsUInt16(n) <= n
BY DEF AsUInt16

LEMMA Scale ==
    ASSUME NEW m \in Nat, NEW n \in 0..m
    PROVE  n * 10 \in Nat /\ n * 10 <= 10 * m /\ n * 10 \in 0..(10 * m)
OBVIOUS

\* A word that is a number converted is no larger than any bound of it.
LEMMA ConversionBound ==
    ASSUME NEW n \in Nat, NEW bound \in Nat, n <= bound
    PROVE  AsUInt16(n) <= bound
<1>1. AsUInt16(n) <= n BY ConversionShrinks
<1>2. AsUInt16(n) \in Int
    <2>1. n \in Int OBVIOUS
    <2>2. AsUInt16(n) \in UInt16 BY <2>1, AsUInt16Type
    <2>3. UInt16 \subseteq Int BY DEF UInt16
    <2> QED BY <2>2, <2>3
<1> QED BY <1>1, <1>2

\* A percentage, or ten times one, may be written to the fan.
LEMMA WritePercentage ==
    ASSUME NEW n \in 0..(10 * MaxSpeed), WriteFan(n)
    PROVE  fanCmd' <= 10 * MaxSpeed
<1>1. n \in Nat /\ n <= 10 * MaxSpeed BY ConstantTypes
<1>2. 10 * MaxSpeed \in Nat BY ConstantTypes
<1>3. AsUInt16(n) <= 10 * MaxSpeed BY <1>1, <1>2, ConversionBound
<1> QED BY <1>3 DEF WriteFan

\* The one-sided clamps of the controller suffice for a percentage.
LEMMA ControlPercentage ==
    ASSUME TypeOK, Percentage, NEW flag, NEW count, NEW sampled,
           ControlScreen(flag, count, sampled)
    PROVE  Percentage'
<1>1. PICK reading \in Readings :
        LET low  == reading < setPressure - Deadband
            high == reading > setPressure + Deadband
        IN  speed' = CASE low -> (IF speed + 1 >= MaxSpeed THEN MaxSpeed ELSE speed + 1)
                       [] high -> (IF speed - 1 <= 0 THEN 0 ELSE speed - 1)
                       [] OTHER -> speed
    BY DEF ControlScreen
<1>2. fanCmd' \in {0, fanCmd, AsUInt16(speed' * 10)}
    BY Zenon DEF ControlScreen, Stopped
<1>3. MaxSpeed \in Nat /\ speed \in 0..MaxSpeed /\ fanCmd <= 10 * MaxSpeed
    BY ConstantTypes DEF Percentage
<1>4. speed' \in 0..MaxSpeed
    <2>1. \/ speed' = speed
          \/ speed' = (IF speed + 1 >= MaxSpeed THEN MaxSpeed ELSE speed + 1)
          \/ speed' = (IF speed - 1 <= 0 THEN 0 ELSE speed - 1)
        BY <1>1
    <2> QED BY <1>3, <2>1
<1>5. AsUInt16(speed' * 10) <= 10 * MaxSpeed
    <2>1. speed' * 10 \in Nat /\ speed' * 10 <= 10 * MaxSpeed BY <1>3, <1>4, Scale
    <2>2. 10 * MaxSpeed \in Nat BY <1>3
    <2> QED BY <2>1, <2>2, ConversionBound
<1>6. 0 <= 10 * MaxSpeed BY <1>3
<1> QED BY <1>2, <1>3, <1>4, <1>5, <1>6 DEF Percentage

LEMMA PercentageNext ==
    ASSUME IInv, Percentage, MqttSpeeds \subseteq 0..MaxSpeed, [Next]_vars
    PROVE  Percentage'
<1>1. speed \in 0..MaxSpeed /\ fanCmd <= 10 * MaxSpeed /\ MaxSpeed \in Nat
    BY ConstantTypes DEF Percentage
<1>2. CASE \/ StartStep \/ StatusStep \/ MainMenuStep \/ WifiAndMqttStep \/ ConnectStep
           \/ EditorScreens
    BY <1>2 DEF Percentage, StartStep, StatusStep, MainMenuStep, WifiAndMqttStep, ConnectStep,
                EditorScreens, KeepsControl, controlVars, fanVars
<1>3. CASE SetSpeedStep
    <2>1. PICK t \in TurnsFound :
            IF t.by = 0
            THEN UNCHANGED <<autoMode, speed, fanVars>>
            ELSE /\ autoMode' = FALSE
                 /\ speed' = Clamp(speed + t.by, 0, MaxSpeed)
                 /\ WriteFan(speed' * 10)
        BY <1>3 DEF SetSpeedStep
    <2>2. t.by \in {-1, 0, 1} BY TurnsFoundType DEF IInv, TypeOK
    <2>3. CASE t.by = 0 BY <2>1, <2>3 DEF fanVars, Percentage
    <2>4. CASE t.by # 0
        <3>1. speed + t.by \in Int BY <1>1, <2>2
        <3>2. speed' \in 0..MaxSpeed /\ WriteFan(speed' * 10)
            BY <1>1, <2>1, <2>4, <3>1, ClampType
        <3>3. speed' * 10 \in 0..(10 * MaxSpeed) BY <1>1, <3>2, Scale
        <3>4. fanCmd' <= 10 * MaxSpeed BY <3>2, <3>3, WritePercentage
        <3> QED BY <3>2, <3>4 DEF Percentage
    <2> QED BY <2>3, <2>4
<1>4. CASE SetPressureStep
    <2>1. CASE "rotP" \in pressed
        <3>1. speed' = (IF speed < MinSpeed THEN MinSpeed ELSE speed) /\ WriteFan(speed')
            BY <1>4, <2>1 DEF SetPressureStep
        <3>2. MinSpeed \in 0..MaxSpeed BY ControlAssumption DEF ControlAssumption
        <3>3. speed' \in 0..MaxSpeed BY <1>1, <3>1, <3>2
        <3>4. speed' \in 0..(10 * MaxSpeed) BY <1>1, <3>3
        <3>5. fanCmd' <= 10 * MaxSpeed BY <3>1, <3>4, WritePercentage
        <3> QED BY <3>3, <3>5 DEF Percentage
    <2>2. CASE "rotP" \notin pressed
        BY <1>4, <2>2 DEF SetPressureStep, fanVars, Percentage
    <2> QED BY <2>1, <2>2
<1>5. CASE \E sampled \in BOOLEAN : ControlStep(sampled)
    BY <1>5, ControlPercentage DEF ControlStep, IInv
<1>6. CASE \E sampled \in BOOLEAN : AutoCommandEvent(sampled)
    BY <1>6, ControlPercentage DEF AutoCommandEvent, IInv
<1>7. CASE ManualCommandEvent
    <2>1. speed' = speed /\ WriteFan(speed * 10) BY <1>7 DEF ManualCommandEvent
    <2>2. speed * 10 \in 0..(10 * MaxSpeed) BY <1>1, Scale
    <2>3. fanCmd' <= 10 * MaxSpeed BY <2>1, <2>2, WritePercentage
    <2> QED BY <1>1, <2>1, <2>3 DEF Percentage
<1>8. CASE MqttCommand
    <2>1. speed' = speed \/ speed' \in MqttSpeeds
        BY <1>8 DEF MqttCommand, AutoCommand, ManualCommand
    <2>2. fanCmd' = fanCmd BY <1>8, CommandKeepsScreen
    <2> QED BY <1>1, <2>1, <2>2 DEF Percentage
<1>9. CASE TakeConnectRequest \/ PanelInterrupt \/ UNCHANGED vars
    BY <1>9 DEF TakeConnectRequest, PanelInterrupt, vars, controlVars, fanVars, Percentage
<1> QED BY StepCases, <1>2, <1>3, <1>4, <1>5, <1>6, <1>7, <1>8, <1>9

\* With speeds of the broker in 0..MaxSpeed, speed is a percentage and the
\* fan's register gets at most full scale, whatever the panel, the controller
\* and the broker do in which order.
THEOREM SpeedsArePercentages == Spec => []SpeedIsPercentage
<1>1. CASE MqttSpeeds \subseteq 0..MaxSpeed
    <2>1. Init => Percentage BY ConstantTypes DEF Init, Percentage
    <2>2. IInv /\ Percentage /\ [Next]_vars => Percentage' BY <1>1, PercentageNext
    <2>3. Percentage => SpeedIsPercentage BY DEF Percentage, SpeedIsPercentage
    <2> QED BY Invariant, <2>1, <2>2, <2>3, PTL DEF Spec
<1>2. CASE ~(MqttSpeeds \subseteq 0..MaxSpeed)
    <2>1. SpeedIsPercentage BY <1>2 DEF SpeedIsPercentage
    <2> QED BY <2>1, PTL
<1> QED BY <1>1, <1>2

(***************************************************************************)
(* The published settings: MenuHandler implements Operation, which the     *)
(* model of the superloop is built from.                                   *)
(***************************************************************************)
\* A run's setpoint is what the setpoint screen shows, which is the reading
\* of an earlier screen or a value the encoder reached.
PressureShown == pressure \in 0..MaxPressure \cup Readings

LEMMA PressureShownInit == Init => PressureShown
BY ConstantTypes DEF Init, PressureShown

\* What the setpoint screen does to the setpoint.
LEMMA SetpointKept ==
    ASSUME IInv, PressureShown, SetPressureStep
    PROVE  PressureShown'
<1>1. PICK t \in TurnsFound :
        pressure' = IF t.by = 0 THEN pressure ELSE Clamp(pressure + t.by, 0, MaxPressure)
    BY DEF SetPressureStep
<1>2. t.by \in {-1, 0, 1} BY TurnsFoundType DEF IInv, TypeOK
<1>3. pressure + t.by \in Int BY <1>2 DEF IInv, TypeOK, ControlTypeOK
<1>4. Clamp(pressure + t.by, 0, MaxPressure) \in 0..MaxPressure
    BY <1>3, ClampType, ConstantTypes
<1> QED BY <1>1, <1>4 DEF PressureShown

LEMMA PressureShownNext ==
    ASSUME IInv, PressureShown, [Next]_vars
    PROVE  PressureShown'
<1>1. CASE SetPressureStep BY <1>1, SetpointKept
<1>2. CASE \/ \E sampled \in BOOLEAN : ControlStep(sampled)
           \/ \E sampled \in BOOLEAN : AutoCommandEvent(sampled)
    BY <1>2 DEF ControlStep, AutoCommandEvent, ControlScreen, PressureShown
<1>3. CASE StatusStep \/ ManualCommandEvent
    BY <1>3 DEF StatusStep, ManualCommandEvent, StatusScreen, PressureShown
<1>4. CASE \/ StartStep \/ WifiAndMqttStep \/ ConnectStep \/ EditorScreens
           \/ MainMenuStep \/ SetSpeedStep
    BY <1>4 DEF StartStep, WifiAndMqttStep, ConnectStep, EditorScreens, MainMenuStep,
                SetSpeedStep, KeepsControl, controlVars, PressureShown
<1>5. CASE MqttCommand \/ TakeConnectRequest \/ PanelInterrupt \/ UNCHANGED vars
    BY <1>5 DEF MqttCommand, AutoCommand, ManualCommand, TakeConnectRequest, PanelInterrupt,
                vars, controlVars, PressureShown
<1> QED BY StepCases, <1>1, <1>2, <1>3, <1>4, <1>5

LEMMA PressureInvariant == Spec => [](IInv /\ PressureShown)
<1>1. IInv /\ PressureShown /\ [Next]_vars => PressureShown' BY PressureShownNext
<1> QED BY PressureShownInit, <1>1, Invariant, PTL DEF Spec

\* The screens that leave every setting alone.
LEMMA QuietSettings ==
    ASSUME IInv,
           StartStep \/ StatusStep \/ WifiAndMqttStep \/ ConnectStep \/ EditorScreens
    PROVE  UNCHANGED AsOperation!operationVars
<1>1. menu # "controlPressure" /\ menu' # "controlPressure" /\ errorFlag' = errorFlag
    BY QuietSteps DEF Quiet
<1>2. UNCHANGED <<speed, setPressure, autoMode, mqttFlag>>
    BY DEF StartStep, StatusStep, WifiAndMqttStep, ConnectStep, EditorScreens,
           KeepsControl, controlVars
<1> QED BY <1>1, <1>2 DEF AsOperation!operationVars

\* The speed after a step of the controller.
LEMMA SteppedSpeed ==
    ASSUME NEW flag, NEW count, NEW sampled, ControlScreen(flag, count, sampled)
    PROVE  speed' \in AsOperation!Stepped(speed)
<1>1. PICK reading \in Readings :
        LET low  == reading < setPressure - Deadband
            high == reading > setPressure + Deadband
        IN  speed' = CASE low -> (IF speed + 1 >= MaxSpeed THEN MaxSpeed ELSE speed + 1)
                       [] high -> (IF speed - 1 <= 0 THEN 0 ELSE speed - 1)
                       [] OTHER -> speed
    BY DEF ControlScreen
<1>2. \/ speed' = speed
      \/ speed' = (IF speed + 1 >= MaxSpeed THEN MaxSpeed ELSE speed + 1)
      \/ speed' = (IF speed - 1 <= 0 THEN 0 ELSE speed - 1)
    BY <1>1
<1> QED BY <1>2 DEF AsOperation!Stepped

\* The turn and the press of the two setting screens.
LEMMA SpeedIsTurned ==
    ASSUME IInv, ~mqttFlag, SetSpeedStep
    PROVE  AsOperation!TurnSpeed \/ UNCHANGED AsOperation!operationVars
<1>1. PICK t \in TurnsFound :
        IF t.by = 0 THEN UNCHANGED <<autoMode, speed, fanVars>>
        ELSE autoMode' = FALSE /\ speed' = Clamp(speed + t.by, 0, MaxSpeed)
    BY DEF SetSpeedStep
<1>2. t.by \in {-1, 0, 1} BY TurnsFoundType DEF IInv, TypeOK
<1>3. speed + t.by \in Int BY <1>2 DEF IInv, TypeOK, ControlTypeOK
<1>4. Clamp(speed + t.by, 0, MaxSpeed) \in 0..MaxSpeed BY <1>3, ClampType, ConstantTypes
<1>5. /\ menu # "controlPressure" /\ menu' # "controlPressure"
      /\ UNCHANGED <<setPressure, mqttFlag, errorFlag>>
    BY DEF SetSpeedStep
<1> QED BY <1>1, <1>4, <1>5 DEF AsOperation!TurnSpeed, AsOperation!operationVars

LEMMA SetpointIsTurned ==
    ASSUME IInv, PressureShown, ~mqttFlag, SetPressureStep
    PROVE  \/ AsOperation!TurnSetpoint \/ AsOperation!StartRun
           \/ UNCHANGED AsOperation!operationVars
<1>1. /\ menu = "setPressureMode" /\ errorFlag = FALSE /\ errorFlag' = errorFlag
      /\ mqttFlag' = mqttFlag
    BY SetPressureAlarm DEF SetPressureStep
<1>2. autoMode' \in {autoMode, TRUE}
    BY DEF SetPressureStep, IInv, TypeOK, ControlTypeOK
<1>3. CASE "rotP" \in pressed
    <2>1. /\ menu' = "controlPressure" /\ setPressure' = pressure'
          /\ speed' = IF speed < MinSpeed THEN MinSpeed ELSE speed
        BY <1>3 DEF SetPressureStep
    <2>2. setPressure' \in 0..MaxPressure \cup Readings BY <2>1, SetpointKept DEF PressureShown
    <2> QED BY <1>1, <1>2, <2>1, <2>2 DEF AsOperation!StartRun
<1>4. CASE "rotP" \notin pressed
    <2>1. UNCHANGED <<menu, setPressure, speed>> BY <1>4 DEF SetPressureStep
    <2> QED BY <1>1, <1>2, <2>1 DEF AsOperation!TurnSetpoint, AsOperation!operationVars
<1> QED BY <1>3, <1>4

\* MenuHandler implements Operation for every scale, every reading and every
\* value the broker may send: a setting is changed by the commands, the two
\* setting screens and a run, and by nothing else.
THEOREM OperationRefinement == Spec => OperatesAsAbstracted
<1>1. Init => AsOperation!OperationInit BY DEF Init, AsOperation!OperationInit
<1>2. IInv /\ PressureShown /\ [Next]_vars
        => [AsOperation!OperationNext]_AsOperation!operationVars
    <2> SUFFICES ASSUME IInv, PressureShown, [Next]_vars
                 PROVE  AsOperation!OperationNext \/ UNCHANGED AsOperation!operationVars
        OBVIOUS
    <2> USE DEF AsOperation!OperationNext, AsOperation!ObeyStep, AsOperation!PanelStep
    <2>0. mqttFlag \in BOOLEAN /\ autoMode \in BOOLEAN /\ errorFlag \in BOOLEAN
        BY DEF IInv, TypeOK, ControlTypeOK
    <2>1. CASE StartStep \/ StatusStep \/ WifiAndMqttStep \/ ConnectStep \/ EditorScreens
        BY <2>1, QuietSettings
    <2>2. CASE ScreenEvent /\ MainMenuStep
        <3>1. /\ ~mqttFlag /\ menu # "controlPressure" /\ menu' # "controlPressure"
              /\ errorFlag' \in {errorFlag, FALSE}
            BY <2>2, MainMenuAlarm DEF ScreenEvent
        <3>2. UNCHANGED <<speed, setPressure, autoMode, mqttFlag>> BY <2>2 DEF MainMenuStep
        <3> QED BY <3>1, <3>2 DEF AsOperation!ClearAlarm, AsOperation!operationVars
    <2>3. CASE ScreenEvent /\ SetSpeedStep BY <2>3, SpeedIsTurned DEF ScreenEvent
    <2>4. CASE ScreenEvent /\ SetPressureStep BY <2>4, SetpointIsTurned DEF ScreenEvent
    <2>5. CASE ScreenEvent /\ \E sampled \in BOOLEAN : ControlStep(sampled)
        <3>1. PICK sampled \in BOOLEAN : ControlStep(sampled) BY <2>5
        <3>2. speed' \in AsOperation!Stepped(speed) BY <3>1, SteppedSpeed DEF ControlStep
        <3>3. /\ menu = "controlPressure" /\ errorFlag = FALSE
              /\ menu' \in {"mainMenu", "controlPressure"}
              /\ errorFlag' = FALSE \/ (errorFlag' = TRUE /\ menu' = "mainMenu")
            BY <3>1, ControlStepAlarm
        <3>4. ~mqttFlag /\ UNCHANGED <<setPressure, autoMode, mqttFlag>>
            BY <2>5, <3>1 DEF ScreenEvent, ControlStep, ControlScreen
        <3> QED BY <3>2, <3>3, <3>4 DEF AsOperation!Run
    <2>6. CASE \E sampled \in BOOLEAN : AutoCommandEvent(sampled)
        <3>1. PICK sampled \in BOOLEAN : AutoCommandEvent(sampled) BY <2>6
        <3>2. speed' \in AsOperation!Stepped(speed) BY <3>1, SteppedSpeed DEF AutoCommandEvent
        <3>3. errorFlag' = FALSE BY <3>1, AutoCommandAlarm
        <3>4. /\ mqttFlag /\ autoMode /\ mqttFlag' = FALSE
              /\ UNCHANGED <<setPressure, autoMode>>
            BY <3>1 DEF AutoCommandEvent, ControlScreen
        <3> QED BY <3>2, <3>3, <3>4 DEF AsOperation!ObeyAuto
    <2>7. CASE ManualCommandEvent
        <3>1. menu' \in {"mainMenu", "status"} BY <2>7, ManualCommandAlarm
        <3> QED BY <2>7, <3>1 DEF ManualCommandEvent, AsOperation!ObeyManual
    <2>8. CASE MqttCommand
        <3>1. ~mqttFlag /\ menu' = menu BY <2>8, CommandKeepsScreen DEF MqttCommand
        <3>2. CASE AutoCommand BY <3>1, <3>2 DEF AutoCommand, AsOperation!CommandAuto
        <3>3. CASE ManualCommand BY <3>1, <3>3 DEF ManualCommand, AsOperation!CommandManual
        <3> QED BY <2>8, <3>2, <3>3 DEF MqttCommand
    <2>9. CASE TakeConnectRequest \/ PanelInterrupt \/ UNCHANGED vars
        BY <2>9, InterruptKeepsScreen
        DEF TakeConnectRequest, PanelInterrupt, vars, controlVars, AsOperation!operationVars
    <2> QED BY <2>1, <2>2, <2>3, <2>4, <2>5, <2>6, <2>7, <2>8, <2>9
            DEF Next, Event, ScreenEvent
<1> QED BY PressureInvariant, <1>1, <1>2, PTL
        DEF Spec, OperatesAsAbstracted, AsOperation!OperationSpec
=============================================================================
