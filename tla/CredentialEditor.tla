-------------------------- MODULE CredentialEditor --------------------------
(***************************************************************************)
(* The two screens of MenuHandler::event() on which the operator types the *)
(* Wi-Fi and MQTT credentials: CredentialsMenu and enterCredentials.  A    *)
(* text is abstracted to its length, all that the code looks at.           *)
(***************************************************************************)
EXTENDS FrontPanel

CONSTANTS
    Letters,     \* keys of alphabet and of lowercase_alphabet, 26 in the code
    Symbols,     \* keys of special_chars_numbers, 36 in the code
    MaxTyped     \* bound on the length of a text, for model checking only

ASSUME KeyAssumption ==
    Letters \in Nat \ {0} /\ Symbols \in Nat \ {0} /\ MaxTyped \in Nat

\* The order in which the save button fills the fields.
FieldOrder == <<"ssid", "password", "ip", "port">>
Fields == {FieldOrder[i] : i \in 1..4}

VARIABLES
    key,         \* up: about to prompt; down: the keyboard is on the screen
    keyboard,    \* capital, small or number
    typed,       \* currentCharBuff.size()
    shown,       \* displyString.size()
    saved,       \* the length of ssid2, password2, ip2 and port2 as saved
    entered,     \* the fields whose ...Entered flag is up
    isWiFi, isMqtt,
    asked        \* the field the last prompt named, or "nothing"

editorVars == <<key, keyboard, typed, shown, saved, entered, isWiFi, isMqtt, asked>>

Keyboards == {"capital", "small", "number"}

EditorTypeOK ==
    /\ key \in {"up", "down"}
    /\ keyboard \in Keyboards
    /\ typed \in 0..MaxTyped
    /\ shown \in 0..MaxTyped
    /\ saved \in [Fields -> 0..MaxTyped]
    /\ entered \in SUBSET Fields
    /\ isWiFi \in BOOLEAN
    /\ isMqtt \in BOOLEAN
    /\ asked \in Fields \cup {"nothing"}

EditorInit ==
    /\ key = "up"
    /\ keyboard = "capital"
    /\ typed = 0
    /\ shown = 0
    /\ saved = [f \in Fields |-> 0]
    /\ entered = {}
    /\ isWiFi = FALSE
    /\ isMqtt = FALSE
    /\ asked = "nothing"

(***************************************************************************)
(* CredentialsMenu: scroll, then act on a press of the encoder.            *)
(***************************************************************************)
CredentialsMenuStep ==
    /\ menu = "CredentialsMenu"
    /\ UNCHANGED <<keyboard, typed, shown, saved, entered, asked>>
    /\ \E t \in TurnsFound :
        LET press == "rotP" \in pressed
            entry == Scroll(t, 2)
            opens == press /\ entry \in {0, 1}
            back  == press /\ entry = 2
        IN  /\ rotary' = t.rotary
            /\ pressed' = pressed \ {"rotP"}
            /\ menuRot' = entry
            /\ highlight' = IF back THEN 0 ELSE Shown(t, 2)
            /\ menu' = CASE opens -> "enterCredentials"
                         [] back -> "wifiAndMqtt"
                         [] OTHER -> menu
            /\ key' = IF opens THEN "up" ELSE key
            /\ isWiFi' = (isWiFi \/ (press /\ entry = 0))
            /\ isMqtt' = (isMqtt \/ (press /\ entry = 1))

(***************************************************************************)
(* enterCredentials, key = up: name the field that is wanted, show the     *)
(* first keyboard.  When isWiFi is set and both Wi-Fi fields are entered,  *)
(* nothing is asked, whatever isMqtt says.                                 *)
(***************************************************************************)
FirstMissing(wanted) ==
    IF wanted[1] \notin entered THEN wanted[1]
    ELSE IF wanted[2] \notin entered THEN wanted[2] ELSE "nothing"

\* Faulty variant of Asks: the MQTT entry is looked at first.
AsksMqttFirst ==
    CASE isMqtt -> FirstMissing(<<"ip", "port">>)
      [] ~isMqtt /\ isWiFi -> FirstMissing(<<"ssid", "password">>)
      [] OTHER -> "nothing"

Asks ==
    CASE isWiFi -> FirstMissing(<<"ssid", "password">>)
      [] ~isWiFi /\ isMqtt -> FirstMissing(<<"ip", "port">>)
      [] OTHER -> "nothing"

Prompt ==
    /\ menu = "enterCredentials" /\ key = "up"
    /\ asked' = Asks
    /\ keyboard' = "capital"
    /\ menuRot' = 0
    /\ highlight' = 0
    /\ key' = "down"
    /\ UNCHANGED <<panelVars, menu, typed, shown, saved, entered, isWiFi, isMqtt>>

(***************************************************************************)
(* enterCredentials, key = down: in one pass, change the keyboard (sw2),   *)
(* scroll, type (encoder button), erase (sw1) and save (sw0).              *)
(***************************************************************************)
NextKeyboard(kb) ==
    CASE kb = "capital" -> "small" [] kb = "small" -> "number" [] OTHER -> "capital"

KeyCount(kb) == IF kb = "number" THEN Symbols ELSE Letters

\* The save button stores the text in the first field not entered yet,
\* whichever field the prompt named; with all four entered it stores nothing.
FirstFree ==
    FieldOrder[CHOOSE i \in 1..4 :
        FieldOrder[i] \notin entered /\ \A j \in 1..(i-1) : FieldOrder[j] \in entered]

AllEntered == \A i \in 1..4 : FieldOrder[i] \in entered

\* Faulty variant: take the port for what is left over.
FieldOrPort == IF AllEntered THEN "port" ELSE FirstFree

FieldToSave == IF AllEntered THEN "nothing" ELSE FirstFree

\* Faulty variant of ShownAfterSave: a save leaves the text shown as it was.
ShownKept(text, display) == display

\* Save first makes the text typed the one that is shown.
ShownAfterSave(text, display) == text

EnterText ==
    /\ menu = "enterCredentials" /\ key = "down"
    /\ UNCHANGED asked
    /\ keyboard' = IF "sw2" \in pressed THEN NextKeyboard(keyboard) ELSE keyboard
    /\ pressed' = {}
    /\ LET pushed  == IF "rotP" \in pressed THEN typed + 1 ELSE typed
           erases  == "sw1" \in pressed /\ pushed > 0
           left    == IF erases THEN pushed - 1 ELSE pushed
           display == IF erases THEN left
                      ELSE IF "rotP" \in pressed THEN pushed ELSE shown
           saves   == "sw0" \in pressed /\ display > 0
           field   == IF saves THEN FieldToSave ELSE "nothing"
           ends    == field \in {"password", "port"}
       IN  /\ pushed <= MaxTyped
           /\ typed' = IF field # "nothing" THEN 0 ELSE left
           /\ shown' = IF saves THEN ShownAfterSave(left, display) ELSE display
           /\ saved' = [f \in Fields |-> IF f = field THEN left ELSE saved[f]]
           /\ entered' = IF field # "nothing" THEN entered \cup {field} ELSE entered
           /\ key' = IF field \in {"ssid", "ip"} THEN "up" ELSE key
           /\ isWiFi' = (isWiFi /\ field # "password")
           /\ isMqtt' = (isMqtt /\ field # "port")
           /\ menu' = IF ends THEN "CredentialsMenu" ELSE menu
    /\ \E t \in TurnsFound :
        /\ rotary' = t.rotary
        /\ menuRot' = Scroll(t, KeyCount(keyboard') - 1)
        /\ highlight' = IF menu' = "CredentialsMenu" THEN 0
                        ELSE IF "rotP" \in pressed THEN menuRot'
                        ELSE Shown(t, KeyCount(keyboard') - 1)

(***************************************************************************)
(* The editor on its own.  Around it, a broker command may take the panel  *)
(* to another screen in the middle of a text, and the operator may come    *)
(* back: only menuRot and the highlight start afresh then.                 *)
(***************************************************************************)
Interrupted ==
    /\ menu \in {"CredentialsMenu", "enterCredentials"}
    /\ menu' = "status"
    /\ UNCHANGED <<panelVars, menuRot, highlight, editorVars>>

Reopened ==
    /\ menu \in {"status", "wifiAndMqtt"}
    /\ menu' = "CredentialsMenu"
    /\ menuRot' = 0
    /\ highlight' = 0
    /\ pressed' = pressed \ {"rotP"}
    /\ UNCHANGED <<rotary, editorVars>>

EditorStep == CredentialsMenuStep \/ Prompt \/ EnterText

EditorNext ==
    \/ EditorStep
    \/ Interrupted
    \/ Reopened
    \/ PanelIsr /\ UNCHANGED editorVars

EditorStart == menu = "CredentialsMenu" /\ PanelInit /\ EditorInit

EditorSpec == EditorStart /\ [][EditorNext]_<<panelVars, screenVars, editorVars>>

(***************************************************************************)
(* Properties.                                                             *)
(***************************************************************************)

\* Types, for the panel and the editor together.
EditorTypes == PanelTypeOK /\ EditorTypeOK

\* The save branches of enterCredentials (MenuHandler.cpp:459-492) fill the
\* fields in one order, across interruptions and both menu entries: a field
\* is never entered before the ones that come first, so that getSSID() and
\* its three companions describe a prefix of a configuration.
EnteredInOrder ==
    \A i, j \in 1..4 : i < j /\ FieldOrder[j] \in entered => FieldOrder[i] \in entered

\* The save button looks at the text shown, which a save leaves standing when
\* it clears the text typed (MenuHandler.cpp:456-486): it can enter an empty
\* field, but only the next one after a text, never the first and never two in
\* a row, however long the operator types, erases, saves and comes back.
EmptyFollowsText ==
    \A i \in 1..4 : FieldOrder[i] \in entered /\ saved[FieldOrder[i]] = 0 =>
        i > 1 /\ saved[FieldOrder[i - 1]] > 0

\* What getSSID() and its three companions hand to the connection, at any
\* moment of any sequence of visits, saves, erasures and interruptions, is a
\* prefix of a configuration, with no empty field but behind a text
\* (MenuHandler.cpp:456-492): the sets that CredentialStore builds on.
FieldsWellFilled == EnteredInOrder /\ EmptyFollowsText

\* While the Wi-Fi entry is being filled in (isWiFi), the text saved is the
\* one the prompt named, even when a broker command interrupted the operator
\* between the prompt and the save and the editor was opened again through
\* the MQTT entry.
WiFiPromptAnswered ==
    [][isWiFi /\ asked # "nothing" /\ entered' # entered
        => entered' = entered \cup {asked}]_<<panelVars, screenVars, editorVars>>

\* A field that was entered keeps its text: retyping, erasing, reopening the
\* editor or pressing save again cannot change what the connection will use.
EnteredIsFinal ==
    [][\A f \in entered : f \in entered' /\ saved'[f] = saved[f]]_<<saved, entered>>

\* Said by the prompts "Write IP" and "Write Port" (MenuHandler.cpp:376, 381)
\* and by the comment "If the ip is not entered save it to ip2" (:476): the
\* text typed after a prompt is saved in the field the prompt named.
SavedWhereAsked ==
    [][asked # "nothing" /\ entered' # entered => entered' = entered \cup {asked}]_<<panelVars, screenVars, editorVars>>

\* Said by "If the Entered string is not empty" (MenuHandler.cpp:456): what
\* the save button stores is not empty.
NoEmptyFieldSaved == \A f \in entered : saved[f] > 0
=============================================================================
