--------------------------- MODULE CredentialStore ---------------------------
(***************************************************************************)
(* The credentials between the editor, main() and the EEPROM: the boot     *)
(* erases the four records and reads them, a request of the operator is    *)
(* taken, stored record by record and connected with.  Power may fail      *)
(* between any two steps and in the middle of a write.                     *)
(***************************************************************************)
EXTENDS Integers

CONSTANT MaxBoots                                   \* boots that are followed

ASSUME BootsAssumption == MaxBoots \in Nat \ {0}

\* The four records of 64 bytes: SSID, password, address and port, at the
\* addresses 0, 64, 128 and 192.
Records == 1..4
Port == 4

\* A text is named for the boot in which it was typed.  Nothing is the empty
\* text, the one a second press of save enters, and the port 0 of a text that
\* is no number.  The editor's fields start with one blank, the port with
\* nothing; a torn text is what a write cut off by a power failure leaves.
Nothing == 0
Blank == -1
Torn == -2
Texts == (1..MaxBoots) \union {Nothing, Blank, Torn}

NoManager == <<>>
Unentered(i) == IF i = Port THEN Nothing ELSE Blank

VARIABLES
    eeprom,         \* what each record holds
    boots,          \* number of this boot
    at,             \* where main() is
    record,         \* record main() works on
    creds,          \* main()'s ssid, password, mqttBrokerAddress, mqttBrokerPort
    connectNow,     \* main()'s connectNow
    manager,        \* what the MqttWifiManager was made with
    fields,         \* MenuHandler's ssid2, password2, ip2 and port2
    entered,        \* how many of them are entered; they are in this order
    request         \* MenuHandler's connectNow

mainVars == <<at, record, creds, connectNow, manager>>
menuVars == <<fields, entered, request>>
vars == <<eeprom, boots, mainVars, menuVars>>

Places == {"erase", "read", "connect", "take", "store", "event"}

NoCreds == [i \in Records |-> Nothing]
NoFields == [i \in Records |-> Unentered(i)]

\* The device may have run before, and have left anything.
Init ==
    /\ eeprom \in [Records -> {Nothing, Torn}]
    /\ boots = 1
    /\ at = "erase" /\ record = 1
    /\ creds = NoCreds /\ connectNow = FALSE /\ manager = NoManager
    /\ fields = NoFields /\ entered = 0 /\ request = FALSE

\* main() goes on to the next record, or, after the last, to place next.
ErasesButLast(i) == i = Port - 1                        \* faulty variant: loop ends early
LastErased(i) == i = Port

Erased(text) == Nothing

Advance(last, next) ==
    /\ at' = IF last THEN next ELSE at
    /\ record' = IF last THEN 1 ELSE record + 1

\* erase_log(0), one record at a time.
EraseRecord ==
    /\ at = "erase"
    /\ eeprom' = [eeprom EXCEPT ![record] = Erased(@)]
    /\ Advance(LastErased(record), "read")
    /\ UNCHANGED <<boots, creds, connectNow, manager, menuVars>>

\* read_string and read_number: no check of the CRC, whatever is there counts.
ReadAll ==
    /\ at = "read"
    /\ creds' = eeprom
    /\ connectNow' = (\A i \in Records : eeprom[i] # Nothing)
    /\ at' = "connect"
    /\ UNCHANGED <<eeprom, boots, record, manager, menuVars>>

\* if(connectNow): a new manager; whether Wi-Fi and the broker answer is the
\* matter of MqttSession.
Connect ==
    /\ at = "connect"
    /\ IF connectNow THEN manager' = creds ELSE manager' = manager
    /\ connectNow' = FALSE
    /\ at' = "take"
    /\ UNCHANGED <<eeprom, boots, record, creds, menuVars>>

\* if(menuHandler.connectNow).
NeverConnects(asked) == connectNow                      \* faulty variant: not set
ConnectsNext(asked) == connectNow \/ asked

TakeRequest ==
    /\ at = "take"
    /\ IF request
       THEN /\ creds' = fields
            /\ at' = "store"
       ELSE /\ UNCHANGED creds
            /\ at' = "event"
    /\ connectNow' = ConnectsNext(request)
    /\ request' = FALSE
    /\ UNCHANGED <<eeprom, boots, record, manager, fields, entered>>

\* write_string leaves the record alone when the text is empty; write_number
\* writes any number, 0 for no port.
Writes(i, text) == i = Port \/ text # Nothing

StoreRecord ==
    /\ at = "store"
    /\ eeprom' = IF Writes(record, creds[record])
                 THEN [eeprom EXCEPT ![record] = creds[record]] ELSE eeprom
    /\ Advance(record = Port, "event")
    /\ UNCHANGED <<boots, creds, connectNow, manager, menuVars>>

\* What save can put into field i: what was typed, for the port perhaps no
\* number, or nothing, where the text shown is still the one saved before
\* (CredentialEditor, EmptyFollowsText).
Enterable(i) ==
    IF i = Port \/ (i > 1 /\ fields[i - 1] # Nothing) THEN {boots, Nothing} ELSE {boots}

\* event(): the operator may enter the next field, or ask to connect, with
\* whatever is entered; an entered field stays (CredentialEditor, EnteredIsFinal).
EnterField ==
    /\ entered < 4
    /\ \E text \in Enterable(entered + 1) :
           fields' = [fields EXCEPT ![entered + 1] = text]
    /\ entered' = entered + 1
    /\ UNCHANGED request

MenuEvent ==
    /\ at = "event"
    /\ \/ EnterField
       \/ request' = TRUE /\ UNCHANGED <<fields, entered>>
       \/ UNCHANGED menuVars
    /\ at' = "connect"
    /\ UNCHANGED <<eeprom, boots, record, creds, connectNow, manager>>

\* A failure during a write may leave the record torn.
PowerFailure ==
    /\ boots < MaxBoots
    /\ boots' = boots + 1
    /\ \/ eeprom' = eeprom
       \/ at \in {"erase", "store"} /\ eeprom' = [eeprom EXCEPT ![record] = Torn]
    /\ at' = "erase" /\ record' = 1
    /\ creds' = NoCreds /\ connectNow' = FALSE /\ manager' = NoManager
    /\ fields' = NoFields /\ entered' = 0 /\ request' = FALSE

Main == EraseRecord \/ ReadAll \/ Connect \/ TakeRequest \/ StoreRecord \/ MenuEvent

Next == Main \/ PowerFailure

Spec == Init /\ [][Next]_vars

\* main() goes on while there is power.
FairSpec == Spec /\ WF_vars(Main)

(***************************************************************************)
(* Properties.                                                             *)
(***************************************************************************)
StoreTypes ==
    /\ eeprom \in [Records -> Texts]
    /\ boots \in 1..MaxBoots
    /\ at \in Places
    /\ record \in Records
    /\ creds \in [Records -> Texts]
    /\ connectNow \in BOOLEAN
    /\ manager = NoManager \/ manager \in [Records -> Texts]
    /\ fields \in [Records -> Texts]
    /\ entered \in 0..4
    /\ request \in BOOLEAN

\* The fields as they stood with the first n of them entered.
SetOf(n) == [i \in Records |-> IF i <= n THEN fields[i] ELSE Unentered(i)]

\* Whatever was stored before and whenever the power failed, a connection is
\* made with the fields as they stood at one moment since this boot, empty ones
\* as empty: never with an older text, a mixture of two sets or a torn record
\* (main.cpp:74-88, 151-157, 177-183).
ConnectsAsEntered == manager # NoManager => \E n \in 0..entered : manager = SetOf(n)

\* The record is what main() took from the menu; under an empty text, which is
\* not written, nothing stands but the blank of an earlier request.
IsStored(i) ==
    \/ eeprom[i] = creds[i]
    \/ creds[i] = Nothing /\ eeprom[i] = Unentered(i)

\* Once the loop runs, each record behind the one that is being written is as
\* taken, and none holds anything older than this boot: neither a write left
\* out for an empty text nor a power failure between two of the four leaves a
\* piece of another set (main.cpp:74, 185-188; eeprom.cpp:85-95, 125).
NothingOldStored ==
    /\ at \in {"connect", "take", "event"} => \A i \in Records : IsStored(i)
    /\ at = "store" => \A i \in Records : i < record => IsStored(i)
    /\ at \notin {"erase", "read"} =>
        \A i \in Records : eeprom[i] \in {Nothing, Unentered(i), fields[i]}

\* Power failures and empty fields mix no two sets, neither in what is
\* connected with nor in what is left for the next boot (main.cpp:74-88,
\* 151-157, 185-188).
StoreInv == StoreTypes /\ ConnectsAsEntered /\ NothingOldStored

\* What the operator asked for is done: a request made with n fields entered
\* leads to a connection attempt that uses these, the empty ones too, unless
\* the power fails (main.cpp:152-189).
RequestServed ==
    \A b \in 1..MaxBoots, n \in Records :
        (request /\ boots = b /\ entered = n)
            ~> \/ boots # b
               \/ manager # NoManager /\ \A i \in 1..n : manager[i] = fields[i]
=============================================================================
