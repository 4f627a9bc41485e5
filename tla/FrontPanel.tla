----------------------------- MODULE FrontPanel -----------------------------
(***************************************************************************)
(* What the operator touches and sees: the rotary encoder, the four push   *)
(* buttons, and the screen the menu is on.  The GPIO interrupt only sets   *)
(* flags (Interrupt_Handler); MenuHandler::event() polls and clears them.  *)
(* This module says what the loop can find in those flags.  The debounce   *)
(* that decides which edges reach them is the subject of InterruptHandler. *)
(***************************************************************************)
EXTENDS Integers

CONSTANT Operable        \* the buttons the operator uses in this instance

Buttons == {"rotP", "sw0", "sw1", "sw2"}

ASSUME OperableAssumption == Operable \subseteq Buttons

\* MenuHandler::MenuEventType.  Its last value, errorstatus, is never assigned.
Menus == {"start", "status", "mainMenu", "setSpeedMode", "setPressureMode",
          "controlPressure", "wifiAndMqtt", "connectWifiandMqtt",
          "CredentialsMenu", "enterCredentials"}

VARIABLES
    rotary,      \* rothandlerA: [turned |-> rotaryturned, count |-> count]
    pressed,     \* the buttons whose buttonPressed flag is up
    menu,        \* MenuEventType
    menuRot,     \* the entry the code considers selected
    highlight    \* the entry the display shows as selected

panelVars == <<rotary, pressed>>
screenVars == <<menu, menuRot, highlight>>

Clicks == {-1, 1}

PanelTypeOK ==
    /\ rotary \in [turned : BOOLEAN, count : Clicks]
    /\ pressed \in SUBSET Buttons
    /\ menu \in Menus
    /\ menuRot \in Nat
    /\ highlight \in Nat

\* The encoder's count is uninitialised until the first turn, and no code
\* reads it before one; +1 stands for that value.
PanelInit ==
    /\ rotary = [turned |-> FALSE, count |-> 1]
    /\ pressed = {}
    /\ menuRot = 0
    /\ highlight = 0

(***************************************************************************)
(* The interrupts, at any moment between two events.                       *)
(***************************************************************************)
TurnIsr(d) ==
    /\ rotary' = [turned |-> TRUE, count |-> d]
    /\ UNCHANGED <<pressed, menu, menuRot, highlight>>

PressIsr(b) ==
    /\ pressed' = pressed \cup {b}
    /\ UNCHANGED <<rotary, menu, menuRot, highlight>>

PanelIsr == (\E d \in Clicks : TurnIsr(d)) \/ (\E b \in Operable : PressIsr(b))

(***************************************************************************)
(* The loop tests rotaryturned, clears it, and only then reads the count.  *)
(* An interrupt between the clear and the read changes the count that is   *)
(* read and leaves the flag up, so that one turn is counted twice.  "by"   *)
(* is 0 exactly when no turn was found.                                    *)
(***************************************************************************)
TurnsFound ==
    IF ~rotary.turned
    THEN {[by |-> 0, rotary |-> rotary]}
    ELSE {[by |-> rotary.count, rotary |-> [rotary EXCEPT !.turned = FALSE]]}
         \cup {[by |-> d, rotary |-> [turned |-> TRUE, count |-> d]] : d \in Clicks}

\* The wrap-around is written after the addition, inside "if turned": a
\* menuRot left out of range by another screen survives until a turn.

Wrap(n, last) == IF n > last THEN 0 ELSE IF n < 0 THEN last ELSE n

Scroll(t, last) == IF t.by = 0 THEN menuRot ELSE Wrap(menuRot + t.by, last)

\* A turn redraws the highlight at the new position; without one it stays.
Shown(t, last) == IF t.by = 0 THEN highlight ELSE Wrap(menuRot + t.by, last)

ClampBelow(n, low, high) == IF n < low THEN low ELSE n  \* faulty variant: no upper end

Clamp(n, low, high) == IF n > high THEN high ELSE IF n < low THEN low ELSE n

(***************************************************************************)
(* The panel by itself, with the main menu on the screen: interrupts, and  *)
(* polls that are one step each.  InterruptHandler shows that the          *)
(* statements of the loop and of the interrupt implement it.               *)
(***************************************************************************)
PollTurn ==
    /\ rotary.turned
    /\ \E t \in TurnsFound :
        /\ rotary' = t.rotary
        /\ menuRot' = Scroll(t, 3)
        /\ highlight' = Shown(t, 3)
    /\ UNCHANGED <<pressed, menu>>

PollPress(b) ==
    /\ b \in pressed
    /\ pressed' = pressed \ {b}
    /\ UNCHANGED <<rotary, menu, menuRot, highlight>>

PanelNext == PanelIsr \/ PollTurn \/ \E b \in Operable : PollPress(b)

PanelSpec == PanelInit /\ [][PanelNext]_<<panelVars, screenVars>>
=============================================================================
