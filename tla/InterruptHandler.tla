-------------------------- MODULE InterruptHandler --------------------------
(***************************************************************************)
(* Interrupt_Handler: the GPIO callback of the encoder and of the four     *)
(* buttons, with the one debounce timestamp they share, against the        *)
(* statements with which the loop polls the flags on the main menu.  The   *)
(* callback separates any two statements of the loop; nothing separates    *)
(* its own.  Time is a 32-bit microsecond counter that wraps.              *)
(***************************************************************************)
EXTENDS Integers

CONSTANTS
    Operable,    \* the buttons the operator uses
    ClockWrap,   \* 2^32 microseconds
    TurnGap,     \* 50000 microseconds
    PressGap,    \* 500000 microseconds
    MaxSince,    \* bound: true time is told apart up to here
    MaxOwed      \* bound on the turns the callback is ahead of the loop

ASSUME DebounceAssumption ==
    /\ MaxSince \in Nat /\ MaxOwed \in Nat
    /\ TurnGap \in Nat /\ PressGap \in Nat /\ ClockWrap \in Nat
    /\ TurnGap < PressGap /\ PressGap < ClockWrap
    /\ PressGap < MaxSince

VARIABLES
    now,          \* time_us_32()
    timestamp,    \* the shared static timestamp
    since,        \* true time since the last edge that was let through
    rotaryturned, \* the encoder's flag
    count,        \* the encoder's count
    pressed,      \* the buttons whose buttonPressed is up
    place,        \* where the loop is
    menuRot,      \* the selected entry
    highlight,    \* the entry shown as selected
    owed          \* turns let through and not scrolled yet

handlerVars == <<now, timestamp, since, rotaryturned, count, pressed, place,
                 menuRot, highlight, owed>>

Panel == INSTANCE FrontPanel WITH
    rotary <- [turned |-> rotaryturned \/ place = "count", count |-> count],
    menu <- "mainMenu"

HandlerPlaces == {"outside", "clear", "count", "button", "clearButton"}

HandlerTypeOK ==
    /\ now \in 0..(ClockWrap - 1) /\ timestamp \in 0..(ClockWrap - 1)
    /\ since \in 0..MaxSince
    /\ rotaryturned \in BOOLEAN
    /\ count \in Panel!Clicks
    /\ pressed \in SUBSET Operable
    /\ place \in HandlerPlaces
    /\ menuRot \in 0..3 /\ highlight \in 0..3
    /\ owed \in Int

HandlerInit ==
    /\ now \in 0..(ClockWrap - 1)
    /\ timestamp = now
    /\ since = 0
    /\ rotaryturned = FALSE
    /\ count = 1
    /\ pressed = {}
    /\ place = "outside"
    /\ menuRot = 0 /\ highlight = 0
    /\ owed = 0

(***************************************************************************)
(* The callback.  The unsigned difference survives a wrap of the clock,    *)
(* but calls an edge early that comes a whole turn of the clock later.     *)
(***************************************************************************)
Elapsed == (now - timestamp) % ClockWrap

Unstamped(gap) ==                                       \* faulty variant
    /\ Elapsed > gap
    /\ since' = 0
    /\ UNCHANGED timestamp

LetThrough(gap) ==
    /\ Elapsed > gap
    /\ timestamp' = now
    /\ since' = 0

\* An edge of the encoder's pin A; pin B says which way.
TurnEdge(d) ==
    /\ LetThrough(TurnGap)
    /\ rotaryturned' = TRUE
    /\ count' = d
    /\ owed < MaxOwed /\ owed' = owed + 1
    /\ UNCHANGED <<now, pressed, place, menuRot, highlight>>

PressEdge(b) ==
    /\ LetThrough(PressGap)
    /\ pressed' = pressed \cup {b}
    /\ UNCHANGED <<now, rotaryturned, count, place, menuRot, highlight, owed>>

Tick ==
    /\ now' = (now + 1) % ClockWrap
    /\ since' = IF since < MaxSince THEN since + 1 ELSE since
    /\ UNCHANGED <<timestamp, rotaryturned, count, pressed, place, menuRot,
                   highlight, owed>>

(***************************************************************************)
(* The loop's statements, MenuHandler::event() on the main menu.           *)
(***************************************************************************)
TestTurn ==
    /\ place = "outside"
    /\ place' = IF rotaryturned THEN "clear" ELSE "button"
    /\ UNCHANGED <<now, timestamp, since, rotaryturned, count, pressed,
                   menuRot, highlight, owed>>

LeftUp == rotaryturned                                  \* faulty variant
Cleared == FALSE

ClearTurn ==
    /\ place = "clear"
    /\ rotaryturned' = Cleared
    /\ place' = "count"
    /\ UNCHANGED <<now, timestamp, since, count, pressed, menuRot, highlight, owed>>

Clamped(n) == IF n > 3 THEN 3 ELSE IF n < 0 THEN 0 ELSE n
WrapEntry(n) == IF n > 3 THEN 0 ELSE IF n < 0 THEN 3 ELSE n

\* menuRot += getCount(), wrap, redraw.
ReadCount ==
    /\ place = "count"
    /\ menuRot' = WrapEntry(menuRot + count)
    /\ highlight' = menuRot'
    /\ place' = "button"
    /\ owed' = owed - 1
    /\ UNCHANGED <<now, timestamp, since, rotaryturned, count, pressed>>

TestButton ==
    /\ place = "button"
    /\ place' = IF "rotP" \in pressed THEN "clearButton" ELSE "outside"
    /\ UNCHANGED <<now, timestamp, since, rotaryturned, count, pressed,
                   menuRot, highlight, owed>>

ClearButton ==
    /\ place = "clearButton"
    /\ pressed' = pressed \ {"rotP"}
    /\ place' = "outside"
    /\ UNCHANGED <<now, timestamp, since, rotaryturned, count, menuRot,
                   highlight, owed>>

Callback == (\E d \in Panel!Clicks : TurnEdge(d)) \/ (\E b \in Operable : PressEdge(b))

Loop == TestTurn \/ ClearTurn \/ ReadCount \/ TestButton \/ ClearButton

HandlerNext == Tick \/ Callback \/ Loop

HandlerSpec == HandlerInit /\ [][HandlerNext]_handlerVars

(***************************************************************************)
(* Properties.                                                             *)
(***************************************************************************)
\* The callback and the loop's statements, in any interleaving, do what
\* FrontPanel says of interrupts and one-step polls; the other modules use
\* FrontPanel.
PollsThePanel == Panel!PanelSpec

\* A turn is let through only 50 ms of true time after the edge let through
\* before it, a press only after 500 ms, whatever the clock wraps.
Debounced ==
    [][/\ owed' > owed => since > TurnGap
       /\ pressed' \ pressed # {} => since > PressGap]_handlerVars

\* The menu never scrolls more often than the callback let a turn through: a
\* turn that interrupts the loop between clearing the flag and reading the
\* count replaces the other's direction but adds no step of its own.
ScrollsWereTurns ==
    owed >= (IF rotaryturned THEN 1 ELSE 0) + (IF place = "count" THEN 1 ELSE 0)

\* The selection stays on an entry of the menu, and moves only as often as a
\* turn was let through (Interrupt_Handler.cpp:39, MenuHandler.cpp:136-147).
HandlerInv == HandlerTypeOK /\ ScrollsWereTurns
=============================================================================
