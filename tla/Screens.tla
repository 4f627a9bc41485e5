------------------------------ MODULE Screens ------------------------------
(***************************************************************************)
(* The screens TFTDisplay draws on the 128 x 64 display.  Which characters *)
(* a text has matters to no property: each stands for a full block of 8 x  *)
(* 8 pixels, the most it can light, and a label is [n, x, y], n characters *)
(* at x, y.                                                                *)
(***************************************************************************)
EXTENDS DisplayController

Screen == Blank(128, 64, 1)

Block == (0..7) \X (0..7)
Label(n, x, y) == [n |-> n, x |-> x, y |-> y]

Lettered(fb, labels) ==
    FoldLeft(LAMBDA b, l : Text(b, [k \in 1..l.n |-> Block], l.x, l.y, 1), fb, labels)

-----------------------------------------------------------------------------
(* Screens of texts, drawn on an empty one. *)

MainMenuLabels == <<Label(9, 30, 2), Label(9, 0, 20), Label(12, 0, 30), Label(11, 0, 42), Label(6, 0, 54)>>
WifiMenuLabels == <<Label(7, 0, 15), Label(15, 0, 30), Label(6, 0, 45)>>
CredentialLabels == <<Label(20, 0, 15), Label(20, 0, 30), Label(6, 0, 45)>>

MainMenu == Lettered(Screen, MainMenuLabels)
WifiAndMqttMenu == Lettered(Screen, WifiMenuLabels)
CredentialsMenu == Lettered(Screen, CredentialLabels)

WelcomeScreen == Lettered(Screen, <<Label(16, 0, 22), Label(15, 0, 32), Label(7, 38, 42)>>)
ErrorScreen == Lettered(Screen, <<Label(5, 44, 5), Label(12, 0, 22), Label(14, 0, 32), Label(10, 0, 42)>>)
Connecting == Lettered(Screen, <<Label(16, 0, 30)>>)
NotConnected == Lettered(Screen, <<Label(13, 0, 30)>>)

\* Screens that nothing shows any more.
TextScreen(n) == Blit(Lettered(Screen, <<Label(n, 0, 0)>>), Fill(Blank(13, 11, 0), 1), 114, 0, 65535, <<>>)
TwoTexts(a, b) == Lettered(Screen, <<Label(a, 0, 30), Label(b, 0, 40)>>)
MqttAndWifi(number) ==
    Lettered(Screen, IF number = 0 THEN <<Label(4, 0, 0), Label(4, 0, 12)>>
                     ELSE <<Label(4, 0, 12), Label(4, 0, 0)>>)
DisplayChar(fb, x, y) == Lettered(FillRect(fb, x, y, 10, 10, 0), <<Label(1, x, y)>>)

\* Values of n digits each, and the icon with all its pixels lit.
StatusScreen(n) ==
    LET icon == Fill(Blank(10, 7, 0), 1)
        fb   == Line(Lettered(Screen, <<Label(6, 0, 0)>>), 0, 10, 128, 10, 1)
    IN  Blit(Lettered(fb, <<Label(10 + n, 0, 13), Label(8 + n, 0, 24), Label(8 + n, 0, 35),
                            Label(8 + n, 0, 46), Label(9 + n, 0, 57)>>),
             icon, 114, 0, 65535, <<>>)

-----------------------------------------------------------------------------
(* Bars *)

OfTenths(value, full) == (value * 13) \div (full \div 10)      \* faulty variant
BarWidth(value, full) == U16((value * 128) \div full)

\* A digit string of n characters over a bar.
Bar(title, value, full, n) ==
    FillRect(Lettered(Screen, <<Label(title, 0, 0), Label(n, 45, 20)>>),
             0, 40, BarWidth(value, full), 20, 1)

ControlPressureLevel(pressure, n) == Bar(14, pressure, 120, n)
ControlSpeed(speed, n) == Bar(11, speed, 100, n)

-----------------------------------------------------------------------------
(* Menus: the frames of all entries are drawn, the selected one lit. *)

Entries(rows, height) == [i \in DOMAIN rows |-> [y |-> rows[i], height |-> height]]
MainEntries == Entries(<<18, 28, 40, 52>>, 12)
ThreeEntries == Entries(<<11, 26, 41>>, 15)

OnlyDrawn(fb, entries, selection) ==                     \* faulty variant
    IF selection + 1 \notin DOMAIN entries THEN fb
    ELSE Rect(fb, 0, entries[selection + 1].y, 128, entries[selection + 1].height, 1)

\* Selections past the entries change nothing.
Selected(fb, entries, selection) ==
    IF selection + 1 \notin DOMAIN entries THEN fb
    ELSE FoldLeft(LAMBDA b, i : Rect(b, 0, entries[i].y, 128, entries[i].height,
                                     IF i = selection + 1 THEN 1 ELSE 0),
                  fb, [i \in DOMAIN entries |-> i])

SelectMenu(fb, selection) == Selected(fb, MainEntries, selection)
SelectWifiAndMqttMenu(fb, selection) == Selected(fb, ThreeEntries, selection)
SelectCredentials(fb, selection) == Selected(fb, ThreeEntries, selection)

-----------------------------------------------------------------------------
(* The keyboard: rows of ten keys, 12 pixels apart. *)

KeyX(i) == 4 + 12 * (i % 10)
KeyY(i) == 2 + 12 * (i \div 10)

\* Its seven lines at row 64 are below the last row, and clipped.
Keyboard(fb, keys) ==
    LET lettered == Lettered(FillRect(fb, 0, 0, 128, 50, 0),
                             [k \in 1..keys |-> Label(1, KeyX(k - 1), KeyY(k - 1))])
    IN  FoldLeft(LAMBDA b, i : Line(b, 18 * i - 14, 64, 18 * i - 2, 64, 1),
                 lettered, <<1, 2, 3, 4, 5, 6, 7>>)

\* Only three rows are told apart.
Row(selection) == IF selection > 19 THEN 2 ELSE IF selection > 9 THEN 1 ELSE 0

\* The key's frame is shown, and then taken back in the buffer.
KeyFrame(fb, selection) ==
    Frame(fb, 2 + 12 * (selection - 10 * Row(selection)), 12 * Row(selection), 12, 12)

ShownChar(fb, selection) == Colored(fb, KeyFrame(fb, selection), 1)
SelectChar(fb, selection) == Colored(ShownChar(fb, selection), KeyFrame(fb, selection), 0)

\* What is typed: 128 columns are cleared from the fourth on.
Cleared(fb) == RectCells(fb, 3, 52, 128, 10)
DisplayString(fb, n) == Lettered(Colored(fb, Cleared(fb), 0), <<Label(n, 4, 52)>>)
=============================================================================
