----------------------------- MODULE Algorithms -----------------------------
(***************************************************************************)
(* The program's pure algorithms: the encodings of Codecs, and here the    *)
(* drawing.  Every kind of input is drawn from an idle state and put back. *)
(***************************************************************************)
EXTENDS Codecs

Panel == INSTANCE Screens

-----------------------------------------------------------------------------
(* The primitives, on buffers whose last page is only partly shown. *)

Pattern(fb, k) ==
    [fb EXCEPT !.lit = {Panel!Cell(fb, p[1], p[2]) :
                           p \in {q \in (0..(fb.width - 1)) \X (0..(fb.height - 1)) :
                                     (k * q[1] + q[2]) % 3 = 0}}]

Abs(n) == IF n < 0 THEN -n ELSE n
Larger(a, b) == IF a > b THEN a ELSE b

LineCases == [kind : {"line"}, from : {0, 1, 4, 11} \X {0, 3, 9, 10}, to : (0..13) \X (0..11)]

\* A line has one pixel for each step of its longer axis, from end to end,
\* the nearest to the straight one; what is outside the buffer is left out.
LinesNearest ==
    input.kind = "line" =>
        LET a  == input.from
            b  == input.to
            dx == b[1] - a[1]
            dy == b[2] - a[2]
            n  == Larger(Abs(dx), Abs(dy))
            ps == Panel!LinePoints(a[1], a[2], b[1], b[2])
            fb == Panel!Blank(12, 10, 1)
        IN  /\ {a, b} \subseteq ps /\ Cardinality(ps) = n + 1
            /\ \A p \in ps : /\ Abs(p[1] - a[1]) <= n /\ Abs(p[2] - a[2]) <= n
                             /\ 2 * Abs(dy * (p[1] - a[1]) - dx * (p[2] - a[2])) <= n
            /\ Panel!Line(fb, a[1], a[2], b[1], b[2], 1).lit
                   = {Panel!Cell(fb, p[1], p[2]) : p \in ps \cap ((0..11) \X (0..9))}

ScrollCases == [kind : {"scroll"}, xstep : -7..7, ystep : {-11, -10, -9, -3, 0, 1, 8, 9, 10, 11},
                pattern : {1, 2}]

\* Scrolling in place gives what scrolling a copy would: every pixel whose
\* source is in the buffer gets it, the others stay.
ScrollMoves ==
    input.kind = "scroll" =>
        LET old == Pattern(Panel!Blank(6, 10, 1), input.pattern)
            new == Panel!Scroll(old, input.xstep, input.ystep)
            Source(p) == <<p[1] - input.xstep, p[2] - input.ystep>>
            all == (0..5) \X (0..9)
        IN  new.lit = {Panel!Cell(old, p[1], p[2]) :
                          p \in {q \in all : LET s == IF Source(q) \in all THEN Source(q) ELSE q
                                             IN  Panel!GetPixel(old, s[1], s[2]) = 1}}

Inverse2 == [Panel!Blank(2, 1, 0) EXCEPT !.lit = {<<0, 0>>}]

BlitCases == [kind : {"blit"}, x : -5..7, y : {-11, -10, -9, -2, 0, 3, 8, 9, 10},
              key : {0, 1, 65535}, palette : {<<>>, <<Inverse2>>}]

\* A copied image lies at x, y, cut off at all four edges of the buffer; the
\* key's color lets through what was there.
BlitCopies ==
    input.kind = "blit" =>
        LET source == Pattern(Panel!Blank(4, 10, 0), 1)
            fb     == Pattern(Panel!Blank(6, 9, 1), 2)
            new    == Panel!Blit(fb, source, input.x, input.y, input.key, input.palette)
            Color(p) ==
                LET own   == Panel!GetPixel(fb, p[1], p[2])
                    there == <<p[1] - input.x, p[2] - input.y>>
                    got   == Panel!GetPixel(source, there[1], there[2])
                    color == IF input.palette = <<>> THEN got ELSE 1 - got
                IN  IF there \notin (0..3) \X (0..9) \/ color = input.key THEN own ELSE color
        IN  new.lit = {Panel!Cell(fb, p[1], p[2]) :
                          p \in {q \in (0..5) \X (0..8) : Color(q) = 1}}

\* Displays of other sizes than the program's.
PanelCases == [kind : {"panel"}, width : {64, 128}, height : {16, 32, 64}, pattern : {1, 2}]

\* The display is set up as its commands say, for its height, and shows the
\* buffer without a pixel missing or out of place; a narrow one (the program
\* has none) off its center by half of what is left.
ShownAsDrawn ==
    input.kind = "panel" =>
        LET fb    == Pattern(Panel!Blank(input.width, input.height, 1), input.pattern)
            setup == Panel!Understood(Panel!InitCommands(input.height))
            Said(command) == {setup[i] : i \in {j \in DOMAIN setup : setup[j][1] = command}}
        IN  /\ Said(Panel!MemMode) = {<<Panel!MemMode, 0>>}
            /\ Said(Panel!MuxRatio) = {<<Panel!MuxRatio, input.height - 1>>}
            /\ Said(Panel!DispOffset) = {<<Panel!DispOffset, 0>>}
            /\ Said(Panel!ComPinCfg) = {<<Panel!ComPinCfg, IF input.height > 32 THEN 18 ELSE 2>>}
            /\ Head(setup) = <<Panel!DisplayOff>> /\ Last(setup) = <<Panel!DisplayOn>>
            /\ Panel!Shown(fb) =
                   {<<p[1] + 128 - input.width, p[2]>> :
                       p \in {q \in (0..(input.width - 1)) \X (0..(input.height - 1)) :
                                 Panel!GetPixel(fb, q[1], q[2]) = 1}}

\* What is drawn is exact to the pixel, in the buffer and on the display
\* (framebuf.cpp:38-229, ssd1306.cpp:56-135).
DrawingExact == LinesNearest /\ ScrollMoves /\ BlitCopies /\ ShownAsDrawn

-----------------------------------------------------------------------------
(* The screens. *)

Menus == ("main" :> [screen |-> Panel!MainMenu, entries |-> Panel!MainEntries,
                     labels |-> Tail(Panel!MainMenuLabels)])
         @@ ("wifi" :> [screen |-> Panel!WifiAndMqttMenu, entries |-> Panel!ThreeEntries,
                        labels |-> Panel!WifiMenuLabels])
         @@ ("credentials" :> [screen |-> Panel!CredentialsMenu, entries |-> Panel!ThreeEntries,
                               labels |-> Panel!CredentialLabels])

EntryFrame(e) == Panel!Frame(Panel!Screen, 0, e.y, 128, e.height)

MenuCases == [kind : {"menu"}, menu : DOMAIN Menus, first : 0..3, then : 0..3]

\* However the entries were walked through, one frame is lit, around the
\* label of the entry selected last, and no label is damaged beyond the
\* columns of the frames.  (The first frame of the main menu and the second
\* overlap: the one drawn later wins.)
OneEntryFramed ==
    input.kind = "menu" =>
        LET m     == Menus[input.menu]
            Mine  == EntryFrame(m.entries[input.then + 1])
            Later == UNION {EntryFrame(m.entries[i]) : i \in (input.then + 2)..Len(m.entries)}
            All   == UNION {EntryFrame(m.entries[i]) : i \in DOMAIN m.entries}
            once  == Panel!Selected(m.screen, m.entries, input.then)
            twice == Panel!Selected(Panel!Selected(m.screen, m.entries, input.first), m.entries, input.then)
            e     == m.entries[input.then + 1]
            l     == m.labels[input.then + 1]
        IN  input.first < Len(m.entries) /\ input.then < Len(m.entries) =>
                /\ twice = once
                /\ once.lit \cap All = Mine \ Later
                /\ once.lit \ All = m.screen.lit \ All
                /\ e.y < l.y /\ l.y + 7 < e.y + e.height - 1

KeyCases == [kind : {"key"}, keys : {26, 36}, key : 0..29]

\* Called with one of the first 30 keys, selectChar frames that key on the
\* display, and taking the frame back leaves the keyboard in the buffer as it
\* was.  Nothing is said of the fourth row, the last six signs, which
\* selectChar does not know.
KeysFramed ==
    input.kind = "key" /\ input.key < input.keys =>
        LET kb    == Panel!Keyboard(Panel!Screen, input.keys)
            frame == Panel!Frame(Panel!Screen, Panel!KeyX(input.key) - 2, Panel!KeyY(input.key) - 2, 12, 12)
            shown == Panel!ShownChar(kb, input.key)
        IN  shown.lit = kb.lit \cup frame /\ Panel!SelectChar(kb, input.key) = kb

\* The selecting functions frame the entry or the key they are called with,
\* that one alone, and damage nothing (tftdisplay.cpp:74-146, 333-348).  That
\* they are called with what a press would take is another matter: it fails on
\* the menus (MenuHandler, HighlightedIsSelected), and a change of keyboard
\* calls nothing (MenuHandler.cpp:407).
SelectionFramed == OneEntryFramed /\ KeysFramed

ScreenCases ==
    [kind : {"speed"}, value : 0..100]
    \cup [kind : {"pressure"}, value : 0..126]
    \cup [kind : {"text"}, n : 0..25]
    \cup [kind : {"still"}, screen : {Panel!MainMenu, Panel!WifiAndMqttMenu, Panel!CredentialsMenu,
                                      Panel!WelcomeScreen, Panel!ErrorScreen, Panel!Connecting,
                                      Panel!NotConnected, Panel!StatusScreen(9),
                                      Panel!TextScreen(20), Panel!TwoTexts(20, 20),
                                      Panel!MqttAndWifi(0), Panel!MqttAndWifi(1)}]
    \cup [kind : {"key at"}, x : {0, 3, 114, 117}, y : {0, 2, 52, 54}]

\* The cells are behind the control byte, and at most n of them in a row
\* behind the buffer.
Reach(cells, n) == \A c \in cells : c[1] \in 1..(Panel!BufferSize(Panel!Screen) - 1 + n)

\* No screen writes to the control byte, and none behind the buffer, as long as
\* the speed is a percentage, but for two: the pressure screen is opened with
\* the last reading as it was taken (MenuHandler.cpp:155), 126 at most
\* (PressureRight), and a bar for more than 120 goes a byte further for each
\* pascal; the clearing of the text line ends three bytes behind
\* (tftdisplay.cpp:27-45, 262-272; framebuf.cpp:106-109, mono_vlsb.cpp).
ScreensStayInside ==
    /\ input.kind = "speed" => Reach(Panel!ControlSpeed(input.value, 5).lit, 0)
    /\ input.kind = "pressure" =>
           Reach(Panel!ControlPressureLevel(input.value, 6).lit,
                 IF input.value > 120 THEN input.value - 120 ELSE 0)
    /\ input.kind = "text" =>
           LET new == Panel!DisplayString(Panel!Keyboard(Panel!Screen, 36), input.n)
           IN  Reach(new.lit, 0) /\ Reach(Panel!Cleared(new), 3)
    /\ input.kind = "key at" =>
           Reach(Panel!DisplayChar(Panel!Screen, input.x, input.y).lit
                     \cup Panel!RectCells(Panel!Screen, input.x, input.y, 10, 10), 0)
    /\ input.kind = "still" => Reach(input.screen.lit, 0)

-----------------------------------------------------------------------------
Init == input = Idle

Next == \/ DrawCodec
        \/ Draw(LineCases)
        \/ Draw(ScrollCases)
        \/ Draw(BlitCases)
        \/ Draw(PanelCases)
        \/ Draw(MenuCases)
        \/ Draw(KeyCases)
        \/ Draw(ScreenCases)
        \/ input # Idle /\ input' = Idle

Spec == Init /\ [][Next]_input
=============================================================================
