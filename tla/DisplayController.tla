------------------------- MODULE DisplayController -------------------------
(***************************************************************************)
(* What the driver sends to the SSD1306: the commands that set it up, and  *)
(* show(), which opens a window on its memory and copies the frame buffer  *)
(* into it.  The chip is external: it takes a stream of commands, each     *)
(* with a number of arguments of its own.                                  *)
(***************************************************************************)
EXTENDS FrameBuffer

MemMode == 32
ColAddr == 33
PageAddr == 34
MuxRatio == 168
DispOffset == 211
ComPinCfg == 218
DisplayOff == 174
DisplayOn == 175

\* External: how many bytes belong to a command.
Arguments(command) ==
    IF command \in {ColAddr, PageAddr} THEN 2
    ELSE IF command \in {MemMode, 129, 141, MuxRatio, DispOffset, 213, 217, ComPinCfg, 219} THEN 1
    ELSE 0

\* External: the commands in a stream, with their arguments; an incomplete
\* one at the end is the last.
Understood(cmds) ==
    LET from[i \in Nat] ==
            IF i > Len(cmds) THEN <<>>
            ELSE LET next == i + 1 + Arguments(cmds[i])
                 IN  <<SubSeq(cmds, i, next - 1)>> \o from[next]
    IN  from[1]

\* init(): the pin configuration of the higher displays is put in by index.
ForHeight(height, cmds) == IF height > 32 THEN [cmds EXCEPT ![12] = 18] ELSE cmds

InitCommands(height) ==
    ForHeight(height,
        <<DisplayOff, MemMode, 0, 64, 161, MuxRatio, height - 1, 200, DispOffset, 0, ComPinCfg, 2,
          213, 128, 217, 241, 219, 48, 129, 255, 164, 166, 141, 20, 46, DisplayOn>>)

\* The first column of a display with fewer than 128.
FirstColumn(width) == IF width = 128 THEN 0 ELSE 128 - width

ShowCommands(fb) ==
    <<ColAddr, FirstColumn(fb.width), FirstColumn(fb.width) + fb.width - 1,
      PageAddr, 0, fb.height \div 8 - 1>>

\* External: the bytes behind the control byte fill the window row by row;
\* the pixels <<column, row>> of the chip that are lit then.
Shown(fb) ==
    LET window == Understood(ShowCommands(fb))
        first  == window[1][2]
        columns == window[1][3] - first + 1
    IN  {<<first + ((c[1] - 1) % columns), 8 * (window[2][2] + (c[1] - 1) \div columns) + c[2]>> :
            c \in {b \in fb.lit : b[1] \in 1..(BufferSize(fb) - 1)}}
=============================================================================
