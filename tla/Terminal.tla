------------------------------ MODULE Terminal ------------------------------
(***************************************************************************)
(* From a key to a line: the keyboard service (packages/keyboard), the     *)
(* stream it writes, getline of the user library, through which the shell  *)
(* reads, and the console that echoes (Console.cpp).  The controller keeps *)
(* one scancode in its port and raises an interrupt for it; the others     *)
(* wait in the keyboard.  The stream is what Broadcast promises, with one  *)
(* writer and one listener.                                                *)
(***************************************************************************)
EXTENDS Naturals, SequencesExt, FiniteSetsExt

CONSTANTS
  Width, Height, TabWidth,  \* of the screen (80, 25, 8)
  InitialSize,              \* of getline's buffer (8)
  Events,                   \* what the user does: records [key, up]
  Prompt, Outputs,          \* what the shell prints: sequences of characters
  MaxEvents,                \* bounds the events of a behaviour
  MaxQueued                 \* bounds those that wait in the keyboard

ASSUME TerminalAssumption ==
  /\ {Width, Height, TabWidth, InitialSize} \subseteq Nat \ {0}
  /\ Height > 1
  /\ {Prompt} \cup Outputs \subseteq Seq(STRING)

Newline == "newline"
Backspace == "backspace"
Tab == "tab"
Nul == "nul"
Blank == "blank"

VARIABLES
  queued,    \* scancodes that wait in the keyboard
  port,      \* the one in the controller's port
  full,      \* whether that one has not been read
  hits,      \* irqListenHits of the keyboard service
  keyboard,  \* the variables of its main, where it is, and whether it has read a
             \* scancode without its interrupt (history)
  input,     \* the bytes in getline's listener
  shell,     \* the variables of getline, and where the shell is
  console,   \* the cells of the screen, the cursor, where the line begins (history)
  typed,     \* history: the events
  missed,    \* history: how many of them were handled before getline listened
  lines      \* history: what getline has returned

terminalVars == <<queued, port, full, hits, keyboard, input, shell, console, typed, missed, lines>>

-----------------------------------------------------------------------------
(* The console.                                                            *)

Cells == 0 .. Width * Height - 1
Lost == Width * Height + 1       \* the line's beginning is not on the screen

\* The constructor's clear.
Cleared == [cells |-> [i \in Cells |-> Blank], x |-> 0, y |-> 0, begin |-> Lost]

At(s) == s.y * Width + s.x

Scroll(s) ==
  IF s.y < Height THEN s
  ELSE [s EXCEPT !.cells = [i \in Cells |-> IF i + Width \in Cells THEN s.cells[i + Width]
                                            ELSE Blank],
                 !.y = Height - 1,
                 !.begin = IF @ \in Width .. At(s) THEN @ - Width ELSE Lost]

ShiftCursorNewline(s) == Scroll([s EXCEPT !.x = 0, !.y = @ + 1])

ShiftCursor(s) ==
  IF s.x + 1 < Width THEN [s EXCEPT !.x = @ + 1] ELSE ShiftCursorNewline(s)

\* Mutant of ShiftCursorBackward: stays in its row.
StayInRow(s) == [s EXCEPT !.x = IF @ = 0 THEN 0 ELSE @ - 1]

ShiftCursorBackward(s) ==
  IF s.x > 0 THEN [s EXCEPT !.x = @ - 1]
  ELSE [s EXCEPT !.x = Width - 1, !.y = IF @ = 0 THEN 0 ELSE @ - 1]

\* A tab takes more cells than a backspace takes back.
ShiftCursorTab(s) ==
  LET x == s.x - (s.x % TabWidth) + TabWidth
      t == [s EXCEPT !.begin = Lost]
  IN  IF x < Width THEN [t EXCEPT !.x = x] ELSE ShiftCursorNewline(t)

PutChar(s, c) ==
  CASE c = Newline   -> ShiftCursorNewline(s)
    [] c = Tab       -> ShiftCursorTab(s)
    [] c = Backspace -> ShiftCursorBackward(s)
    [] OTHER         -> ShiftCursor([s EXCEPT !.cells[At(s)] = c])

PutString(s, str) ==
  LET after[i \in 0 .. Len(str)] == IF i = 0 THEN s ELSE PutChar(after[i - 1], str[i])
  IN  after[Len(str)]

-----------------------------------------------------------------------------
(* The keyboard and its controller.                                        *)

\* The user presses or releases a key.
Type(e) ==
  /\ Len(typed) < MaxEvents /\ Len(queued) < MaxQueued
  /\ queued' = Append(queued, e)
  /\ typed' = Append(typed, e)
  /\ UNCHANGED <<port, full, hits, keyboard, input, shell, console, missed, lines>>

\* The controller takes the next scancode; callHandler credits the interrupt.
Interrupt ==
  /\ ~full /\ queued # <<>>
  /\ port' = Head(queued) /\ full' = TRUE
  /\ queued' = Tail(queued)
  /\ hits' = IF keyboard.at = "irqListen" THEN hits ELSE hits + 1
  /\ UNCHANGED <<keyboard, input, shell, console, typed, missed, lines>>

-----------------------------------------------------------------------------
(* The keyboard service.                                                   *)

\* The keys that are not characters; the others are in keyboard_us.
ShiftKeys == {"leftShift", "rightShift"}
ControlKeys == {"ctrl", "alt"}
LockKeys == {"numLock", "scrollLock"}

keyboard_us == [a |-> "a", one |-> "1", enter |-> Newline, back |-> Backspace, tab |-> Tab]

\* The keys are those the tables have, and the shell prints no backspace.
ASSUME InputOutputAssumption ==
  /\ Events \subseteq [key : DOMAIN keyboard_us \cup ShiftKeys \cup ControlKeys
                              \cup LockKeys \cup {"capsLock"},
                       up : BOOLEAN]
  /\ \A str \in {Prompt} \cup Outputs : \A i \in DOMAIN str : str[i] # Backspace

shift_table == [c \in {"a", "1"} |-> IF c = "a" THEN "A" ELSE "!"]

ShiftCharacter(c) == IF c \in DOMAIN shift_table THEN shift_table[c] ELSE c

CapslockInvert(c) == CASE c = "a" -> "A" [] c = "A" -> "a" [] OTHER -> c

\* Mutant of Character: the table is asked after the case is inverted.
CharacterInverted(k, key) ==
  LET c == IF k.capslock THEN CapslockInvert(keyboard_us[key]) ELSE keyboard_us[key]
  IN  IF k.shift THEN ShiftCharacter(c) ELSE c

Character(k, key) ==
  LET c == IF k.shift THEN ShiftCharacter(keyboard_us[key]) ELSE keyboard_us[key]
  IN  IF k.capslock THEN CapslockInvert(c) ELSE c

\* The byte the keyboard answers a command with, 0xfa: read as a release of a key
\* that is none.
Acknowledge == [key |-> "none", up |-> TRUE]

\* What is left to do for a key press, once its byte is written if it has one.
\* mustUpdateLEDs stays set.
AfterPress(leds) == IF leds THEN "leds" ELSE "irqWait"

\* The body of the loop up to writeStream.
Pressed(k, key) ==
  IF key \in ShiftKeys THEN [k EXCEPT !.shift = TRUE, !.at = AfterPress(k.leds)]
  ELSE IF key \in ControlKeys THEN [k EXCEPT !.at = AfterPress(k.leds)]
  ELSE IF key = "capsLock" THEN [k EXCEPT !.capslock = ~@, !.leds = TRUE, !.at = "leds"]
  ELSE IF key \in LockKeys THEN [k EXCEPT !.leds = TRUE, !.at = "leds"]
  ELSE [k EXCEPT !.byte = Character(k, key), !.at = "writeStream"]

Released(k, key) ==
  IF key \in ShiftKeys THEN [k EXCEPT !.shift = FALSE, !.at = "irqWait"]
  ELSE [k EXCEPT !.at = "irqWait"]

Listens == shell.at \notin {"start", "obtainStreamListener"}

\* An event that needs no byte has been handled.
Handled(scancode, where) ==
  missed' = IF ~Listens /\ where # "writeStream" /\ scancode \in Events THEN missed + 1
            ELSE missed

IrqListen ==
  /\ keyboard.at = "irqListen"
  /\ keyboard' = [keyboard EXCEPT !.at = "firstRead"]
  /\ UNCHANGED <<queued, port, full, hits, input, shell, console, typed, missed, lines>>

\* A first look at the port, or irqWait has returned.  The first look takes a
\* scancode that came after irqListen, whose interrupt makes irqWait return once
\* more.
ReadScancode ==
  LET k == [keyboard EXCEPT !.ahead = @ \/ (keyboard.at = "firstRead" /\ hits > 0)]
  IN  /\ \/ keyboard.at = "firstRead" /\ hits' = hits
         \/ keyboard.at = "irqWait" /\ hits > 0 /\ hits' = hits - 1
      /\ full' = FALSE
      /\ keyboard' = IF port.up THEN Released(k, port.key) ELSE Pressed(k, port.key)
      /\ IF full THEN Handled(port, keyboard'.at) ELSE UNCHANGED missed
      /\ UNCHANGED <<queued, port, input, shell, console, typed, lines>>

WriteKey ==
  /\ keyboard.at = "writeStream"
  /\ input' = IF Listens THEN Append(input, keyboard.byte) ELSE input
  /\ missed' = IF Listens THEN missed ELSE missed + 1
  /\ keyboard' = [keyboard EXCEPT !.byte = Nul, !.at = AfterPress(keyboard.leds)]
  /\ UNCHANGED <<queued, port, full, hits, shell, console, typed, lines>>

\* The command and its operand, each acknowledged.
UpdateLEDs ==
  /\ keyboard.at = "leds"
  /\ queued' = queued \o <<Acknowledge, Acknowledge>>
  /\ keyboard' = [keyboard EXCEPT !.at = "irqWait"]
  /\ UNCHANGED <<port, full, hits, input, shell, console, typed, missed, lines>>

-----------------------------------------------------------------------------
(* The shell.                                                              *)

\* The shell prints what a command puts out, and its prompt, and calls getline.
PrintPrompt(output) ==
  LET s == PutString(console, output \o Prompt)
  IN  /\ shell.at \in {"start", "command"}
      /\ console' = [s EXCEPT !.begin = At(s)]
      /\ shell' = [at |-> IF shell.at = "start" THEN "obtainStreamListener" ELSE "readStream",
                   line |-> <<>>, size |-> InitialSize]
      /\ UNCHANGED <<queued, port, full, hits, keyboard, input, typed, missed, lines>>

ObtainStreamListener ==
  /\ shell.at = "obtainStreamListener"
  /\ keyboard.at # "irqListen"
  /\ shell' = [shell EXCEPT !.at = "readStream"]
  /\ UNCHANGED <<queued, port, full, hits, keyboard, input, console, typed, missed, lines>>

\* What getline prints for a character.
Echo(line, c) ==
  IF c # Backspace THEN <<c>>
  ELSE IF line = <<>> THEN <<>> ELSE <<Backspace, Blank, Backspace>>

AfterChar(line, c) ==
  IF c # Backspace THEN Append(line, c)
  ELSE IF line = <<>> THEN <<>> ELSE Front(line)

\* The buffer is doubled when it is full.
SizeFor(n, size) == IF n = size THEN 2 * size ELSE size

\* One iteration of getline's loop; readStream waits for a byte.
ReadChar ==
  /\ shell.at = "readStream" /\ input # <<>>
  /\ input' = Tail(input)
  /\ console' = PutString(console, Echo(shell.line, Head(input)))
  /\ IF Head(input) = Newline
     THEN /\ lines' = Append(lines, shell.line)
          /\ shell' = [shell EXCEPT !.at = "command", !.line = <<>>]
     ELSE LET line == AfterChar(shell.line, Head(input))
          IN  /\ shell' = [shell EXCEPT !.line = line,
                                        !.size = SizeFor(Len(line), shell.size)]
              /\ UNCHANGED lines
  /\ UNCHANGED <<queued, port, full, hits, keyboard, typed, missed>>

-----------------------------------------------------------------------------
\* The port holds what the boot loader last read from it.
TerminalInit ==
  /\ queued = <<>> /\ port = [key |-> "enter", up |-> TRUE] /\ full = FALSE /\ hits = 0
  /\ keyboard = [at |-> "irqListen", shift |-> FALSE, capslock |-> FALSE, leds |-> FALSE,
                 byte |-> Nul, ahead |-> FALSE]
  /\ input = <<>>
  /\ shell = [at |-> "start", line |-> <<>>, size |-> InitialSize]
  /\ console = Cleared
  /\ typed = <<>> /\ missed = 0 /\ lines = <<>>

TerminalNext ==
  \/ \E e \in Events : Type(e)
  \/ Interrupt \/ IrqListen \/ ReadScancode \/ WriteKey \/ UpdateLEDs
  \/ \E output \in Outputs : PrintPrompt(output)
  \/ ObtainStreamListener \/ ReadChar

TerminalSpec == TerminalInit /\ [][TerminalNext]_terminalVars

-----------------------------------------------------------------------------
(* Properties.                                                             *)

\* What the first n events say, without the service: whether the last of the
\* shift keys was pressed, and caps lock an odd number of times; a letter is upper
\* case if one of these holds, another character is the upper one with shift.
Presses(events, n, keys) == {i \in 1 .. n : events[i].key \in keys /\ ~events[i].up}
ShiftIsDown(events, n) ==
  \E i \in Presses(events, n, ShiftKeys) :
    \A j \in i + 1 .. n : ~(events[j].key \in ShiftKeys /\ events[j].up)
CapsAreOn(events, n) == Cardinality(Presses(events, n, {"capsLock"})) % 2 = 1
Meant(events, i) ==
  LET shift == ShiftIsDown(events, i)
      upper == IF events[i].key = "a" THEN shift # CapsAreOn(events, i) ELSE shift
      c == keyboard_us[events[i].key]
  IN  IF upper THEN ShiftCharacter(c) ELSE c

\* What a character makes of the lines before it, the last of which has not ended.
Edited(ls, c) ==
  IF c = Newline THEN Append(ls, <<>>)
  ELSE IF c # Backspace THEN Append(Front(ls), Append(Last(ls), c))
  ELSE IF Last(ls) = <<>> THEN ls ELSE Append(Front(ls), Front(Last(ls)))

\* The lines that the events after the m-th and up to the n-th mean.
LinesMeant(events, m, n) ==
  LET after[i \in m .. n] ==
        IF i = m THEN <<(<<>>)>>
        ELSE IF i \in Presses(events, i, DOMAIN keyboard_us)
        THEN Edited(after[i - 1], Meant(events, i)) ELSE after[i - 1]
  IN  after[n]

AllIsRead == /\ queued = <<>> /\ ~full /\ input = <<>>
             /\ keyboard.at = "irqWait" /\ shell.at = "readStream"

\* The lines getline has returned, and the one it has, are what the user meant by
\* some of the events, from those on that the service handled before getline
\* listened; by all of them when nothing is on its way.  None is lost, doubled or
\* overtaken by a change of shift or caps lock, unless the service is one read of
\* the port ahead of the interrupts; and the buffer has room.
LinesAreTyped ==
  /\ \/ keyboard.ahead
     \/ \E n \in missed .. Len(typed) :
          /\ Append(lines, shell.line) = LinesMeant(typed, missed, n)
          /\ AllIsRead => n = Len(typed)
  /\ Len(shell.line) < shell.size

\* The line getline has is on the screen, from where it began to the cursor,
\* wherever it wraps, scrolls or is taken back; until its beginning leaves the
\* screen or a tab is in it.  From the cursor on the screen is blank.
ScreenShowsLine ==
  shell.at = "readStream" =>
    /\ \A i \in At(console) .. Width * Height - 1 : console.cells[i] = Blank
    /\ console.begin # Lost =>
         /\ At(console) = console.begin + Len(shell.line)
         /\ \A i \in DOMAIN shell.line :
              console.cells[console.begin + i - 1] = shell.line[i]
=============================================================================
