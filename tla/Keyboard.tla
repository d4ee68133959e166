------------------------------- MODULE Keyboard -------------------------------
(***************************************************************************)
(* keyboard_handler from the scan code to the character on the screen, and *)
(* terminal_write's part in it: the shell's prompt is followed by what was *)
(* typed while nobody read.                                                *)
(*                                                                         *)
(* The handler runs with interrupts off, and so does write: each is one    *)
(* step.  What a terminal shows is followed on its last line only (Display *)
(* has the cells of the screen), and terminal_read only in what it does to *)
(* the echo and to the buffer (TerminalInput has its statements).  Every   *)
(* reader asks for a whole buffer, as the shell does, so the limit is the  *)
(* buffer's.  The module starts when the last terminal has been booted and *)
(* the keyboard has been enabled.                                          *)
(***************************************************************************)
EXTENDS Integers, Sequences

CONSTANTS
  MaxTerminals,  \* MAX_TERMINALS in terminal.h
  BufSize,       \* KEYBOARD_BUF_SIZE in keyboard.h, 128 in the code
  TabWidth,      \* spaces for a tab, 8 in the code
  Codes,         \* the make codes of the keys that are pressed, modifiers apart
  Modifiers,     \* the modifier keys that are pressed
  MaxHeld,       \* how many of them somebody holds at once
  Prompt,        \* the prompt of the shell, "391OS> " in the code
  text,          \* a character a program writes
  Unhurried      \* TRUE: nobody types between the shell's prompt and its
                 \* read, nor from an Enter until the read it ends has returned

\* The last make code the handler looks at, F3's: 0x3E and above are ignored.
LastCode == 61

ModifierKeys == {"left shift", "right shift", "left ctrl", "right ctrl", "left alt", "right alt"}

ASSUME KeyboardAssumption ==
  /\ MaxTerminals \in 1 .. 3
  /\ BufSize \in Nat \ {0}
  /\ TabWidth \in Nat
  /\ Codes \subseteq 0 .. LastCode
  /\ Modifiers \subseteq ModifierKeys
  /\ MaxHeld \in Nat
  /\ Prompt \in Seq({Prompt[i] : i \in DOMAIN Prompt}) /\ Prompt # <<>>
  /\ Len(Prompt) <= BufSize
  /\ Unhurried \in BOOLEAN

\* No character of the prompt is a 0, which would end it.
ASSUME PromptAssumption == \A i \in DOMAIN Prompt : Prompt[i] # ""

-----------------------------------------------------------------------------
(* Scan codes *)

\* scan_code_to_ascii up to LastCode; "" is a key without a character.
ScanCodeToAscii ==
  << "", "esc", "1", "2", "3", "4", "5", "6", "7", "8",
     "9", "0", "-", "=", "backspace", "tab", "q", "w", "e", "r",
     "t", "y", "u", "i", "o", "p", "[", "]", "enter", "",
     "a", "s", "d", "f", "g", "h", "j", "k", "l", ";",
     "apostrophe", "grave", "", "backslash", "z", "x", "c", "v", "b", "n",
     "m", ",", ".", "/", "", "*", "", " ", "", "", "", "" >>

Ascii(code) == ScanCodeToAscii[code + 1]

Lower == << "a", "b", "c", "d", "e", "f", "g", "h", "i", "j", "k", "l", "m",
            "n", "o", "p", "q", "r", "s", "t", "u", "v", "w", "x", "y", "z" >>
Upper == << "A", "B", "C", "D", "E", "F", "G", "H", "I", "J", "K", "L", "M",
            "N", "O", "P", "Q", "R", "S", "T", "U", "V", "W", "X", "Y", "Z" >>

IsLetter(c) == \E i \in 1 .. 26 : Lower[i] = c

ToUpper(c) == Upper[CHOOSE i \in 1 .. 26 : Lower[i] = c]

\* The switch over characters that are not letters, with a shift flag set.
Unshifted == << "grave", "1", "2", "3", "4", "5", "6", "7", "8", "9", "0", "-",
                "=", "[", "]", "backslash", ";", "apostrophe", ",", ".", "/" >>
Shifted   == << "~", "!", "@", "#", "$", "%", "^", "&", "*", "(", ")", "_",
                "+", "{", "}", "|", ":", "quote", "<", ">", "?" >>

Shift(c) == IF \E i \in 1 .. Len(Unshifted) : Unshifted[i] = c
            THEN Shifted[CHOOSE i \in 1 .. Len(Unshifted) : Unshifted[i] = c]
            ELSE c

Capital(shift, caps) == shift # caps

Decode(code, shift, caps) ==
  LET c == Ascii(code)
  IN  IF IsLetter(c) THEN IF Capital(shift, caps) THEN ToUpper(c) ELSE c
      ELSE IF shift THEN Shift(c) ELSE c

-----------------------------------------------------------------------------
(* State *)

Terminals == 0 .. MaxTerminals - 1
\* terminals[t].kb_buf and the byte after it, which is in_terminal_read.
Memory    == 0 .. BufSize

VARIABLES
  held,              \* the modifier keys somebody holds down
  caps_lock,         \* whether caps lock was pressed an odd number of times
  left_shift_flag, right_shift_flag, ctrl_flag, alt_flag, caps_flag,
  visible_terminal,
  kb_buf, kb_buf_i,
  ahead,             \* ahead[t]: since the last line of t was taken something was typed
                     \* on t while nobody read there
  at,                \* at[t]: what the process on t does
  row                \* row[t]: the last line of what t shows, up to its cursor

flags == <<left_shift_flag, right_shift_flag, ctrl_flag, alt_flag, caps_flag>>
lines == <<kb_buf, kb_buf_i, ahead>>
vars  == <<held, caps_lock, flags, visible_terminal, lines, at, row>>

\* A shell has written its prompt and reads; the last one booted starts.
Init ==
  /\ held = {}
  /\ caps_lock = FALSE
  /\ left_shift_flag = FALSE /\ right_shift_flag = FALSE
  /\ ctrl_flag = FALSE /\ alt_flag = FALSE /\ caps_flag = FALSE
  /\ visible_terminal = MaxTerminals - 1
  /\ kb_buf = [t \in Terminals |-> [i \in Memory |-> ""]]
  /\ kb_buf_i = [t \in Terminals |-> 0]
  /\ ahead = [t \in Terminals |-> FALSE]
  /\ at = [t \in Terminals |-> IF t = MaxTerminals - 1 THEN "run" ELSE "shell reads"]
  /\ row = [t \in Terminals |-> IF t = MaxTerminals - 1 THEN <<>> ELSE Prompt]

Line(t) == [i \in 1 .. kb_buf_i[t] |-> kb_buf[t][i - 1]]

-----------------------------------------------------------------------------
(* Modifier keys *)

\* The keyboard sends the same code for both ctrl keys, and for both alt keys, but
\* for a prefix, 0xE0, that the handler ignores.  A held key repeats its make code,
\* which sets the flag again.
SetFlag(key, value) ==
  /\ left_shift_flag'  = IF key = "left shift" THEN value ELSE left_shift_flag
  /\ right_shift_flag' = IF key = "right shift" THEN value ELSE right_shift_flag
  /\ ctrl_flag' = IF key \in {"left ctrl", "right ctrl"} THEN value ELSE ctrl_flag
  /\ alt_flag'  = IF key \in {"left alt", "right alt"} THEN value ELSE alt_flag
  /\ UNCHANGED caps_flag

Make(key) ==
  /\ key \notin held
  /\ Len(SelectSeq(<<"left shift", "right shift", "left ctrl", "right ctrl",
                     "left alt", "right alt">>, LAMBDA k : k \in held)) < MaxHeld
  /\ held' = held \cup {key}
  /\ SetFlag(key, TRUE)
  /\ UNCHANGED <<caps_lock, visible_terminal, lines, at, row>>

\* Mutant of Break: the release of right shift is not a case of the switch.
BreakNotRightShift(key) ==
  /\ key \in held
  /\ held' = held \ {key}
  /\ IF key = "right shift" THEN UNCHANGED flags ELSE SetFlag(key, FALSE)
  /\ UNCHANGED <<caps_lock, visible_terminal, lines, at, row>>

Break(key) ==
  /\ key \in held
  /\ held' = held \ {key}
  /\ SetFlag(key, FALSE)
  /\ UNCHANGED <<caps_lock, visible_terminal, lines, at, row>>

\* Mutant of CapsLock: the flag is set and never cleared.
CapsLockSets ==
  /\ caps_lock' = ~caps_lock
  /\ caps_flag' = TRUE
  /\ UNCHANGED <<held, left_shift_flag, right_shift_flag, ctrl_flag, alt_flag,
                 visible_terminal, lines, at, row>>

\* Nobody holds caps lock until it repeats: every repeat toggles again.
CapsLock ==
  /\ caps_lock' = ~caps_lock
  /\ caps_flag' = ~caps_flag
  /\ UNCHANGED <<held, left_shift_flag, right_shift_flag, ctrl_flag, alt_flag,
                 visible_terminal, lines, at, row>>

-----------------------------------------------------------------------------
(* Keys *)

Reading == {"shell reads", "program reads"}
Taking  == {"shell takes", "program takes"}

\* in_terminal_read of t, which is cleared after Enter was seen.  A key stored over it
\* after Enter leaves it set: no key has the character 0.
PrintAllowed(t) == at[t] \in Reading \cup Taking

\* A key arrives.
Pressed(code) ==
  /\ code \in Codes
  /\ Unhurried => at[visible_terminal] \notin Taking \cup {"prompted"}

\* putc('\b'): on an empty line, unless that is the first of the screen, it takes a
\* character of the line above, which the module marks and does not follow.
Erased(line) == IF line = <<>> THEN <<"backspace">> ELSE SubSeq(line, 1, Len(line) - 1)

MarkAhead(t) == ahead' = [ahead EXCEPT ![t] = @ \/ ~PrintAllowed(t)]

Echo(t, shown) == row' = [row EXCEPT ![t] = IF PrintAllowed(t) THEN shown ELSE @]

PressBackspace(code) ==
  LET t == visible_terminal
  IN  /\ Pressed(code) /\ Ascii(code) = "backspace"
      /\ kb_buf_i[t] > 0
      /\ kb_buf_i' = [kb_buf_i EXCEPT ![t] = @ - 1]
      /\ Echo(t, Erased(row[t]))
      /\ UNCHANGED <<held, caps_lock, flags, visible_terminal, kb_buf, ahead, at>>

\* The keys that the module follows: to the byte after the buffer, not further.
Followed(i) == i \in Memory

\* Enter looks at no limit.
PressEnter(code) ==
  LET t == visible_terminal
  IN  /\ Pressed(code) /\ Ascii(code) = "enter"
      /\ PrintAllowed(t)
      /\ Followed(kb_buf_i[t])
      /\ kb_buf' = [kb_buf EXCEPT ![t][kb_buf_i[t]] = "enter"]
      /\ kb_buf_i' = [kb_buf_i EXCEPT ![t] = @ + 1]
      /\ at' = [at EXCEPT ![t] = IF @ \in {"shell reads", "shell takes"}
                                 THEN "shell takes" ELSE "program takes"]
      /\ Echo(t, <<>>)
      /\ UNCHANGED <<held, caps_lock, flags, visible_terminal, ahead>>

\* clear, then the line again if somebody reads.
PressCtrlL(code) ==
  LET t == visible_terminal
  IN  /\ Pressed(code) /\ ctrl_flag /\ Ascii(code) = "l"
      /\ row' = [row EXCEPT ![t] = IF PrintAllowed(t) THEN Line(t) ELSE <<>>]
      /\ UNCHANGED <<held, caps_lock, flags, visible_terminal, lines, at>>

\* Alt+F1..F3: codes 59 to 61.  The next key goes to that terminal.
SwitchVisible(code) ==
  /\ code \in Codes
  /\ alt_flag
  /\ code - 59 \in Terminals
  /\ visible_terminal' = code - 59
  /\ UNCHANGED <<held, caps_lock, flags, lines, at, row>>

\* Mutant of Room: the newline is given no room.
RoomToTheEnd(i) == i # BufSize

\* "Only buf_size-1 chars + '\n' allowed": an equality, which a key pressed after Enter
\* on a full line does not meet.
Room(i) == i # BufSize - 1

\* The loop over the spaces stops at the limit and past it.
PressTab(code) ==
  LET t      == visible_terminal
      i      == kb_buf_i[t]
      filled == {j \in i .. i + TabWidth - 1 : j < BufSize - 1}
      spaces == [j \in 1 .. (IF i + TabWidth <= BufSize - 1 THEN TabWidth ELSE BufSize - 1 - i)
                   |-> " "]
  IN  /\ Pressed(code) /\ Ascii(code) = "tab"
      /\ Room(i)
      /\ kb_buf' = [kb_buf EXCEPT ![t] = [j \in Memory |-> IF j \in filled THEN " " ELSE @[j]]]
      /\ kb_buf_i' = [kb_buf_i EXCEPT ![t] = i + Len(spaces)]
      /\ MarkAhead(t)
      /\ Echo(t, row[t] \o spaces)
      /\ UNCHANGED <<held, caps_lock, flags, visible_terminal, at>>

\* A character: not a control key, not Ctrl+L, not a key without a character.
TypeKey(code) ==
  LET t == visible_terminal
      c == Decode(code, left_shift_flag \/ right_shift_flag, caps_flag)
  IN  /\ Pressed(code)
      /\ Ascii(code) \notin {"", "backspace", "enter", "tab"}
      /\ ~(ctrl_flag /\ Ascii(code) = "l")
      /\ Room(kb_buf_i[t]) /\ Followed(kb_buf_i[t])
      /\ kb_buf' = [kb_buf EXCEPT ![t][kb_buf_i[t]] = c]
      /\ kb_buf_i' = [kb_buf_i EXCEPT ![t] = @ + 1]
      /\ MarkAhead(t)
      /\ Echo(t, Append(row[t], c))
      /\ UNCHANGED <<held, caps_lock, flags, visible_terminal, at>>

Press(code) ==
  \/ PressBackspace(code)
  \/ PressEnter(code)
  \/ PressCtrlL(code)
  \/ SwitchVisible(code)
  \/ PressTab(code)
  \/ TypeKey(code)

-----------------------------------------------------------------------------
(* The process on terminal t *)

\* A program, or the shell, writes text that does not begin with the prompt, or a
\* newline.
WriteText(t) ==
  /\ at[t] = "run"
  /\ row' = [row EXCEPT ![t] = IF @ = <<>> THEN <<text>> ELSE <<>>]
  /\ UNCHANGED <<held, caps_lock, flags, visible_terminal, lines, at>>

\* strncmp finds the prompt in the buffer itself, whatever the index is.
BufferIsPrompt(t) ==
  \A i \in 1 .. Len(Prompt) : kb_buf[t][i - 1] = Prompt[i]

\* Mutant of Revealed: the buffer of the terminal on the screen.
RevealedVisible(t) == Line(visible_terminal)

\* What terminal_write prints after the prompt: the keyboard buffer of the
\* scheduled terminal, on which the writer runs.
Revealed(t) == Line(t)

\* The shell writes its prompt, terminal_write calls itself with the keyboard
\* buffer, and if that holds the prompt too, calls itself for ever.
WritePrompt(t) ==
  /\ at[t] = "run"
  /\ IF BufferIsPrompt(t)
     THEN at' = [at EXCEPT ![t] = "lost"] /\ UNCHANGED row
     ELSE /\ at' = [at EXCEPT ![t] = "prompted"]
          /\ row' = [row EXCEPT ![t] = @ \o Prompt \o Revealed(t)]
  /\ UNCHANGED <<held, caps_lock, flags, visible_terminal, lines>>

\* terminal_read sets in_terminal_read, in the shell or in a program.
StartRead(t) ==
  /\ at[t] \in {"prompted", "run"}
  /\ at' = [at EXCEPT ![t] = IF @ = "prompted" THEN "shell reads" ELSE "program reads"]
  /\ UNCHANGED <<held, caps_lock, flags, visible_terminal, lines, row>>

\* Mutant of EndRead: clear_keyboard_vars resets the index and leaves the characters.
EndReadIndexOnly(t) ==
  /\ at[t] \in Taking
  /\ at' = [at EXCEPT ![t] = "run"]
  /\ kb_buf_i' = [kb_buf_i EXCEPT ![t] = 0]
  /\ ahead' = [ahead EXCEPT ![t] = FALSE]
  /\ UNCHANGED <<held, caps_lock, flags, visible_terminal, kb_buf, row>>

\* terminal_read has seen Enter, clears in_terminal_read and takes the line.
EndRead(t) ==
  /\ at[t] \in Taking
  /\ at' = [at EXCEPT ![t] = "run"]
  /\ kb_buf' = [kb_buf EXCEPT ![t] = [i \in Memory |-> ""]]
  /\ kb_buf_i' = [kb_buf_i EXCEPT ![t] = 0]
  /\ ahead' = [ahead EXCEPT ![t] = FALSE]
  /\ UNCHANGED <<held, caps_lock, flags, visible_terminal, row>>

-----------------------------------------------------------------------------

Next ==
  \/ \E key \in Modifiers : Make(key) \/ Break(key)
  \/ CapsLock
  \/ \E code \in Codes : Press(code)
  \/ \E t \in Terminals : WriteText(t) \/ WritePrompt(t) \/ StartRead(t) \/ EndRead(t)

Spec == Init /\ [][Next]_vars

-----------------------------------------------------------------------------
(* Properties *)

\* The type invariant.  A line leaves room for its newline until Enter completes it;
\* from then until terminal_read takes it a hurried user's keys take the index past
\* the buffer, as far as the module follows them.
TypeOK ==
  /\ held \subseteq Modifiers
  /\ \A flag \in {caps_lock, left_shift_flag, right_shift_flag, ctrl_flag, alt_flag, caps_flag} :
       flag \in BOOLEAN
  /\ visible_terminal \in Terminals
  /\ \A t \in Terminals :
       /\ DOMAIN kb_buf[t] = Memory /\ ahead[t] \in BOOLEAN
       /\ kb_buf_i[t] \in IF at[t] \in Taking THEN 0 .. BufSize + 1 ELSE 0 .. BufSize - 1
       /\ at[t] \in {"run", "prompted", "lost"} \cup Reading \cup Taking

\* No modifier sticks: a flag is up only while a key of its kind is down, and shift,
\* for which the keyboard sends two codes, is up exactly then.  The flags are global
\* and are set in one handler call and used in another, on other terminals too
\* (keyboard_handler).
NoStuckModifier ==
  /\ left_shift_flag <=> "left shift" \in held
  /\ right_shift_flag <=> "right shift" \in held
  /\ ctrl_flag => held \cap {"left ctrl", "right ctrl"} # {}
  /\ alt_flag => held \cap {"left alt", "right alt"} # {}

\* The rows of a US keyboard, plain and with shift: the first code of each row, and
\* what is engraved on its keys from there on.
Engraving ==
  { [first |-> 2,  plain |-> <<"1","2","3","4","5","6","7","8","9","0","-","=">>,
                   shift |-> <<"!","@","#","$","%","^","&","*","(",")","_","+">>],
    [first |-> 16, plain |-> <<"q","w","e","r","t","y","u","i","o","p","[","]">>,
                   shift |-> <<"Q","W","E","R","T","Y","U","I","O","P","{","}">>],
    [first |-> 30, plain |-> <<"a","s","d","f","g","h","j","k","l",";","apostrophe","grave">>,
                   shift |-> <<"A","S","D","F","G","H","J","K","L",":","quote","~">>],
    [first |-> 43, plain |-> <<"backslash","z","x","c","v","b","n","m",",",".","/">>,
                   shift |-> <<"|","Z","X","C","V","B","N","M","<",">","?">>],
    [first |-> 55, plain |-> <<"*">>, shift |-> <<"*">>],
    [first |-> 57, plain |-> <<" ">>, shift |-> <<" ">>] }

\* What a key types: caps lock inverts shift on letters only.
Engraved(code, shift, caps) ==
  LET keys   == CHOOSE r \in Engraving : code - r.first \in 0 .. Len(r.plain) - 1
      i      == code - keys.first + 1
      invert == caps /\ keys.plain[i] \in {Lower[j] : j \in 1 .. 26}
  IN  IF shift # invert THEN keys.shift[i] ELSE keys.plain[i]

\* The table and the switch of keyboard_handler agree with the engraving on every key
\* that types a character: a statement without parameters, which TLC computes.
ASSUME EngravingAssumption ==
  \A code \in 0 .. LastCode, shift, caps \in BOOLEAN :
    Ascii(code) \notin {"", "esc", "backspace", "tab", "enter"} =>
      Decode(code, shift, caps) = Engraved(code, shift, caps)

ShiftHeld == held \cap {"left shift", "right shift"} # {}

\* A key that adds one character to a line adds the one engraved on it (Escape types
\* a control character, which is not engraved), for the shift keys that are down and
\* the times caps lock was pressed, and adds it to the line of the terminal on the
\* screen (keyboard_handler).
TypesAsEngraved ==
  [][\A code \in Codes :
       TypeKey(code) /\ Ascii(code) # "esc" =>
         Line(visible_terminal)' =
           Append(Line(visible_terminal), Engraved(code, ShiftHeld, caps_lock))]_vars

\* While the shell reads, its terminal shows the prompt and after it exactly the
\* line that Enter will deliver, or the line alone after Ctrl+L: what was typed
\* before the prompt is revealed, Backspace takes nothing but the line ("Stops the
\* shell prompt from being backspaced", terminal_write; keyboard_handler).
EchoIsLine ==
  \A t \in Terminals :
    at[t] = "shell reads" =>
      LET shown == Prompt \o Line(t)
      IN  \/ row[t] = Line(t)
          \/ /\ Len(row[t]) >= Len(shown)
             /\ SubSeq(row[t], Len(row[t]) - Len(shown) + 1, Len(row[t])) = shown

\* terminal_write fails to return to a shell that writes its prompt only if, since the
\* last line was taken, something was typed while nobody read: a prompt that was
\* typed as a line, erased or not, in a shell or in a program, never makes it call
\* itself (terminal_write, which compares the whole buffer whatever the index is;
\* clear_keyboard_vars).
OnlyTypedAheadRecurs == \A t \in Terminals : at[t] = "lost" => ahead[t]

===============================================================================
