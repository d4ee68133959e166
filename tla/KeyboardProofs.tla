---------------------------- MODULE KeyboardProofs ----------------------------
(***************************************************************************)
(* Proofs about Keyboard, for all keys, terminals, buffers and prompts.    *)
(***************************************************************************)
EXTENDS Keyboard, SequenceTheorems, TLAPS

-----------------------------------------------------------------------------
(* Modifier keys *)

\* The flags are truth values: what NoStuckModifier says of them is inductive only
\* together with this.
FlagsInv ==
  /\ {left_shift_flag, right_shift_flag, ctrl_flag, alt_flag} \subseteq BOOLEAN
  /\ NoStuckModifier

LEMMA InitFlags == Init => FlagsInv
BY DEF Init, FlagsInv, NoStuckModifier

\* A key goes down: its flag, and no other, is set.
LEMMA MakeFlags ==
  ASSUME FlagsInv, NEW key \in Modifiers, Make(key)
  PROVE  FlagsInv'
BY KeyboardAssumption DEF Make, SetFlag, FlagsInv, NoStuckModifier, ModifierKeys

\* A key goes up: its flag is cleared, also when the other ctrl or alt is still down.
LEMMA BreakFlags ==
  ASSUME FlagsInv, NEW key \in Modifiers, Break(key)
  PROVE  FlagsInv'
BY KeyboardAssumption DEF Break, SetFlag, FlagsInv, NoStuckModifier, ModifierKeys

\* No other step touches a modifier key or its flag.
LEMMA OtherFlags ==
  ASSUME FlagsInv, \/ CapsLock \/ \E code \in Codes : Press(code)
                   \/ \E t \in Terminals : WriteText(t) \/ WritePrompt(t) \/ StartRead(t) \/ EndRead(t)
                   \/ UNCHANGED vars
  PROVE  FlagsInv'
<1>1. UNCHANGED <<held, left_shift_flag, right_shift_flag, ctrl_flag, alt_flag>>
  <2>1. CASE CapsLock
    BY <2>1 DEF CapsLock
  <2>2. CASE \E code \in Codes : Press(code)
    BY <2>2 DEF Press, PressBackspace, PressEnter, PressCtrlL, SwitchVisible, PressTab, TypeKey, flags
  <2>3. CASE \E t \in Terminals : WriteText(t) \/ WritePrompt(t) \/ StartRead(t) \/ EndRead(t)
    BY <2>3 DEF WriteText, WritePrompt, StartRead, EndRead, flags
  <2>4. CASE UNCHANGED vars
    BY <2>4 DEF vars, flags
  <2>5. QED
    BY <2>1, <2>2, <2>3, <2>4
<1>2. QED
  BY <1>1 DEF FlagsInv, NoStuckModifier

LEMMA AlwaysFlagsInv == Spec => []FlagsInv
<1>1. FlagsInv /\ [Next]_vars => FlagsInv'
  BY MakeFlags, BreakFlags, OtherFlags DEF Next
<1>2. QED
  BY InitFlags, <1>1, PTL DEF Spec

\* No modifier sticks, whatever keys are held in whatever order and whatever terminals
\* are shown meanwhile (keyboard_handler).
THEOREM ModifiersFollowKeys == Spec => []NoStuckModifier
<1>1. FlagsInv => NoStuckModifier
  BY DEF FlagsInv
<1>2. QED
  BY <1>1, AlwaysFlagsInv, PTL

-----------------------------------------------------------------------------
(* Lines *)

\* What the keys put into the buffer, and what is shown.
Decoded == {Decode(code, shift, caps) : code \in Codes, shift \in BOOLEAN, caps \in BOOLEAN}
Typed == {"", " ", "enter"} \cup Decoded
Shown == Typed \cup {text, "backspace"} \cup {Prompt[i] : i \in DOMAIN Prompt}

Activities == {"run", "prompted", "lost"} \cup Reading \cup Taking

\* Line(t), of the buffer b with i characters.
LineOf(b, i) == [j \in 1 .. i |-> b[j - 1]]

\* The screen's last line r ends in the prompt and the line after it.
BehindPrompt(r, line) == \E before \in Seq(Shown) : r = before \o (Prompt \o line)

\* A terminal's buffer b, its index i, its process's activity a and its last line r:
\* what they can be, and, if nobody types where it is not echoed, how what is shown
\* follows what is typed.
LineTypes(b, i, a, r) ==
  /\ b \in [Memory -> Typed] /\ i \in 0 .. BufSize + 1
  /\ a \in Activities
  /\ r \in Seq(Shown)
  /\ a \notin Taking => i <= BufSize - 1

LineEchoed(b, i, a, r) ==
  /\ a = "prompted" => BehindPrompt(r, LineOf(b, i))
  /\ a = "shell reads" => r = LineOf(b, i) \/ BehindPrompt(r, LineOf(b, i))

LineInv(b, i, a, r) == LineTypes(b, i, a, r) /\ (Unhurried => LineEchoed(b, i, a, r))

IInv ==
  /\ {caps_lock, left_shift_flag, right_shift_flag, ctrl_flag, alt_flag, caps_flag} \subseteq BOOLEAN
  /\ held \subseteq Modifiers
  /\ visible_terminal \in Terminals
  /\ kb_buf \in [Terminals -> [Memory -> Typed]] /\ kb_buf_i \in [Terminals -> 0 .. BufSize + 1]
  /\ at \in [Terminals -> Activities] /\ row \in [Terminals -> Seq(Shown)]
  /\ \A t \in Terminals : LineInv(kb_buf[t], kb_buf_i[t], at[t], row[t])

LEMMA PromptShown == Prompt \in Seq(Shown) /\ Len(Prompt) \in Nat \ {0}
<1>1. Prompt \in Seq({Prompt[i] : i \in DOMAIN Prompt}) /\ Prompt # <<>>
  BY KeyboardAssumption
<1>2. {Prompt[i] : i \in DOMAIN Prompt} \subseteq Shown
  BY DEF Shown
<1>3. QED
  BY <1>1, <1>2, SeqMonotonic, EmptySeq

LEMMA DecodedIsTyped ==
  ASSUME NEW code \in Codes, NEW shift \in BOOLEAN, NEW caps \in BOOLEAN
  PROVE  Decode(code, shift, caps) \in Typed
<1>1. Decode(code, shift, caps) \in Decoded
  BY DEF Decoded
<1>2. QED
  BY <1>1 DEF Typed

LEMMA LineIsSeq ==
  ASSUME NEW b \in [Memory -> Typed], NEW i \in 0 .. BufSize + 1
  PROVE  LineOf(b, i) \in Seq(Shown) /\ Len(LineOf(b, i)) = i
<1>1. \A j \in 1 .. i : b[j - 1] \in Shown
  <2>1. \A j \in 1 .. i : j - 1 \in Memory
    BY KeyboardAssumption DEF Memory
  <2>2. \A j \in 1 .. i : b[j - 1] \in Typed
    BY <2>1
  <2>3. QED
    BY <2>2 DEF Shown
<1>2. i \in Nat
  BY KeyboardAssumption
<1>3. QED
  BY <1>1, <1>2 DEF LineOf

LEMMA LineGrows ==
  ASSUME NEW b \in [Memory -> Typed], NEW i \in 0 .. BufSize, NEW c \in Typed
  PROVE  /\ [b EXCEPT ![i] = c] \in [Memory -> Typed]
         /\ LineOf([b EXCEPT ![i] = c], i + 1) = Append(LineOf(b, i), c)
<1>0. BufSize \in Nat /\ i \in Memory /\ i \in Nat
  BY KeyboardAssumption DEF Memory
<1>1. PICK d : d = [b EXCEPT ![i] = c]
  OBVIOUS
<1>2. d \in [Memory -> Typed]
  BY <1>1
<1>3. PICK s : s = LineOf(d, i + 1)
  OBVIOUS
<1>4. PICK q : q = LineOf(b, i)
  OBVIOUS
<1>5. s \in Seq(Shown) /\ Len(s) = i + 1 /\ \A j \in 1 .. i + 1 : s[j] = d[j - 1]
  <2>1. i + 1 \in 0 .. BufSize + 1
    BY <1>0
  <2>2. QED
    BY <1>2, <1>3, <2>1, LineIsSeq DEF LineOf
<1>6. q \in Seq(Shown) /\ Len(q) = i /\ \A j \in 1 .. i : q[j] = b[j - 1]
  <2>1. i \in 0 .. BufSize + 1
    BY <1>0
  <2>2. QED
    BY <1>4, <2>1, LineIsSeq DEF LineOf
<1>7. PICK p : p = Append(q, c)
  OBVIOUS
<1>8. p \in Seq(Shown) /\ Len(p) = i + 1 /\ p[i + 1] = c /\ \A j \in 1 .. i : p[j] = q[j]
  <2>1. c \in Shown
    BY DEF Shown
  <2>2. QED
    BY <1>6, <1>7, <2>1, AppendProperties
<1>9. \A j \in 1 .. i + 1 : s[j] = p[j]
  <2>1. TAKE j \in 1 .. i + 1
  <2>2. CASE j = i + 1
    BY <1>0, <1>1, <1>5, <1>8, <2>2
  <2>3. CASE j # i + 1
    <3>1. j \in 1 .. i /\ j - 1 \in Memory /\ j - 1 # i
      BY <1>0, <2>3 DEF Memory
    <3>2. d[j - 1] = b[j - 1]
      BY <1>1, <3>1
    <3>3. QED
      BY <1>5, <1>6, <1>8, <3>1, <3>2
  <2>4. QED
    BY <2>2, <2>3
<1>10. s = p
  BY <1>5, <1>8, <1>9, SeqEqual
<1>11. QED
  BY <1>1, <1>2, <1>3, <1>4, <1>7, <1>10

LEMMA LineShrinks ==
  ASSUME NEW b \in [Memory -> Typed], NEW i \in 1 .. BufSize + 1
  PROVE  LineOf(b, i - 1) = SubSeq(LineOf(b, i), 1, i - 1)
<1>0. i \in Nat \ {0} /\ i \in 0 .. BufSize + 1 /\ i - 1 \in 0 .. BufSize + 1
  BY KeyboardAssumption
<1>1. PICK s : s = LineOf(b, i)
  OBVIOUS
<1>2. PICK q : q = LineOf(b, i - 1)
  OBVIOUS
<1>3. s \in Seq(Shown) /\ Len(s) = i /\ \A j \in 1 .. i : s[j] = b[j - 1]
  BY <1>0, <1>1, LineIsSeq DEF LineOf
<1>4. q \in Seq(Shown) /\ Len(q) = i - 1 /\ \A j \in 1 .. i - 1 : q[j] = b[j - 1]
  BY <1>0, <1>2, LineIsSeq DEF LineOf
<1>5. PICK p : p = SubSeq(s, 1, i - 1)
  OBVIOUS
<1>6. p \in Seq(Shown) /\ Len(p) = i - 1 /\ \A j \in 1 .. i - 1 : p[j] = s[j]
  BY <1>0, <1>3, <1>5
<1>7. \A j \in 1 .. i - 1 : p[j] = q[j]
  <2>1. TAKE j \in 1 .. i - 1
  <2>2. j \in 1 .. i
    BY <1>0
  <2>3. QED
    BY <1>3, <1>4, <1>6, <2>2
<1>8. p = q
  BY <1>4, <1>6, <1>7, SeqEqual
<1>9. QED
  BY <1>1, <1>2, <1>5, <1>8

-----------------------------------------------------------------------------
(* What is shown *)

LEMMA FrontOfConcat ==
  ASSUME NEW S, NEW s \in Seq(S), NEW q \in Seq(S), q # <<>>
  PROVE  SubSeq(s \o q, 1, Len(s \o q) - 1) = s \o SubSeq(q, 1, Len(q) - 1)
<1>1. Len(s) \in Nat /\ Len(q) \in Nat \ {0}
  BY LenProperties, EmptySeq
<1>2. PICK f : f = SubSeq(q, 1, Len(q) - 1)
  OBVIOUS
<1>3. f \in Seq(S) /\ Len(f) = Len(q) - 1 /\ \A i \in 1 .. Len(q) - 1 : f[i] = q[i]
  <2>1. \A i \in 1 .. Len(q) - 1 : q[i] \in S
    <3>1. \A i \in 1 .. Len(q) - 1 : i \in 1 .. Len(q)
      BY <1>1
    <3>2. QED
      BY <3>1, ElementOfSeq
  <2>2. PICK n \in Nat : n = Len(q) - 1
    BY <1>1
  <2>3. /\ f \in Seq(S) /\ Len(f) = IF 1 <= n THEN n - 1 + 1 ELSE 0
        /\ \A i \in 1 .. n - 1 + 1 : f[i] = q[1 + i - 1]
    BY <1>2, <2>1, <2>2, SubSeqProperties
  <2>4. \A i \in 1 .. n : f[i] = q[i]
    <3>1. TAKE i \in 1 .. n
    <3>2. i \in 1 .. n - 1 + 1 /\ 1 + i - 1 = i
      BY <2>2
    <3>3. QED
      BY <2>3, <3>2
  <2>5. QED
    BY <2>2, <2>3, <2>4
<1>4. PICK c : c = s \o q
  OBVIOUS
<1>5. /\ c \in Seq(S) /\ Len(c) = Len(s) + Len(q)
      /\ \A i \in 1 .. Len(s) + Len(q) : c[i] = IF i <= Len(s) THEN s[i] ELSE q[i - Len(s)]
  BY <1>4, ConcatProperties
<1>6. PICK d : d = s \o f
  OBVIOUS
<1>7. /\ d \in Seq(S) /\ Len(d) = Len(s) + Len(q) - 1
      /\ \A i \in 1 .. Len(s) + Len(q) - 1 : d[i] = IF i <= Len(s) THEN s[i] ELSE f[i - Len(s)]
  <2>1. /\ d \in Seq(S) /\ Len(d) = Len(s) + Len(f)
        /\ \A i \in 1 .. Len(s) + Len(f) : d[i] = IF i <= Len(s) THEN s[i] ELSE f[i - Len(s)]
    BY <1>3, <1>6, ConcatProperties
  <2>2. Len(s) + Len(f) = Len(s) + Len(q) - 1
    BY <1>1, <1>3
  <2>3. QED
    BY <2>1, <2>2
<1>8. PICK e : e = SubSeq(c, 1, Len(c) - 1)
  OBVIOUS
<1>9. /\ e \in Seq(S) /\ Len(e) = Len(s) + Len(q) - 1
      /\ \A i \in 1 .. Len(s) + Len(q) - 1 : e[i] = c[i]
  BY <1>1, <1>5, <1>8
<1>10. \A i \in 1 .. Len(s) + Len(q) - 1 : e[i] = d[i]
  <2>1. TAKE i \in 1 .. Len(s) + Len(q) - 1
  <2>2. i \in 1 .. Len(s) + Len(q)
    BY <1>1
  <2>3. CASE i <= Len(s)
    BY <1>5, <1>7, <1>9, <2>2, <2>3
  <2>4. CASE ~(i <= Len(s))
    <3>1. i - Len(s) \in 1 .. Len(q) - 1
      BY <1>1, <2>4
    <3>2. e[i] = q[i - Len(s)] /\ d[i] = f[i - Len(s)]
      BY <1>5, <1>7, <1>9, <2>2, <2>4
    <3>3. QED
      BY <1>3, <3>1, <3>2
  <2>5. QED
    BY <2>3, <2>4
<1>11. e = d
  BY <1>7, <1>9, <1>10, SeqEqual
<1>12. QED
  BY <1>2, <1>4, <1>6, <1>8, <1>11

LEMMA EndOfConcat ==
  ASSUME NEW S, NEW s \in Seq(S), NEW q \in Seq(S)
  PROVE  SubSeq(s \o q, Len(s) + 1, Len(s \o q)) = q
<1>1. PICK m \in Nat : m = Len(s)
  BY LenProperties
<1>2. PICK n \in Nat : n = Len(q)
  BY LenProperties
<1>3. PICK c : c = s \o q
  OBVIOUS
<1>4. /\ c \in Seq(S) /\ Len(c) = m + n
      /\ \A i \in 1 .. m + n : c[i] = IF i <= m THEN s[i] ELSE q[i - m]
  BY <1>1, <1>2, <1>3, ConcatProperties
<1>5. PICK e : e = SubSeq(c, m + 1, m + n)
  OBVIOUS
<1>6. e \in Seq(S) /\ Len(e) = n /\ \A i \in 1 .. n : e[i] = c[m + i]
  BY <1>1, <1>2, <1>4, <1>5
<1>7. \A i \in 1 .. n : e[i] = q[i]
  <2>1. TAKE i \in 1 .. n
  <2>2. m + i \in 1 .. m + n /\ ~(m + i <= m) /\ (m + i) - m = i
    BY <1>1, <1>2
  <2>3. QED
    BY <1>4, <1>6, <2>2
<1>8. e = q
  BY <1>2, <1>6, <1>7, SeqEqual
<1>9. QED
  BY <1>1, <1>3, <1>4, <1>5, <1>8

\* Backspace takes a character of the line from the screen, never one of the prompt.
LEMMA ErasedLine ==
  ASSUME NEW b \in [Memory -> Typed], NEW i \in 1 .. BufSize + 1, NEW r \in Seq(Shown)
  PROVE  /\ Erased(r) \in Seq(Shown)
         /\ r = LineOf(b, i) => Erased(r) = LineOf(b, i - 1)
         /\ BehindPrompt(r, LineOf(b, i)) => BehindPrompt(Erased(r), LineOf(b, i - 1))
<1>0. i \in Nat \ {0} /\ i \in 0 .. BufSize + 1 /\ i - 1 \in 0 .. BufSize + 1
  BY KeyboardAssumption
<1>1. Erased(r) \in Seq(Shown)
  <2>1. CASE r = <<>>
    <3>1. "backspace" \in Shown
      BY DEF Shown
    <3>2. QED
      BY <2>1, <3>1 DEF Erased
  <2>2. CASE r # <<>>
    <3>1. Len(r) \in Nat \ {0}
      BY <2>2, EmptySeq
    <3>2. \A j \in 1 .. Len(r) - 1 : r[j] \in Shown
      BY <3>1, ElementOfSeq
    <3>3. SubSeq(r, 1, Len(r) - 1) \in Seq(Shown)
      BY <3>1, <3>2, SubSeqProperties
    <3>4. QED
      BY <2>2, <3>3 DEF Erased
  <2>3. QED
    BY <2>1, <2>2
<1>2. PICK line \in Seq(Shown) : line = LineOf(b, i) /\ Len(line) = i
  BY <1>0, LineIsSeq
<1>3. line # <<>> /\ SubSeq(line, 1, Len(line) - 1) = LineOf(b, i - 1)
  <2>1. line # <<>>
    BY <1>0, <1>2, EmptySeq
  <2>2. QED
    BY <1>2, <2>1, LineShrinks
<1>4. ASSUME r = LineOf(b, i)
      PROVE  Erased(r) = LineOf(b, i - 1)
  BY <1>2, <1>3, <1>4 DEF Erased
<1>5. ASSUME BehindPrompt(r, LineOf(b, i))
      PROVE  BehindPrompt(Erased(r), LineOf(b, i - 1))
  <2>1. PICK before \in Seq(Shown) : r = before \o (Prompt \o line)
    BY <1>2, <1>5 DEF BehindPrompt
  <2>2. PICK q : q = Prompt \o line
    OBVIOUS
  <2>3. q \in Seq(Shown) /\ q # <<>>
    <3>1. q \in Seq(Shown) /\ Len(q) = Len(Prompt) + i
      BY <1>2, <2>2, PromptShown, ConcatProperties
    <3>2. QED
      BY <1>0, <3>1, PromptShown, EmptySeq
  <2>4. r # <<>>
    <3>1. Len(r) = Len(before) + Len(q) /\ Len(q) \in Nat \ {0} /\ Len(before) \in Nat
      BY <2>1, <2>2, <2>3, ConcatProperties, EmptySeq, LenProperties
    <3>2. QED
      BY <3>1, EmptySeq
  <2>5. Erased(r) = before \o SubSeq(q, 1, Len(q) - 1)
    BY <2>1, <2>2, <2>3, <2>4, FrontOfConcat DEF Erased
  <2>6. SubSeq(q, 1, Len(q) - 1) = Prompt \o LineOf(b, i - 1)
    BY <1>2, <1>3, <2>2, PromptShown, FrontOfConcat
  <2>7. QED
    BY <2>1, <2>5, <2>6 DEF BehindPrompt
<1>6. QED
  BY <1>1, <1>4, <1>5

\* What is typed behind the prompt is shown behind it.
LEMMA TypedBehindPrompt ==
  ASSUME NEW r \in Seq(Shown), NEW line \in Seq(Shown), NEW more \in Seq(Shown),
         BehindPrompt(r, line)
  PROVE  BehindPrompt(r \o more, line \o more)
<1>1. PICK before \in Seq(Shown) : r = before \o (Prompt \o line)
  BY DEF BehindPrompt
<1>2. PICK prompt \in Seq(Shown) : prompt = Prompt
  BY PromptShown
<1>3. PICK q \in Seq(Shown) : q = prompt \o line
  BY ConcatProperties
<1>4. r \o more = before \o (q \o more)
  <2>1. r = before \o q
    BY <1>1, <1>2, <1>3
  <2>2. before \in Seq(Shown) /\ q \in Seq(Shown) /\ more \in Seq(Shown)
    BY <1>1, <1>3
  <2>3. (before \o q) \o more = before \o (q \o more)
    BY ONLY <2>2, SMTT(60)
  <2>4. QED
    BY <2>1, <2>3
<1>5. q \o more = prompt \o (line \o more)
  <2>1. prompt \in Seq(Shown) /\ line \in Seq(Shown) /\ more \in Seq(Shown)
    BY <1>2
  <2>2. (prompt \o line) \o more = prompt \o (line \o more)
    BY ONLY <2>1, SMTT(60)
  <2>3. QED
    BY <1>3, <2>2
<1>6. QED
  BY <1>2, <1>4, <1>5 DEF BehindPrompt

-----------------------------------------------------------------------------
(* Keys *)

\* Whether the handler echoes, and the key does not come too early.
Echoes(a) == a \in Reading \cup Taking
InTime(a) == Unhurried => a \notin Taking \cup {"prompted"}

LEMMA BackspaceInv ==
  ASSUME NEW b, NEW i, NEW a, NEW r, LineInv(b, i, a, r), i > 0, InTime(a)
  PROVE  LineInv(b, i - 1, a, IF Echoes(a) THEN Erased(r) ELSE r)
<1>0. /\ b \in [Memory -> Typed] /\ i \in 1 .. BufSize + 1 /\ a \in Activities /\ r \in Seq(Shown)
      /\ a \notin Taking => i <= BufSize - 1
  BY KeyboardAssumption DEF LineInv, LineTypes
<1>1. PICK s : s = IF Echoes(a) THEN Erased(r) ELSE r
  OBVIOUS
<1>2. LineTypes(b, i - 1, a, s)
  <2>1. s \in Seq(Shown)
    BY <1>0, <1>1, ErasedLine
  <2>2. i - 1 \in 0 .. BufSize + 1 /\ (a \notin Taking => i - 1 <= BufSize - 1)
    BY <1>0, KeyboardAssumption
  <2>3. QED
    BY <1>0, <2>1, <2>2 DEF LineTypes
<1>3. Unhurried => LineEchoed(b, i - 1, a, s)
  <2>1. SUFFICES ASSUME Unhurried PROVE LineEchoed(b, i - 1, a, s)
    OBVIOUS
  <2>2. a # "prompted"
    BY <2>1 DEF InTime
  <2>3. ASSUME a = "shell reads"
        PROVE  s = LineOf(b, i - 1) \/ BehindPrompt(s, LineOf(b, i - 1))
    <3>1. s = Erased(r)
      BY <1>1, <2>3 DEF Echoes, Reading
    <3>2. r = LineOf(b, i) \/ BehindPrompt(r, LineOf(b, i))
      BY <2>1, <2>3 DEF LineInv, LineEchoed
    <3>3. QED
      BY <1>0, <3>1, <3>2, ErasedLine
  <2>4. QED
    BY <2>2, <2>3 DEF LineEchoed
<1>4. QED
  BY <1>1, <1>2, <1>3 DEF LineInv

LEMMA EnterInv ==
  ASSUME NEW b, NEW i, NEW a, NEW r, LineInv(b, i, a, r), i \in Memory,
         NEW later \in Taking
  PROVE  LineInv([b EXCEPT ![i] = "enter"], i + 1, later, <<>>)
<1>0. b \in [Memory -> Typed] /\ i \in 0 .. BufSize
  BY DEF LineInv, LineTypes, Memory
<1>1. [b EXCEPT ![i] = "enter"] \in [Memory -> Typed] /\ i + 1 \in 0 .. BufSize + 1
  <2>1. "enter" \in Typed
    BY DEF Typed
  <2>2. QED
    BY <1>0, <2>1, KeyboardAssumption
<1>2. later \in Activities /\ later \notin {"prompted", "shell reads"}
  BY DEF Activities, Taking
<1>3. <<>> \in Seq(Shown)
  BY EmptySeq
<1>4. QED
  BY <1>1, <1>2, <1>3 DEF LineInv, LineTypes, LineEchoed

\* Ctrl+L leaves the line alone on a cleared screen.
LEMMA ClearInv ==
  ASSUME NEW b, NEW i, NEW a, NEW r, LineInv(b, i, a, r), InTime(a)
  PROVE  LineInv(b, i, a, IF Echoes(a) THEN LineOf(b, i) ELSE <<>>)
<1>1. PICK s : s = IF Echoes(a) THEN LineOf(b, i) ELSE <<>>
  OBVIOUS
<1>2. s \in Seq(Shown)
  <2>1. b \in [Memory -> Typed] /\ i \in 0 .. BufSize + 1
    BY DEF LineInv, LineTypes
  <2>2. QED
    BY <1>1, <2>1, LineIsSeq, EmptySeq
<1>3. a = "shell reads" => s = LineOf(b, i)
  BY <1>1 DEF Echoes, Reading
<1>4. Unhurried => a # "prompted"
  BY DEF InTime
<1>5. LineTypes(b, i, a, s)
  BY <1>2 DEF LineInv, LineTypes
<1>6. Unhurried => LineEchoed(b, i, a, s)
  BY <1>3, <1>4 DEF LineEchoed
<1>7. QED
  BY <1>1, <1>5, <1>6 DEF LineInv

\* Characters are added to the line and, if they are echoed, to the screen.
LEMMA TypedInv ==
  ASSUME NEW b, NEW i, NEW a, NEW r, LineInv(b, i, a, r), InTime(a),
         NEW c \in [Memory -> Typed], NEW k \in 0 .. BufSize + 1, NEW more \in Seq(Shown),
         a \notin Taking => k <= BufSize - 1,
         LineOf(c, k) = LineOf(b, i) \o more
  PROVE  LineInv(c, k, a, IF Echoes(a) THEN r \o more ELSE r)
<1>0. b \in [Memory -> Typed] /\ i \in 0 .. BufSize + 1 /\ a \in Activities /\ r \in Seq(Shown)
  BY DEF LineInv, LineTypes
<1>1. PICK s : s = IF Echoes(a) THEN r \o more ELSE r
  OBVIOUS
<1>2. s \in Seq(Shown)
  BY <1>0, <1>1, ConcatProperties
<1>4. LineTypes(c, k, a, s)
  BY <1>0, <1>2 DEF LineTypes
<1>5. Unhurried => LineEchoed(c, k, a, s)
  <2>1. SUFFICES ASSUME Unhurried PROVE LineEchoed(c, k, a, s)
    OBVIOUS
  <2>2. a # "prompted"
    BY <2>1 DEF InTime
  <2>3. ASSUME a = "shell reads"
        PROVE  s = LineOf(c, k) \/ BehindPrompt(s, LineOf(c, k))
    <3>1. s = r \o more
      BY <1>1, <2>3 DEF Echoes, Reading
    <3>2. PICK line \in Seq(Shown) : line = LineOf(b, i)
      BY <1>0, LineIsSeq
    <3>3. r = line \/ BehindPrompt(r, line)
      BY <2>1, <2>3, <3>2 DEF LineInv, LineEchoed
    <3>4. r \o more = line \o more \/ BehindPrompt(r \o more, line \o more)
      BY <1>0, <3>2, <3>3, TypedBehindPrompt
    <3>5. QED
      BY <3>1, <3>2, <3>4
  <2>4. QED
    BY <2>2, <2>3 DEF LineEchoed
<1>6. QED
  BY <1>1, <1>4, <1>5 DEF LineInv

\* The buffer c is b, of which i characters are typed, with the spaces after them.
Filled(b, i, spaces, c) ==
  /\ \A j \in 0 .. i - 1 : c[j] = b[j]
  /\ \A j \in 1 .. Len(spaces) : c[i + j - 1] = spaces[j]

\* Adding spaces to the buffer adds them to the line.
LEMMA TabLine ==
  ASSUME NEW b \in [Memory -> Typed], NEW c \in [Memory -> Typed],
         NEW i \in Nat, NEW k \in Nat, k <= BufSize - 1,
         NEW spaces \in Seq(Shown), k = i + Len(spaces),
         Filled(b, i, spaces, c)
  PROVE  LineOf(c, k) = LineOf(b, i) \o spaces
<1>0. BufSize \in Nat /\ Len(spaces) \in Nat
  BY KeyboardAssumption, LenProperties
<1>1. PICK line \in Seq(Shown) : line = LineOf(b, i) /\ Len(line) = i /\ \A j \in 1 .. i : line[j] = b[j - 1]
  <2>1. i \in 0 .. BufSize + 1
    BY <1>0
  <2>2. QED
    BY <2>1, LineIsSeq DEF LineOf
<1>2. PICK s \in Seq(Shown) :
        s = LineOf(c, k) /\ Len(s) = k /\ \A j \in 1 .. k : s[j] = c[j - 1]
  <2>1. k \in 0 .. BufSize + 1
    BY <1>0
  <2>2. QED
    BY <2>1, LineIsSeq DEF LineOf
<1>3. PICK q \in Seq(Shown) :
        /\ q = line \o spaces /\ Len(q) = k
        /\ \A j \in 1 .. k : q[j] = IF j <= i THEN line[j] ELSE spaces[j - i]
  <2>1. PICK q : q = line \o spaces
    OBVIOUS
  <2>2. /\ q \in Seq(Shown) /\ Len(q) = Len(line) + Len(spaces)
        /\ \A j \in 1 .. Len(line) + Len(spaces) :
             q[j] = IF j <= Len(line) THEN line[j] ELSE spaces[j - Len(line)]
    <3>1. line \in Seq(Shown) /\ spaces \in Seq(Shown)
      BY <1>1
    <3>2. QED
      BY ONLY <2>1, <3>1, ConcatProperties
  <2>3. Len(line) + Len(spaces) = k /\ Len(line) = i
    BY <1>1
  <2>4. QED
    BY ONLY <2>1, <2>2, <2>3
<1>4. \A j \in 1 .. k : s[j] = q[j]
  <2>1. TAKE j \in 1 .. k
  <2>2. CASE j <= i
    <3>1. j \in 1 .. i /\ j - 1 \in 0 .. i - 1
      BY <1>0, <2>2
    <3>2. QED
      BY <1>1, <1>2, <1>3, <2>2, <3>1 DEF Filled
  <2>3. CASE ~(j <= i)
    <3>1. j - i \in 1 .. Len(spaces) /\ i + (j - i) - 1 = j - 1
      BY <1>0, <2>3
    <3>2. s[j] = c[j - 1] /\ q[j] = spaces[j - i]
      BY <1>2, <1>3, <2>3
    <3>3. c[j - 1] = spaces[j - i]
      BY <3>1 DEF Filled
    <3>4. QED
      BY <3>2, <3>3
  <2>4. QED
    BY <2>2, <2>3
<1>5. s = q
  BY <1>2, <1>3, <1>4, SeqEqual
<1>6. QED
  BY <1>1, <1>2, <1>3, <1>5

-----------------------------------------------------------------------------
(* Steps *)

LEMMA InitIInv == Init => IInv
<1> SUFFICES ASSUME Init PROVE IInv
  OBVIOUS
<1>1. MaxTerminals - 1 \in Terminals /\ BufSize \in Nat \ {0}
  BY KeyboardAssumption DEF Terminals
<1>2. PICK b : b = [i \in Memory |-> ""]
  OBVIOUS
<1>3. b \in [Memory -> Typed]
  <2>1. "" \in Typed
    BY DEF Typed
  <2>2. PICK c \in Typed : b = [i \in Memory |-> c]
    BY <1>2, <2>1
  <2>3. QED
    BY <2>2
<1>4. "run" \in Activities /\ "shell reads" \in Activities
  BY DEF Activities, Reading
<1>5. <<>> \in Seq(Shown) /\ Prompt \in Seq(Shown)
  BY PromptShown, EmptySeq
<1>6. 0 \in 0 .. BufSize + 1 /\ 0 <= BufSize - 1
  BY <1>1
<1>7. Prompt = <<>> \o (Prompt \o LineOf(b, 0))
  <2>1. LineOf(b, 0) = <<>>
    <3>1. LineOf(b, 0) \in Seq(Shown) /\ Len(LineOf(b, 0)) = 0
      BY <1>3, <1>6, LineIsSeq
    <3>2. QED
      BY <3>1, EmptySeq
  <2>2. Prompt \o LineOf(b, 0) = Prompt
    BY <1>5, <2>1, ConcatEmptySeq
  <2>3. QED
    BY <1>5, <2>2, ConcatEmptySeq
<1>8. BehindPrompt(Prompt, LineOf(b, 0))
  BY <1>5, <1>7 DEF BehindPrompt
<1>9. ASSUME NEW t \in Terminals
      PROVE  LineInv(kb_buf[t], kb_buf_i[t], at[t], row[t])
  <2>1. kb_buf[t] = b /\ kb_buf_i[t] = 0
    BY <1>2 DEF Init
  <2>2. \/ at[t] = "run" /\ row[t] = <<>>
        \/ at[t] = "shell reads" /\ row[t] = Prompt
    BY DEF Init
  <2>3. LineTypes(b, 0, at[t], row[t])
    BY <1>3, <1>4, <1>5, <1>6, <2>2 DEF LineTypes
  <2>4. LineEchoed(b, 0, at[t], row[t])
    BY <1>8, <2>2 DEF LineEchoed
  <2>5. QED
    BY <2>1, <2>3, <2>4 DEF LineInv
<1>10. QED
  BY <1>1, <1>9 DEF IInv, Init, LineInv, LineTypes

\* The line of t is typed, shown or taken, and no other.
LEMMA OneTerminal ==
  ASSUME IInv, NEW t \in Terminals, NEW b, NEW i, NEW a, NEW r, LineInv(b, i, a, r),
         kb_buf' = [kb_buf EXCEPT ![t] = b], kb_buf_i' = [kb_buf_i EXCEPT ![t] = i],
         at' = [at EXCEPT ![t] = a], row' = [row EXCEPT ![t] = r],
         UNCHANGED <<held, caps_lock, flags, visible_terminal>>
  PROVE  IInv'
<1>1. /\ b \in [Memory -> Typed] /\ i \in 0 .. BufSize + 1 /\ a \in Activities /\ r \in Seq(Shown)
  BY DEF LineInv, LineTypes
<1>2. /\ kb_buf' \in [Terminals -> [Memory -> Typed]] /\ kb_buf_i' \in [Terminals -> 0 .. BufSize + 1]
      /\ at' \in [Terminals -> Activities] /\ row' \in [Terminals -> Seq(Shown)]
  BY <1>1 DEF IInv
<1>3. ASSUME NEW u \in Terminals
      PROVE  LineInv(kb_buf'[u], kb_buf_i'[u], at'[u], row'[u])
  <2>1. CASE u = t
    <3>1. kb_buf'[u] = b /\ kb_buf_i'[u] = i /\ at'[u] = a /\ row'[u] = r
      BY <2>1 DEF IInv
    <3>2. QED
      BY <3>1
  <2>2. CASE u # t
    <3>1. kb_buf'[u] = kb_buf[u] /\ kb_buf_i'[u] = kb_buf_i[u] /\ at'[u] = at[u] /\ row'[u] = row[u]
      BY <2>2 DEF IInv
    <3>2. LineInv(kb_buf[u], kb_buf_i[u], at[u], row[u])
      BY DEF IInv
    <3>3. QED
      BY <3>1, <3>2
  <2>3. QED
    BY <2>1, <2>2
<1>4. QED
  BY <1>2, <1>3 DEF IInv, flags

\* The four parts of a terminal, as constants.
LEMMA TerminalParts ==
  ASSUME IInv, NEW t \in Terminals
  PROVE  \E b, i, a, r : /\ b = kb_buf[t] /\ i = kb_buf_i[t] /\ a = at[t] /\ r = row[t]
                         /\ LineInv(b, i, a, r)
                         /\ kb_buf = [kb_buf EXCEPT ![t] = b]
                         /\ kb_buf_i = [kb_buf_i EXCEPT ![t] = i]
                         /\ at = [at EXCEPT ![t] = a]
                         /\ row = [row EXCEPT ![t] = r]
BY DEF IInv

LEMMA PressBackspaceIInv ==
  ASSUME IInv, NEW code, PressBackspace(code)
  PROVE  IInv'
<1>1. PICK t \in Terminals : t = visible_terminal
  BY DEF IInv
<1>2. PICK b, i, a, r : /\ b = kb_buf[t] /\ i = kb_buf_i[t] /\ a = at[t] /\ r = row[t]
                        /\ LineInv(b, i, a, r)
                        /\ kb_buf = [kb_buf EXCEPT ![t] = b]
                        /\ at = [at EXCEPT ![t] = a]
  BY <1>1, TerminalParts
<1>3. InTime(a) /\ i > 0
  BY <1>1, <1>2 DEF PressBackspace, Pressed, InTime
<1>4. PICK s : s = IF Echoes(a) THEN Erased(r) ELSE r
  OBVIOUS
<1>5. LineInv(b, i - 1, a, s)
  BY <1>2, <1>3, <1>4, BackspaceInv
<1>6. /\ kb_buf_i' = [kb_buf_i EXCEPT ![t] = i - 1] /\ row' = [row EXCEPT ![t] = s]
      /\ UNCHANGED <<held, caps_lock, flags, visible_terminal, kb_buf, at>>
  BY <1>1, <1>2, <1>4 DEF PressBackspace, Echo, PrintAllowed, Echoes
<1>7. kb_buf' = [kb_buf EXCEPT ![t] = b] /\ at' = [at EXCEPT ![t] = a]
  BY <1>2, <1>6
<1>8. QED
  BY <1>1, <1>5, <1>6, <1>7, OneTerminal

LEMMA PressEnterIInv ==
  ASSUME IInv, NEW code, PressEnter(code)
  PROVE  IInv'
<1>1. PICK t \in Terminals : t = visible_terminal
  BY DEF IInv
<1>2. PICK b, i, a, r : /\ b = kb_buf[t] /\ i = kb_buf_i[t] /\ a = at[t] /\ r = row[t]
                        /\ LineInv(b, i, a, r)
  BY <1>1, TerminalParts
<1>3. i \in Memory
  BY <1>1, <1>2 DEF PressEnter, Followed
<1>4. PICK later : later = IF a \in {"shell reads", "shell takes"}
                           THEN "shell takes" ELSE "program takes"
  OBVIOUS
<1>5. later \in Taking
  BY <1>4 DEF Taking
<1>6. PICK c : c = [b EXCEPT ![i] = "enter"]
  OBVIOUS
<1>7. LineInv(c, i + 1, later, <<>>)
  BY <1>2, <1>3, <1>5, <1>6, EnterInv
<1>8. /\ kb_buf_i' = [kb_buf_i EXCEPT ![t] = i + 1] /\ at' = [at EXCEPT ![t] = later]
      /\ UNCHANGED <<held, caps_lock, flags, visible_terminal>>
  BY <1>1, <1>2, <1>4 DEF PressEnter
<1>9. row' = [row EXCEPT ![t] = <<>>]
  BY <1>1 DEF PressEnter, Echo
<1>10. kb_buf' = [kb_buf EXCEPT ![t] = c]
  BY <1>1, <1>2, <1>6 DEF PressEnter
<1>11. QED
  BY <1>1, <1>7, <1>8, <1>9, <1>10, OneTerminal

LEMMA PressCtrlLIInv ==
  ASSUME IInv, NEW code, PressCtrlL(code)
  PROVE  IInv'
<1>1. PICK t \in Terminals : t = visible_terminal
  BY DEF IInv
<1>2. PICK b, i, a, r : /\ b = kb_buf[t] /\ i = kb_buf_i[t] /\ a = at[t] /\ r = row[t]
                        /\ LineInv(b, i, a, r)
                        /\ kb_buf = [kb_buf EXCEPT ![t] = b]
                        /\ kb_buf_i = [kb_buf_i EXCEPT ![t] = i]
                        /\ at = [at EXCEPT ![t] = a]
  BY <1>1, TerminalParts
<1>3. InTime(a)
  BY <1>1, <1>2 DEF PressCtrlL, Pressed, InTime
<1>4. PICK s : s = IF Echoes(a) THEN LineOf(b, i) ELSE <<>>
  OBVIOUS
<1>5. LineInv(b, i, a, s)
  BY <1>2, <1>3, <1>4, ClearInv
<1>6. /\ row' = [row EXCEPT ![t] = s]
      /\ UNCHANGED <<held, caps_lock, flags, visible_terminal, kb_buf, kb_buf_i, at>>
  BY <1>1, <1>2, <1>4 DEF PressCtrlL, PrintAllowed, Echoes, Line, LineOf, lines
<1>7. /\ kb_buf' = [kb_buf EXCEPT ![t] = b] /\ kb_buf_i' = [kb_buf_i EXCEPT ![t] = i]
      /\ at' = [at EXCEPT ![t] = a]
  BY <1>2, <1>6
<1>8. QED
  BY <1>1, <1>5, <1>6, <1>7, OneTerminal

\* A key that the limit lets pass has room before the newline's place, or follows an
\* Enter: the index reaches the limit in single steps.
LEMMA RoomBeforeEnter ==
  ASSUME NEW b, NEW i, NEW a, NEW r, LineInv(b, i, a, r), Room(i)
  PROVE  \/ i \in 0 .. BufSize - 2
         \/ i \in BufSize .. BufSize + 1 /\ a \in Taking
<1>1. i \in 0 .. BufSize + 1 /\ (a \notin Taking => i <= BufSize - 1)
  BY DEF LineInv, LineTypes
<1>2. QED
  BY <1>1, KeyboardAssumption DEF Room

\* Past the limit a tab types nothing.
LEMMA TabPastLimit ==
  ASSUME IInv, NEW code, PressTab(code), kb_buf_i[visible_terminal] >= BufSize
  PROVE  IInv'
<1>1. PICK t \in Terminals : t = visible_terminal
  BY DEF IInv
<1>2. PICK b, i, a, r : /\ b = kb_buf[t] /\ i = kb_buf_i[t] /\ a = at[t] /\ r = row[t]
                        /\ LineInv(b, i, a, r)
                        /\ kb_buf = [kb_buf EXCEPT ![t] = b]
                        /\ kb_buf_i = [kb_buf_i EXCEPT ![t] = i]
                        /\ at = [at EXCEPT ![t] = a]
                        /\ row = [row EXCEPT ![t] = r]
  BY <1>1, TerminalParts
<1>3. b \in [Memory -> Typed] /\ i \in BufSize .. BufSize + 1 /\ r \in Seq(Shown)
  BY <1>1, <1>2, KeyboardAssumption DEF LineInv, LineTypes
<1>4. PICK n : n = IF i + TabWidth <= BufSize - 1 THEN TabWidth ELSE BufSize - 1 - i
  OBVIOUS
<1>5. n < 0 /\ n \in Int
  BY <1>3, <1>4, KeyboardAssumption
<1>6. PICK spaces : spaces = [j \in 1 .. n |-> " "]
  OBVIOUS
<1>7. spaces = <<>> /\ Len(spaces) = 0
  <2>1. 1 .. n = {}
    BY <1>5
  <2>2. spaces = [j \in {} |-> " "]
    BY <1>6, <2>1
  <2>3. [j \in {} |-> " "] = <<>>
    OBVIOUS
  <2>4. QED
    BY <2>2, <2>3
<1>8. PICK filled : filled = {j \in i .. i + TabWidth - 1 : j < BufSize - 1}
  OBVIOUS
<1>9. filled = {}
  BY <1>3, <1>8, KeyboardAssumption
<1>10. [j \in Memory |-> IF j \in filled THEN " " ELSE b[j]] = b
  BY <1>3, <1>9
<1>11. kb_buf' = [kb_buf EXCEPT ![t] = b]
  <2>1. kb_buf' = [kb_buf EXCEPT ![t] = [j \in Memory |-> IF j \in filled THEN " " ELSE b[j]]]
    BY <1>1, <1>2, <1>8 DEF PressTab
  <2>2. QED
    BY <1>10, <2>1
<1>12. /\ kb_buf_i' = [kb_buf_i EXCEPT ![t] = i + Len(spaces)] /\ Echo(t, r \o spaces)
       /\ UNCHANGED <<held, caps_lock, flags, visible_terminal, at>>
  BY <1>1, <1>2, <1>4, <1>6 DEF PressTab
<1>13. kb_buf_i' = [kb_buf_i EXCEPT ![t] = i]
  <2>1. i + Len(spaces) = i
    BY <1>3, <1>7, KeyboardAssumption
  <2>2. QED
    BY <1>12, <2>1
<1>14. row' = [row EXCEPT ![t] = r]
  <2>1. r \o spaces = r
    BY <1>3, <1>7, ConcatEmptySeq
  <2>2. row' = [row EXCEPT ![t] = IF PrintAllowed(t) THEN r ELSE row[t]]
    BY <1>12, <2>1 DEF Echo
  <2>3. QED
    BY <1>2, <2>2
<1>15. at' = [at EXCEPT ![t] = a]
  BY <1>2, <1>12
<1>16. LineInv(b, i, a, r) /\ UNCHANGED <<held, caps_lock, flags, visible_terminal>>
  BY <1>2, <1>12
<1>17. QED
  BY <1>11, <1>13, <1>14, <1>15, <1>16, OneTerminal

LEMMA TabInLine ==
  ASSUME IInv, NEW code, PressTab(code), kb_buf_i[visible_terminal] \in 0 .. BufSize - 2
  PROVE  IInv'
<1>1. PICK t \in Terminals : t = visible_terminal
  BY DEF IInv
<1>2. PICK b, i, a, r : /\ b = kb_buf[t] /\ i = kb_buf_i[t] /\ a = at[t] /\ r = row[t]
                        /\ LineInv(b, i, a, r)
                        /\ at = [at EXCEPT ![t] = a]
  BY <1>1, TerminalParts
<1>3. /\ b \in [Memory -> Typed] /\ i \in Nat /\ i <= BufSize - 2
      /\ BufSize \in Nat /\ TabWidth \in Nat
  <2>1. i \in 0 .. BufSize - 2
    BY <1>1, <1>2
  <2>2. b \in [Memory -> Typed] /\ i \in 0 .. BufSize + 1
    BY <1>2 DEF LineInv, LineTypes
  <2>3. QED
    BY <2>1, <2>2, KeyboardAssumption
<1>4. PICK n : n = IF i + TabWidth <= BufSize - 1 THEN TabWidth ELSE BufSize - 1 - i
  OBVIOUS
<1>5. n \in Nat /\ i + n <= BufSize - 1 /\ n <= TabWidth /\ i + n \in 0 .. BufSize - 1
  BY <1>3, <1>4
<1>6. PICK blank \in Typed : blank = " "
  <2>1. " " \in Typed
    BY DEF Typed
  <2>2. QED
    BY <2>1
<1>7. PICK spaces : spaces = [j \in 1 .. n |-> blank]
  OBVIOUS
<1>8. spaces \in Seq(Shown) /\ Len(spaces) = n /\ \A j \in 1 .. n : spaces[j] = blank
  <2>1. blank \in Shown
    BY <1>6 DEF Shown
  <2>2. QED
    BY <1>5, <1>7, <2>1
<1>9. PICK filled : filled = {j \in i .. i + TabWidth - 1 : j < BufSize - 1}
  OBVIOUS
<1>10. PICK c : c = [j \in Memory |-> IF j \in filled THEN blank ELSE b[j]]
  OBVIOUS
<1>11. c \in [Memory -> Typed]
  BY <1>3, <1>6, <1>10
<1>12. \A j \in 1 .. n : c[i + j - 1] = spaces[j]
  <2>1. TAKE j \in 1 .. n
  <2>2. PICK m \in Nat : m = i + j - 1
    BY <1>3, <1>5
  <2>3. m \in Memory /\ m \in i .. i + TabWidth - 1 /\ m < BufSize - 1
    BY <1>3, <1>5, <2>2 DEF Memory
  <2>4. c[m] = blank
    BY <1>9, <1>10, <2>3
  <2>5. QED
    BY <1>8, <2>2, <2>4
<1>13. \A j \in 0 .. i - 1 : c[j] = b[j]
  <2>1. TAKE j \in 0 .. i - 1
  <2>2. j \in Memory /\ j \notin i .. i + TabWidth - 1
    BY <1>3 DEF Memory
  <2>3. QED
    BY <1>9, <1>10, <2>2
<1>14. LineOf(c, i + n) = LineOf(b, i) \o spaces
  <2>1. PICK k \in Nat : k = i + n /\ k <= BufSize - 1
    BY <1>5
  <2>2. LineOf(c, k) = LineOf(b, i) \o spaces
    <3>1. Filled(b, i, spaces, c)
      BY <1>8, <1>12, <1>13 DEF Filled
    <3>2. k = i + Len(spaces)
      BY <1>8, <2>1
    <3>3. /\ b \in [Memory -> Typed] /\ c \in [Memory -> Typed] /\ i \in Nat
          /\ k \in Nat /\ k <= BufSize - 1 /\ spaces \in Seq(Shown)
      BY <1>3, <1>8, <1>11, <2>1
    <3>4. QED
      BY ONLY <3>1, <3>2, <3>3, TabLine
  <2>3. QED
    BY <2>1, <2>2
<1>15. InTime(a)
  BY <1>1, <1>2 DEF PressTab, Pressed, InTime
<1>16. PICK s : s = IF Echoes(a) THEN r \o spaces ELSE r
  OBVIOUS
<1>17. LineInv(c, i + n, a, s)
  <2>1. PICK k \in 0 .. BufSize + 1 : k = i + n /\ k <= BufSize - 1
    BY <1>3, <1>5
  <2>2. LineOf(c, k) = LineOf(b, i) \o spaces /\ spaces \in Seq(Shown)
    BY <1>8, <1>14, <2>1
  <2>3. LineInv(c, k, a, s)
    BY <1>2, <1>11, <1>15, <1>16, <2>1, <2>2, TypedInv
  <2>4. QED
    BY <2>1, <2>3
<1>18. /\ kb_buf' = [kb_buf EXCEPT ![t] = c]
       /\ UNCHANGED <<held, caps_lock, flags, visible_terminal, at>>
  BY <1>1, <1>2, <1>6, <1>9, <1>10 DEF PressTab
<1>19. kb_buf_i' = [kb_buf_i EXCEPT ![t] = i + Len(spaces)] /\ Echo(t, r \o spaces)
  BY <1>1, <1>2, <1>4, <1>6, <1>7 DEF PressTab
<1>20. kb_buf_i' = [kb_buf_i EXCEPT ![t] = i + n] /\ row' = [row EXCEPT ![t] = s]
  BY <1>2, <1>8, <1>16, <1>19 DEF Echo, PrintAllowed, Echoes
<1>21. at' = [at EXCEPT ![t] = a]
  BY <1>2, <1>18
<1>22. QED
  BY <1>1, <1>17, <1>18, <1>20, <1>21, OneTerminal

LEMMA PressTabIInv ==
  ASSUME IInv, NEW code, PressTab(code)
  PROVE  IInv'
<1>1. PICK t \in Terminals : t = visible_terminal
  BY DEF IInv
<1>2. LineInv(kb_buf[t], kb_buf_i[t], at[t], row[t]) /\ Room(kb_buf_i[t])
  BY <1>1 DEF IInv, PressTab
<1>3. \/ kb_buf_i[t] \in 0 .. BufSize - 2
      \/ kb_buf_i[t] \in BufSize .. BufSize + 1
  BY <1>2, RoomBeforeEnter
<1>4. CASE kb_buf_i[t] \in 0 .. BufSize - 2
  BY <1>1, <1>4, TabInLine
<1>5. CASE kb_buf_i[t] \in BufSize .. BufSize + 1
  <2>1. kb_buf_i[visible_terminal] >= BufSize
    BY <1>1, <1>5, KeyboardAssumption
  <2>2. QED
    BY <2>1, TabPastLimit
<1>6. QED
  BY <1>3, <1>4, <1>5

LEMMA TypeKeyIInv ==
  ASSUME IInv, NEW code \in Codes, TypeKey(code)
  PROVE  IInv'
<1>1. PICK t \in Terminals : t = visible_terminal
  BY DEF IInv
<1>2. PICK b, i, a, r : /\ b = kb_buf[t] /\ i = kb_buf_i[t] /\ a = at[t] /\ r = row[t]
                        /\ LineInv(b, i, a, r)
                        /\ at = [at EXCEPT ![t] = a]
  BY <1>1, TerminalParts
<1>3. /\ b \in [Memory -> Typed] /\ i \in 0 .. BufSize /\ r \in Seq(Shown)
      /\ a \notin Taking => i <= BufSize - 2
      /\ BufSize \in Nat
  <2>1. Room(i) /\ i \in Memory
    BY <1>1, <1>2 DEF TypeKey, Followed
  <2>2. b \in [Memory -> Typed] /\ r \in Seq(Shown)
    BY <1>2 DEF LineInv, LineTypes
  <2>3. i \in 0 .. BufSize - 2 \/ a \in Taking
    BY <1>2, <2>1, RoomBeforeEnter
  <2>4. QED
    BY <2>1, <2>2, <2>3, KeyboardAssumption DEF Memory
<1>4. PICK k \in Typed : k = Decode(code, left_shift_flag \/ right_shift_flag, caps_flag)
  <2>1. (left_shift_flag \/ right_shift_flag) \in BOOLEAN /\ caps_flag \in BOOLEAN
    BY DEF IInv
  <2>2. PICK shift \in BOOLEAN : shift = (left_shift_flag \/ right_shift_flag)
    BY <2>1
  <2>3. PICK caps \in BOOLEAN : caps = caps_flag
    BY <2>1
  <2>4. Decode(code, shift, caps) \in Typed
    BY <2>2, <2>3, DecodedIsTyped
  <2>5. QED
    BY <2>2, <2>3, <2>4
<1>5. PICK c : c = [b EXCEPT ![i] = k]
  OBVIOUS
<1>6. /\ i \in 0 .. BufSize + 1 /\ i + 1 \in 0 .. BufSize + 1
      /\ a \notin Taking => i + 1 <= BufSize - 1
  BY <1>3
<1>7. c \in [Memory -> Typed] /\ LineOf(c, i + 1) = Append(LineOf(b, i), k)
  <2>1. b \in [Memory -> Typed] /\ i \in 0 .. BufSize /\ k \in Typed
    BY <1>3, <1>4
  <2>2. QED
    BY ONLY <1>5, <2>1, LineGrows, ZenonT(60)
<1>8. PICK more : more = <<k>>
  OBVIOUS
<1>9. k \in Shown
  BY <1>4 DEF Shown
<1>10. more \in Seq(Shown)
  BY <1>8, <1>9
<1>11. LineOf(b, i) \in Seq(Shown)
  BY <1>3, <1>6, LineIsSeq
<1>12. LineOf(c, i + 1) = LineOf(b, i) \o more
  BY <1>7, <1>8, <1>9, <1>11, AppendIsConcat
<1>13. InTime(a)
  BY <1>1, <1>2 DEF TypeKey, Pressed, InTime
<1>14. PICK s : s = IF Echoes(a) THEN r \o more ELSE r
  OBVIOUS
<1>15. LineInv(c, i + 1, a, s)
  BY <1>2, <1>6, <1>7, <1>10, <1>12, <1>13, <1>14, TypedInv
<1>16. kb_buf' = [kb_buf EXCEPT ![t] = c]
  BY <1>1, <1>2, <1>4, <1>5 DEF TypeKey
<1>17. /\ kb_buf_i' = [kb_buf_i EXCEPT ![t] = i + 1]
       /\ UNCHANGED <<held, caps_lock, flags, visible_terminal, at>>
  BY <1>1, <1>2 DEF TypeKey
<1>18. Echo(t, Append(r, k))
  BY <1>1, <1>2, <1>4 DEF TypeKey
<1>19. Append(r, k) = r \o more
  BY <1>3, <1>8, <1>9, AppendIsConcat
<1>20. row' = [row EXCEPT ![t] = s]
  BY <1>2, <1>14, <1>18, <1>19 DEF Echo, PrintAllowed, Echoes
<1>21. at' = [at EXCEPT ![t] = a]
  BY <1>2, <1>17
<1>22. QED
  BY <1>1, <1>15, <1>16, <1>17, <1>20, <1>21, OneTerminal

\* The keys that leave the lines alone.
LEMMA OtherKeysIInv ==
  ASSUME IInv, \/ \E key \in Modifiers : Make(key) \/ Break(key)
               \/ CapsLock
               \/ \E code \in Codes : SwitchVisible(code)
  PROVE  IInv'
<1>1. UNCHANGED <<kb_buf, kb_buf_i, at, row>>
  BY DEF Make, Break, CapsLock, SwitchVisible, lines
<1>2. held' \subseteq Modifiers
  BY DEF IInv, Make, Break, CapsLock, SwitchVisible
<1>3. visible_terminal' \in Terminals
  BY DEF IInv, Make, Break, CapsLock, SwitchVisible
<1>4. {caps_lock', left_shift_flag', right_shift_flag', ctrl_flag', alt_flag', caps_flag'} \subseteq BOOLEAN
  <2>1. CASE \E key \in Modifiers : Make(key) \/ Break(key)
    BY <2>1 DEF IInv, Make, Break, SetFlag
  <2>2. CASE CapsLock
    BY <2>2 DEF IInv, CapsLock
  <2>3. CASE \E code \in Codes : SwitchVisible(code)
    BY <2>3 DEF IInv, SwitchVisible, flags
  <2>4. QED
    BY <2>1, <2>2, <2>3
<1>5. QED
  BY <1>1, <1>2, <1>3, <1>4 DEF IInv

\* The program, or the shell, on terminal t.
LEMMA ProcessIInv ==
  ASSUME IInv, NEW t \in Terminals, WriteText(t) \/ WritePrompt(t) \/ StartRead(t) \/ EndRead(t)
  PROVE  IInv'
<1>1. PICK b, i, a, r : /\ b = kb_buf[t] /\ i = kb_buf_i[t] /\ a = at[t] /\ r = row[t]
                        /\ LineInv(b, i, a, r)
                        /\ kb_buf = [kb_buf EXCEPT ![t] = b]
                        /\ kb_buf_i = [kb_buf_i EXCEPT ![t] = i]
                        /\ at = [at EXCEPT ![t] = a]
                        /\ row = [row EXCEPT ![t] = r]
  BY TerminalParts
<1>2. /\ b \in [Memory -> Typed] /\ i \in 0 .. BufSize + 1
      /\ r \in Seq(Shown) /\ (a \notin Taking => i <= BufSize - 1)
  BY <1>1 DEF LineInv, LineTypes
<1>3. CASE WriteText(t)
  <2>1. PICK s : s = IF r = <<>> THEN <<text>> ELSE <<>>
    OBVIOUS
  <2>2. s \in Seq(Shown)
    <3>1. text \in Shown
      BY DEF Shown
    <3>2. <<text>> \in Seq(Shown) /\ <<>> \in Seq(Shown)
      BY <3>1
    <3>3. QED
      BY <2>1, <3>2
  <2>3. /\ a = "run" /\ row' = [row EXCEPT ![t] = s]
        /\ UNCHANGED <<held, caps_lock, flags, visible_terminal, kb_buf, kb_buf_i, at>>
    BY <1>1, <1>3, <2>1 DEF WriteText, lines
  <2>4. LineInv(b, i, a, s)
    BY <1>1, <2>2, <2>3 DEF LineInv, LineTypes, LineEchoed
  <2>5. /\ kb_buf' = [kb_buf EXCEPT ![t] = b] /\ kb_buf_i' = [kb_buf_i EXCEPT ![t] = i]
        /\ at' = [at EXCEPT ![t] = a]
    BY <1>1, <2>3
  <2>6. QED
    BY <2>3, <2>4, <2>5, OneTerminal
<1>4. CASE WritePrompt(t)
  <2>1. PICK line \in Seq(Shown) : line = LineOf(b, i)
    BY <1>2, LineIsSeq
  <2>2. PICK prompt \in Seq(Shown) : prompt = Prompt
    BY PromptShown
  <2>3. PICK s \in Seq(Shown) : s = (r \o prompt) \o line
    <3>1. r \o prompt \in Seq(Shown)
      BY <1>2, <2>2, ConcatProperties
    <3>2. (r \o prompt) \o line \in Seq(Shown)
      BY <2>1, <3>1, ConcatProperties
    <3>3. QED
      BY <3>2
  <2>4. s = r \o (prompt \o line)
    <3>1. r \in Seq(Shown) /\ prompt \in Seq(Shown) /\ line \in Seq(Shown)
      BY <1>2, <2>1, <2>2
    <3>2. (r \o prompt) \o line = r \o (prompt \o line)
      BY ONLY <3>1, SMTT(60)
    <3>3. QED
      BY <2>3, <3>2
  <2>5. BehindPrompt(s, LineOf(b, i))
    BY <1>2, <2>1, <2>2, <2>4 DEF BehindPrompt
  <2>6. a = "run" /\ UNCHANGED <<held, caps_lock, flags, visible_terminal, kb_buf, kb_buf_i>>
    BY <1>1, <1>4 DEF WritePrompt, lines
  <2>7. i <= BufSize - 1
    BY <1>2, <2>6 DEF Taking
  <2>8. /\ kb_buf' = [kb_buf EXCEPT ![t] = b] /\ kb_buf_i' = [kb_buf_i EXCEPT ![t] = i]
    BY <1>1, <2>6
  <2>9. CASE BufferIsPrompt(t)
    <3>1. at' = [at EXCEPT ![t] = "lost"] /\ row' = [row EXCEPT ![t] = r]
      BY <1>1, <1>4, <2>9 DEF WritePrompt
    <3>2. LineInv(b, i, "lost", r)
      BY <1>2, <2>7 DEF LineInv, LineTypes, LineEchoed, Activities
    <3>3. QED
      BY <2>6, <2>8, <3>1, <3>2, OneTerminal
  <2>10. CASE ~BufferIsPrompt(t)
    <3>1. at' = [at EXCEPT ![t] = "prompted"]
      BY <1>4, <2>10 DEF WritePrompt
    <3>2. row' = [row EXCEPT ![t] = s]
      <4>1. row' = [row EXCEPT ![t] = (row[t] \o Prompt) \o Revealed(t)]
        BY <1>4, <2>10 DEF WritePrompt
      <4>2. Revealed(t) = line
        BY <1>1, <2>1 DEF Revealed, Line, LineOf
      <4>3. QED
        BY <1>1, <2>2, <2>3, <4>1, <4>2
    <3>3. LineInv(b, i, "prompted", s)
      BY <1>2, <2>3, <2>5, <2>7 DEF LineInv, LineTypes, LineEchoed, Activities
    <3>4. QED
      BY <2>6, <2>8, <3>1, <3>2, <3>3, OneTerminal
  <2>11. QED
    BY <2>9, <2>10
<1>5. CASE StartRead(t)
  <2>1. PICK later : later = IF a = "prompted" THEN "shell reads" ELSE "program reads"
    OBVIOUS
  <2>2. /\ a \in {"prompted", "run"} /\ at' = [at EXCEPT ![t] = later]
        /\ UNCHANGED <<held, caps_lock, flags, visible_terminal, kb_buf, kb_buf_i, row>>
    BY <1>1, <1>5, <2>1 DEF StartRead, lines
  <2>3. LineTypes(b, i, later, r)
    BY <1>2, <2>1, <2>2 DEF LineTypes, Activities, Reading, Taking
  <2>4. Unhurried => LineEchoed(b, i, later, r)
    BY <1>1, <2>1, <2>2 DEF LineInv, LineEchoed
  <2>5. /\ kb_buf' = [kb_buf EXCEPT ![t] = b] /\ kb_buf_i' = [kb_buf_i EXCEPT ![t] = i]
        /\ row' = [row EXCEPT ![t] = r]
    BY <1>1, <2>2
  <2>6. LineInv(b, i, later, r)
    BY <2>3, <2>4 DEF LineInv
  <2>7. QED
    BY <2>2, <2>5, <2>6, OneTerminal
<1>6. CASE EndRead(t)
  <2>1. "" \in Typed
    BY DEF Typed
  <2>2. PICK c : c = [j \in Memory |-> ""]
    OBVIOUS
  <2>3. c \in [Memory -> Typed]
    <3>1. PICK nul \in Typed : c = [j \in Memory |-> nul]
      BY <2>1, <2>2
    <3>2. QED
      BY <3>1
  <2>4. /\ kb_buf' = [kb_buf EXCEPT ![t] = c] /\ kb_buf_i' = [kb_buf_i EXCEPT ![t] = 0]
        /\ at' = [at EXCEPT ![t] = "run"]
        /\ UNCHANGED <<held, caps_lock, flags, visible_terminal, row>>
    BY <1>6, <2>2 DEF EndRead
  <2>5. 0 \in 0 .. BufSize + 1 /\ 0 <= BufSize - 1
    BY KeyboardAssumption
  <2>6. LineInv(c, 0, "run", r)
    BY <1>2, <2>3, <2>5 DEF LineInv, LineTypes, LineEchoed, Activities
  <2>7. row' = [row EXCEPT ![t] = r]
    BY <1>1, <2>4
  <2>8. QED
    BY <2>4, <2>6, <2>7, OneTerminal
<1>7. QED
  BY <1>3, <1>4, <1>5, <1>6

LEMMA AlwaysIInv == Spec => []IInv
<1>1. IInv /\ [Next]_vars => IInv'
  <2>1. SUFFICES ASSUME IInv, [Next]_vars PROVE IInv'
    OBVIOUS
  <2>2. ASSUME NEW code \in Codes, Press(code)
        PROVE  IInv'
    <3>1. CASE SwitchVisible(code)
      BY <2>1, <3>1, OtherKeysIInv
    <3>2. CASE PressBackspace(code) \/ PressEnter(code) \/ PressCtrlL(code)
      BY <2>1, <3>2, PressBackspaceIInv, PressEnterIInv, PressCtrlLIInv
    <3>3. CASE PressTab(code) \/ TypeKey(code)
      BY <2>1, <3>3, PressTabIInv, TypeKeyIInv
    <3>4. QED
      BY <2>2, <3>1, <3>2, <3>3 DEF Press
  <2>3. CASE \/ \E key \in Modifiers : Make(key) \/ Break(key)
             \/ CapsLock
    BY <2>1, <2>3, OtherKeysIInv
  <2>4. CASE UNCHANGED vars
    BY <2>1, <2>4 DEF vars, flags, lines, IInv
  <2>5. QED
    BY <2>1, <2>2, <2>3, <2>4, ProcessIInv DEF Next
<1>2. QED
  BY InitIInv, <1>1, PTL DEF Spec

-----------------------------------------------------------------------------
(* What was typed ahead *)

\* The buffer of a terminal on which nobody reads and nothing was typed ahead is empty,
\* above the index too, and so the prompt is not in it.
Empty(b) == b = [m \in Memory |-> ""]

AheadOk(b, a, h) == ~h => a # "lost" /\ (a \in {"run", "prompted"} => Empty(b))

AheadInv ==
  /\ ahead \in [Terminals -> BOOLEAN]
  /\ \A t \in Terminals : AheadOk(kb_buf[t], at[t], ahead[t])

LEMMA EmptyIsNotPrompt ==
  ASSUME NEW t \in Terminals, Empty(kb_buf[t])
  PROVE  ~ BufferIsPrompt(t)
<1>0. PICK n \in Nat \ {0} : n = Len(Prompt)
  BY PromptShown
<1>1. 1 \in 1 .. Len(Prompt) /\ 0 \in Memory
  <2>1. 1 \in 1 .. n
    BY <1>0
  <2>2. 0 \in 0 .. BufSize
    BY KeyboardAssumption
  <2>3. QED
    BY <1>0, <2>1, <2>2 DEF Memory
<1>2. Prompt[1] # ""
  <2>1. DOMAIN Prompt = 1 .. Len(Prompt)
    BY PromptShown, LenProperties
  <2>2. QED
    BY <1>1, <2>1, PromptAssumption
<1>3. kb_buf[t][0] = ""
  BY <1>1 DEF Empty
<1>4. SUFFICES ASSUME BufferIsPrompt(t) PROVE FALSE
  OBVIOUS
<1>5. kb_buf[t][1 - 1] = Prompt[1]
  BY <1>1, <1>4 DEF BufferIsPrompt
<1>6. 1 - 1 = 0
  OBVIOUS
<1>7. QED
  BY <1>2, <1>3, <1>5, <1>6

\* A step that changes one terminal.
LEMMA OtherTerminalsAhead ==
  ASSUME AheadInv, NEW t \in Terminals, ahead' \in [Terminals -> BOOLEAN],
         AheadOk(kb_buf'[t], at'[t], ahead'[t]),
         \A u \in Terminals \ {t} :
           kb_buf'[u] = kb_buf[u] /\ at'[u] = at[u] /\ ahead'[u] = ahead[u]
  PROVE  AheadInv'
<1>1. \A u \in Terminals : AheadOk(kb_buf'[u], at'[u], ahead'[u])
  BY DEF AheadInv
<1>2. QED
  BY <1>1 DEF AheadInv

LEMMA SameAhead ==
  ASSUME AheadInv, UNCHANGED <<kb_buf, at, ahead>>
  PROVE  AheadInv'
BY DEF AheadInv

\* A key that is stored where somebody reads leaves the mark, and elsewhere sets it.
LEMMA StoredKey ==
  ASSUME AheadInv, NEW t \in Terminals, MarkAhead(t), at' = at,
         \A u \in Terminals \ {t} : kb_buf'[u] = kb_buf[u]
  PROVE  AheadInv'
<1>1. ahead' = [ahead EXCEPT ![t] = @ \/ ~PrintAllowed(t)]
  BY DEF MarkAhead
<1>2. ahead' \in [Terminals -> BOOLEAN] /\ ahead'[t] = (ahead[t] \/ ~PrintAllowed(t))
  BY <1>1, Zenon DEF AheadInv, PrintAllowed
<1>3. \A u \in Terminals \ {t} : ahead'[u] = ahead[u]
  BY <1>1 DEF AheadInv
<1>4. AheadOk(kb_buf'[t], at'[t], ahead'[t])
  <2>1. CASE PrintAllowed(t)
    BY <2>1 DEF PrintAllowed, Reading, Taking, AheadOk
  <2>2. CASE ~ PrintAllowed(t)
    BY <1>2, <2>2 DEF AheadOk
  <2>3. QED
    BY <2>1, <2>2
<1>5. QED
  BY <1>2, <1>3, <1>4, OtherTerminalsAhead

LEMMA KeysAhead ==
  ASSUME IInv, AheadInv, NEW code \in Codes, Press(code)
  PROVE  AheadInv'
<1>0. /\ visible_terminal \in Terminals /\ kb_buf \in [Terminals -> [Memory -> Typed]]
      /\ at \in [Terminals -> Activities]
  BY DEF IInv
<1>1. PICK t \in Terminals : t = visible_terminal
  BY <1>0
<1>2. CASE PressBackspace(code) \/ PressCtrlL(code) \/ SwitchVisible(code)
  <2>1. UNCHANGED <<kb_buf, at, ahead>>
    BY <1>2 DEF PressBackspace, PressCtrlL, SwitchVisible, lines
  <2>2. QED
    BY <2>1, SameAhead
<1>3. CASE PressEnter(code)
  <2>1. /\ PrintAllowed(t) /\ ahead' = ahead
        /\ kb_buf' = [kb_buf EXCEPT ![t][kb_buf_i[t]] = "enter"]
        /\ at' = [at EXCEPT ![t] = IF @ \in {"shell reads", "shell takes"}
                                   THEN "shell takes" ELSE "program takes"]
    BY <1>1, <1>3 DEF PressEnter
  <2>2. at'[t] \in {"shell takes", "program takes"}
    BY <1>0, <2>1
  <2>3. AheadOk(kb_buf'[t], at'[t], ahead'[t])
    BY <2>2 DEF AheadOk
  <2>4. \A u \in Terminals \ {t} : kb_buf'[u] = kb_buf[u] /\ at'[u] = at[u]
    BY <1>0, <2>1
  <2>5. ahead' \in [Terminals -> BOOLEAN]
    BY <2>1 DEF AheadInv
  <2>6. QED
    BY <2>1, <2>3, <2>4, <2>5, OtherTerminalsAhead
<1>4. CASE PressTab(code) \/ TypeKey(code)
  <2>1. MarkAhead(t) /\ at' = at
    BY <1>1, <1>4 DEF PressTab, TypeKey
  <2>2. \A u \in Terminals \ {t} : kb_buf'[u] = kb_buf[u]
    <3>1. CASE PressTab(code)
      BY <1>0, <1>1, <3>1 DEF PressTab
    <3>2. CASE TypeKey(code)
      BY <1>0, <1>1, <3>2 DEF TypeKey
    <3>3. QED
      BY <1>4, <3>1, <3>2
  <2>3. QED
    BY <2>1, <2>2, StoredKey
<1>5. QED
  BY <1>2, <1>3, <1>4 DEF Press

LEMMA ProcessAhead ==
  ASSUME IInv, AheadInv, NEW t \in Terminals,
         WriteText(t) \/ WritePrompt(t) \/ StartRead(t) \/ EndRead(t)
  PROVE  AheadInv'
<1>0. kb_buf \in [Terminals -> [Memory -> Typed]] /\ at \in [Terminals -> Activities]
  BY DEF IInv
<1>1. /\ ahead \in [Terminals -> BOOLEAN] /\ AheadOk(kb_buf[t], at[t], ahead[t])
  BY DEF AheadInv
<1>2. CASE WriteText(t)
  <2>1. UNCHANGED <<kb_buf, at, ahead>>
    BY <1>2 DEF WriteText, lines
  <2>2. QED
    BY <2>1, SameAhead
<1>3. ASSUME NEW a, at' = [at EXCEPT ![t] = a], UNCHANGED <<kb_buf, ahead>>,
             AheadOk(kb_buf[t], a, ahead[t])
      PROVE  AheadInv'
  <2>1. at'[t] = a /\ \A u \in Terminals \ {t} : at'[u] = at[u]
    BY <1>0, <1>3
  <2>2. QED
    BY <1>1, <1>3, <2>1, OtherTerminalsAhead
<1>4. CASE WritePrompt(t)
  <2>1. UNCHANGED <<kb_buf, ahead>> /\ at[t] = "run"
    BY <1>4 DEF WritePrompt, lines
  <2>2. ~ahead[t] => Empty(kb_buf[t])
    BY <1>1, <2>1 DEF AheadOk
  <2>3. CASE BufferIsPrompt(t)
    <3>1. at' = [at EXCEPT ![t] = "lost"]
      BY <1>4, <2>3 DEF WritePrompt
    <3>2. ahead[t]
      BY <2>2, <2>3, EmptyIsNotPrompt
    <3>3. AheadOk(kb_buf[t], "lost", ahead[t])
      BY <3>2 DEF AheadOk
    <3>4. QED
      BY <1>3, <2>1, <3>1, <3>3
  <2>4. CASE ~ BufferIsPrompt(t)
    <3>1. at' = [at EXCEPT ![t] = "prompted"]
      BY <1>4, <2>4 DEF WritePrompt
    <3>2. AheadOk(kb_buf[t], "prompted", ahead[t])
      BY <2>2 DEF AheadOk
    <3>3. QED
      BY <1>3, <2>1, <3>1, <3>2
  <2>5. QED
    BY <2>3, <2>4
<1>5. CASE StartRead(t)
  <2>1. PICK a \in Reading : at' = [at EXCEPT ![t] = a]
    BY <1>5 DEF StartRead, Reading
  <2>2. UNCHANGED <<kb_buf, ahead>>
    BY <1>5 DEF StartRead, lines
  <2>3. AheadOk(kb_buf[t], a, ahead[t])
    BY <2>1 DEF AheadOk, Reading
  <2>4. QED
    BY <1>3, <2>1, <2>2, <2>3
<1>6. CASE EndRead(t)
  <2>1. /\ kb_buf' = [kb_buf EXCEPT ![t] = [i \in Memory |-> ""]]
        /\ at' = [at EXCEPT ![t] = "run"]
        /\ ahead' = [ahead EXCEPT ![t] = FALSE]
    BY <1>6 DEF EndRead
  <2>2. kb_buf'[t] = [i \in Memory |-> ""] /\ at'[t] = "run"
    BY <1>0, <2>1
  <2>3. \A u \in Terminals \ {t} :
          kb_buf'[u] = kb_buf[u] /\ at'[u] = at[u] /\ ahead'[u] = ahead[u]
    BY <1>0, <1>1, <2>1
  <2>4. ahead' \in [Terminals -> BOOLEAN]
    BY <1>1, <2>1
  <2>5. AheadOk(kb_buf'[t], at'[t], ahead'[t])
    BY <2>2 DEF AheadOk, Empty
  <2>6. QED
    BY <2>3, <2>4, <2>5, OtherTerminalsAhead
<1>7. QED
  BY <1>2, <1>4, <1>5, <1>6

LEMMA InitAhead == Init => AheadInv
<1> SUFFICES ASSUME Init PROVE AheadInv
  OBVIOUS
<1>1. ASSUME NEW t \in Terminals
      PROVE  AheadOk(kb_buf[t], at[t], ahead[t])
  <2>1. kb_buf[t] = [i \in Memory |-> ""] /\ at[t] \in {"run", "shell reads"}
    BY DEF Init
  <2>2. QED
    BY <2>1 DEF AheadOk, Empty
<1>2. QED
  BY <1>1 DEF Init, AheadInv

LEMMA AlwaysAheadInv == Spec => []AheadInv
<1>1. IInv /\ AheadInv /\ [Next]_vars => AheadInv'
  <2>1. SUFFICES ASSUME IInv, AheadInv, [Next]_vars PROVE AheadInv'
    OBVIOUS
  <2>2. CASE \/ \E key \in Modifiers : Make(key) \/ Break(key)
             \/ CapsLock
    <3>1. UNCHANGED <<kb_buf, at, ahead>>
      BY <2>2 DEF Make, Break, CapsLock, lines
    <3>2. QED
      BY <2>1, <3>1, SameAhead
  <2>3. CASE UNCHANGED vars
    <3>1. UNCHANGED <<kb_buf, at, ahead>>
      BY <2>3 DEF vars, lines
    <3>2. QED
      BY <2>1, <3>1, SameAhead
  <2>4. QED
    BY <2>1, <2>2, <2>3, KeysAhead, ProcessAhead DEF Next
<1>2. QED
  BY InitAhead, <1>1, AlwaysIInv, PTL DEF Spec

\* terminal_write calls itself for ever only when something was typed while nobody
\* read: a prompt typed as a line is out of the buffer, and of what lies above the
\* index, when the next prompt is written; for all keys and hurried users too
\* (terminal_write, clear_keyboard_vars).
THEOREM RecursionIsTypedAhead == Spec => []OnlyTypedAheadRecurs
<1>1. AheadInv => OnlyTypedAheadRecurs
  BY DEF AheadInv, AheadOk, OnlyTypedAheadRecurs
<1>2. QED
  BY <1>1, AlwaysAheadInv, PTL

-----------------------------------------------------------------------------
(* What follows *)

\* Until Enter completes it a line leaves room for its newline, for hurried users too:
\* the equality in keyboard_handler is enough, as every key adds one character at a
\* time.  After Enter nothing holds the index but the end of what the module follows.
THEOREM TypesCorrect == Spec => []TypeOK
<1>1. IInv /\ AheadInv => TypeOK
  <2>1. SUFFICES ASSUME IInv, AheadInv PROVE TypeOK
    OBVIOUS
  <2>2. ASSUME NEW t \in Terminals
        PROVE  /\ DOMAIN kb_buf[t] = Memory
               /\ kb_buf_i[t] \in IF at[t] \in Taking THEN 0 .. BufSize + 1 ELSE 0 .. BufSize - 1
               /\ at[t] \in Activities
    <3>1. LineTypes(kb_buf[t], kb_buf_i[t], at[t], row[t])
      BY <2>1 DEF IInv, LineInv
    <3>2. DOMAIN kb_buf[t] = Memory /\ at[t] \in Activities
      BY <3>1 DEF LineTypes
    <3>3. PICK i \in 0 .. BufSize + 1 : i = kb_buf_i[t] /\ (at[t] \notin Taking => i <= BufSize - 1)
      BY <3>1 DEF LineTypes
    <3>4. i \in IF at[t] \in Taking THEN 0 .. BufSize + 1 ELSE 0 .. BufSize - 1
      BY <3>3, KeyboardAssumption
    <3>5. QED
      BY <3>2, <3>3, <3>4
  <2>3. \A t \in Terminals : ahead[t] \in BOOLEAN
    BY <2>1 DEF AheadInv
  <2>4. QED
    BY <2>1, <2>2, <2>3 DEF IInv, TypeOK, Activities
<1>2. QED
  BY <1>1, AlwaysIInv, AlwaysAheadInv, PTL

\* If nobody types between a prompt and its read, nor between an Enter and the end of
\* the read, then the shell's terminal shows the line it will get, behind its prompt,
\* for every prompt, every buffer and everything typed ahead and erased
\* (keyboard_handler, terminal_write).
THEOREM EchoFollowsLine ==
  ASSUME Unhurried
  PROVE  Spec => []EchoIsLine
<1>1. IInv => EchoIsLine
  <2>1. SUFFICES ASSUME IInv, NEW t \in Terminals, at[t] = "shell reads"
                 PROVE  LET shown == Prompt \o Line(t)
                        IN  \/ row[t] = Line(t)
                            \/ /\ Len(row[t]) >= Len(shown)
                               /\ SubSeq(row[t], Len(row[t]) - Len(shown) + 1, Len(row[t])) = shown
    BY DEF EchoIsLine
  <2>2. PICK b, i, r : b = kb_buf[t] /\ i = kb_buf_i[t] /\ r = row[t]
    OBVIOUS
  <2>3. /\ b \in [Memory -> Typed] /\ i \in 0 .. BufSize + 1 /\ r \in Seq(Shown)
        /\ r = LineOf(b, i) \/ BehindPrompt(r, LineOf(b, i))
    BY <2>1, <2>2 DEF IInv, LineInv, LineTypes, LineEchoed
  <2>4. Line(t) = LineOf(b, i)
    BY <2>2 DEF Line, LineOf
  <2>5. ASSUME BehindPrompt(r, LineOf(b, i))
        PROVE  LET shown == Prompt \o Line(t)
               IN  /\ Len(r) >= Len(shown)
                   /\ SubSeq(r, Len(r) - Len(shown) + 1, Len(r)) = shown
    <3>1. PICK before \in Seq(Shown) : r = before \o (Prompt \o LineOf(b, i))
      BY <2>5 DEF BehindPrompt
    <3>2. PICK shown \in Seq(Shown) : shown = Prompt \o LineOf(b, i)
      BY <2>3, LineIsSeq, PromptShown, ConcatProperties
    <3>3. Len(before) \in Nat /\ Len(shown) \in Nat /\ Len(r) = Len(before) + Len(shown)
      BY <3>1, <3>2, ConcatProperties, LenProperties
    <3>4. SubSeq(r, Len(before) + 1, Len(r)) = shown
      BY <3>1, <3>2, EndOfConcat
    <3>5. Len(r) - Len(shown) + 1 = Len(before) + 1 /\ Len(r) >= Len(shown)
      BY <3>3
    <3>6. QED
      BY <2>4, <3>2, <3>4, <3>5
  <2>6. QED
    BY <2>2, <2>3, <2>4, <2>5
<1>2. QED
  BY <1>1, AlwaysIInv, PTL

\* The flag that decides between the cases of a letter follows the key, as do the
\* others.
CapsInv == caps_flag = caps_lock

LEMMA AlwaysCapsInv == Spec => []CapsInv
<1>1. Init => CapsInv
  BY DEF Init, CapsInv
<1>2. CapsInv /\ [Next]_vars => CapsInv'
  <2>1. SUFFICES ASSUME CapsInv, [Next]_vars, ~CapsLock
                 PROVE  UNCHANGED <<caps_lock, caps_flag>>
    BY DEF CapsInv, CapsLock
  <2>2. CASE \E key \in Modifiers : Make(key) \/ Break(key)
    BY <2>2 DEF Make, Break, SetFlag
  <2>3. CASE \E code \in Codes : Press(code)
    BY <2>3 DEF Press, PressBackspace, PressEnter, PressCtrlL, SwitchVisible, PressTab, TypeKey, flags
  <2>4. CASE \E t \in Terminals : WriteText(t) \/ WritePrompt(t) \/ StartRead(t) \/ EndRead(t)
    BY <2>4 DEF WriteText, WritePrompt, StartRead, EndRead, flags
  <2>5. CASE UNCHANGED vars
    BY <2>5 DEF vars, flags
  <2>6. QED
    BY <2>1, <2>2, <2>3, <2>4, <2>5 DEF Next
<1>3. QED
  BY <1>1, <1>2, PTL DEF Spec

LEMMA TypedAsEngraved ==
  ASSUME IInv, FlagsInv, CapsInv, NEW code \in Codes, TypeKey(code), Ascii(code) # "esc"
  PROVE  Line(visible_terminal)' =
           Append(Line(visible_terminal), Engraved(code, ShiftHeld, caps_lock))
<1>1. PICK t \in Terminals : t = visible_terminal
  BY DEF IInv
<1>2. PICK b, i, a, r : /\ b = kb_buf[t] /\ i = kb_buf_i[t] /\ a = at[t] /\ r = row[t]
                        /\ LineInv(b, i, a, r)
  BY <1>1, TerminalParts
<1>3. b \in [Memory -> Typed] /\ i \in 0 .. BufSize
  BY <1>1, <1>2 DEF TypeKey, Followed, Memory, LineInv, LineTypes
<1>4. PICK shift \in BOOLEAN : shift = (left_shift_flag \/ right_shift_flag) /\ shift = ShiftHeld
  <2>1. (left_shift_flag \/ right_shift_flag) \in BOOLEAN
    BY DEF IInv
  <2>2. (left_shift_flag \/ right_shift_flag) <=> ShiftHeld
    BY DEF FlagsInv, NoStuckModifier, ShiftHeld
  <2>3. ShiftHeld \in BOOLEAN
    BY DEF ShiftHeld
  <2>4. QED
    BY <2>1, <2>2, <2>3
<1>5. PICK caps \in BOOLEAN : caps = caps_flag /\ caps = caps_lock
  BY DEF IInv, CapsInv
<1>6. PICK k : k = Decode(code, shift, caps)
  OBVIOUS
<1>7. k = Engraved(code, ShiftHeld, caps_lock)
  <2>1. code \in 0 .. LastCode
    BY KeyboardAssumption
  <2>2. Ascii(code) \notin {"", "esc", "backspace", "tab", "enter"}
    BY DEF TypeKey
  <2>3. QED
    BY <1>4, <1>5, <1>6, <2>1, <2>2, EngravingAssumption
<1>8. k \in Typed
  BY <1>4, <1>5, <1>6, DecodedIsTyped
<1>9. PICK c : c = [b EXCEPT ![i] = k]
  OBVIOUS
<1>10. LineOf(c, i + 1) = Append(LineOf(b, i), k)
  BY <1>3, <1>8, <1>9, LineGrows, ZenonT(60)
<1>11. kb_buf' = [kb_buf EXCEPT ![t] = c] /\ kb_buf_i' = [kb_buf_i EXCEPT ![t] = i + 1]
  BY <1>1, <1>2, <1>4, <1>5, <1>6, <1>9 DEF TypeKey
<1>12. kb_buf'[t] = c /\ kb_buf_i'[t] = i + 1 /\ visible_terminal' = t
  BY <1>1, <1>11 DEF IInv, TypeKey
<1>13. Line(visible_terminal)' = LineOf(c, i + 1)
  BY <1>12 DEF Line, LineOf
<1>14. Line(visible_terminal) = LineOf(b, i)
  BY <1>1, <1>2 DEF Line, LineOf
<1>15. QED
  BY <1>7, <1>10, <1>13, <1>14

\* Every key types what is engraved on it, whatever was held, pressed and released
\* before on whatever terminal (keyboard_handler).
THEOREM KeysTypeEngraving == Spec => TypesAsEngraved
<1>1. IInv /\ FlagsInv /\ CapsInv /\ [Next]_vars =>
        [\A code \in Codes :
           TypeKey(code) /\ Ascii(code) # "esc" =>
             Line(visible_terminal)' =
               Append(Line(visible_terminal), Engraved(code, ShiftHeld, caps_lock))]_vars
  BY TypedAsEngraved
<1>2. QED
  BY <1>1, AlwaysIInv, AlwaysFlagsInv, AlwaysCapsInv, PTL DEF Spec, TypesAsEngraved
=============================================================================
