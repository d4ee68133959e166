------------------------------ MODULE PagingProofs ------------------------------
(***************************************************************************)
(* Proofs about Paging, for every number of terminals and processes.  The  *)
(* invariant says what the list of steps of a handler still promises: that *)
(* a changed entry is flushed before it is used, and where the pages will  *)
(* point when the handler is done.                                         *)
(***************************************************************************)
EXTENDS Paging, SequenceTheorems, WellFoundedInduction, TLAPS

-----------------------------------------------------------------------------
(* What a list of steps does *)

\* A step goes through page v.
Uses(step, v) ==
  \/ step[1] \in {"put", "keep", "fetch"} /\ v = "vidmem"
  \/ step[1] \in {"store", "parse"} /\ v = "program"

\* From step i on, the cache is flushed before page v is used.
FlushedFrom(s, i, v) ==
  \E k \in i .. Len(s) : s[k][1] = "flush" /\ \A j \in i .. k : ~Uses(s[j], v)

\* Every entry a step sets is flushed before it is used.
Flushes(s) ==
  \A i \in 1 .. Len(s) : s[i][1] \in {"present", "frame"} => FlushedFrom(s, i, s[i][2])

Sets(step, op, v) == step[1] = op /\ step[2] = v

\* The last of the steps that set this half of page v's entry sets it to x; no step
\* sets it.
SetsLast(s, op, v, x) ==
  \E i \in 1 .. Len(s) : s[i] = <<op, v, x>> /\ \A j \in i + 1 .. Len(s) : ~Sets(s[j], op, v)

SetsNever(s, op, v) == \A i \in 1 .. Len(s) : ~Sets(s[i], op, v)

\* Only the first step is one of these; only the last is.
OnlyFirst(s, op) == \A i \in 1 .. Len(s) : s[i][1] = op => i = 1
OnlyLast(s, op)  == \A i \in 1 .. Len(s) : s[i][1] = op => i = Len(s)
Never(s, op)     == \A i \in 1 .. Len(s) : s[i][1] # op

-----------------------------------------------------------------------------
(* The invariant *)

\* When the handler is done: the entries, and the process that runs.
EndFrame(v, f) ==
  SetsLast(todo, "frame", v, f) \/ (SetsNever(todo, "frame", v) /\ page[v].frame = f)

EndPresent(v, b) ==
  SetsLast(todo, "present", v, b) \/ (SetsNever(todo, "present", v) /\ page[v].present = b)

EndRunning(p) ==
  \/ todo # <<>> /\ todo[Len(todo)] = <<"run", p>>
  \/ Never(todo, "run") /\ Running = p

\* A translation that is not the entry's is flushed before it is used.
StaleIsFlushed == \A v \in DOMAIN tlb : tlb[v] # page[v] => FlushedFrom(todo, 1, v)

ProgramInv ==
  /\ \E p \in Pids : EndRunning(p) /\ EndFrame("program", Program(p))
  /\ EndPresent("program", TRUE)
  /\ page["program"].frame \in {Program(p) : p \in Pids}

ScreenInv ==
  /\ \E f \in {Vga, Buffer(scheduled_terminal)} : EndFrame("video", f)
  /\ EndFrame("vidmem", Vga)
  /\ page["vidmem"].frame \in {Vga, Buffer(scheduled_terminal)}

\* The command is read before anything else happens.
ParseInv ==
  todo # <<>> /\ Step[1] = "parse" => page["program"] = [present |-> TRUE, frame |-> Program(Running)]

\* A switch of the visible terminal: the text kept is the screen's until the other
\* terminal's is fetched.
NeverSwitches(s) == Never(s, "keep") /\ Never(s, "fetch") /\ Never(s, "visible")

Switching(t) ==
  \/ todo = << <<"keep", Buffer(visible_terminal)>>, <<"fetch", Buffer(t)>>, <<"flush">>, <<"visible", t>> >>
  \/ /\ todo = << <<"fetch", Buffer(t)>>, <<"flush">>, <<"visible", t>> >>
     /\ memory[Buffer(visible_terminal)] = memory[Vga]
  \/ todo = << <<"flush">>, <<"visible", t>> >>
  \/ todo = << <<"visible", t>> >>

SwitchInv ==
  \/ NeverSwitches(todo)
  \/ \E t \in Terminals : t # visible_terminal /\ Switching(t)

IInv ==
  /\ TypeOK
  /\ Flushes(todo) /\ StaleIsFlushed
  /\ ProgramInv
  /\ ScreenInv
  /\ ParseInv
  /\ OnlyFirst(todo, "parse") /\ OnlyLast(todo, "run")
  /\ SwitchInv

-----------------------------------------------------------------------------
(* Lists of steps: the first step is made *)

LEMMA TailOfSteps ==
  ASSUME NEW S, NEW s \in Seq(S), s # <<>>
  PROVE  /\ Tail(s) \in Seq(S) /\ Len(s) \in Nat /\ Len(s) >= 1 /\ s[1] \in S
         /\ Head(s) = s[1]
         /\ Len(Tail(s)) = Len(s) - 1
         /\ \A i \in 1 .. Len(s) - 1 : Tail(s)[i] = s[i + 1]
<1>1. Len(s) \in Nat \ {0} /\ Head(s) = s[1]
  BY EmptySeq
<1>2. s[1] \in S
  BY <1>1, ElementOfSeq
<1>3. QED
  BY <1>1, <1>2, HeadTailProperties

LEMMA TailNever ==
  ASSUME NEW S, NEW s \in Seq(S), s # <<>>
  PROVE  /\ \A op, v : SetsNever(s, op, v) => SetsNever(Tail(s), op, v) /\ ~Sets(s[1], op, v)
         /\ \A op : Never(s, op) => Never(Tail(s), op)
         /\ \A op : OnlyFirst(s, op) => Never(Tail(s), op)
         /\ \A op : OnlyLast(s, op) => OnlyLast(Tail(s), op)
<1> DEFINE r == Tail(s)
<1>1. /\ Len(s) \in Nat /\ Len(s) >= 1 /\ Len(r) = Len(s) - 1
      /\ \A i \in 1 .. Len(r) : i + 1 \in 1 .. Len(s) /\ i + 1 # 1 /\ r[i] = s[i + 1]
      /\ \A i \in 1 .. Len(r) : i + 1 = Len(s) => i = Len(r)
  BY TailOfSteps
<1> HIDE DEF r
<1>2. 1 \in 1 .. Len(s)
  BY <1>1
<1>3. ASSUME NEW op, NEW v, SetsNever(s, op, v)
      PROVE  SetsNever(r, op, v) /\ ~Sets(s[1], op, v)
  BY <1>1, <1>2, <1>3 DEF SetsNever
<1>4. ASSUME NEW op, Never(s, op)
      PROVE  Never(r, op)
  BY <1>1, <1>4 DEF Never
<1>5. ASSUME NEW op, OnlyFirst(s, op)
      PROVE  Never(r, op)
  BY <1>1, <1>5 DEF Never, OnlyFirst
<1>6. ASSUME NEW op, OnlyLast(s, op)
      PROVE  OnlyLast(r, op)
  BY <1>1, <1>6 DEF OnlyLast
<1>7. QED
  BY <1>3, <1>4, <1>5, <1>6 DEF r

\* What is set last stays to be set, unless it was the step just made.
LEMMA TailSetsLast ==
  ASSUME NEW S, NEW s \in Seq(S), s # <<>>, NEW op, NEW v, NEW x, SetsLast(s, op, v, x)
  PROVE  \/ SetsLast(Tail(s), op, v, x)
         \/ s[1] = <<op, v, x>> /\ SetsNever(Tail(s), op, v)
<1> DEFINE r == Tail(s)
<1>1. /\ Len(s) \in Nat /\ Len(s) >= 1 /\ Len(r) = Len(s) - 1
      /\ \A i \in 1 .. Len(r) : r[i] = s[i + 1]
  BY TailOfSteps
<1>2. PICK i \in 1 .. Len(s) :
        s[i] = <<op, v, x>> /\ \A j \in i + 1 .. Len(s) : ~Sets(s[j], op, v)
  BY DEF SetsLast
<1> HIDE DEF r
<1>3. \A j \in 1 .. Len(r) : j + 1 \in i + 1 .. Len(s) \/ ~ (j >= i)
  BY <1>1
<1>4. CASE i = 1
  <2>1. \A j \in 1 .. Len(r) : ~Sets(r[j], op, v)
    BY <1>1, <1>2, <1>3, <1>4
  <2>2. QED
    BY <1>2, <1>4, <2>1 DEF SetsNever, r
<1>5. CASE i # 1
  <2>1. i - 1 \in 1 .. Len(r) /\ (i - 1) + 1 = i
    BY <1>1, <1>5
  <2>2. \A j \in (i - 1) + 1 .. Len(r) : j \in 1 .. Len(r) /\ j + 1 \in i + 1 .. Len(s)
    BY <1>1, <1>5
  <2>3. \A j \in (i - 1) + 1 .. Len(r) : ~Sets(r[j], op, v)
    BY <1>1, <1>2, <2>2
  <2>4. r[i - 1] = <<op, v, x>>
    BY <1>1, <1>2, <2>1
  <2>5. QED
    BY <2>1, <2>3, <2>4 DEF SetsLast, r
<1>6. QED
  BY <1>4, <1>5

LEMMA TailFlushedFrom ==
  ASSUME NEW S, NEW s \in Seq(S), s # <<>>, NEW i \in 1 .. Len(s), NEW v,
         FlushedFrom(s, i, v), i # 1 \/ s[1][1] # "flush"
  PROVE  FlushedFrom(Tail(s), IF i = 1 THEN 1 ELSE i - 1, v)
<1> DEFINE r == Tail(s)
           h == IF i = 1 THEN 1 ELSE i - 1
<1>1. /\ Len(s) \in Nat /\ Len(s) >= 1 /\ Len(r) = Len(s) - 1
      /\ \A j \in 1 .. Len(r) : r[j] = s[j + 1]
  BY TailOfSteps
<1>2. PICK k \in i .. Len(s) : s[k][1] = "flush" /\ \A j \in i .. k : ~Uses(s[j], v)
  BY DEF FlushedFrom
<1> HIDE DEF r
<1>3. k # 1
  BY <1>2
<1>4. k \in Int /\ k - 1 \in h .. Len(r) /\ k - 1 \in 1 .. Len(r) /\ (k - 1) + 1 = k
  BY <1>1, <1>3
<1>5. \A j \in h .. k - 1 : j \in 1 .. Len(r) /\ j + 1 \in i .. k
  BY <1>1, <1>3, <1>4
<1>6. r[k - 1][1] = "flush" /\ \A j \in h .. k - 1 : ~Uses(r[j], v)
  BY <1>1, <1>2, <1>4, <1>5
<1>7. QED
  BY <1>4, <1>6 DEF FlushedFrom, r

LEMMA TailFlushes ==
  ASSUME NEW S, NEW s \in Seq(S), s # <<>>, Flushes(s)
  PROVE  /\ Flushes(Tail(s))
         /\ s[1][1] \in {"present", "frame"} => FlushedFrom(Tail(s), 1, s[1][2])
<1> DEFINE r == Tail(s)
<1>1. /\ Len(s) \in Nat /\ Len(s) >= 1 /\ Len(r) = Len(s) - 1
      /\ \A j \in 1 .. Len(r) : r[j] = s[j + 1]
  BY TailOfSteps
<1>2. ASSUME s[1][1] \in {"present", "frame"}
      PROVE  FlushedFrom(r, 1, s[1][2])
  <2>1. 1 \in 1 .. Len(s) /\ s[1][1] # "flush"
    BY <1>1, <1>2
  <2>2. FlushedFrom(s, 1, s[1][2])
    BY <1>2, <2>1 DEF Flushes
  <2>3. QED
    BY <2>1, <2>2, TailFlushedFrom
<1> HIDE DEF r
<1>3. ASSUME NEW i \in 1 .. Len(r), r[i][1] \in {"present", "frame"}
      PROVE  FlushedFrom(r, i, r[i][2])
  <2>1. i + 1 \in 1 .. Len(s) /\ i + 1 # 1 /\ (i + 1) - 1 = i /\ r[i] = s[i + 1]
    BY <1>1
  <2>2. FlushedFrom(s, i + 1, s[i + 1][2])
    BY <1>3, <2>1 DEF Flushes
  <2>3. FlushedFrom(Tail(s), IF i + 1 = 1 THEN 1 ELSE (i + 1) - 1, s[i + 1][2])
    BY <2>1, <2>2, TailFlushedFrom
  <2>4. QED
    BY <2>1, <2>3 DEF r
<1>4. QED
  BY <1>2, <1>3 DEF Flushes, r

-----------------------------------------------------------------------------
(* Lists of steps: one after the other *)

LEMMA ConcatSteps ==
  ASSUME NEW S, NEW s \in Seq(S), NEW r \in Seq(S)
  PROVE  /\ s \o r \in Seq(S) /\ Len(s) \in Nat /\ Len(r) \in Nat
         /\ Len(s \o r) = Len(s) + Len(r)
         /\ \A i \in 1 .. Len(s) : (s \o r)[i] = s[i]
         /\ \A i \in 1 .. Len(r) : (s \o r)[Len(s) + i] = r[i]
         /\ \A i \in 1 .. Len(s) + Len(r) :
              i \in 1 .. Len(s) \/ (i - Len(s) \in 1 .. Len(r) /\ (s \o r)[i] = r[i - Len(s)])
<1>1. Len(s) \in Nat /\ Len(r) \in Nat
  BY LenProperties
<1>2. /\ s \o r \in Seq(S) /\ Len(s \o r) = Len(s) + Len(r)
      /\ \A i \in 1 .. Len(s) + Len(r) : (s \o r)[i] = IF i <= Len(s) THEN s[i] ELSE r[i - Len(s)]
  BY ConcatProperties
<1>3. \A i \in 1 .. Len(r) : Len(s) + i \in 1 .. Len(s) + Len(r) /\ ~ (Len(s) + i <= Len(s))
                             /\ (Len(s) + i) - Len(s) = i
  BY <1>1
<1>4. \A i \in 1 .. Len(s) : i \in 1 .. Len(s) + Len(r) /\ i <= Len(s)
  BY <1>1
<1>5. \A i \in 1 .. Len(s) + Len(r) : i \in 1 .. Len(s) \/ (i - Len(s) \in 1 .. Len(r) /\ ~ (i <= Len(s)))
  BY <1>1
<1> DEFINE both == s \o r
<1> HIDE DEF both
<1>6. \A i \in 1 .. Len(r) : both[Len(s) + i] = r[i]
  BY <1>2, <1>3 DEF both
<1>7. QED
  BY <1>1, <1>2, <1>4, <1>5, <1>6 DEF both

LEMMA ConcatFlushes ==
  ASSUME NEW S, NEW s \in Seq(S), NEW r \in Seq(S), Flushes(s), Flushes(r)
  PROVE  Flushes(s \o r)
<1> DEFINE both == s \o r
<1>1. /\ Len(s) \in Nat /\ Len(r) \in Nat /\ Len(both) = Len(s) + Len(r)
      /\ \A i \in 1 .. Len(s) : both[i] = s[i]
      /\ \A i \in 1 .. Len(r) : both[Len(s) + i] = r[i]
  BY ConcatSteps
<1> HIDE DEF both
<1>2. ASSUME NEW i \in 1 .. Len(s), s[i][1] \in {"present", "frame"}
      PROVE  FlushedFrom(both, i, both[i][2])
  <2>1. PICK k \in i .. Len(s) : s[k][1] = "flush" /\ \A j \in i .. k : ~Uses(s[j], s[i][2])
    BY <1>2 DEF Flushes, FlushedFrom
  <2>2. k \in i .. Len(both) /\ k \in 1 .. Len(s) /\ \A j \in i .. k : j \in 1 .. Len(s)
    BY <1>1
  <2>3. both[k][1] = "flush" /\ \A j \in i .. k : ~Uses(both[j], both[i][2])
    BY <1>1, <2>1, <2>2
  <2>4. QED
    BY <2>2, <2>3 DEF FlushedFrom
<1>3. ASSUME NEW i \in 1 .. Len(r), r[i][1] \in {"present", "frame"}
      PROVE  FlushedFrom(both, Len(s) + i, both[Len(s) + i][2])
  <2>1. PICK k \in i .. Len(r) : r[k][1] = "flush" /\ \A j \in i .. k : ~Uses(r[j], r[i][2])
    BY <1>3 DEF Flushes, FlushedFrom
  <2>2. Len(s) + k \in Len(s) + i .. Len(both) /\ k \in 1 .. Len(r)
    BY <1>1
  <2>3. \A j \in Len(s) + i .. Len(s) + k :
          j - Len(s) \in i .. k /\ j - Len(s) \in 1 .. Len(r) /\ j = Len(s) + (j - Len(s))
    BY <1>1
  <2>4. \A j \in Len(s) + i .. Len(s) + k : both[j] = r[j - Len(s)]
    BY <1>1, <2>3
  <2>5. both[Len(s) + k][1] = "flush"
        /\ \A j \in Len(s) + i .. Len(s) + k : ~Uses(both[j], both[Len(s) + i][2])
    BY <1>1, <2>1, <2>2, <2>3, <2>4
  <2>6. QED
    BY <2>2, <2>5 DEF FlushedFrom
<1>4. ASSUME NEW i \in 1 .. Len(both), both[i][1] \in {"present", "frame"}
      PROVE  FlushedFrom(both, i, both[i][2])
  <2>1. CASE i \in 1 .. Len(s)
    BY <1>1, <1>2, <1>4, <2>1
  <2>2. CASE i \notin 1 .. Len(s)
    <3>1. i - Len(s) \in 1 .. Len(r) /\ i = Len(s) + (i - Len(s))
      BY <1>1, <2>2
    <3>2. both[i] = r[i - Len(s)]
      BY <1>1, <3>1
    <3>3. FlushedFrom(both, Len(s) + (i - Len(s)), both[Len(s) + (i - Len(s))][2])
      BY <1>3, <1>4, <3>1, <3>2
    <3>4. QED
      BY <3>1, <3>3
  <2>3. QED
    BY <2>1, <2>2
<1>5. QED
  BY <1>4 DEF Flushes, both

LEMMA ConcatNever ==
  ASSUME NEW S, NEW s \in Seq(S), NEW r \in Seq(S)
  PROVE  /\ \A op, v : SetsNever(s, op, v) /\ SetsNever(r, op, v) => SetsNever(s \o r, op, v)
         /\ \A op : Never(s, op) /\ Never(r, op) => Never(s \o r, op)
         /\ \A op : OnlyFirst(s, op) /\ Never(r, op) => OnlyFirst(s \o r, op)
         /\ \A op : Never(s, op) /\ OnlyLast(r, op) => OnlyLast(s \o r, op)
<1> DEFINE both == s \o r
<1>1. /\ Len(s) \in Nat /\ Len(r) \in Nat /\ Len(both) = Len(s) + Len(r)
      /\ \A i \in 1 .. Len(s) : both[i] = s[i]
      /\ \A i \in 1 .. Len(s) + Len(r) :
           i \in 1 .. Len(s) \/ (i - Len(s) \in 1 .. Len(r) /\ both[i] = r[i - Len(s)])
  BY ConcatSteps
<1> HIDE DEF both
<1>2. ASSUME NEW op, NEW v, SetsNever(s, op, v), SetsNever(r, op, v)
      PROVE  SetsNever(both, op, v)
  BY <1>1, <1>2 DEF SetsNever
<1>3. ASSUME NEW op, Never(s, op), Never(r, op)
      PROVE  Never(both, op)
  BY <1>1, <1>3, SMTT(30) DEF Never
<1>4. ASSUME NEW op, OnlyFirst(s, op), Never(r, op)
      PROVE  OnlyFirst(both, op)
  BY <1>1, <1>4 DEF Never, OnlyFirst
<1>5. ASSUME NEW op, Never(s, op), OnlyLast(r, op)
      PROVE  OnlyLast(both, op)
  <2>1. ASSUME NEW i \in 1 .. Len(both), both[i][1] = op
        PROVE  i = Len(both)
    <3>1. i - Len(s) \in 1 .. Len(r) /\ both[i] = r[i - Len(s)]
      BY <1>1, <1>5, <2>1 DEF Never
    <3>2. i - Len(s) = Len(r)
      BY <1>5, <2>1, <3>1 DEF OnlyLast
    <3>3. QED
      BY <1>1, <3>2
  <2>2. QED
    BY <2>1 DEF OnlyLast
<1>6. QED
  BY <1>2, <1>3, <1>4, <1>5 DEF both

LEMMA ConcatSetsLast ==
  ASSUME NEW S, NEW s \in Seq(S), NEW r \in Seq(S), NEW op, NEW v, NEW x,
         SetsLast(r, op, v, x) \/ (SetsLast(s, op, v, x) /\ SetsNever(r, op, v))
  PROVE  SetsLast(s \o r, op, v, x)
<1> DEFINE both == s \o r
<1>1. /\ Len(s) \in Nat /\ Len(r) \in Nat /\ Len(both) = Len(s) + Len(r)
      /\ \A i \in 1 .. Len(s) : both[i] = s[i]
      /\ \A i \in 1 .. Len(r) : both[Len(s) + i] = r[i]
      /\ \A i \in 1 .. Len(s) + Len(r) :
           i \in 1 .. Len(s) \/ (i - Len(s) \in 1 .. Len(r) /\ both[i] = r[i - Len(s)])
  BY ConcatSteps
<1> HIDE DEF both
<1>2. CASE SetsLast(r, op, v, x)
  <2>1. PICK i \in 1 .. Len(r) :
          r[i] = <<op, v, x>> /\ \A j \in i + 1 .. Len(r) : ~Sets(r[j], op, v)
    BY <1>2 DEF SetsLast
  <2>2. Len(s) + i \in 1 .. Len(both) /\ both[Len(s) + i] = <<op, v, x>>
    BY <1>1, <2>1
  <2>3. \A j \in (Len(s) + i) + 1 .. Len(both) :
          j \in 1 .. Len(s) + Len(r) /\ j \notin 1 .. Len(s) /\ j - Len(s) \in i + 1 .. Len(r)
    BY <1>1
  <2>4. \A j \in (Len(s) + i) + 1 .. Len(both) : ~Sets(both[j], op, v)
    BY <1>1, <2>1, <2>3
  <2>5. QED
    BY <2>2, <2>4 DEF SetsLast, both
<1>3. CASE SetsLast(s, op, v, x) /\ SetsNever(r, op, v)
  <2>1. PICK i \in 1 .. Len(s) :
          s[i] = <<op, v, x>> /\ \A j \in i + 1 .. Len(s) : ~Sets(s[j], op, v)
    BY <1>3 DEF SetsLast
  <2>2. i \in 1 .. Len(both) /\ both[i] = <<op, v, x>>
    BY <1>1, <2>1
  <2>3. \A j \in i + 1 .. Len(both) :
          j \in 1 .. Len(s) + Len(r) /\ (j \in i + 1 .. Len(s) \/ j \notin 1 .. Len(s))
    BY <1>1
  <2>4. ASSUME NEW j \in i + 1 .. Len(both)
        PROVE  ~Sets(both[j], op, v)
    <3>1. CASE j \in i + 1 .. Len(s)
      BY <1>1, <2>1, <3>1
    <3>2. CASE j \notin 1 .. Len(s)
      BY <1>1, <1>3, <2>3, <3>2 DEF SetsNever
    <3>3. QED
      BY <2>3, <3>1, <3>2
  <2>5. QED
    BY <2>2, <2>4 DEF SetsLast, both
<1>4. QED
  BY <1>2, <1>3

-----------------------------------------------------------------------------
(* Lists of steps: the functions of paging.c *)

\* The steps a handler on terminal t may consist of.
LEMMA KindsOfSteps ==
  ASSUME NEW t \in Terminals
  PROVE  /\ \A v \in Pages, b \in BOOLEAN : <<"present", v, b>> \in Steps(t)
         /\ \A p \in Pids : <<"frame", "program", Program(p)>> \in Steps(t)
         /\ \A v \in {"video", "vidmem"}, f \in {Vga, Buffer(t)} : <<"frame", v, f>> \in Steps(t)
         /\ <<"flush">> \in Steps(t) /\ <<"parse">> \in Steps(t)
         /\ \A c \in Contents : <<"store", c>> \in Steps(t)
         /\ \A c \in Contents, u \in Terminals : <<"put", c, u>> \in Steps(t)
         /\ \A u \in Terminals : <<"keep", Buffer(u)>> \in Steps(t) /\ <<"fetch", Buffer(u)>> \in Steps(t)
                                  /\ <<"visible", u>> \in Steps(t)
         /\ \A p \in Pids : <<"run", p>> \in Steps(t)
<1>1. \A v \in Pages, b \in BOOLEAN : <<"present", v, b>> \in Steps(t)
  BY DEF Steps
<1>2. \A p \in Pids : <<"frame", "program", Program(p)>> \in Steps(t)
  BY DEF Steps
<1>3. \A v \in {"video", "vidmem"}, f \in {Vga, Buffer(t)} : <<"frame", v, f>> \in Steps(t)
  BY DEF Steps
<1>4. <<"flush">> \in Steps(t) /\ <<"parse">> \in Steps(t)
  BY DEF Steps
<1>5. \A c \in Contents : <<"store", c>> \in Steps(t)
  BY DEF Steps
<1>6. \A c \in Contents, u \in Terminals : <<"put", c, u>> \in Steps(t)
  BY DEF Steps
<1>7. \A u \in Terminals : <<"keep", Buffer(u)>> \in Steps(t)
  BY DEF Steps
<1>8. \A u \in Terminals : <<"fetch", Buffer(u)>> \in Steps(t)
  BY DEF Steps
<1>9. \A u \in Terminals : <<"visible", u>> \in Steps(t)
  BY DEF Steps
<1>10. \A p \in Pids : <<"run", p>> \in Steps(t)
  BY DEF Steps
<1>11. QED
  BY <1>1, <1>2, <1>3, <1>4, <1>5, <1>6, <1>7, <1>8, <1>9, <1>10, Zenon

LEMMA OneStep ==
  ASSUME NEW S, NEW a \in S
  PROVE  /\ <<a>> \in Seq(S) /\ Len(<<a>>) = 1 /\ <<a>>[1] = a
         /\ \A i \in 1 .. 1 : i = 1
OBVIOUS

LEMMA TwoSteps ==
  ASSUME NEW S, NEW a \in S, NEW b \in S
  PROVE  /\ <<a, b>> \in Seq(S) /\ Len(<<a, b>>) = 2 /\ <<a, b>>[1] = a /\ <<a, b>>[2] = b
         /\ \A i \in 1 .. 2 : i = 1 \/ i = 2
OBVIOUS

LEMMA ThreeSteps ==
  ASSUME NEW S, NEW a \in S, NEW b \in S, NEW c \in S
  PROVE  /\ <<a, b, c>> \in Seq(S) /\ Len(<<a, b, c>>) = 3
         /\ <<a, b, c>>[1] = a /\ <<a, b, c>>[2] = b /\ <<a, b, c>>[3] = c
         /\ \A i \in 1 .. 3 : i = 1 \/ i = 2 \/ i = 3
OBVIOUS

\* A step that is not about the tables.
LEMMA PlainStep ==
  ASSUME NEW t \in Terminals, NEW a \in Steps(t), a[1] \in {"put", "store", "parse", "run"}
  PROVE  /\ <<a>> \in Seq(Steps(t)) /\ Flushes(<<a>>) /\ NeverSwitches(<<a>>)
         /\ \A op \in {"present", "frame"}, v \in Pages : SetsNever(<<a>>, op, v)
         /\ OnlyFirst(<<a>>, "parse") /\ OnlyLast(<<a>>, "run")
         /\ \A op \in {"parse", "run"} : a[1] # op => Never(<<a>>, op)
<1> DEFINE s == <<a>>
<1>1. s \in Seq(Steps(t)) /\ Len(s) = 1 /\ s[1] = a /\ \A i \in 1 .. 1 : i = 1
  BY OneStep
<1> HIDE DEF s
<1>2. Flushes(s)
  BY <1>1 DEF Flushes
<1>3. NeverSwitches(s)
  BY <1>1 DEF NeverSwitches, Never
<1>4. \A op \in {"present", "frame"}, v \in Pages : SetsNever(s, op, v)
  BY <1>1 DEF SetsNever, Sets
<1>5. OnlyFirst(s, "parse") /\ OnlyLast(s, "run") /\ \A op \in {"parse", "run"} : a[1] # op => Never(s, op)
  BY <1>1 DEF OnlyFirst, OnlyLast, Never
<1>6. QED
  BY <1>1, <1>2, <1>3, <1>4, <1>5 DEF s

\* Neither a command is read nor a process started.
LEMMA SetTables ==
  ASSUME NEW t \in Terminals, NEW s \in Seq(Steps(t)),
         \A i \in 1 .. Len(s) : s[i][1] \in {"present", "frame", "flush"}
  PROVE  NeverSwitches(s) /\ Never(s, "parse") /\ Never(s, "run")
BY DEF NeverSwitches, Never

LEMMA ProgPage ==
  ASSUME NEW t \in Terminals, NEW p \in Pids, NEW b \in BOOLEAN
  PROVE  LET s == set_user_prog_page(p, b)
         IN  /\ s \in Seq(Steps(t)) /\ Flushes(s)
             /\ SetsLast(s, "frame", "program", Program(p))
             /\ SetsLast(s, "present", "program", b)
             /\ SetsNever(s, "frame", "video") /\ SetsNever(s, "frame", "vidmem")
             /\ NeverSwitches(s) /\ Never(s, "parse") /\ Never(s, "run")
<1> DEFINE s == set_user_prog_page(p, b)
           x == <<"present", "program", b>>
           y == <<"frame", "program", Program(p)>>
           z == <<"flush">>
<1>1. x \in Steps(t) /\ y \in Steps(t) /\ z \in Steps(t)
  BY KindsOfSteps DEF Pages, UserPages
<1>2. /\ s \in Seq(Steps(t)) /\ Len(s) = 3 /\ s[1] = x /\ s[2] = y /\ s[3] = z
      /\ \A i \in 1 .. 3 : i = 1 \/ i = 2 \/ i = 3
  <2>1. s = <<x, y, z>>
    BY DEF set_user_prog_page
  <2> HIDE DEF s, x, y, z
  <2>2. QED
    BY <1>1, <2>1, ThreeSteps
<1> HIDE DEF s
<1>3. \A i \in 1 .. 3 : ~Uses(s[i], "program")
  BY <1>2 DEF Uses
<1>4. Flushes(s)
  <2>1. ASSUME NEW i \in 1 .. Len(s), s[i][1] \in {"present", "frame"}
        PROVE  FlushedFrom(s, i, s[i][2])
    <3>1. s[i][2] = "program" /\ s[3][1] = "flush" /\ 3 \in i .. Len(s)
          /\ \A j \in i .. 3 : j \in 1 .. 3
      BY <1>2, <2>1
    <3>2. QED
      BY <1>3, <3>1 DEF FlushedFrom
  <2>2. QED
    BY <2>1 DEF Flushes
<1>5. SetsLast(s, "frame", "program", Program(p))
  <2>1. 2 \in 1 .. Len(s) /\ \A j \in 2 + 1 .. Len(s) : j = 3
    BY <1>2
  <2>2. QED
    BY <1>2, <2>1 DEF SetsLast, Sets
<1>6. SetsLast(s, "present", "program", b)
  <2>1. 1 \in 1 .. Len(s) /\ \A j \in 1 + 1 .. Len(s) : j = 2 \/ j = 3
    BY <1>2
  <2>2. QED
    BY <1>2, <2>1 DEF SetsLast, Sets
<1>7. SetsNever(s, "frame", "video") /\ SetsNever(s, "frame", "vidmem")
  BY <1>2 DEF SetsNever, Sets
<1>8. \A i \in 1 .. Len(s) : s[i][1] \in {"present", "frame", "flush"}
  BY <1>2
<1>9. QED
  BY <1>2, <1>4, <1>5, <1>6, <1>7, <1>8, SetTables DEF s

LEMMA FrameOfTerminal ==
  ASSUME NEW t, NEW u
  PROVE  FrameOf(t, u) \in {Vga, Buffer(t)} /\ FrameOf(t, t) = Vga
BY DEF FrameOf

LEMMA VideoPage ==
  ASSUME NEW t \in Terminals
  PROVE  LET s == set_user_video_page(t)
         IN  /\ s \in Seq(Steps(t)) /\ Flushes(s)
             /\ \E f \in {Vga, Buffer(t)} : SetsLast(s, "frame", "video", f)
             /\ \A op \in {"frame", "present"} : SetsNever(s, op, "program")
             /\ SetsNever(s, "frame", "vidmem")
             /\ NeverSwitches(s) /\ Never(s, "parse") /\ Never(s, "run")
<1>0. PICK f \in {Vga, Buffer(t)} : f = FrameOf(t, visible_terminal)
  BY FrameOfTerminal
<1> DEFINE s == set_user_video_page(t)
           x == <<"present", "video", TRUE>>
           y == <<"frame", "video", f>>
           z == <<"flush">>
<1>1. x \in Steps(t) /\ y \in Steps(t) /\ z \in Steps(t)
  BY KindsOfSteps DEF Pages, UserPages
<1>2. /\ s \in Seq(Steps(t)) /\ Len(s) = 3 /\ s[1] = x /\ s[2] = y /\ s[3] = z
      /\ \A i \in 1 .. 3 : i = 1 \/ i = 2 \/ i = 3
  <2>1. s = <<x, y, z>>
    BY <1>0 DEF set_user_video_page
  <2> HIDE DEF s, x, y, z
  <2>2. QED
    BY <1>1, <2>1, ThreeSteps
<1> HIDE DEF s
<1>3. \A i \in 1 .. 3 : ~Uses(s[i], "video")
  BY <1>2 DEF Uses
<1>4. Flushes(s)
  <2>1. ASSUME NEW i \in 1 .. Len(s), s[i][1] \in {"present", "frame"}
        PROVE  FlushedFrom(s, i, s[i][2])
    <3>1. s[i][2] = "video" /\ s[3][1] = "flush" /\ 3 \in i .. Len(s)
          /\ \A j \in i .. 3 : j \in 1 .. 3
      BY <1>2, <2>1
    <3>2. QED
      BY <1>3, <3>1 DEF FlushedFrom
  <2>2. QED
    BY <2>1 DEF Flushes
<1>5. SetsLast(s, "frame", "video", f)
  <2>1. 2 \in 1 .. Len(s) /\ \A j \in 2 + 1 .. Len(s) : j = 3
    BY <1>2
  <2>2. QED
    BY <1>2, <2>1 DEF SetsLast, Sets
<1>6. SetsNever(s, "frame", "vidmem") /\ \A op \in {"frame", "present"} : SetsNever(s, op, "program")
  BY <1>2 DEF SetsNever, Sets
<1>7. \A i \in 1 .. Len(s) : s[i][1] \in {"present", "frame", "flush"}
  BY <1>2
<1>8. QED
  BY <1>2, <1>4, <1>5, <1>6, <1>7, SetTables DEF s

LEMMA VidmemPage ==
  ASSUME NEW t \in Terminals, NEW u, u \in {t, visible_terminal}
  PROVE  LET s == redirect_vidmem_page(u)
         IN  /\ s \in Seq(Steps(t)) /\ Flushes(s)
             /\ u = visible_terminal => SetsLast(s, "frame", "vidmem", Vga)
             /\ \A op \in {"frame", "present"} : SetsNever(s, op, "program")
             /\ SetsNever(s, "frame", "video")
             /\ NeverSwitches(s) /\ Never(s, "parse") /\ Never(s, "run")
<1>0. PICK f \in {Vga, Buffer(t)} :
        f = FrameOf(u, visible_terminal) /\ (u = visible_terminal => f = Vga)
  BY FrameOfTerminal
<1> DEFINE s == redirect_vidmem_page(u)
           y == <<"frame", "vidmem", f>>
           z == <<"flush">>
<1>1. y \in Steps(t) /\ z \in Steps(t)
  BY KindsOfSteps
<1>2. /\ s \in Seq(Steps(t)) /\ Len(s) = 2 /\ s[1] = y /\ s[2] = z
      /\ \A i \in 1 .. 2 : i = 1 \/ i = 2
  <2>1. s = <<y, z>>
    BY <1>0 DEF redirect_vidmem_page
  <2> HIDE DEF s, y, z
  <2>2. QED
    BY <1>1, <2>1, TwoSteps
<1> HIDE DEF s
<1>3. \A i \in 1 .. 2 : ~Uses(s[i], "vidmem")
  BY <1>2 DEF Uses
<1>4. Flushes(s)
  <2>1. ASSUME NEW i \in 1 .. Len(s), s[i][1] \in {"present", "frame"}
        PROVE  FlushedFrom(s, i, s[i][2])
    <3>1. s[i][2] = "vidmem" /\ s[2][1] = "flush" /\ 2 \in i .. Len(s)
          /\ \A j \in i .. 2 : j \in 1 .. 2
      BY <1>2, <2>1
    <3>2. QED
      BY <1>3, <3>1 DEF FlushedFrom
  <2>2. QED
    BY <2>1 DEF Flushes
<1>5. ASSUME u = visible_terminal
      PROVE  SetsLast(s, "frame", "vidmem", Vga)
  <2>1. 1 \in 1 .. Len(s) /\ \A j \in 1 + 1 .. Len(s) : j = 2
    BY <1>2
  <2>2. QED
    BY <1>0, <1>2, <1>5, <2>1 DEF SetsLast, Sets
<1>6. SetsNever(s, "frame", "video") /\ \A op \in {"frame", "present"} : SetsNever(s, op, "program")
  BY <1>2 DEF SetsNever, Sets
<1>7. \A i \in 1 .. Len(s) : s[i][1] \in {"present", "frame", "flush"}
  BY <1>2
<1>8. QED
  BY <1>2, <1>4, <1>5, <1>6, <1>7, SetTables DEF s

LEMMA NeverSwitchesConcat ==
  ASSUME NEW S, NEW s \in Seq(S), NEW r \in Seq(S), NeverSwitches(s), NeverSwitches(r)
  PROVE  NeverSwitches(s \o r)
BY ConcatNever DEF NeverSwitches

\* execute up to the test for an executable.
LEMMA LoadSteps ==
  ASSUME NEW t \in Terminals, NEW p \in Pids, NEW c \in Contents
  PROVE  LET s == LoadProgram(p, c)
         IN  /\ s \in Seq(Steps(t)) /\ Flushes(s)
             /\ SetsLast(s, "frame", "program", Program(p))
             /\ SetsLast(s, "present", "program", TRUE)
             /\ SetsNever(s, "frame", "video") /\ SetsNever(s, "frame", "vidmem")
             /\ NeverSwitches(s) /\ OnlyFirst(s, "parse") /\ Never(s, "run")
<1> DEFINE x == << <<"parse">> >>
           y == set_user_prog_page(p, TRUE)
           z == << <<"store", c>> >>
           b == x \o y
           s == b \o z
<1>1. s = LoadProgram(p, c)
  BY DEF LoadProgram
<1>2. /\ x \in Seq(Steps(t)) /\ Flushes(x) /\ NeverSwitches(x)
      /\ \A op \in {"present", "frame"}, v \in Pages : SetsNever(x, op, v)
      /\ OnlyFirst(x, "parse") /\ Never(x, "run")
  BY KindsOfSteps, PlainStep
<1>3. /\ z \in Seq(Steps(t)) /\ Flushes(z) /\ NeverSwitches(z)
      /\ \A op \in {"present", "frame"}, v \in Pages : SetsNever(z, op, v)
      /\ Never(z, "parse") /\ Never(z, "run")
  <2>1. <<"store", c>> \in Steps(t) /\ <<"store", c>>[1] = "store"
    BY KindsOfSteps
  <2>2. QED
    BY <2>1, PlainStep
<1>4. /\ y \in Seq(Steps(t)) /\ Flushes(y)
      /\ SetsLast(y, "frame", "program", Program(p))
      /\ SetsLast(y, "present", "program", TRUE)
      /\ SetsNever(y, "frame", "video") /\ SetsNever(y, "frame", "vidmem")
      /\ NeverSwitches(y) /\ Never(y, "parse") /\ Never(y, "run")
  BY ProgPage
<1> HIDE DEF x, y, z
<1>5. "program" \in Pages /\ "video" \in Pages /\ "vidmem" \in Pages
  BY DEF Pages, UserPages
<1>6. /\ b \in Seq(Steps(t)) /\ Flushes(b)
      /\ SetsLast(b, "frame", "program", Program(p))
      /\ SetsLast(b, "present", "program", TRUE)
      /\ SetsNever(b, "frame", "video") /\ SetsNever(b, "frame", "vidmem")
      /\ NeverSwitches(b) /\ OnlyFirst(b, "parse") /\ Never(b, "run")
  <2>1. b \in Seq(Steps(t)) /\ Flushes(b) /\ NeverSwitches(b)
    BY <1>2, <1>4, ConcatSteps, ConcatFlushes, NeverSwitchesConcat
  <2>2. SetsLast(b, "frame", "program", Program(p)) /\ SetsLast(b, "present", "program", TRUE)
    BY <1>2, <1>4, ConcatSetsLast
  <2>3. SetsNever(b, "frame", "video") /\ SetsNever(b, "frame", "vidmem")
    BY <1>2, <1>4, <1>5, ConcatNever
  <2>4. OnlyFirst(b, "parse") /\ Never(b, "run")
    BY <1>2, <1>4, ConcatNever
  <2>5. QED
    BY <2>1, <2>2, <2>3, <2>4
<1> HIDE DEF b
<1>7. s \in Seq(Steps(t)) /\ Flushes(s) /\ NeverSwitches(s)
  BY <1>3, <1>6, ConcatSteps, ConcatFlushes, NeverSwitchesConcat
<1>8. SetsLast(s, "frame", "program", Program(p)) /\ SetsLast(s, "present", "program", TRUE)
  BY <1>3, <1>5, <1>6, ConcatSetsLast
<1>9. SetsNever(s, "frame", "video") /\ SetsNever(s, "frame", "vidmem")
  BY <1>3, <1>5, <1>6, ConcatNever
<1>10. OnlyFirst(s, "parse") /\ Never(s, "run")
  BY <1>3, <1>6, ConcatNever
<1>11. QED
  BY <1>1, <1>7, <1>8, <1>9, <1>10

-----------------------------------------------------------------------------
(* A handler starts *)

\* Between handlers the cache agrees with the tables and the pages are those of the
\* process that runs.
LEMMA IdleState ==
  ASSUME IInv, Idle
  PROVE  /\ \A v \in DOMAIN tlb : tlb[v] = page[v]
         /\ page["program"] = [present |-> TRUE, frame |-> Program(Running)]
         /\ page["vidmem"].frame = Vga
         /\ page["video"].frame \in {Vga, Buffer(scheduled_terminal)}
<1>1. todo = <<>> /\ Len(todo) = 0
  BY DEF Idle
<1>2. \A op, v, x : ~SetsLast(todo, op, v, x)
  BY <1>1 DEF SetsLast
<1>3. \A v : ~FlushedFrom(todo, 1, v)
  BY <1>1 DEF FlushedFrom
<1>4. \A v \in DOMAIN tlb : tlb[v] = page[v]
  BY <1>3 DEF IInv, StaleIsFlushed
<1>5. PICK p \in Pids : Running = p /\ page["program"].frame = Program(p)
  BY <1>1, <1>2 DEF IInv, ProgramInv, EndRunning, EndFrame
<1>6. page["program"].present = TRUE
  BY <1>2 DEF IInv, ProgramInv, EndPresent
<1>7. page["program"] = [present |-> TRUE, frame |-> Program(Running)]
  <2>1. page["program"] \in Entries
    BY DEF IInv, TypeOK, Pages, UserPages
  <2>2. QED
    BY <1>5, <1>6, <2>1 DEF Entries
<1>8. page["vidmem"].frame = Vga /\ page["video"].frame \in {Vga, Buffer(scheduled_terminal)}
  BY <1>2 DEF IInv, ScreenInv, EndFrame
<1>9. QED
  BY <1>4, <1>7, <1>8

\* What the steps of a handler have to promise when it starts.
ProgramPromise(s, run) ==
  \/ /\ SetsNever(s, "frame", "program") /\ SetsNever(s, "present", "program")
     /\ Never(s, "run") /\ run = Running
  \/ \E p \in Pids :
       /\ SetsLast(s, "frame", "program", Program(p))
       /\ SetsLast(s, "present", "program", TRUE)
       /\ (s # <<>> /\ s[Len(s)] = <<"run", p>>) \/ (Never(s, "run") /\ run = p)

ScreenPromise(s, t) ==
  /\ \/ \E f \in {Vga, Buffer(t)} : SetsLast(s, "frame", "video", f)
     \/ SetsNever(s, "frame", "video") /\ t = scheduled_terminal
  /\ SetsLast(s, "frame", "vidmem", Vga) \/ SetsNever(s, "frame", "vidmem")

SwitchPromise(s) ==
  \/ NeverSwitches(s)
  \/ \E t \in Terminals \ {visible_terminal} :
       s = << <<"keep", Buffer(visible_terminal)>>, <<"fetch", Buffer(t)>>, <<"flush">>, <<"visible", t>> >>

LEMMA HandlerStart ==
  ASSUME IInv, Idle, TypeOK', NEW s, todo' = s,
         UNCHANGED <<page, tlb, memory, visible_terminal>>,
         Flushes(s), OnlyLast(s, "run"), OnlyFirst(s, "parse"),
         ProgramPromise(s, Running'),
         ScreenPromise(s, scheduled_terminal'),
         SwitchPromise(s),
         Never(s, "parse") \/ Running' = Running
  PROVE  IInv'
<1>1. /\ \A v \in DOMAIN tlb : tlb[v] = page[v]
      /\ page["program"] = [present |-> TRUE, frame |-> Program(Running)]
      /\ page["vidmem"].frame = Vga
      /\ page["video"].frame \in {Vga, Buffer(scheduled_terminal)}
  BY IdleState
<1>2. StaleIsFlushed'
  BY <1>1 DEF StaleIsFlushed
<1>3. PICK r \in Pids : r = Running
  BY DEF IInv, TypeOK, ProgramInv, EndRunning, Idle
<1>4. ProgramInv'
  <2>1. CASE /\ SetsNever(s, "frame", "program") /\ SetsNever(s, "present", "program")
             /\ Never(s, "run") /\ Running' = Running
    <3>1. EndRunning(r)'
      BY <1>3, <2>1 DEF EndRunning
    <3>2. page'["program"].frame = Program(r) /\ page'["program"].present = TRUE
      BY <1>1, <1>3
    <3>3. EndFrame("program", Program(r))' /\ EndPresent("program", TRUE)'
      BY <2>1, <3>2 DEF EndFrame, EndPresent
    <3>4. QED
      BY <3>1, <3>2, <3>3 DEF ProgramInv
  <2>2. ASSUME NEW p \in Pids,
               SetsLast(s, "frame", "program", Program(p)),
               SetsLast(s, "present", "program", TRUE),
               (s # <<>> /\ s[Len(s)] = <<"run", p>>) \/ (Never(s, "run") /\ Running' = p)
        PROVE  ProgramInv'
    <3>1. EndRunning(p)'
      BY <2>2 DEF EndRunning
    <3>2. EndFrame("program", Program(p))' /\ EndPresent("program", TRUE)'
      BY <2>2 DEF EndFrame, EndPresent
    <3>3. page'["program"].frame = Program(r)
      BY <1>1, <1>3
    <3>4. QED
      BY <3>1, <3>2, <3>3 DEF ProgramInv
  <2>3. QED
    BY <2>1, <2>2 DEF ProgramPromise
<1>5. ScreenInv'
  BY <1>1 DEF ScreenPromise, ScreenInv, EndFrame
<1>6. ParseInv'
  <2>1. ASSUME s # <<>>, Head(s)[1] = "parse"
        PROVE  Running' = Running
    <3>1. s \in Seq(Steps(scheduled_terminal'))
      BY DEF TypeOK
    <3>2. Head(s) = s[1] /\ 1 \in 1 .. Len(s)
      BY <2>1, <3>1, TailOfSteps
    <3>3. QED
      BY <2>1, <3>2 DEF Never
  <2>2. QED
    BY <1>1, <2>1 DEF ParseInv, Step
<1>7. SwitchInv'
  BY DEF SwitchPromise, SwitchInv, Switching
<1>8. QED
  BY <1>2, <1>4, <1>5, <1>6, <1>7 DEF IInv

LEMMA NeverIsOnly ==
  ASSUME NEW s, NEW op, Never(s, op)
  PROVE  OnlyFirst(s, op) /\ OnlyLast(s, op)
BY DEF Never, OnlyFirst, OnlyLast

\* putc for a process whose terminal is not on the screen.
LEMMA PutSteps ==
  ASSUME NEW t \in Terminals, visible_terminal \in Terminals, NEW c \in Contents
  PROVE  LET s == PutBehind(t, c)
         IN  /\ s \in Seq(Steps(t)) /\ Flushes(s)
             /\ SetsLast(s, "frame", "vidmem", Vga)
             /\ \A op \in {"frame", "present"} : SetsNever(s, op, "program")
             /\ SetsNever(s, "frame", "video")
             /\ NeverSwitches(s) /\ Never(s, "parse") /\ Never(s, "run")
<1> DEFINE x == redirect_vidmem_page(t)
           y == << <<"put", c, t>> >>
           z == redirect_vidmem_page(visible_terminal)
           b == x \o y
           s == b \o z
<1>1. s = PutBehind(t, c)
  BY DEF PutBehind
<1>2. /\ x \in Seq(Steps(t)) /\ Flushes(x) /\ NeverSwitches(x)
      /\ \A op \in {"frame", "present"} : SetsNever(x, op, "program")
      /\ SetsNever(x, "frame", "video") /\ Never(x, "parse") /\ Never(x, "run")
  BY VidmemPage
<1>3. /\ y \in Seq(Steps(t)) /\ Flushes(y) /\ NeverSwitches(y)
      /\ \A op \in {"present", "frame"}, v \in Pages : SetsNever(y, op, v)
      /\ Never(y, "parse") /\ Never(y, "run")
  <2>1. <<"put", c, t>> \in Steps(t) /\ <<"put", c, t>>[1] = "put"
    BY KindsOfSteps
  <2>2. QED
    BY <2>1, PlainStep
<1>4. /\ z \in Seq(Steps(t)) /\ Flushes(z) /\ NeverSwitches(z)
      /\ SetsLast(z, "frame", "vidmem", Vga)
      /\ \A op \in {"frame", "present"} : SetsNever(z, op, "program")
      /\ SetsNever(z, "frame", "video") /\ Never(z, "parse") /\ Never(z, "run")
  BY VidmemPage
<1> HIDE DEF x, y, z
<1>5. "program" \in Pages /\ "video" \in Pages
  BY DEF Pages, UserPages
<1>6. /\ b \in Seq(Steps(t)) /\ Flushes(b) /\ NeverSwitches(b)
      /\ \A op \in {"frame", "present"} : SetsNever(b, op, "program")
      /\ SetsNever(b, "frame", "video") /\ Never(b, "parse") /\ Never(b, "run")
  <2>1. b \in Seq(Steps(t)) /\ Flushes(b) /\ NeverSwitches(b)
    BY <1>2, <1>3, ConcatSteps, ConcatFlushes, NeverSwitchesConcat
  <2>2. SetsNever(b, "frame", "video") /\ \A op \in {"frame", "present"} : SetsNever(b, op, "program")
    BY <1>2, <1>3, <1>5, ConcatNever
  <2>3. Never(b, "parse") /\ Never(b, "run")
    BY <1>2, <1>3, ConcatNever
  <2>4. QED
    BY <2>1, <2>2, <2>3
<1> HIDE DEF b
<1>7. s \in Seq(Steps(t)) /\ Flushes(s) /\ NeverSwitches(s)
  BY <1>4, <1>6, ConcatSteps, ConcatFlushes, NeverSwitchesConcat
<1>8. SetsNever(s, "frame", "video") /\ \A op \in {"frame", "present"} : SetsNever(s, op, "program")
  BY <1>4, <1>6, ConcatNever
<1>9. Never(s, "parse") /\ Never(s, "run")
  BY <1>4, <1>6, ConcatNever
<1>10. SetsLast(s, "frame", "vidmem", Vga)
  BY <1>4, <1>6, ConcatSetsLast
<1>11. QED
  BY <1>1, <1>7, <1>8, <1>9, <1>10

LEMMA WriteIInv ==
  ASSUME IInv, NEW c \in Contents, Write(c)
  PROVE  IInv' /\ NeverSwitches(todo')
<1>1. /\ Idle /\ UNCHANGED <<page, tlb, memory, scheduled_terminal, visible_terminal, jobs, called_vidmap>>
      /\ todo' = IF scheduled_terminal = visible_terminal THEN << <<"put", c, visible_terminal>> >>
                 ELSE PutBehind(scheduled_terminal, c)
  BY DEF Write, state
<1>2. scheduled_terminal \in Terminals /\ visible_terminal \in Terminals
  BY DEF IInv, TypeOK
<1>3. PICK s : s = todo'
  OBVIOUS
<1>4. /\ s \in Seq(Steps(scheduled_terminal)) /\ Flushes(s)
      /\ SetsLast(s, "frame", "vidmem", Vga) \/ SetsNever(s, "frame", "vidmem")
      /\ \A op \in {"frame", "present"} : SetsNever(s, op, "program")
      /\ SetsNever(s, "frame", "video")
      /\ NeverSwitches(s) /\ Never(s, "parse") /\ Never(s, "run")
  <2>1. CASE scheduled_terminal = visible_terminal
    <3>1. <<"put", c, visible_terminal>> \in Steps(scheduled_terminal) /\ <<"put", c, visible_terminal>>[1] = "put"
      BY <1>2, KindsOfSteps
    <3>2. "program" \in Pages /\ "video" \in Pages /\ "vidmem" \in Pages
      BY DEF Pages, UserPages
    <3>3. QED
      BY <1>1, <1>2, <1>3, <2>1, <3>1, <3>2, PlainStep
  <2>2. CASE scheduled_terminal # visible_terminal
    BY <1>1, <1>2, <1>3, <2>2, PutSteps
  <2>3. QED
    BY <2>1, <2>2
<1>5. Running' = Running
  BY <1>1 DEF Running
<1>6. TypeOK'
  BY <1>1, <1>3, <1>4 DEF IInv, TypeOK
<1>7. ProgramPromise(s, Running') /\ ScreenPromise(s, scheduled_terminal') /\ SwitchPromise(s)
  BY <1>1, <1>4, <1>5 DEF ProgramPromise, ScreenPromise, SwitchPromise
<1>8. QED
  BY <1>1, <1>3, <1>4, <1>5, <1>6, <1>7, NeverIsOnly, HandlerStart

LEMMA EchoIInv ==
  ASSUME IInv, NEW c \in Contents, Echo(c)
  PROVE  IInv' /\ NeverSwitches(todo')
<1>1. /\ Idle /\ UNCHANGED <<page, tlb, memory, scheduled_terminal, visible_terminal, jobs, called_vidmap>>
      /\ todo' = << <<"put", c, visible_terminal>> >>
  BY DEF Echo, state
<1>2. scheduled_terminal \in Terminals /\ visible_terminal \in Terminals
  BY DEF IInv, TypeOK
<1>3. PICK s : s = todo'
  OBVIOUS
<1>4. /\ s \in Seq(Steps(scheduled_terminal)) /\ Flushes(s)
      /\ \A op \in {"present", "frame"}, v \in Pages : SetsNever(s, op, v)
      /\ NeverSwitches(s) /\ Never(s, "parse") /\ Never(s, "run")
  <2>1. <<"put", c, visible_terminal>> \in Steps(scheduled_terminal) /\ <<"put", c, visible_terminal>>[1] = "put"
    BY <1>2, KindsOfSteps
  <2>2. QED
    BY <1>1, <1>2, <1>3, <2>1, PlainStep
<1>5. Running' = Running
  BY <1>1 DEF Running
<1>6. TypeOK'
  BY <1>1, <1>3, <1>4 DEF IInv, TypeOK
<1>7. ProgramPromise(s, Running') /\ ScreenPromise(s, scheduled_terminal') /\ SwitchPromise(s)
  BY <1>1, <1>4, <1>5 DEF ProgramPromise, ScreenPromise, SwitchPromise, Pages, UserPages
<1>8. QED
  BY <1>1, <1>3, <1>4, <1>5, <1>6, <1>7, NeverIsOnly, HandlerStart

LEMMA StoreStep ==
  ASSUME NEW t \in Terminals, NEW c \in Contents
  PROVE  LET s == << <<"store", c>> >>
         IN  /\ s \in Seq(Steps(t)) /\ Flushes(s) /\ NeverSwitches(s)
             /\ \A op \in {"present", "frame"}, v \in Pages : SetsNever(s, op, v)
             /\ Never(s, "parse") /\ Never(s, "run")
<1>1. <<"store", c>> \in Steps(t) /\ <<"store", c>>[1] = "store"
  BY KindsOfSteps
<1>2. QED
  BY <1>1, PlainStep

LEMMA VidmapIInv ==
  ASSUME IInv, NEW c \in Contents, Vidmap(c)
  PROVE  IInv' /\ NeverSwitches(todo')
<1> DEFINE x == set_user_video_page(scheduled_terminal)
           y == << <<"store", c>> >>
<1>1. /\ Idle /\ UNCHANGED <<page, tlb, memory, scheduled_terminal, visible_terminal, jobs>>
      /\ called_vidmap' = called_vidmap \cup {Running}
      /\ todo' = x \o y
  BY DEF Vidmap
<1>2. PICK t \in Terminals : t = scheduled_terminal
  BY DEF IInv, TypeOK
<1>3. PICK s : s = todo'
  OBVIOUS
<1>4. /\ x \in Seq(Steps(t)) /\ Flushes(x)
      /\ \E f \in {Vga, Buffer(t)} : SetsLast(x, "frame", "video", f)
      /\ \A op \in {"frame", "present"} : SetsNever(x, op, "program")
      /\ SetsNever(x, "frame", "vidmem")
      /\ NeverSwitches(x) /\ Never(x, "parse") /\ Never(x, "run")
  BY <1>2, VideoPage
<1>5. /\ y \in Seq(Steps(t)) /\ Flushes(y) /\ NeverSwitches(y)
      /\ \A op \in {"present", "frame"}, v \in Pages : SetsNever(y, op, v)
      /\ Never(y, "parse") /\ Never(y, "run")
  BY StoreStep
<1> HIDE DEF x, y
<1>6. "program" \in Pages /\ "video" \in Pages /\ "vidmem" \in Pages
  BY DEF Pages, UserPages
<1>7. s \in Seq(Steps(t)) /\ Flushes(s) /\ NeverSwitches(s)
  BY <1>1, <1>3, <1>4, <1>5, ConcatSteps, ConcatFlushes, NeverSwitchesConcat
<1>8. \E f \in {Vga, Buffer(t)} : SetsLast(s, "frame", "video", f)
  BY <1>1, <1>3, <1>4, <1>5, <1>6, ConcatSetsLast
<1>9. SetsNever(s, "frame", "vidmem") /\ \A op \in {"frame", "present"} : SetsNever(s, op, "program")
  BY <1>1, <1>3, <1>4, <1>5, <1>6, ConcatNever
<1>10. Never(s, "parse") /\ Never(s, "run")
  BY <1>1, <1>3, <1>4, <1>5, ConcatNever
<1>11. Running' = Running
  BY <1>1 DEF Running
<1>12. Running \in Pids
  <2>1. page["program"] = [present |-> TRUE, frame |-> Program(Running)] /\ \E p \in Pids : EndRunning(p)
    BY <1>1, IdleState DEF IInv, ProgramInv
  <2>2. QED
    BY <1>1, <2>1 DEF EndRunning, Idle
<1>13. TypeOK'
  BY <1>1, <1>2, <1>3, <1>7, <1>12 DEF IInv, TypeOK
<1>14. ProgramPromise(s, Running') /\ ScreenPromise(s, scheduled_terminal') /\ SwitchPromise(s)
  BY <1>1, <1>2, <1>7, <1>8, <1>9, <1>10, <1>11 DEF ProgramPromise, ScreenPromise, SwitchPromise
<1>15. QED
  BY <1>1, <1>3, <1>7, <1>10, <1>11, <1>13, <1>14, NeverIsOnly, HandlerStart

\* The smallest pid that is free is free.
LEMMA NextPidIsFree ==
  ASSUME FreePids # {}
  PROVE  NextPid \in FreePids
<1>1. FreePids \subseteq Nat
  BY PagingAssumption DEF FreePids, Pids
<1> DEFINE less == {pair \in Nat \X Nat : pair[1] < pair[2]}
<1>2. IsWellFoundedOn(less, Nat)
  BY NatLessThanWellFounded DEF OpToRel
<1>3. PICK p \in FreePids : \A q \in FreePids : ~ (<<q, p>> \in less)
  <2> HIDE DEF less
  <2> QED  BY <1>1, <1>2, WFMin
<1>4. \A q \in FreePids : ~ (q < p)
  BY <1>1, <1>3
<1> HIDE DEF less
<1>5. \A q \in FreePids : p <= q
  BY <1>1, <1>4
<1>6. QED
  BY <1>5, Zenon DEF NextPid

LEMMA JobsTyped ==
  ASSUME TypeOK, NEW t \in Terminals
  PROVE  /\ jobs[t] \in Seq(Pids) /\ jobs[t] # <<>>
         /\ Len(jobs[t]) \in Nat /\ Len(jobs[t]) >= 1
         /\ \A i \in 1 .. Len(jobs[t]) : jobs[t][i] \in Pids
         /\ Last(jobs[t]) \in Pids
<1>1. jobs[t] \in Seq(Pids) /\ jobs[t] # <<>>
  BY DEF TypeOK
<1>2. Len(jobs[t]) \in Nat /\ Len(jobs[t]) >= 1 /\ \A i \in 1 .. Len(jobs[t]) : jobs[t][i] \in Pids
  BY <1>1, EmptySeq, ElementOfSeq, LenProperties
<1>3. QED
  BY <1>1, <1>2 DEF Last

LEMMA ExecuteIInv ==
  ASSUME IInv, NEW c \in Contents, Execute(c)
  PROVE  IInv' /\ NeverSwitches(todo')
<1>1. /\ Idle /\ FreePids # {}
      /\ UNCHANGED <<page, tlb, memory, scheduled_terminal, visible_terminal, jobs, called_vidmap>>
      /\ todo' = LoadProgram(NextPid, c) \o << <<"run", NextPid>> >>
  BY DEF Execute, state
<1>2. PICK t \in Terminals : t = scheduled_terminal
  BY DEF IInv, TypeOK
<1>3. PICK s : s = todo'
  OBVIOUS
<1>4. PICK p \in Pids : p = NextPid
  BY <1>1, NextPidIsFree DEF FreePids
<1> DEFINE x == LoadProgram(p, c)
           y == << <<"run", p>> >>
<1>5. /\ x \in Seq(Steps(t)) /\ Flushes(x)
      /\ SetsLast(x, "frame", "program", Program(p))
      /\ SetsLast(x, "present", "program", TRUE)
      /\ SetsNever(x, "frame", "video") /\ SetsNever(x, "frame", "vidmem")
      /\ NeverSwitches(x) /\ OnlyFirst(x, "parse") /\ Never(x, "run")
  BY LoadSteps
<1>6. /\ y \in Seq(Steps(t)) /\ Flushes(y) /\ NeverSwitches(y)
      /\ \A op \in {"present", "frame"}, v \in Pages : SetsNever(y, op, v)
      /\ Never(y, "parse") /\ OnlyLast(y, "run")
  <2>1. <<"run", p>> \in Steps(t) /\ <<"run", p>>[1] = "run" /\ <<"run", p>>[1] # "parse"
    BY KindsOfSteps
  <2>2. QED
    BY <2>1, PlainStep
<1>7. s = x \o y
  BY <1>1, <1>3, <1>4
<1>8. s # <<>> /\ s[Len(s)] = <<"run", p>>
  <2>1. Len(y) = 1 /\ y[1] = <<"run", p>>
    OBVIOUS
  <2> HIDE DEF x, y
  <2>2. /\ Len(x) \in Nat /\ Len(x \o y) = Len(x) + Len(y)
        /\ \A i \in 1 .. Len(y) : (x \o y)[Len(x) + i] = y[i]
    BY <1>5, <1>6, ConcatSteps
  <2>3. Len(s) = Len(x) + 1 /\ s[Len(x) + 1] = y[1]
    BY <1>7, <2>1, <2>2
  <2>4. QED
    BY <2>1, <2>2, <2>3
<1> HIDE DEF x, y
<1>9. "program" \in Pages /\ "video" \in Pages /\ "vidmem" \in Pages
  BY DEF Pages, UserPages
<1>10. s \in Seq(Steps(t)) /\ Flushes(s) /\ NeverSwitches(s)
  BY <1>5, <1>6, <1>7, ConcatSteps, ConcatFlushes, NeverSwitchesConcat
<1>11. SetsLast(s, "frame", "program", Program(p)) /\ SetsLast(s, "present", "program", TRUE)
  BY <1>5, <1>6, <1>7, <1>9, ConcatSetsLast
<1>12. SetsNever(s, "frame", "video") /\ SetsNever(s, "frame", "vidmem")
  BY <1>5, <1>6, <1>7, <1>9, ConcatNever
<1>13. OnlyFirst(s, "parse") /\ OnlyLast(s, "run")
  BY <1>5, <1>6, <1>7, ConcatNever
<1>14. Running' = Running
  BY <1>1 DEF Running
<1>15. TypeOK'
  BY <1>1, <1>2, <1>3, <1>10 DEF IInv, TypeOK
<1>16. ProgramPromise(s, Running') /\ ScreenPromise(s, scheduled_terminal') /\ SwitchPromise(s)
  BY <1>1, <1>8, <1>10, <1>11, <1>12 DEF ProgramPromise, ScreenPromise, SwitchPromise
<1>17. QED
  BY <1>1, <1>3, <1>10, <1>13, <1>14, <1>15, <1>16, HandlerStart

LEMMA RunningIsPid ==
  ASSUME IInv
  PROVE  Running \in Pids
BY JobsTyped DEF IInv, TypeOK, Running

LEMMA ExecuteNotElfIInv ==
  ASSUME IInv, NEW c \in Contents, ExecuteNotElf(c)
  PROVE  IInv' /\ NeverSwitches(todo')
<1>1. /\ Idle /\ FreePids # {}
      /\ UNCHANGED <<page, tlb, memory, scheduled_terminal, visible_terminal, jobs, called_vidmap>>
      /\ todo' = LoadProgram(NextPid, c) \o set_user_prog_page(NextPid, FALSE) \o set_user_prog_page(Running, TRUE)
  BY DEF ExecuteNotElf, state
<1>2. PICK t \in Terminals : t = scheduled_terminal
  BY DEF IInv, TypeOK
<1>3. PICK s : s = todo'
  OBVIOUS
<1>4. PICK p \in Pids : p = NextPid
  BY <1>1, NextPidIsFree DEF FreePids
<1>5. PICK r \in Pids : r = Running
  BY RunningIsPid
<1> DEFINE x == LoadProgram(p, c)
           y == set_user_prog_page(p, FALSE)
           z == set_user_prog_page(r, TRUE)
           b == x \o y
<1>6. s = b \o z
  BY <1>1, <1>3, <1>4, <1>5
<1>7. /\ x \in Seq(Steps(t)) /\ Flushes(x)
      /\ SetsNever(x, "frame", "video") /\ SetsNever(x, "frame", "vidmem")
      /\ NeverSwitches(x) /\ OnlyFirst(x, "parse") /\ Never(x, "run")
  BY LoadSteps
<1>8. /\ y \in Seq(Steps(t)) /\ Flushes(y)
      /\ SetsNever(y, "frame", "video") /\ SetsNever(y, "frame", "vidmem")
      /\ NeverSwitches(y) /\ Never(y, "parse") /\ Never(y, "run")
  BY ProgPage
<1>9. /\ z \in Seq(Steps(t)) /\ Flushes(z)
      /\ SetsLast(z, "frame", "program", Program(r))
      /\ SetsLast(z, "present", "program", TRUE)
      /\ SetsNever(z, "frame", "video") /\ SetsNever(z, "frame", "vidmem")
      /\ NeverSwitches(z) /\ Never(z, "parse") /\ Never(z, "run")
  BY ProgPage
<1> HIDE DEF x, y, z
<1>10. /\ b \in Seq(Steps(t)) /\ Flushes(b) /\ NeverSwitches(b)
       /\ SetsNever(b, "frame", "video") /\ SetsNever(b, "frame", "vidmem")
       /\ OnlyFirst(b, "parse") /\ Never(b, "run")
  <2>1. b \in Seq(Steps(t)) /\ Flushes(b) /\ NeverSwitches(b)
    BY <1>7, <1>8, ConcatSteps, ConcatFlushes, NeverSwitchesConcat
  <2>2. SetsNever(b, "frame", "video") /\ SetsNever(b, "frame", "vidmem")
    BY <1>7, <1>8, ConcatNever
  <2>3. OnlyFirst(b, "parse") /\ Never(b, "run")
    BY <1>7, <1>8, ConcatNever
  <2>4. QED
    BY <2>1, <2>2, <2>3
<1> HIDE DEF b
<1>11. s \in Seq(Steps(t)) /\ Flushes(s) /\ NeverSwitches(s)
  BY <1>6, <1>9, <1>10, ConcatSteps, ConcatFlushes, NeverSwitchesConcat
<1>12. SetsLast(s, "frame", "program", Program(r)) /\ SetsLast(s, "present", "program", TRUE)
  BY <1>6, <1>9, <1>10, ConcatSetsLast
<1>13. SetsNever(s, "frame", "video") /\ SetsNever(s, "frame", "vidmem")
  BY <1>6, <1>9, <1>10, ConcatNever
<1>14. OnlyFirst(s, "parse") /\ Never(s, "run")
  BY <1>6, <1>9, <1>10, ConcatNever
<1>15. Running' = Running
  BY <1>1 DEF Running
<1>16. TypeOK'
  BY <1>1, <1>2, <1>3, <1>11 DEF IInv, TypeOK
<1>17. ProgramPromise(s, Running') /\ ScreenPromise(s, scheduled_terminal') /\ SwitchPromise(s)
  BY <1>1, <1>5, <1>11, <1>12, <1>13, <1>14, <1>15 DEF ProgramPromise, ScreenPromise, SwitchPromise
<1>18. QED
  BY <1>1, <1>3, <1>11, <1>14, <1>15, <1>16, <1>17, NeverIsOnly, HandlerStart

\* The processes of a terminal without the one that runs: its parent runs.
LEMMA FrontOfJobs ==
  ASSUME NEW S, NEW s \in Seq(S), Len(s) > 1
  PROVE  /\ Front(s) \in Seq(S) \ {<<>>}
         /\ Last(Front(s)) = s[Len(s) - 1] /\ s[Len(s) - 1] \in S
<1>1. Len(s) \in Nat /\ Len(s) >= 2
  BY LenProperties
<1>2. 1 \in Int /\ Len(s) - 1 \in 1 .. Len(s) /\ 1 \in 1 .. Len(s)
  BY <1>1
<1>3. /\ Front(s) \in Seq(S) /\ Len(Front(s)) = Len(s) - 1
      /\ Front(s)[Len(s) - 1] = s[Len(s) - 1]
  <2>1. /\ SubSeq(s, 1, Len(s) - 1) \in Seq(S)
        /\ Len(SubSeq(s, 1, Len(s) - 1)) = Len(s) - 1
        /\ SubSeq(s, 1, Len(s) - 1)[Len(s) - 1] = s[Len(s) - 1]
    BY <1>1, <1>2
  <2>2. QED
    BY <2>1 DEF Front
<1>4. Front(s) # <<>>
  BY <1>1, <1>3
<1>5. s[Len(s) - 1] \in S
  BY <1>2, ElementOfSeq
<1>6. QED
  BY <1>3, <1>4, <1>5 DEF Last

LEMMA HaltBaseShellIInv ==
  ASSUME IInv, NEW c \in Contents, HaltBaseShell(c)
  PROVE  IInv' /\ NeverSwitches(todo')
<1>1. /\ Idle
      /\ UNCHANGED <<page, tlb, memory, scheduled_terminal, visible_terminal, jobs>>
      /\ called_vidmap' = called_vidmap \ {Running}
      /\ todo' = set_user_prog_page(Running, TRUE) \o << <<"store", c>> >>
  BY DEF HaltBaseShell
<1>2. PICK t \in Terminals : t = scheduled_terminal
  BY DEF IInv, TypeOK
<1>3. PICK s : s = todo'
  OBVIOUS
<1>4. PICK r \in Pids : r = Running
  BY RunningIsPid
<1> DEFINE x == set_user_prog_page(r, TRUE)
           y == << <<"store", c>> >>
<1>5. s = x \o y
  BY <1>1, <1>3, <1>4
<1>6. /\ x \in Seq(Steps(t)) /\ Flushes(x)
      /\ SetsLast(x, "frame", "program", Program(r))
      /\ SetsLast(x, "present", "program", TRUE)
      /\ SetsNever(x, "frame", "video") /\ SetsNever(x, "frame", "vidmem")
      /\ NeverSwitches(x) /\ Never(x, "parse") /\ Never(x, "run")
  BY ProgPage
<1>7. /\ y \in Seq(Steps(t)) /\ Flushes(y) /\ NeverSwitches(y)
      /\ \A op \in {"present", "frame"}, v \in Pages : SetsNever(y, op, v)
      /\ Never(y, "parse") /\ Never(y, "run")
  BY StoreStep
<1> HIDE DEF x, y
<1>8. "program" \in Pages /\ "video" \in Pages /\ "vidmem" \in Pages
  BY DEF Pages, UserPages
<1>9. s \in Seq(Steps(t)) /\ Flushes(s) /\ NeverSwitches(s)
  BY <1>5, <1>6, <1>7, ConcatSteps, ConcatFlushes, NeverSwitchesConcat
<1>10. SetsLast(s, "frame", "program", Program(r)) /\ SetsLast(s, "present", "program", TRUE)
  BY <1>5, <1>6, <1>7, <1>8, ConcatSetsLast
<1>11. SetsNever(s, "frame", "video") /\ SetsNever(s, "frame", "vidmem")
  BY <1>5, <1>6, <1>7, <1>8, ConcatNever
<1>12. Never(s, "parse") /\ Never(s, "run")
  BY <1>5, <1>6, <1>7, ConcatNever
<1>13. Running' = Running
  BY <1>1 DEF Running
<1>14. TypeOK'
  BY <1>1, <1>2, <1>3, <1>9 DEF IInv, TypeOK
<1>15. ProgramPromise(s, Running') /\ ScreenPromise(s, scheduled_terminal') /\ SwitchPromise(s)
  BY <1>1, <1>4, <1>9, <1>10, <1>11, <1>12, <1>13 DEF ProgramPromise, ScreenPromise, SwitchPromise
<1>16. QED
  BY <1>1, <1>3, <1>9, <1>12, <1>13, <1>14, <1>15, NeverIsOnly, HandlerStart

LEMMA HaltChildIInv ==
  ASSUME IInv, HaltChild
  PROVE  IInv' /\ NeverSwitches(todo')
<1>1. PICK t \in Terminals : t = scheduled_terminal
  BY DEF IInv, TypeOK
<1>2. PICK mine : mine = jobs[t]
  OBVIOUS
<1>3. PICK s : s = todo'
  OBVIOUS
<1>4. /\ Idle /\ Len(mine) > 1
      /\ UNCHANGED <<page, tlb, memory, scheduled_terminal, visible_terminal, called_vidmap>>
      /\ jobs' = [jobs EXCEPT ![t] = Front(mine)]
      /\ s = set_user_prog_page(mine[Len(mine) - 1], TRUE)
             \o (IF mine[Len(mine) - 1] \in called_vidmap THEN set_user_video_page(t) ELSE <<>>)
  BY <1>1, <1>2, <1>3 DEF HaltChild
<1>5. mine \in Seq(Pids)
  BY <1>2, JobsTyped DEF IInv
<1>6. PICK p \in Pids : p = mine[Len(mine) - 1] /\ p = Last(Front(mine))
  BY <1>4, <1>5, FrontOfJobs
<1>7. Front(mine) \in Seq(Pids) \ {<<>>}
  BY <1>4, <1>5, FrontOfJobs
<1>8. jobs \in [Terminals -> Seq(Pids) \ {<<>>}]
  BY DEF IInv, TypeOK
<1>9. jobs' \in [Terminals -> Seq(Pids) \ {<<>>}] /\ jobs'[t] = Front(mine)
  BY <1>4, <1>7, <1>8
<1>10. Running' = p
  BY <1>1, <1>4, <1>6, <1>9 DEF Running
<1> DEFINE x == set_user_prog_page(p, TRUE)
<1>11. /\ x \in Seq(Steps(t)) /\ Flushes(x)
       /\ SetsLast(x, "frame", "program", Program(p))
       /\ SetsLast(x, "present", "program", TRUE)
       /\ SetsNever(x, "frame", "video") /\ SetsNever(x, "frame", "vidmem")
       /\ NeverSwitches(x) /\ Never(x, "parse") /\ Never(x, "run")
  BY ProgPage
<1> HIDE DEF x
<1>12. PICK y : y = IF p \in called_vidmap THEN set_user_video_page(t) ELSE <<>>
  OBVIOUS
<1>13. s = x \o y
  BY <1>4, <1>6, <1>12 DEF x
<1>14. /\ y \in Seq(Steps(t)) /\ Flushes(y)
       /\ (\E f \in {Vga, Buffer(t)} : SetsLast(y, "frame", "video", f)) \/ SetsNever(y, "frame", "video")
       /\ \A op \in {"frame", "present"} : SetsNever(y, op, "program")
       /\ SetsNever(y, "frame", "vidmem")
       /\ NeverSwitches(y) /\ Never(y, "parse") /\ Never(y, "run")
  <2>1. CASE p \in called_vidmap
    BY <1>12, <2>1, VideoPage
  <2>2. CASE p \notin called_vidmap
    <3>1. y = <<>> /\ y \in Seq(Steps(t)) /\ Len(y) = 0
      BY <1>12, <2>2
    <3>2. QED
      BY <3>1 DEF Flushes, SetsNever, NeverSwitches, Never
  <2>3. QED
    BY <2>1, <2>2
<1>15. s \in Seq(Steps(t)) /\ Flushes(s) /\ NeverSwitches(s)
  BY <1>11, <1>13, <1>14, ConcatSteps, ConcatFlushes, NeverSwitchesConcat
<1>16. SetsLast(s, "frame", "program", Program(p)) /\ SetsLast(s, "present", "program", TRUE)
  BY <1>11, <1>13, <1>14, ConcatSetsLast
<1>17. (\E f \in {Vga, Buffer(t)} : SetsLast(s, "frame", "video", f)) \/ SetsNever(s, "frame", "video")
  BY <1>11, <1>13, <1>14, ConcatSetsLast, ConcatNever
<1>18. SetsNever(s, "frame", "vidmem") /\ Never(s, "parse") /\ Never(s, "run")
  BY <1>11, <1>13, <1>14, ConcatNever
<1>19. TypeOK'
  BY <1>1, <1>3, <1>4, <1>9, <1>15 DEF IInv, TypeOK
<1>20. ProgramPromise(s, Running') /\ ScreenPromise(s, scheduled_terminal') /\ SwitchPromise(s)
  BY <1>1, <1>4, <1>10, <1>15, <1>16, <1>17, <1>18 DEF ProgramPromise, ScreenPromise, SwitchPromise
<1>21. QED
  BY <1>3, <1>4, <1>15, <1>18, <1>19, <1>20, NeverIsOnly, HandlerStart

LEMMA TickIInv ==
  ASSUME IInv, Tick
  PROVE  IInv' /\ NeverSwitches(todo')
<1>1. PICK t : t = (scheduled_terminal + 1) % MaxTerminals
  OBVIOUS
<1>2. t \in Terminals
  BY <1>1, PagingAssumption DEF IInv, TypeOK, Terminals
<1>3. PICK p \in Pids : p = Last(jobs[t])
  BY <1>2, JobsTyped DEF IInv
<1>4. PICK s : s = todo'
  OBVIOUS
<1> DEFINE x == set_user_video_page(t)
           y == set_user_prog_page(p, TRUE)
<1>5. /\ Idle
      /\ UNCHANGED <<page, tlb, memory, visible_terminal, jobs, called_vidmap>>
      /\ scheduled_terminal' = t
      /\ s = x \o y
  BY <1>1, <1>3, <1>4 DEF Tick
<1>6. /\ x \in Seq(Steps(t)) /\ Flushes(x)
      /\ \E f \in {Vga, Buffer(t)} : SetsLast(x, "frame", "video", f)
      /\ SetsNever(x, "frame", "vidmem")
      /\ NeverSwitches(x) /\ Never(x, "parse") /\ Never(x, "run")
  BY <1>2, VideoPage
<1>7. /\ y \in Seq(Steps(t)) /\ Flushes(y)
      /\ SetsLast(y, "frame", "program", Program(p))
      /\ SetsLast(y, "present", "program", TRUE)
      /\ SetsNever(y, "frame", "video") /\ SetsNever(y, "frame", "vidmem")
      /\ NeverSwitches(y) /\ Never(y, "parse") /\ Never(y, "run")
  BY <1>2, ProgPage
<1> HIDE DEF x, y
<1>8. s \in Seq(Steps(t)) /\ Flushes(s) /\ NeverSwitches(s)
  BY <1>5, <1>6, <1>7, ConcatSteps, ConcatFlushes, NeverSwitchesConcat
<1>9. SetsLast(s, "frame", "program", Program(p)) /\ SetsLast(s, "present", "program", TRUE)
  BY <1>5, <1>6, <1>7, ConcatSetsLast
<1>10. \E f \in {Vga, Buffer(t)} : SetsLast(s, "frame", "video", f)
  BY <1>5, <1>6, <1>7, ConcatSetsLast
<1>11. SetsNever(s, "frame", "vidmem") /\ Never(s, "parse") /\ Never(s, "run")
  BY <1>5, <1>6, <1>7, ConcatNever
<1>12. Running' = p
  BY <1>3, <1>5 DEF Running
<1>13. TypeOK'
  BY <1>2, <1>4, <1>5, <1>8 DEF IInv, TypeOK
<1>14. ProgramPromise(s, Running') /\ ScreenPromise(s, scheduled_terminal') /\ SwitchPromise(s)
  BY <1>5, <1>8, <1>9, <1>10, <1>11, <1>12 DEF ProgramPromise, ScreenPromise, SwitchPromise
<1>15. QED
  BY <1>4, <1>5, <1>8, <1>11, <1>13, <1>14, NeverIsOnly, HandlerStart

LEMMA ThreeThenOne ==
  ASSUME NEW w, NEW x, NEW y, NEW z
  PROVE  <<w, x, y>> \o <<z>> = <<w, x, y, z>>
<1> DEFINE S == {w, x, y, z}
           l == <<w, x, y>>
           r == <<z>>
           f == <<w, x, y, z>>
<1>1. l \in Seq(S) /\ Len(l) = 3 /\ l[1] = w /\ l[2] = x /\ l[3] = y
  OBVIOUS
<1>2. r \in Seq(S) /\ Len(r) = 1 /\ r[1] = z
  OBVIOUS
<1>3. f \in Seq(S) /\ Len(f) = 4 /\ f[1] = w /\ f[2] = x /\ f[3] = y /\ f[4] = z
  OBVIOUS
<1> HIDE DEF S, l, r, f
<1>4. /\ l \o r \in Seq(S) /\ Len(l \o r) = Len(l) + Len(r)
      /\ \A i \in 1 .. Len(l) : (l \o r)[i] = l[i]
      /\ \A i \in 1 .. Len(r) : (l \o r)[Len(l) + i] = r[i]
  <2>1. l \in Seq(S) /\ r \in Seq(S)
    BY <1>1, <1>2
  <2>2. QED
    BY ONLY <2>1, ConcatSteps
<1>5. /\ Len(l \o r) = 4
      /\ (l \o r)[1] = w /\ (l \o r)[2] = x /\ (l \o r)[3] = y /\ (l \o r)[3 + 1] = z
      /\ \A i \in 1 .. 4 : i = 1 \/ i = 2 \/ i = 3 \/ i = 4
  BY <1>1, <1>2, <1>4
<1>6. \A i \in 1 .. 4 : (l \o r)[i] = f[i]
  BY <1>3, <1>5
<1>7. l \o r = f
  BY <1>3, <1>4, <1>5, <1>6, SeqEqual
<1>8. QED
  BY <1>7 DEF l, r, f

LEMMA SwitchIInv ==
  ASSUME IInv, NEW t \in Terminals, switch_visible_terminal(t)
  PROVE  IInv' /\ todo'[1][1] = "keep"
<1>1. PICK u \in Terminals : u = visible_terminal
  BY DEF IInv, TypeOK
<1> DEFINE w == <<"keep", Buffer(u)>>
           x == <<"fetch", Buffer(t)>>
           y == <<"flush">>
           z == <<"visible", t>>
<1>2. PICK s : s = <<w, x, y, z>>
  OBVIOUS
<1>3. /\ Idle /\ t # visible_terminal
      /\ UNCHANGED <<page, tlb, memory, scheduled_terminal, visible_terminal, jobs, called_vidmap>>
      /\ todo' = s
  <2>1. /\ Idle /\ t # visible_terminal
        /\ UNCHANGED <<page, tlb, memory, scheduled_terminal, visible_terminal, jobs, called_vidmap>>
        /\ todo' = change_terminal_video_page(u, t) \o << z >>
    BY <1>1 DEF switch_visible_terminal, state
  <2>2. change_terminal_video_page(u, t) = <<w, x, y>>
    BY DEF change_terminal_video_page
  <2> HIDE DEF w, x, y, z
  <2>3. <<w, x, y>> \o <<z>> = <<w, x, y, z>>
    BY ThreeThenOne
  <2>4. QED
    BY <1>2, <2>1, <2>2, <2>3
<1>4. \A r \in Terminals : w \in Steps(r) /\ x \in Steps(r) /\ y \in Steps(r) /\ z \in Steps(r)
  BY KindsOfSteps
<1>5. /\ Len(s) = 4 /\ s[1] = w /\ s[2] = x /\ s[3] = y /\ s[4] = z
      /\ \A i \in 1 .. 4 : i = 1 \/ i = 2 \/ i = 3 \/ i = 4
      /\ s \in Seq(Steps(scheduled_terminal))
  <2>1. PICK S : S = Steps(scheduled_terminal)
    OBVIOUS
  <2>2. w \in S /\ x \in S /\ y \in S /\ z \in S
    BY <1>4, <2>1 DEF IInv, TypeOK
  <2> HIDE DEF w, x, y, z
  <2>3. <<w, x, y, z>> \in Seq(S)
    BY <2>2
  <2>4. QED
    BY <1>2, <2>1, <2>3
<1>6. \A i \in 1 .. Len(s) : s[i][1] \in {"keep", "fetch", "flush", "visible"}
  BY <1>5
<1>7. Flushes(s) /\ OnlyLast(s, "run") /\ OnlyFirst(s, "parse") /\ Never(s, "run") /\ Never(s, "parse")
  BY <1>6 DEF Flushes, OnlyLast, OnlyFirst, Never
<1>8. \A op \in {"frame", "present"}, v \in Pages : SetsNever(s, op, v)
  BY <1>6 DEF SetsNever, Sets
<1>9. Running' = Running
  BY <1>3 DEF Running
<1>10. TypeOK'
  BY <1>3, <1>5 DEF IInv, TypeOK
<1>11. ProgramPromise(s, Running') /\ ScreenPromise(s, scheduled_terminal')
  BY <1>3, <1>7, <1>8, <1>9 DEF ProgramPromise, ScreenPromise, Pages, UserPages
<1>12. SwitchPromise(s)
  BY <1>1, <1>2, <1>3 DEF SwitchPromise
<1>13. todo'[1][1] = "keep"
  BY <1>3, <1>5
<1>14. QED
  BY <1>3, <1>7, <1>9, <1>10, <1>11, <1>12, <1>13, HandlerStart

-----------------------------------------------------------------------------
(* The processor caches a translation, the process writes *)

LEMMA FillIInv ==
  ASSUME IInv, NEW v \in Pages, Fill(v)
  PROVE  IInv'
<1>1. /\ v \notin DOMAIN tlb
      /\ tlb' = [w \in DOMAIN tlb \cup {v} |-> IF w = v THEN page[v] ELSE tlb[w]]
      /\ UNCHANGED <<page, memory, todo, scheduled_terminal, visible_terminal, jobs, called_vidmap>>
  BY DEF Fill, state
<1>2. DOMAIN tlb' = DOMAIN tlb \cup {v} /\ \A w \in DOMAIN tlb' : tlb'[w] = IF w = v THEN page[v] ELSE tlb[w]
  BY <1>1
<1>3. TypeOK'
  <2>1. page[v] \in Entries
    BY DEF IInv, TypeOK
  <2>2. DOMAIN tlb' \subseteq Pages /\ \A w \in DOMAIN tlb' : tlb'[w] \in Entries
    BY <1>2, <2>1 DEF IInv, TypeOK
  <2>3. QED
    BY <1>1, <2>2 DEF IInv, TypeOK
<1>4. StaleIsFlushed'
  BY <1>1, <1>2 DEF IInv, StaleIsFlushed
<1>5. Running' = Running
  BY <1>1 DEF Running
<1>6. ProgramInv'
  BY <1>1, <1>5 DEF IInv, ProgramInv, EndRunning, EndFrame, EndPresent
<1>7. ScreenInv'
  BY <1>1 DEF IInv, ScreenInv, EndFrame
<1>8. ParseInv'
  BY <1>1, <1>5 DEF IInv, ParseInv, Step
<1>9. SwitchInv'
  BY <1>1 DEF IInv, SwitchInv, Switching
<1>10. QED
  BY <1>1, <1>3, <1>4, <1>6, <1>7, <1>8, <1>9 DEF IInv

LEMMA UserStoreIInv ==
  ASSUME IInv, NEW v \in UserPages, NEW c \in Contents, UserStore(v, c)
  PROVE  IInv'
<1>1. /\ Idle /\ memory' = [memory EXCEPT ![Translation(v).frame] = c]
      /\ UNCHANGED <<page, tlb, todo, scheduled_terminal, visible_terminal, jobs, called_vidmap>>
  BY DEF UserStore, state
<1>2. memory' \in [Frames -> Contents]
  BY <1>1 DEF IInv, TypeOK
<1>3. TypeOK'
  BY <1>1, <1>2 DEF IInv, TypeOK
<1>4. StaleIsFlushed'
  BY <1>1 DEF IInv, StaleIsFlushed
<1>5. Running' = Running
  BY <1>1 DEF Running
<1>6. ProgramInv'
  BY <1>1, <1>5 DEF IInv, ProgramInv, EndRunning, EndFrame, EndPresent
<1>7. ScreenInv'
  BY <1>1 DEF IInv, ScreenInv, EndFrame
<1>8. ParseInv'
  BY <1>1, <1>5 DEF IInv, ParseInv, Step
<1>9. SwitchInv'
  BY <1>1 DEF SwitchInv, NeverSwitches, Never, Idle
<1>10. QED
  BY <1>1, <1>3, <1>4, <1>6, <1>7, <1>8, <1>9 DEF IInv

-----------------------------------------------------------------------------
(* The steps of a handler *)

\* A page the next step goes through is not stale.
LEMMA UsedIsFresh ==
  ASSUME IInv, todo # <<>>, NEW v, Uses(todo[1], v)
  PROVE  Translation(v) = page[v] /\ (v \in DOMAIN tlb => tlb[v] = page[v])
<1>1. \A k \in 1 .. Len(todo) : 1 \in 1 .. k
  OBVIOUS
<1>2. ~FlushedFrom(todo, 1, v)
  BY <1>1 DEF FlushedFrom
<1>3. QED
  BY <1>2 DEF IInv, StaleIsFlushed, Translation

LEMMA NextSteps ==
  ASSUME IInv, todo # <<>>, todo' = Tail(todo), scheduled_terminal' = scheduled_terminal
  PROVE  /\ todo' \in Seq(Steps(scheduled_terminal'))
         /\ Flushes(todo') /\ OnlyFirst(todo', "parse") /\ OnlyLast(todo', "run")
         /\ ParseInv'
         /\ NeverSwitches(todo) => NeverSwitches(todo')
<1>1. todo \in Seq(Steps(scheduled_terminal))
  BY DEF IInv, TypeOK
<1>2. todo' \in Seq(Steps(scheduled_terminal'))
  BY <1>1, TailOfSteps
<1>3. Flushes(todo')
  BY <1>1, TailFlushes DEF IInv
<1>4. Never(todo', "parse") /\ OnlyLast(todo', "run")
  BY <1>1, TailNever DEF IInv
<1>5. ParseInv'
  <2>1. ASSUME todo' # <<>>
        PROVE  Head(todo')[1] # "parse"
    <3>1. Head(todo') = todo'[1] /\ 1 \in 1 .. Len(todo')
      BY <1>2, <2>1, TailOfSteps
    <3>2. QED
      BY <1>4, <3>1 DEF Never
  <2>2. QED
    BY <2>1 DEF ParseInv, Step
<1>6. NeverSwitches(todo) => NeverSwitches(todo')
  BY <1>1, TailNever DEF NeverSwitches
<1>7. QED
  BY <1>2, <1>3, <1>4, <1>5, <1>6, NeverIsOnly

\* The promises survive the step, whichever it is.
LEMMA NextEndFrame ==
  ASSUME IInv, todo # <<>>, todo' = Tail(todo), NEW v, NEW f, EndFrame(v, f),
         page'[v].frame = IF Sets(todo[1], "frame", v) THEN todo[1][3] ELSE page[v].frame
  PROVE  EndFrame(v, f)'
<1>1. todo \in Seq(Steps(scheduled_terminal))
  BY DEF IInv, TypeOK
<1>2. CASE SetsLast(todo, "frame", v, f)
  <2>1. \/ SetsLast(todo', "frame", v, f)
        \/ todo[1] = <<"frame", v, f>> /\ SetsNever(todo', "frame", v)
    BY <1>1, <1>2, TailSetsLast
  <2>2. todo[1] = <<"frame", v, f>> => page'[v].frame = f
    BY DEF Sets
  <2>3. QED
    BY <2>1, <2>2 DEF EndFrame
<1>3. CASE SetsNever(todo, "frame", v) /\ page[v].frame = f
  <2>1. SetsNever(todo', "frame", v) /\ ~Sets(todo[1], "frame", v)
    BY <1>1, <1>3, TailNever
  <2>2. QED
    BY <1>3, <2>1 DEF EndFrame
<1>4. QED
  BY <1>2, <1>3 DEF EndFrame

LEMMA NextEndPresent ==
  ASSUME IInv, todo # <<>>, todo' = Tail(todo), NEW v, NEW b, EndPresent(v, b),
         page'[v].present = IF Sets(todo[1], "present", v) THEN todo[1][3] ELSE page[v].present
  PROVE  EndPresent(v, b)'
<1>1. todo \in Seq(Steps(scheduled_terminal))
  BY DEF IInv, TypeOK
<1>2. CASE SetsLast(todo, "present", v, b)
  <2>1. \/ SetsLast(todo', "present", v, b)
        \/ todo[1] = <<"present", v, b>> /\ SetsNever(todo', "present", v)
    BY <1>1, <1>2, TailSetsLast
  <2>2. todo[1] = <<"present", v, b>> => page'[v].present = b
    BY DEF Sets
  <2>3. QED
    BY <2>1, <2>2 DEF EndPresent
<1>3. CASE SetsNever(todo, "present", v) /\ page[v].present = b
  <2>1. SetsNever(todo', "present", v) /\ ~Sets(todo[1], "present", v)
    BY <1>1, <1>3, TailNever
  <2>2. QED
    BY <1>3, <2>1 DEF EndPresent
<1>4. QED
  BY <1>2, <1>3 DEF EndPresent

LEMMA NextEndRunning ==
  ASSUME IInv, todo # <<>>, todo' = Tail(todo), NEW p, EndRunning(p),
         IF todo[1][1] = "run" THEN Running' = todo[1][2] ELSE Running' = Running
  PROVE  EndRunning(p)'
<1>1. todo \in Seq(Steps(scheduled_terminal)) /\ OnlyLast(todo, "run")
  BY DEF IInv, TypeOK
<1>2. PICK s : s = todo'
  OBVIOUS
<1>3. /\ Len(todo) \in Nat /\ Len(todo) >= 1 /\ Len(s) = Len(todo) - 1
      /\ \A i \in 1 .. Len(todo) - 1 : s[i] = todo[i + 1]
  BY <1>1, <1>2, TailOfSteps
<1>4. CASE todo[1][1] = "run"
  <2>1. 1 \in 1 .. Len(todo)
    BY <1>3
  <2>2. Len(todo) = 1 /\ Len(s) = 0
    BY <1>1, <1>3, <1>4, <2>1 DEF OnlyLast
  <2>3. todo[1] = <<"run", p>>
    BY <1>4, <2>1, <2>2 DEF EndRunning, Never
  <2>4. Never(s, "run") /\ Running' = p
    BY <1>4, <2>2, <2>3 DEF Never
  <2>5. QED
    BY <1>2, <2>4 DEF EndRunning
<1>5. CASE todo[1][1] # "run"
  <2>1. CASE todo[Len(todo)] = <<"run", p>>
    <3>1. Len(todo) # 1
      BY <1>5, <2>1
    <3>2. s # <<>> /\ s[Len(s)] = <<"run", p>>
      BY <1>3, <2>1, <3>1
    <3>3. QED
      BY <1>2, <3>2 DEF EndRunning
  <2>2. CASE Never(todo, "run") /\ Running = p
    <3>1. Never(s, "run")
      BY <1>1, <1>2, <2>2, TailNever
    <3>2. QED
      BY <1>2, <1>5, <2>2, <3>1 DEF EndRunning
  <2>3. QED
    BY <2>1, <2>2 DEF EndRunning
<1>6. QED
  BY <1>4, <1>5

\* The program and the screen pages while a step changes no entry.
LEMMA SamePages ==
  ASSUME IInv, todo # <<>>, todo' = Tail(todo), page' = page, UNCHANGED scheduled_terminal,
         todo[1][1] \notin {"present", "frame"},
         IF todo[1][1] = "run" THEN Running' = todo[1][2] ELSE Running' = Running
  PROVE  ProgramInv' /\ ScreenInv'
<1>1. PICK p \in Pids : EndRunning(p) /\ EndFrame("program", Program(p))
  BY DEF IInv, ProgramInv
<1>2. EndRunning(p)'
  BY <1>1, NextEndRunning
<1>3. \A v : ~Sets(todo[1], "frame", v) /\ ~Sets(todo[1], "present", v)
  BY DEF Sets
<1>4. \A v, f : EndFrame(v, f) => EndFrame(v, f)'
  BY <1>3, NextEndFrame
<1>5. EndPresent("program", TRUE)'
  BY <1>3, NextEndPresent DEF IInv, ProgramInv
<1>6. ProgramInv'
  BY <1>1, <1>2, <1>4, <1>5 DEF IInv, ProgramInv
<1>7. ScreenInv'
  BY <1>4 DEF IInv, ScreenInv
<1>8. QED
  BY <1>6, <1>7

\* A step that leaves the cache and the tables alone, and is not the flush.
LEMMA SameStale ==
  ASSUME IInv, todo # <<>>, todo' = Tail(todo), page' = page, tlb' = tlb, todo[1][1] # "flush"
  PROVE  StaleIsFlushed'
<1>1. todo \in Seq(Steps(scheduled_terminal)) /\ 1 \in 1 .. Len(todo)
  BY TailOfSteps DEF IInv, TypeOK
<1>2. \A v : FlushedFrom(todo, 1, v) => FlushedFrom(todo', 1, v)
  BY <1>1, TailFlushedFrom
<1>3. QED
  BY <1>2 DEF IInv, StaleIsFlushed

\* What a step of each kind names.
LEMMA EntrySteps ==
  ASSUME NEW t \in Terminals, NEW a \in Steps(t)
  PROVE  /\ a[1] = "present" => a[2] \in Pages /\ a[3] \in BOOLEAN
         /\ a[1] = "frame" => /\ a[2] \in Pages
                              /\ a[2] = "program" => \E p \in Pids : a[3] = Program(p)
                              /\ a[2] # "program" => a[3] \in {Vga, Buffer(t)}
<1>1. a[1] = "present" => a[2] \in Pages /\ a[3] \in BOOLEAN
  BY DEF Steps
<1>2. ASSUME a[1] = "frame"
      PROVE  \/ \E p \in Pids : a = <<"frame", "program", Program(p)>>
             \/ \E v \in {"video", "vidmem"}, f \in {Vga, Buffer(t)} : a = <<"frame", v, f>>
  BY <1>2 DEF Steps
<1>3. CASE \E p \in Pids : a = <<"frame", "program", Program(p)>>
  BY <1>1, <1>3 DEF Pages, UserPages
<1>4. CASE \E v \in {"video", "vidmem"}, f \in {Vga, Buffer(t)} : a = <<"frame", v, f>>
  BY <1>1, <1>4 DEF Pages, UserPages
<1>5. QED
  BY <1>1, <1>2, <1>3, <1>4

LEMMA MemorySteps ==
  ASSUME NEW t \in Terminals, NEW a \in Steps(t)
  PROVE  /\ a[1] \in {"put", "store"} => a[2] \in Contents
         /\ a[1] \in {"keep", "fetch"} => \E u \in Terminals : a[2] = Buffer(u)
         /\ a[1] = "visible" => a[2] \in Terminals
         /\ a[1] = "run" => a[2] \in Pids
<1>1. a[1] \in {"put", "store"} => a[2] \in Contents
  BY DEF Steps
<1>2. a[1] \in {"keep", "fetch"} => \E u \in Terminals : a[2] = Buffer(u)
  BY DEF Steps
<1>3. a[1] = "visible" => a[2] \in Terminals
  BY DEF Steps
<1>4. a[1] = "run" => a[2] \in Pids
  BY DEF Steps
<1>5. QED
  BY <1>1, <1>2, <1>3, <1>4

LEMMA FramesAre ==
  /\ Vga \in Frames
  /\ \A t \in Terminals : Buffer(t) \in Frames /\ Buffer(t) # Vga
  /\ \A p \in Pids : Program(p) \in Frames /\ Program(p) # Vga
  /\ \A p \in Pids, t \in Terminals : Program(p) # Buffer(t)
BY DEF Frames, Vga, Buffer, Program

LEMMA SetEntryIInv ==
  ASSUME IInv, SetEntry
  PROVE  IInv'
<1>1. PICK t \in Terminals : t = scheduled_terminal
  BY DEF IInv, TypeOK
<1>2. PICK a : a = todo[1]
  OBVIOUS
<1>3. todo # <<>> /\ todo' = Tail(todo) /\ todo \in Seq(Steps(t)) /\ Step = a /\ a \in Steps(t)
  <2>1. todo # <<>> /\ todo' = Tail(todo)
    BY DEF SetEntry, Doing
  <2>2. QED
    BY <1>1, <1>2, <2>1, TailOfSteps DEF IInv, TypeOK, Step
<1>4. /\ \/ a[1] = "present" /\ page' = [page EXCEPT ![a[2]].present = a[3]]
         \/ a[1] = "frame"   /\ page' = [page EXCEPT ![a[2]].frame = a[3]]
      /\ UNCHANGED <<tlb, memory, scheduled_terminal, visible_terminal, jobs, called_vidmap>>
  BY <1>3 DEF SetEntry, Doing, state
<1>5. page \in [Pages -> Entries] /\ a[2] \in Pages
  BY <1>3, <1>4, EntrySteps DEF IInv, TypeOK
<1>6. a[1] = "frame" => a[3] \in Frames
  BY <1>3, EntrySteps, FramesAre
<1>7. /\ page' \in [Pages -> Entries]
      /\ \A v \in Pages : v # a[2] => page'[v] = page[v]
  BY <1>3, <1>4, <1>5, <1>6, EntrySteps, SMTT(30) DEF Entries
<1>8. \A v \in Pages : page'[v].frame = IF Sets(a, "frame", v) THEN a[3] ELSE page[v].frame
  BY <1>4, <1>5 DEF Sets, Entries
<1>9. \A v \in Pages : page'[v].present = IF Sets(a, "present", v) THEN a[3] ELSE page[v].present
  BY <1>4, <1>5 DEF Sets, Entries
<1>10. /\ todo' \in Seq(Steps(scheduled_terminal'))
       /\ Flushes(todo') /\ OnlyFirst(todo', "parse") /\ OnlyLast(todo', "run")
       /\ ParseInv'
  BY <1>3, <1>4, NextSteps
<1>11. TypeOK'
  BY <1>4, <1>7, <1>10 DEF IInv, TypeOK
<1>12. Running' = Running
  BY <1>4 DEF Running
<1>13. "program" \in Pages /\ "video" \in Pages /\ "vidmem" \in Pages
  BY DEF Pages, UserPages
<1>14. StaleIsFlushed'
  <2>1. 1 \in 1 .. Len(todo) /\ a[1] # "flush"
    BY <1>3, <1>4, TailOfSteps
  <2>2. \A v : FlushedFrom(todo, 1, v) => FlushedFrom(todo', 1, v)
    BY <1>2, <1>3, <2>1, TailFlushedFrom
  <2>3. FlushedFrom(todo', 1, a[2])
    BY <1>2, <1>3, <1>4, TailFlushes DEF IInv
  <2>4. DOMAIN tlb \subseteq Pages
    BY DEF IInv, TypeOK
  <2>5. QED
    BY <1>4, <1>7, <2>2, <2>3, <2>4 DEF IInv, StaleIsFlushed
<1>15. \A v \in Pages : \A f : EndFrame(v, f) => EndFrame(v, f)'
  BY <1>2, <1>3, <1>8, NextEndFrame
<1>16. ProgramInv'
  <2>1. PICK p \in Pids : EndRunning(p) /\ EndFrame("program", Program(p))
    BY DEF IInv, ProgramInv
  <2>2. EndRunning(p)'
    BY <1>2, <1>3, <1>4, <1>12, <2>1, NextEndRunning
  <2>3. EndFrame("program", Program(p))'
    BY <1>13, <1>15, <2>1
  <2>4. EndPresent("program", TRUE)'
    BY <1>2, <1>3, <1>9, <1>13, NextEndPresent DEF IInv, ProgramInv
  <2>5. page'["program"].frame \in {Program(q) : q \in Pids}
    BY <1>3, <1>8, <1>13, EntrySteps DEF IInv, ProgramInv, Sets
  <2>6. QED
    BY <2>1, <2>2, <2>3, <2>4, <2>5 DEF ProgramInv
<1>17. ScreenInv'
  <2>1. page'["vidmem"].frame \in {Vga, Buffer(t)}
    BY <1>1, <1>3, <1>8, <1>13, EntrySteps DEF IInv, ScreenInv, Sets
  <2>2. QED
    BY <1>1, <1>4, <1>13, <1>15, <2>1 DEF IInv, ScreenInv
<1>18. SwitchInv'
  <2>1. NeverSwitches(todo)
    <3>1. ASSUME NEW u \in Terminals, Switching(u)
          PROVE  FALSE
      BY <1>2, <1>4, <3>1 DEF Switching
    <3>2. QED
      BY <3>1 DEF IInv, SwitchInv
  <2>2. QED
    BY <1>3, <1>4, <2>1, NextSteps DEF SwitchInv
<1>19. QED
  BY <1>10, <1>11, <1>14, <1>16, <1>17, <1>18 DEF IInv

\* The next step, and what the other steps of the handler keep.
LEMMA TheStep ==
  ASSUME IInv, NEW op, Doing(op), UNCHANGED scheduled_terminal
  PROVE  /\ todo # <<>> /\ todo' = Tail(todo) /\ Step = todo[1] /\ todo[1][1] = op
         /\ todo[1] \in Steps(scheduled_terminal)
         /\ todo' \in Seq(Steps(scheduled_terminal'))
         /\ Flushes(todo') /\ OnlyFirst(todo', "parse") /\ OnlyLast(todo', "run")
         /\ ParseInv'
         /\ NeverSwitches(todo) => NeverSwitches(todo')
<1>1. todo # <<>> /\ todo' = Tail(todo) /\ Step[1] = op
  BY DEF Doing
<1>2. Step = todo[1] /\ todo[1] \in Steps(scheduled_terminal)
  BY <1>1, TailOfSteps DEF IInv, TypeOK, Step
<1>3. QED
  BY <1>1, <1>2, NextSteps

\* A switch goes on only with the steps of one.
LEMMA SwitchSteps ==
  ASSUME IInv, todo # <<>>
  PROVE  todo[1][1] \in {"keep", "fetch", "flush", "visible"} \/ NeverSwitches(todo)
<1>1. ASSUME NEW u \in Terminals, Switching(u)
      PROVE  todo[1][1] \in {"keep", "fetch", "flush", "visible"}
  BY <1>1 DEF Switching
<1>2. QED
  BY <1>1 DEF IInv, SwitchInv

LEMMA TailOfSwitch ==
  ASSUME NEW w, NEW x, NEW y, NEW z
  PROVE  /\ Tail(<<w, x, y, z>>) = <<x, y, z>>
         /\ Tail(<<x, y, z>>) = <<y, z>>
         /\ Tail(<<y, z>>) = <<z>>
         /\ Tail(<<z>>) = <<>>
OBVIOUS

LEMMA FlushTlbIInv ==
  ASSUME IInv, FlushTlb
  PROVE  IInv'
<1>1. /\ Doing("flush") /\ tlb' = <<>>
      /\ UNCHANGED <<page, memory, scheduled_terminal, visible_terminal, jobs, called_vidmap>>
  BY DEF FlushTlb, state
<1>2. /\ todo # <<>> /\ todo' = Tail(todo) /\ todo[1][1] = "flush"
      /\ todo' \in Seq(Steps(scheduled_terminal'))
      /\ Flushes(todo') /\ OnlyFirst(todo', "parse") /\ OnlyLast(todo', "run")
      /\ ParseInv'
      /\ NeverSwitches(todo) => NeverSwitches(todo')
  BY <1>1, TheStep
<1>3. DOMAIN tlb' = {}
  BY <1>1
<1>4. TypeOK'
  BY <1>1, <1>2, <1>3 DEF IInv, TypeOK
<1>5. StaleIsFlushed'
  BY <1>3 DEF StaleIsFlushed
<1>6. Running' = Running
  BY <1>1 DEF Running
<1>7. ProgramInv' /\ ScreenInv'
  BY <1>1, <1>2, <1>6, SamePages
<1>8. SwitchInv'
  <2>1. ASSUME NEW t \in Terminals, t # visible_terminal, Switching(t)
        PROVE  SwitchInv'
    <3>1. todo = << <<"flush">>, <<"visible", t>> >>
      BY <1>2, <2>1 DEF Switching
    <3>2. todo' = << <<"visible", t>> >>
      BY <1>2, <3>1, TailOfSwitch
    <3>3. QED
      BY <1>1, <2>1, <3>2 DEF SwitchInv, Switching
  <2>2. QED
    BY <1>2, <2>1 DEF IInv, SwitchInv
<1>9. QED
  BY <1>2, <1>4, <1>5, <1>7, <1>8 DEF IInv

LEMMA AccessIInv ==
  ASSUME IInv, Access
  PROVE  IInv'
<1>1. PICK screen : screen = Translation("vidmem").frame
  OBVIOUS
<1>2. PICK prog : prog = Translation("program").frame
  OBVIOUS
<1>3. PICK t \in Terminals : t = scheduled_terminal
  BY DEF IInv, TypeOK
<1>4. /\ \/ Doing("put")   /\ memory' = [memory EXCEPT ![screen] = Step[2]]
         \/ Doing("keep")  /\ memory' = [memory EXCEPT ![Step[2]] = memory[screen]]
         \/ Doing("fetch") /\ memory' = [memory EXCEPT ![screen] = memory[Step[2]]]
         \/ Doing("store") /\ memory' = [memory EXCEPT ![prog] = Step[2]]
         \/ Doing("parse") /\ UNCHANGED memory
      /\ UNCHANGED <<page, tlb, scheduled_terminal, visible_terminal, jobs, called_vidmap>>
  BY <1>1, <1>2 DEF Access, state
<1>5. PICK op \in {"put", "keep", "fetch", "store", "parse"} : Doing(op)
  BY <1>4
<1>6. PICK a : a = todo[1]
  OBVIOUS
<1>7. /\ todo # <<>> /\ todo' = Tail(todo) /\ Step = a /\ a[1] = op /\ a \in Steps(t)
      /\ todo' \in Seq(Steps(scheduled_terminal'))
      /\ Flushes(todo') /\ OnlyFirst(todo', "parse") /\ OnlyLast(todo', "run")
      /\ ParseInv'
      /\ NeverSwitches(todo) => NeverSwitches(todo')
  BY <1>3, <1>4, <1>5, <1>6, TheStep
<1>8. \/ a[1] = "put"   /\ memory' = [memory EXCEPT ![screen] = a[2]]
      \/ a[1] = "keep"  /\ memory' = [memory EXCEPT ![a[2]] = memory[screen]]
      \/ a[1] = "fetch" /\ memory' = [memory EXCEPT ![screen] = memory[a[2]]]
      \/ a[1] = "store" /\ memory' = [memory EXCEPT ![prog] = a[2]]
      \/ a[1] = "parse" /\ memory' = memory
  BY <1>4, <1>7 DEF Doing
<1>9. "program" \in Pages /\ "vidmem" \in Pages
  BY DEF Pages, UserPages
<1>10. screen \in Frames /\ memory \in [Frames -> Contents]
  <2>1. Translation("vidmem") \in Entries
    BY <1>9 DEF IInv, TypeOK, Translation
  <2>2. QED
    BY <1>1, <2>1 DEF Entries, IInv, TypeOK
<1>11. memory' \in [Frames -> Contents]
  <2>1. a[1] \in {"keep", "fetch"} => a[2] \in Frames
    BY <1>7, MemorySteps, FramesAre
  <2>2. a[1] \in {"put", "store"} => a[2] \in Contents
    BY <1>7, MemorySteps
  <2>3. QED
    BY <1>8, <1>10, <2>1, <2>2
<1>12. TypeOK'
  BY <1>4, <1>7, <1>11 DEF IInv, TypeOK
<1>13. StaleIsFlushed'
  BY <1>4, <1>6, <1>7, SameStale
<1>14. Running' = Running
  BY <1>4 DEF Running
<1>15. ProgramInv' /\ ScreenInv'
  BY <1>4, <1>6, <1>7, <1>14, SamePages
<1>16. SwitchInv'
  <2>1. ASSUME NEW u \in Terminals, u # visible_terminal, Switching(u)
        PROVE  SwitchInv'
    <3>1. CASE todo = << <<"keep", Buffer(visible_terminal)>>, <<"fetch", Buffer(u)>>, <<"flush">>, <<"visible", u>> >>
      <4>1. todo' = << <<"fetch", Buffer(u)>>, <<"flush">>, <<"visible", u>> >>
        BY <1>7, <3>1, TailOfSwitch
      <4>2. a[1] = "keep" /\ a[2] = Buffer(visible_terminal)
        BY <1>6, <3>1
      <4>3. screen = Vga
        <5>1. Translation("vidmem") = page["vidmem"]
          BY <1>6, <1>7, <4>2, UsedIsFresh DEF Uses
        <5>2. \A i \in 1 .. Len(todo) : todo[i][1] # "frame"
          BY <3>1
        <5>3. ~SetsLast(todo, "frame", "vidmem", Vga)
          BY <5>2 DEF SetsLast
        <5>4. QED
          BY <1>1, <5>1, <5>3 DEF IInv, ScreenInv, EndFrame
      <4>4. PICK b : b = Buffer(visible_terminal)
        OBVIOUS
      <4>5. b \in Frames /\ b # Vga
        BY <4>4, FramesAre DEF IInv, TypeOK
      <4>6. memory' = [memory EXCEPT ![b] = memory[Vga]]
        BY <1>8, <4>2, <4>3, <4>4
      <4>7. memory'[b] = memory'[Vga]
        BY <1>10, <4>3, <4>5, <4>6
      <4>8. QED
        BY <1>4, <2>1, <4>1, <4>4, <4>7 DEF SwitchInv, Switching
    <3>2. CASE todo = << <<"fetch", Buffer(u)>>, <<"flush">>, <<"visible", u>> >>
      <4>1. todo' = << <<"flush">>, <<"visible", u>> >>
        BY <1>7, <3>2, TailOfSwitch
      <4>2. QED
        BY <1>4, <2>1, <4>1 DEF SwitchInv, Switching
    <3>3. QED
      BY <1>6, <1>7, <2>1, <3>1, <3>2 DEF Switching
  <2>2. QED
    BY <1>7, <2>1 DEF IInv, SwitchInv
<1>17. QED
  BY <1>7, <1>12, <1>13, <1>15, <1>16 DEF IInv

LEMMA SetGlobalsIInv ==
  ASSUME IInv, SetGlobals
  PROVE  IInv'
<1>1. PICK t \in Terminals : t = scheduled_terminal
  BY DEF IInv, TypeOK
<1>2. PICK a : a = todo[1]
  OBVIOUS
<1>3. /\ UNCHANGED <<page, tlb, memory, scheduled_terminal>>
      /\ \E op \in {"visible", "run"} : Doing(op)
  BY DEF SetGlobals
<1>4. /\ todo # <<>> /\ todo' = Tail(todo) /\ Step = a /\ a[1] \in {"visible", "run"} /\ a \in Steps(t)
      /\ todo' \in Seq(Steps(scheduled_terminal'))
      /\ Flushes(todo') /\ OnlyFirst(todo', "parse") /\ OnlyLast(todo', "run")
      /\ ParseInv'
      /\ NeverSwitches(todo) => NeverSwitches(todo')
  BY <1>1, <1>2, <1>3, TheStep
<1>5. \/ /\ a[1] = "visible"
         /\ visible_terminal' = a[2]
         /\ UNCHANGED <<jobs, called_vidmap>>
      \/ /\ a[1] = "run"
         /\ jobs' = [jobs EXCEPT ![t] = Append(jobs[t], a[2])]
         /\ called_vidmap' = called_vidmap \ {a[2]}
         /\ UNCHANGED visible_terminal
  BY <1>1, <1>4 DEF SetGlobals, Doing
<1>6. jobs \in [Terminals -> Seq(Pids) \ {<<>>}] /\ jobs[t] \in Seq(Pids)
  BY DEF IInv, TypeOK
<1>7. a[1] = "run" => a[2] \in Pids
  BY <1>4, MemorySteps
<1>8. a[1] = "visible" => a[2] \in Terminals
  BY <1>4, MemorySteps
<1>9. ASSUME a[1] = "run"
      PROVE  /\ jobs' \in [Terminals -> Seq(Pids) \ {<<>>}]
             /\ Last(jobs'[t]) = a[2]
  <2>1. PICK r : r = Append(jobs[t], a[2])
    OBVIOUS
  <2>2. r \in Seq(Pids) /\ Len(r) = Len(jobs[t]) + 1 /\ r[Len(jobs[t]) + 1] = a[2] /\ Len(jobs[t]) \in Nat
    BY <1>6, <1>7, <1>9, <2>1, AppendProperties, LenProperties
  <2>3. r # <<>> /\ Last(r) = a[2]
    BY <2>2 DEF Last
  <2>4. jobs' = [jobs EXCEPT ![t] = r]
    BY <1>5, <1>9, <2>1
  <2>5. QED
    BY <1>6, <2>2, <2>3, <2>4
<1>10. TypeOK'
  BY <1>3, <1>4, <1>5, <1>8, <1>9 DEF IInv, TypeOK
<1>11. StaleIsFlushed'
  BY <1>2, <1>3, <1>4, SameStale
<1>12. IF a[1] = "run" THEN Running' = a[2] ELSE Running' = Running
  BY <1>1, <1>3, <1>5, <1>9 DEF Running
<1>13. ProgramInv' /\ ScreenInv'
  BY <1>2, <1>3, <1>4, <1>12, SamePages
<1>14. SwitchInv'
  <2>1. ASSUME NEW u \in Terminals, Switching(u)
        PROVE  SwitchInv'
    <3>1. todo = << <<"visible", u>> >>
      BY <1>2, <1>4, <2>1 DEF Switching
    <3>2. todo' = <<>>
      BY <1>4, <3>1, TailOfSwitch
    <3>3. QED
      BY <3>2 DEF SwitchInv, NeverSwitches, Never
  <2>2. QED
    BY <1>4, <2>1 DEF IInv, SwitchInv
<1>15. QED
  BY <1>4, <1>10, <1>11, <1>13, <1>14 DEF IInv

-----------------------------------------------------------------------------
(* The theorems *)

LEMMA InitIInv ==
  ASSUME Init
  PROVE  IInv
<1>1. PICK m \in Terminals : m = MaxTerminals - 1
  BY PagingAssumption DEF Terminals
<1>2. m \in Pids /\ Terminals \subseteq Pids
  BY PagingAssumption, <1>1 DEF Terminals, Pids
<1>3. /\ page["vidmem"] = [present |-> TRUE, frame |-> Vga]
      /\ page["program"] = [present |-> TRUE, frame |-> Program(m)]
      /\ page["video"] = [present |-> FALSE, frame |-> Vga]
      /\ DOMAIN page = Pages /\ page = [v \in Pages |-> page[v]]
  BY <1>1 DEF Init, Pages, UserPages
<1>4. page \in [Pages -> Entries]
  <2>1. Vga \in Frames /\ Program(m) \in Frames
    BY <1>2, FramesAre
  <2>2. page["vidmem"] \in Entries /\ page["program"] \in Entries /\ page["video"] \in Entries
    BY <1>3, <2>1 DEF Entries
  <2>3. \A v \in Pages : page[v] \in Entries
    BY <2>2 DEF Pages, UserPages
  <2>4. QED
    BY <1>3, <2>3
<1>5. DOMAIN tlb = {}
  BY DEF Init
<1>6. memory \in [Frames -> Contents]
  BY DEF Init
<1>7. todo = <<>> /\ Len(todo) = 0 /\ todo \in Seq(Steps(scheduled_terminal))
  BY DEF Init
<1>8. jobs \in [Terminals -> Seq(Pids) \ {<<>>}] /\ Running = m
  <2>1. \A t \in Terminals : <<t>> \in Seq(Pids) /\ <<t>> # <<>> /\ Len(<<t>>) = 1 /\ <<t>>[1] = t
    BY <1>2
  <2>2. jobs = [t \in Terminals |-> <<t>>] /\ scheduled_terminal = m
    BY <1>1 DEF Init
  <2>3. jobs \in [Terminals -> Seq(Pids) \ {<<>>}]
    BY <2>1, <2>2
  <2>4. jobs[m] = <<m>>
    BY <2>2
  <2>5. QED
    BY <2>1, <2>2, <2>3, <2>4 DEF Running, Last
<1>9. TypeOK
  BY <1>1, <1>4, <1>5, <1>6, <1>7, <1>8 DEF Init, TypeOK
<1>10. StaleIsFlushed
  BY <1>5 DEF StaleIsFlushed
<1>11. Flushes(todo) /\ OnlyFirst(todo, "parse") /\ OnlyLast(todo, "run") /\ NeverSwitches(todo)
  BY <1>7 DEF Flushes, OnlyFirst, OnlyLast, NeverSwitches, Never
<1>12. \A op, v : SetsNever(todo, op, v)
  BY <1>7 DEF SetsNever
<1>13. EndRunning(m)
  BY <1>7, <1>8 DEF EndRunning, Never
<1>14. ProgramInv
  <2>1. page["program"].frame = Program(m) /\ page["program"].present = TRUE
    BY <1>3
  <2>2. EndFrame("program", Program(m)) /\ EndPresent("program", TRUE)
    BY <1>12, <2>1 DEF EndFrame, EndPresent
  <2>3. QED
    BY <1>2, <1>13, <2>1, <2>2 DEF ProgramInv
<1>15. ScreenInv
  BY <1>3, <1>12 DEF ScreenInv, EndFrame
<1>16. ParseInv /\ SwitchInv
  BY <1>7, <1>11 DEF ParseInv, SwitchInv
<1>17. QED
  BY <1>9, <1>10, <1>11, <1>14, <1>15, <1>16 DEF IInv

LEMMA StutterIInv ==
  ASSUME IInv, UNCHANGED vars
  PROVE  IInv'
<1>1. UNCHANGED <<page, tlb, memory, todo, scheduled_terminal, visible_terminal, jobs, called_vidmap>>
  BY DEF vars, state
<1>2. Running' = Running
  BY <1>1 DEF Running
<1>3. TypeOK'
  BY <1>1 DEF IInv, TypeOK
<1>4. StaleIsFlushed'
  BY <1>1 DEF IInv, StaleIsFlushed
<1>5. ProgramInv'
  BY <1>1, <1>2 DEF IInv, ProgramInv, EndRunning, EndFrame, EndPresent
<1>6. ScreenInv'
  BY <1>1 DEF IInv, ScreenInv, EndFrame
<1>7. ParseInv'
  BY <1>1, <1>2 DEF IInv, ParseInv, Step
<1>8. SwitchInv'
  BY <1>1 DEF IInv, SwitchInv, Switching
<1>9. QED
  BY <1>1, <1>3, <1>4, <1>5, <1>6, <1>7, <1>8 DEF IInv

LEMMA NextIInv ==
  ASSUME IInv, [Next]_vars
  PROVE  IInv'
<1>1. CASE \E v \in Pages : Fill(v)
  BY <1>1, FillIInv
<1>2. ASSUME NEW c \in Contents,
             \/ \E v \in UserPages : UserStore(v, c)
             \/ Write(c) \/ Echo(c)
             \/ Vidmap(c) \/ Execute(c) \/ ExecuteNotElf(c) \/ HaltBaseShell(c)
      PROVE  IInv'
  BY <1>2, UserStoreIInv, WriteIInv, EchoIInv, VidmapIInv, ExecuteIInv, ExecuteNotElfIInv, HaltBaseShellIInv
<1>3. CASE HaltChild \/ Tick
  BY <1>3, HaltChildIInv, TickIInv
<1>4. CASE \E t \in Terminals : switch_visible_terminal(t)
  BY <1>4, SwitchIInv
<1>5. CASE Kernel
  BY <1>5, SetEntryIInv, FlushTlbIInv, AccessIInv, SetGlobalsIInv DEF Kernel
<1>6. CASE UNCHANGED vars
  BY <1>6, StutterIInv
<1>7. QED
  BY <1>1, <1>2, <1>3, <1>4, <1>5, <1>6 DEF Next

LEMMA AlwaysIInv == Spec => []IInv
<1>1. Init => IInv
  BY InitIInv
<1>2. IInv /\ [Next]_vars => IInv'
  BY NextIInv
<1>3. QED
  BY <1>1, <1>2, PTL DEF Spec

\* Every variable has its type, and a handler on a terminal consists of the steps of
\* that terminal: it maps no other terminal's text.
THEOREM TypesCorrect == Spec => []TypeOK
<1>1. IInv => TypeOK
  BY DEF IInv
<1>2. QED
  BY <1>1, AlwaysIInv, PTL

\* No access goes through a stale translation, however often and whenever the
\* processor caches one: every changed entry is flushed before it is used (flush_tlb
\* and its callers).
THEOREM NothingStaleIsUsed == Spec => []NoStaleTranslation
<1>1. IInv => NoStaleTranslation
  <2>1. SUFFICES ASSUME IInv PROVE NoStaleTranslation
    OBVIOUS
  <2>2. CASE Idle
    BY <2>1, <2>2, IdleState DEF NoStaleTranslation
  <2>3. CASE ~Idle
    <3>1. todo # <<>> /\ Step = todo[1]
      BY <2>1, <2>3, TailOfSteps DEF Idle, Step, IInv, TypeOK
    <3>2. \A v \in Accessed : Uses(todo[1], v)
      BY <2>3, <3>1 DEF Accessed, Uses
    <3>3. QED
      BY <2>1, <3>1, <3>2, UsedIsFresh DEF NoStaleTranslation
  <2>4. QED
    BY <2>2, <2>3
<1>2. QED
  BY <1>1, AlwaysIInv, PTL

\* While a process runs, its addresses reach its own program page, and of the video
\* frames the screen and its own terminal's buffer, through every translation that
\* may be cached (set_user_prog_page, set_user_video_page, scheduler, execute, halt).
THEOREM ProcessesAreApart == Spec => []UserReach
<1>1. IInv => UserReach
  <2>1. SUFFICES ASSUME IInv, Idle, NEW v \in UserPages
                 PROVE  Translation(v).frame \in {Program(Running), Vga, Buffer(scheduled_terminal)}
    BY DEF UserReach
  <2>2. Translation(v) = page[v]
    BY <2>1, IdleState DEF Translation
  <2>3. v = "program" \/ v = "video"
    BY DEF UserPages
  <2>4. page[v].frame \in {Program(Running), Vga, Buffer(scheduled_terminal)}
    BY <2>1, <2>3, IdleState
  <2>5. QED
    BY <2>2, <2>4
<1>2. QED
  BY <1>1, AlwaysIInv, PTL

\* execute parses the command while the program page is still its caller's.
THEOREM CommandIsReadFirst == Spec => []CommandIsCallers
<1>1. IInv => CommandIsCallers
  <2>1. SUFFICES ASSUME IInv, todo # <<>>, Step[1] = "parse"
                 PROVE  Translation("program") = [present |-> TRUE, frame |-> Program(Running)]
    BY DEF CommandIsCallers
  <2>2. Uses(todo[1], "program")
    BY <2>1, TailOfSteps DEF Uses, Step, IInv, TypeOK
  <2>3. Translation("program") = page["program"]
    BY <2>1, <2>2, UsedIsFresh
  <2>4. QED
    BY <2>1, <2>3 DEF IInv, ParseInv
<1>2. QED
  BY <1>1, AlwaysIInv, PTL

-----------------------------------------------------------------------------
(* Paging implements AddressSpaces *)

Memories == [p \in Pids |-> memory[Program(p)]]
Screens  == [t \in Terminals |-> memory[FrameOf(t, Shown)]]

\* The terminal shown changes when the text of the other has been fetched.
ShownRule ==
  /\ NeverSwitches(todo) => Shown = visible_terminal
  /\ \A u \in Terminals : Switching(u) =>
       Shown = IF todo[1][1] \in {"keep", "fetch"} THEN visible_terminal ELSE u
  /\ Shown \in Terminals

RInv == IInv /\ ShownRule /\ Running \in Pids

LEMMA ShownIs ==
  ASSUME IInv
  PROVE  ShownRule
<1>1. DOMAIN todo = 1 .. Len(todo)
  BY DEF IInv, TypeOK
<1>2. NeverSwitches(todo) => Shown = visible_terminal
  BY <1>1 DEF NeverSwitches, Never, Shown
<1>3. ASSUME NEW u \in Terminals, Switching(u)
      PROVE  Shown = IF todo[1][1] \in {"keep", "fetch"} THEN visible_terminal ELSE u
  <2>1. CASE todo = << <<"keep", Buffer(visible_terminal)>>, <<"fetch", Buffer(u)>>, <<"flush">>, <<"visible", u>> >>
    <3>1. /\ Len(todo) = 4 /\ todo[1][1] = "keep" /\ todo[2][1] = "fetch" /\ todo[3][1] = "flush"
          /\ todo[4][1] = "visible"
          /\ \A i \in 1 .. 4 : i = 1 \/ i = 2 \/ i = 3 \/ i = 4
      BY <2>1
    <3>2. 2 \in 1 .. 4
      OBVIOUS
    <3>3. \A i \in DOMAIN todo : todo[i][1] = "visible" => ~ \A j \in 1 .. i : todo[j][1] # "fetch"
      BY <1>1, <3>1, <3>2
    <3>4. QED
      BY <3>1, <3>3 DEF Shown
  <2>2. CASE todo = << <<"fetch", Buffer(u)>>, <<"flush">>, <<"visible", u>> >>
    <3>1. /\ Len(todo) = 3 /\ todo[1][1] = "fetch"
          /\ \A i \in 1 .. 3 : 1 \in 1 .. i
      BY <2>2
    <3>2. \A i \in DOMAIN todo : ~ \A j \in 1 .. i : todo[j][1] # "fetch"
      BY <1>1, <3>1
    <3>3. QED
      BY <3>1, <3>2 DEF Shown
  <2>3. CASE todo = << <<"flush">>, <<"visible", u>> >>
    <3>1. /\ Len(todo) = 2 /\ todo[1][1] = "flush" /\ todo[2] = <<"visible", u>> /\ 2 \in 1 .. 2
          /\ \A i \in 1 .. 2 : i = 1 \/ i = 2
      BY <2>3
    <3>2. todo[2][1] = "visible" /\ \A j \in 1 .. 2 : todo[j][1] # "fetch"
      BY <3>1
    <3>3. \E i \in DOMAIN todo : todo[i][1] = "visible" /\ \A j \in 1 .. i : todo[j][1] # "fetch"
      BY <1>1, <3>1, <3>2
    <3>4. Last(todo)[2] = u
      BY <3>1 DEF Last
    <3>5. QED
      BY <3>1, <3>3, <3>4 DEF Shown
  <2>4. CASE todo = << <<"visible", u>> >>
    <3>1. /\ Len(todo) = 1 /\ todo[1] = <<"visible", u>> /\ 1 \in 1 .. 1
          /\ \A i \in 1 .. 1 : i = 1
      BY <2>4
    <3>2. todo[1][1] = "visible" /\ \A j \in 1 .. 1 : todo[j][1] # "fetch"
      BY <3>1
    <3>3. \E i \in DOMAIN todo : todo[i][1] = "visible" /\ \A j \in 1 .. i : todo[j][1] # "fetch"
      BY <1>1, <3>1, <3>2
    <3>4. Last(todo)[2] = u
      BY <3>1 DEF Last
    <3>5. QED
      BY <3>1, <3>3, <3>4 DEF Shown
  <2>5. QED
    BY <1>3, <2>1, <2>2, <2>3, <2>4 DEF Switching
<1>4. Shown \in Terminals
  BY <1>2, <1>3 DEF IInv, TypeOK, SwitchInv
<1>5. QED
  BY <1>2, <1>3, <1>4 DEF ShownRule

\* Between handlers, and when one has just started, the terminal on the screen is
\* the one shown.
LEMMA ShownAtStart ==
  ASSUME RInv, Idle, RInv', visible_terminal' = visible_terminal,
         NeverSwitches(todo') \/ todo'[1][1] = "keep"
  PROVE  Shown = visible_terminal /\ Shown' = Shown
<1>1. NeverSwitches(todo)
  BY DEF Idle, NeverSwitches, Never
<1>2. Shown = visible_terminal
  BY <1>1 DEF RInv, ShownRule
<1>3. ShownRule'
  BY DEF RInv
<1>4. NeverSwitches(todo)' \/ \E u \in Terminals : Switching(u)'
  BY DEF RInv, IInv, SwitchInv
<1>5. Shown' = visible_terminal'
  BY <1>3, <1>4 DEF ShownRule
<1>6. QED
  BY <1>2, <1>5

\* A store to a program page, and one to a page of the screen or of a terminal.
LEMMA StoreProgram ==
  ASSUME RInv, NEW p \in Pids, NEW c, memory' = [memory EXCEPT ![Program(p)] = c], Shown' = Shown
  PROVE  Memories' = [Memories EXCEPT ![p] = c] /\ Screens' = Screens
<1>1. PICK s \in Terminals : s = Shown /\ s = Shown'
  BY DEF RInv, ShownRule
<1>2. DOMAIN memory = Frames
  BY DEF RInv, IInv, TypeOK
<1>3. \A q \in Pids : memory'[Program(q)] = IF q = p THEN c ELSE memory[Program(q)]
  BY <1>2, FramesAre DEF Program
<1>4. \A t \in Terminals : memory'[FrameOf(t, s)] = memory[FrameOf(t, s)]
  BY <1>2, FramesAre DEF FrameOf
<1>5. Screens' = Screens
  BY <1>1, <1>4 DEF Screens
<1>6. Memories' = [Memories EXCEPT ![p] = c]
  BY <1>3 DEF Memories
<1>7. QED
  BY <1>5, <1>6

LEMMA StoreScreen ==
  ASSUME RInv, NEW t \in Terminals, NEW f \in {Vga, Buffer(t)}, NEW c,
         memory' = [memory EXCEPT ![f] = c], Shown' = Shown
  PROVE  /\ Memories' = Memories
         /\ Screens' = Screens \/ \E u \in {t, Shown} : Screens' = [Screens EXCEPT ![u] = c]
         /\ f = Buffer(Shown) => Screens' = Screens
<1>1. PICK s \in Terminals : s = Shown /\ s = Shown'
  BY DEF RInv, ShownRule
<1>2. DOMAIN memory = Frames /\ f \in Frames
  BY FramesAre DEF RInv, IInv, TypeOK
<1>3. \A q \in Pids : memory'[Program(q)] = memory[Program(q)]
  BY <1>2, FramesAre
<1>4. Memories' = Memories
  BY <1>3 DEF Memories
<1>5. Screens = [u \in Terminals |-> memory[FrameOf(u, s)]] /\ Screens' = [u \in Terminals |-> memory'[FrameOf(u, s)]]
  BY <1>1 DEF Screens
<1>6. \A u \in Terminals : FrameOf(u, s) \in Frames /\ (FrameOf(u, s) = Vga <=> u = s)
  BY FramesAre DEF FrameOf
<1>7. \A u \in Terminals : FrameOf(u, s) = Buffer(t) <=> u = t /\ u # s
  BY FramesAre DEF FrameOf, Buffer
<1>8. \A u \in Terminals : memory'[FrameOf(u, s)] = IF FrameOf(u, s) = f THEN c ELSE memory[FrameOf(u, s)]
  BY <1>2, <1>6
<1>9. CASE f = Vga
  <2>1. \A u \in Terminals : memory'[FrameOf(u, s)] = IF u = s THEN c ELSE memory[FrameOf(u, s)]
    BY <1>6, <1>8, <1>9
  <2>2. Screens' = [Screens EXCEPT ![s] = c]
    BY <1>5, <2>1
  <2>3. f # Buffer(Shown)
    BY <1>1, <1>9, FramesAre
  <2>4. QED
    BY <1>1, <1>4, <2>2, <2>3
<1>10. CASE f = Buffer(t) /\ t # s
  <2>1. \A u \in Terminals : memory'[FrameOf(u, s)] = IF u = t THEN c ELSE memory[FrameOf(u, s)]
    BY <1>7, <1>8, <1>10
  <2>2. Screens' = [Screens EXCEPT ![t] = c]
    BY <1>5, <2>1
  <2>3. f # Buffer(Shown)
    BY <1>1, <1>10 DEF Buffer
  <2>4. QED
    BY <1>4, <2>2, <2>3
<1>11. CASE f = Buffer(t) /\ t = s
  <2>1. \A u \in Terminals : memory'[FrameOf(u, s)] = memory[FrameOf(u, s)]
    BY <1>7, <1>8, <1>11
  <2>2. Screens' = Screens
    BY <1>5, <2>1
  <2>3. QED
    BY <1>4, <2>2
<1>12. QED
  BY <1>9, <1>10, <1>11

\* Whatever changes no memory and no console is the abstract Run: another process, on
\* another terminal, or the same.
LEMMA RunOnly ==
  ASSUME RInv', Memories' = Memories, Screens' = Screens, Shown' = Shown
  PROVE  Abstract!Next
<1>1. PICK p \in Pids : p = Running'
  BY DEF RInv
<1>2. PICK t \in Terminals : t = scheduled_terminal'
  BY DEF RInv, IInv, TypeOK
<1>3. Abstract!Run(p, t)
  BY <1>1, <1>2 DEF Abstract!Run, Memories, Screens
<1>4. QED
  BY <1>3 DEF Abstract!Next

LEMMA SameMemory ==
  ASSUME RInv', memory' = memory, Shown' = Shown
  PROVE  Abstract!Next
<1>1. Memories' = Memories /\ Screens' = Screens
  BY DEF Memories, Screens, FrameOf
<1>2. QED
  BY <1>1, RunOnly

LEMMA ProgramStored ==
  ASSUME RInv, RInv', NEW p \in Pids, NEW c \in Contents,
         memory' = [memory EXCEPT ![Program(p)] = c], Shown' = Shown,
         UNCHANGED <<scheduled_terminal, jobs>>
  PROVE  Abstract!Next
<1>1. Memories' = [Memories EXCEPT ![p] = c] /\ Screens' = Screens
  BY StoreProgram
<1>2. Running' = Running
  BY DEF Running
<1>3. CASE p = Running
  <2>1. Abstract!Store(c)
    BY <1>1, <1>2, <1>3 DEF Abstract!Store, Memories, Screens
  <2>2. QED
    BY <2>1 DEF Abstract!Next
<1>4. CASE p # Running
  <2>1. Abstract!Load(p, c)
    BY <1>1, <1>2, <1>4 DEF Abstract!Load, Memories, Screens
  <2>2. QED
    BY <2>1 DEF Abstract!Next
<1>5. QED
  BY <1>3, <1>4

LEMMA ScreenStored ==
  ASSUME RInv, RInv', NEW f \in {Vga, Buffer(scheduled_terminal)}, NEW c \in Contents,
         memory' = [memory EXCEPT ![f] = c], Shown' = Shown,
         UNCHANGED <<scheduled_terminal, jobs>>
  PROVE  Abstract!Next
<1>1. PICK t \in Terminals : t = scheduled_terminal
  BY DEF RInv, IInv, TypeOK
<1>2. /\ Memories' = Memories
      /\ Screens' = Screens \/ \E u \in {t, Shown} : Screens' = [Screens EXCEPT ![u] = c]
  BY <1>1, StoreScreen
<1>3. Running' = Running
  BY DEF Running
<1>4. CASE Screens' = Screens
  BY <1>2, <1>4, RunOnly
<1>5. CASE \E u \in {t, Shown} : Screens' = [Screens EXCEPT ![u] = c]
  <2>1. PICK u : u \in {t, Shown} /\ Screens' = [Screens EXCEPT ![u] = c]
    BY <1>5
  <2>2. Abstract!Put(c)
    BY <1>1, <1>2, <1>3, <2>1 DEF Abstract!Put, Memories, Screens
  <2>3. QED
    BY <2>2 DEF Abstract!Next
<1>6. QED
  BY <1>2, <1>4, <1>5

\* A handler starts, or the processor caches a translation: nobody's memory changes.
LEMMA HandlerRefines ==
  ASSUME RInv, RInv', NEW c \in Contents,
         \/ Write(c) \/ Echo(c) \/ Vidmap(c) \/ Execute(c) \/ ExecuteNotElf(c) \/ HaltBaseShell(c)
         \/ HaltChild \/ Tick
  PROVE  Abstract!Next
<1>1. /\ Idle /\ UNCHANGED <<page, memory, visible_terminal>>
  BY DEF Write, Echo, Vidmap, Execute, ExecuteNotElf, HaltBaseShell, HaltChild, Tick, state
<1>2. NeverSwitches(todo')
  BY WriteIInv, EchoIInv, VidmapIInv, ExecuteIInv, ExecuteNotElfIInv, HaltBaseShellIInv, HaltChildIInv,
     TickIInv DEF RInv
<1>3. Shown' = Shown
  BY <1>1, <1>2, ShownAtStart
<1>4. QED
  BY <1>1, <1>3, SameMemory

LEMMA SwitchRefines ==
  ASSUME RInv, RInv', NEW t \in Terminals, switch_visible_terminal(t)
  PROVE  Abstract!Next
<1>1. /\ Idle /\ UNCHANGED <<page, memory, visible_terminal>>
  BY DEF switch_visible_terminal, state
<1>2. todo'[1][1] = "keep"
  BY SwitchIInv DEF RInv
<1>3. Shown' = Shown
  BY <1>1, <1>2, ShownAtStart
<1>4. QED
  BY <1>1, <1>3, SameMemory

LEMMA FillRefines ==
  ASSUME RInv, RInv', NEW v \in Pages, Fill(v)
  PROVE  Abstract!Next
<1>1. memory' = memory /\ Shown' = Shown
  BY DEF Fill, state, Shown
<1>2. QED
  BY <1>1, SameMemory

\* A process writes its own memory or, through the video page, a console.
LEMMA UserStoreRefines ==
  ASSUME RInv, RInv', NEW v \in UserPages, NEW c \in Contents, UserStore(v, c)
  PROVE  Abstract!Next
<1>1. /\ Idle /\ memory' = [memory EXCEPT ![Translation(v).frame] = c]
      /\ UNCHANGED <<todo, scheduled_terminal, visible_terminal, jobs>>
  BY DEF UserStore, state
<1>2. Translation(v) = page[v]
  BY <1>1, IdleState DEF RInv, Translation
<1>3. Shown' = Shown
  BY <1>1 DEF Shown
<1>4. CASE v = "program"
  <2>1. PICK p \in Pids : p = Running
    BY DEF RInv
  <2>2. page["program"].frame = Program(p)
    <3>1. page["program"] = [present |-> TRUE, frame |-> Program(Running)]
      BY <1>1, IdleState DEF RInv
    <3>2. QED
      BY <2>1, <3>1
  <2>3. memory' = [memory EXCEPT ![Program(p)] = c]
    BY <1>1, <1>2, <1>4, <2>2
  <2>4. QED
    BY <1>1, <1>3, <2>3, ProgramStored
<1>5. CASE v = "video"
  <2>1. PICK f \in {Vga, Buffer(scheduled_terminal)} : f = page["video"].frame
    BY <1>1, IdleState DEF RInv
  <2>2. memory' = [memory EXCEPT ![f] = c]
    BY <1>1, <1>2, <1>5, <2>1
  <2>3. QED
    BY <1>1, <1>3, <2>1, <2>2, ScreenStored
<1>6. QED
  BY <1>4, <1>5 DEF UserPages

-----------------------------------------------------------------------------
(* The steps of a handler, and the abstract steps they make *)

\* What is shown changes with the fetch only.
LEMMA ShownByStep ==
  ASSUME RInv, RInv', NEW op, op # "fetch", Doing(op), UNCHANGED scheduled_terminal,
         op # "visible" => visible_terminal' = visible_terminal,
         op = "visible" => visible_terminal' = Step[2]
  PROVE  Shown' = Shown
<1>1. /\ todo # <<>> /\ todo' = Tail(todo) /\ Step = todo[1] /\ todo[1][1] = op
      /\ NeverSwitches(todo) => NeverSwitches(todo')
  BY TheStep DEF RInv
<1>2. /\ NeverSwitches(todo) => Shown = visible_terminal
      /\ NeverSwitches(todo)' => Shown' = visible_terminal'
  BY DEF RInv, ShownRule
<1>3. CASE NeverSwitches(todo)
  <2>1. op # "visible"
    <3>1. 1 \in 1 .. Len(todo)
      BY <1>1, TailOfSteps DEF RInv, IInv, TypeOK
    <3>2. QED
      BY <1>1, <1>3, <3>1 DEF NeverSwitches, Never
  <2>2. QED
    BY <1>1, <1>2, <1>3, <2>1
<1>4. ASSUME NEW u \in Terminals, Switching(u)
      PROVE  Shown' = Shown
  <2>1. Shown = IF op \in {"keep", "fetch"} THEN visible_terminal ELSE u
    BY <1>1, <1>4 DEF RInv, ShownRule
  <2>2. Switching(u)' => Shown' = IF todo'[1][1] \in {"keep", "fetch"} THEN visible_terminal' ELSE u
    BY DEF RInv, ShownRule
  <2>3. CASE op = "visible"
    <3>1. todo = << <<"visible", u>> >>
      BY <1>1, <1>4, <2>3 DEF Switching
    <3>2. todo' = <<>> /\ Step[2] = u
      BY <1>1, <3>1, TailOfSwitch
    <3>3. NeverSwitches(todo)'
      BY <3>2 DEF NeverSwitches, Never
    <3>4. QED
      BY <1>2, <2>1, <2>3, <3>2, <3>3
  <2>4. CASE op = "flush"
    <3>1. todo = << <<"flush">>, <<"visible", u>> >>
      BY <1>1, <1>4, <2>4 DEF Switching
    <3>2. todo' = << <<"visible", u>> >>
      BY <1>1, <3>1, TailOfSwitch
    <3>3. Switching(u)' /\ todo'[1][1] = "visible"
      BY <3>2 DEF Switching
    <3>4. QED
      BY <2>1, <2>2, <2>4, <3>3
  <2>5. CASE op = "keep"
    <3>1. todo = << <<"keep", Buffer(visible_terminal)>>, <<"fetch", Buffer(u)>>, <<"flush">>, <<"visible", u>> >>
      BY <1>1, <1>4, <2>5 DEF Switching
    <3>2. todo' = << <<"fetch", Buffer(u)>>, <<"flush">>, <<"visible", u>> >>
      BY <1>1, <3>1, TailOfSwitch
    <3>3. ~NeverSwitches(todo') /\ todo'[1][1] = "fetch"
      <4>1. Len(todo') = 3 /\ todo'[1][1] = "fetch" /\ 1 \in 1 .. 3
        BY <3>2
      <4>2. QED
        BY <4>1 DEF NeverSwitches, Never
    <3>4. PICK w \in Terminals : Switching(w)'
      BY <3>3 DEF RInv, IInv, SwitchInv
    <3>5. Shown' = visible_terminal'
      BY <3>3, <3>4 DEF RInv, ShownRule
    <3>6. QED
      BY <2>1, <2>5, <3>5
  <2>6. op \in {"keep", "flush", "visible"}
    BY <1>1, <1>4 DEF Switching
  <2>7. QED
    BY <2>3, <2>4, <2>5, <2>6
<1>5. QED
  BY <1>3, <1>4 DEF RInv, IInv, SwitchInv

\* The screen is mapped while a switch copies texts.
LEMMA ScreenWhileSwitching ==
  ASSUME IInv, NEW u \in Terminals, Switching(u), todo[1][1] \in {"keep", "fetch"}
  PROVE  Translation("vidmem").frame = Vga
<1>1. todo # <<>>
  BY DEF Switching
<1>2. Translation("vidmem") = page["vidmem"]
  BY <1>1, UsedIsFresh DEF Uses
<1>3. \A i \in 1 .. Len(todo) : todo[i][1] # "frame"
  BY SMTT(30) DEF Switching
<1>4. ~SetsLast(todo, "frame", "vidmem", Vga)
  BY <1>3 DEF SetsLast
<1>5. QED
  BY <1>2, <1>4 DEF IInv, ScreenInv, EndFrame

LEMMA SetEntryRefines ==
  ASSUME RInv, RInv', SetEntry
  PROVE  Abstract!Next
<1>1. /\ memory' = memory /\ UNCHANGED <<scheduled_terminal, visible_terminal>>
      /\ \E op \in {"present", "frame"} : Doing(op)
  BY DEF SetEntry, state
<1>2. Shown' = Shown
  BY <1>1, ShownByStep
<1>3. QED
  BY <1>1, <1>2, SameMemory

LEMMA FlushTlbRefines ==
  ASSUME RInv, RInv', FlushTlb
  PROVE  Abstract!Next
<1>1. /\ memory' = memory /\ UNCHANGED <<scheduled_terminal, visible_terminal>>
      /\ Doing("flush")
  BY DEF FlushTlb, state
<1>2. Shown' = Shown
  BY <1>1, ShownByStep
<1>3. QED
  BY <1>1, <1>2, SameMemory

LEMMA SetGlobalsRefines ==
  ASSUME RInv, RInv', SetGlobals
  PROVE  Abstract!Next
<1>1. memory' = memory /\ UNCHANGED scheduled_terminal
  BY DEF SetGlobals
<1>2. CASE Doing("visible") /\ visible_terminal' = Step[2]
  <2>1. Shown' = Shown
    BY <1>1, <1>2, ShownByStep
  <2>2. QED
    BY <1>1, <2>1, SameMemory
<1>3. CASE Doing("run") /\ visible_terminal' = visible_terminal
  <2>1. Shown' = Shown
    BY <1>1, <1>3, ShownByStep
  <2>2. QED
    BY <1>1, <2>1, SameMemory
<1>4. QED
  BY <1>2, <1>3 DEF SetGlobals

\* The fetch is the abstract Show: the text that leaves the screen was kept, and the
\* other terminal's is on it.
LEMMA FetchRefines ==
  ASSUME RInv, RInv', Doing("fetch"), NEW screen, screen = Translation("vidmem").frame,
         memory' = [memory EXCEPT ![screen] = memory[Step[2]]],
         UNCHANGED <<scheduled_terminal, visible_terminal, jobs>>
  PROVE  Abstract!Next
<1>1. /\ todo # <<>> /\ todo' = Tail(todo) /\ Step = todo[1] /\ todo[1][1] = "fetch"
  BY TheStep DEF RInv
<1>2. PICK u \in Terminals : u # visible_terminal /\ Switching(u)
  <2>1. 1 \in 1 .. Len(todo)
    BY <1>1, TailOfSteps DEF RInv, IInv, TypeOK
  <2>2. ~NeverSwitches(todo)
    BY <1>1, <2>1 DEF NeverSwitches, Never
  <2>3. QED
    BY <2>2 DEF RInv, IInv, SwitchInv
<1>3. PICK v \in Terminals : v = visible_terminal
  BY DEF RInv, IInv, TypeOK
<1>4. /\ todo = << <<"fetch", Buffer(u)>>, <<"flush">>, <<"visible", u>> >>
      /\ memory[Buffer(v)] = memory[Vga]
  BY <1>1, <1>2, <1>3 DEF Switching
<1>5. Step[2] = Buffer(u) /\ todo' = << <<"flush">>, <<"visible", u>> >>
  BY <1>1, <1>4, TailOfSwitch
<1>6. screen = Vga
  BY <1>1, <1>2, ScreenWhileSwitching DEF RInv
<1>7. Shown = v
  BY <1>1, <1>2, <1>3 DEF RInv, ShownRule
<1>8. Shown' = u
  <2>1. Switching(u)' /\ todo'[1][1] = "flush"
    BY <1>5 DEF Switching
  <2>2. QED
    BY <2>1 DEF RInv, ShownRule
<1>9. memory' = [memory EXCEPT ![Vga] = memory[Buffer(u)]] /\ DOMAIN memory = Frames
  BY <1>5, <1>6 DEF RInv, IInv, TypeOK
<1>10. \A p \in Pids : memory'[Program(p)] = memory[Program(p)]
  BY <1>9, FramesAre
<1>11. Memories' = Memories
  BY <1>10 DEF Memories
<1>12. \A t \in Terminals : memory'[Buffer(t)] = memory[Buffer(t)]
  BY <1>9, FramesAre
<1>13. memory'[Vga] = memory[Buffer(u)]
  BY <1>9, FramesAre
<1>14. ASSUME NEW t \in Terminals
       PROVE  memory'[FrameOf(t, u)] = memory[FrameOf(t, v)]
  <2>1. CASE t = u
    BY <1>2, <1>3, <1>13, <2>1 DEF FrameOf
  <2>2. CASE t # u /\ t = v
    BY <1>4, <1>12, <2>2 DEF FrameOf
  <2>3. CASE t # u /\ t # v
    BY <1>12, <2>3 DEF FrameOf
  <2>4. QED
    BY <2>1, <2>2, <2>3
<1>15. Screens = [t \in Terminals |-> memory[FrameOf(t, v)]] /\ Screens' = [t \in Terminals |-> memory'[FrameOf(t, u)]]
  BY <1>7, <1>8 DEF Screens
<1>16. Screens' = Screens
  BY <1>14, <1>15
<1>17. Running' = Running
  BY DEF Running
<1>18. Abstract!Show(u)
  BY <1>8, <1>11, <1>16, <1>17 DEF Abstract!Show, Memories, Screens
<1>19. QED
  BY <1>18 DEF Abstract!Next

LEMMA AccessRefines ==
  ASSUME RInv, RInv', Access
  PROVE  Abstract!Next
<1>1. PICK screen : screen = Translation("vidmem").frame
  OBVIOUS
<1>2. PICK prog : prog = Translation("program").frame
  OBVIOUS
<1>3. /\ \/ Doing("put")   /\ memory' = [memory EXCEPT ![screen] = Step[2]]
         \/ Doing("keep")  /\ memory' = [memory EXCEPT ![Step[2]] = memory[screen]]
         \/ Doing("fetch") /\ memory' = [memory EXCEPT ![screen] = memory[Step[2]]]
         \/ Doing("store") /\ memory' = [memory EXCEPT ![prog] = Step[2]]
         \/ Doing("parse") /\ UNCHANGED memory
      /\ UNCHANGED <<scheduled_terminal, visible_terminal, jobs>>
  BY <1>1, <1>2 DEF Access, state
<1>4. ASSUME NEW op, Doing(op)
      PROVE  /\ todo # <<>> /\ Step = todo[1] /\ todo[1][1] = op /\ Step \in Steps(scheduled_terminal)
             /\ op # "fetch" /\ op # "visible" => Shown' = Shown
  <2>1. /\ todo # <<>> /\ Step = todo[1] /\ todo[1][1] = op /\ todo[1] \in Steps(scheduled_terminal)
    BY <1>3, <1>4, TheStep DEF RInv
  <2>2. op # "fetch" /\ op # "visible" => Shown' = Shown
    BY <1>3, <1>4, ShownByStep
  <2>3. QED
    BY <2>1, <2>2
<1>5. PICK t \in Terminals : t = scheduled_terminal
  BY DEF RInv, IInv, TypeOK
<1>6. CASE Doing("put") /\ memory' = [memory EXCEPT ![screen] = Step[2]]
  <2>1. Translation("vidmem") = page["vidmem"]
    BY <1>4, <1>6, UsedIsFresh DEF Uses, RInv
  <2>2. screen \in {Vga, Buffer(scheduled_terminal)}
    BY <1>1, <2>1 DEF RInv, IInv, ScreenInv
  <2>3. PICK c \in Contents : c = Step[2]
    BY <1>4, <1>5, <1>6, MemorySteps
  <2>4. Shown' = Shown
    BY <1>4, <1>6
  <2>5. QED
    BY <1>3, <1>6, <2>2, <2>3, <2>4, ScreenStored
<1>7. CASE Doing("keep") /\ memory' = [memory EXCEPT ![Step[2]] = memory[screen]]
  <2>1. todo[1][1] = "keep" /\ Step = todo[1]
    BY <1>4, <1>7
  <2>2. PICK u \in Terminals : Switching(u)
    <3>1. 1 \in 1 .. Len(todo)
      BY <1>4, <1>7, TailOfSteps DEF RInv, IInv, TypeOK
    <3>2. ~NeverSwitches(todo)
      BY <2>1, <3>1 DEF NeverSwitches, Never
    <3>3. QED
      BY <3>2 DEF RInv, IInv, SwitchInv
  <2>3. Step[2] = Buffer(visible_terminal)
    BY <2>1, <2>2 DEF Switching
  <2>4. Shown = visible_terminal /\ Shown' = Shown
    BY <1>4, <1>7, <2>1, <2>2 DEF RInv, ShownRule
  <2>5. PICK v \in Terminals : v = visible_terminal
    BY DEF RInv, IInv, TypeOK
  <2>6. PICK f \in {Vga, Buffer(v)} : f = Buffer(v)
    OBVIOUS
  <2>7. PICK c : c = memory[screen]
    OBVIOUS
  <2>8. memory' = [memory EXCEPT ![f] = c] /\ f = Buffer(Shown)
    BY <1>7, <2>3, <2>4, <2>5, <2>6, <2>7
  <2>9. Memories' = Memories /\ Screens' = Screens
    BY <2>4, <2>6, <2>8, StoreScreen
  <2>10. QED
    BY <2>4, <2>9, RunOnly
<1>8. CASE Doing("fetch") /\ memory' = [memory EXCEPT ![screen] = memory[Step[2]]]
  BY <1>1, <1>3, <1>8, FetchRefines
<1>9. CASE Doing("store") /\ memory' = [memory EXCEPT ![prog] = Step[2]]
  <2>1. Translation("program") = page["program"]
    BY <1>4, <1>9, UsedIsFresh DEF Uses, RInv
  <2>2. PICK p \in Pids : prog = Program(p)
    BY <1>2, <2>1 DEF RInv, IInv, ProgramInv
  <2>3. PICK c \in Contents : c = Step[2]
    BY <1>4, <1>5, <1>9, MemorySteps
  <2>4. Shown' = Shown
    BY <1>4, <1>9
  <2>5. QED
    BY <1>3, <1>9, <2>2, <2>3, <2>4, ProgramStored
<1>10. CASE Doing("parse") /\ UNCHANGED memory
  BY <1>4, <1>10, SameMemory
<1>11. QED
  BY <1>3, <1>6, <1>7, <1>8, <1>9, <1>10

LEMMA RefinesInit ==
  ASSUME RInv
  PROVE  Abstract!Init
<1>1. Memories \in [Pids -> Contents]
  BY FramesAre DEF RInv, IInv, TypeOK, Memories
<1>2. Screens \in [Terminals -> Contents]
  BY FramesAre DEF RInv, IInv, TypeOK, Screens, FrameOf
<1>3. Shown \in Terminals /\ Running \in Pids /\ scheduled_terminal \in Terminals
  BY DEF RInv, ShownRule, IInv, TypeOK
<1>4. QED
  BY <1>1, <1>2, <1>3 DEF Abstract!Init, Memories, Screens

LEMMA NextRefines ==
  ASSUME RInv, RInv', [Next]_vars
  PROVE  [Abstract!Next]_(Abstract!vars)
<1>1. CASE \E v \in Pages : Fill(v)
  BY <1>1, FillRefines
<1>2. ASSUME NEW c \in Contents,
             \/ \E v \in UserPages : UserStore(v, c)
             \/ Write(c) \/ Echo(c)
             \/ Vidmap(c) \/ Execute(c) \/ ExecuteNotElf(c) \/ HaltBaseShell(c)
      PROVE  Abstract!Next
  BY <1>2, UserStoreRefines, HandlerRefines
<1>3. CASE HaltChild \/ Tick
  <2>1. PICK c \in Contents : TRUE
    BY PagingAssumption
  <2>2. QED
    BY <1>3, <2>1, HandlerRefines
<1>4. CASE \E t \in Terminals : switch_visible_terminal(t)
  BY <1>4, SwitchRefines
<1>5. CASE Kernel
  BY <1>5, SetEntryRefines, FlushTlbRefines, AccessRefines, SetGlobalsRefines DEF Kernel
<1>6. CASE UNCHANGED vars
  <2>1. memory' = memory /\ Shown' = Shown
    BY <1>6 DEF vars, state, Shown
  <2>2. QED
    BY <2>1, SameMemory
<1>7. QED
  BY <1>1, <1>2, <1>3, <1>4, <1>5, <1>6 DEF Next

\* With cached translations, redirected pages and screens that are copied, the kernel
\* still gives each process a memory and each terminal a console of its own: every
\* store, whatever page it goes through, is one of AddressSpaces (paging.c, scheduler,
\* execute, halt, switch_visible_terminal).
THEOREM PagingImplementsAddressSpaces == Spec => ImplementsAddressSpaces
<1>1. IInv => RInv
  BY ShownIs, RunningIsPid DEF RInv
<1>2. Init => Abstract!Init
  BY <1>1, InitIInv, RefinesInit
<1>3. RInv /\ RInv' /\ [Next]_vars => [Abstract!Next]_(Abstract!vars)
  BY NextRefines
<1>4. QED
  BY <1>1, <1>2, <1>3, AlwaysIInv, PTL DEF Spec, ImplementsAddressSpaces, Abstract!Spec
=================================================================================
