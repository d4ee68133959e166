------------------------ MODULE FilesAndProgramsProofs ------------------------
(***************************************************************************)
(* Proofs about Programs with the functions of KernelLib, for every        *)
(* directory, every command and every width of a word, and about           *)
(* FileSystem, for every image and every size of a read; and that what     *)
(* Programs loads is what FileSystem reads.                                *)
(*                                                                         *)
(* What a loop of lib.c computes is a function defined by itself.  Each    *)
(* lemma about one guesses the function, shows that it solves the          *)
(* equation, and that what CHOOSE picks can be no other one.               *)
(***************************************************************************)
EXTENDS Programs, FileSystem, SequenceTheorems, WellFoundedInduction, TLAPS

-----------------------------------------------------------------------------
(* The lowest of some numbers, and induction up to one *)

\* A set of numbers has a lowest one.
LEMMA Lowest ==
  ASSUME NEW S \in SUBSET Nat, S # {}
  PROVE  \E m \in S : \A k \in S : ~ (k < m)
<1> DEFINE less == {pair \in Nat \X Nat : pair[1] < pair[2]}
<1>1. IsWellFoundedOn(less, Nat)
  BY NatLessThanWellFounded DEF OpToRel
<1>2. PICK m \in S : \A k \in S : ~ (<<k, m>> \in less)
  <2> HIDE DEF less
  <2> QED  BY <1>1, WFMin
<1>3. QED
  BY <1>2

-----------------------------------------------------------------------------
(* Loops that look for a position *)

\* f[k] is what a loop returns that starts at k: v where it stops, at the first
\* position of stops.
Scan(f, stops, v) == [k \in Nat |-> IF k \in stops THEN v[k] ELSE f[k + 1]]

\* There is such a function, whatever stops is.
LEMMA ScanExists ==
  ASSUME NEW stops, NEW v
  PROVE  \E f : f = Scan(f, stops, v)
<1> DEFINE From(k) == {h \in Nat : h >= k /\ h \in stops}
           first(k) == CHOOSE m \in From(k) : \A j \in From(k) : ~ (j < m)
           f == [k \in Nat |-> IF From(k) = {} THEN 0 ELSE v[first(k)]]
<1>1. ASSUME NEW k \in Nat, k \in stops
      PROVE  f[k] = v[k]
  <2>1. k \in From(k) /\ \A j \in From(k) : j \in Nat /\ ~ (j < k)
    BY <1>1
  <2>2. first(k) \in From(k) /\ \A j \in From(k) : ~ (j < first(k))
    <3> HIDE DEF From
    <3> QED  BY <2>1
  <2>3. first(k) = k
    <3>1. first(k) \in Nat /\ ~ (first(k) < k) /\ ~ (k < first(k))
      <4> HIDE DEF From, first
      <4> QED  BY <2>1, <2>2
    <3> HIDE DEF first
    <3>2. QED
      BY <3>1
  <2>4. f[k] = v[first(k)]
    <3> HIDE DEF From, first
    <3> QED  BY <2>1
  <2>5. QED
    BY <2>3, <2>4
<1>2. ASSUME NEW k \in Nat, k \notin stops
      PROVE  f[k] = f[k + 1]
  <2>1. From(k) = From(k + 1)
    <3>1. \A h \in Nat : h \in stops => (h >= k <=> h >= k + 1)
      BY <1>2
    <3>2. QED
      BY <3>1
  <2>2. first(k) = first(k + 1)
    <3> HIDE DEF From
    <3> QED  BY <2>1
  <2>3. k + 1 \in Nat
    OBVIOUS
  <2> HIDE DEF From, first
  <2>4. QED
    BY <2>1, <2>2, <2>3
<1>3. f = Scan(f, stops, v)
  <2>1. f = [k \in Nat |-> f[k]]
    <3> HIDE DEF From, first
    <3> QED  OBVIOUS
  <2>2. \A k \in Nat : f[k] = IF k \in stops THEN v[k] ELSE f[k + 1]
    <3> HIDE DEF f
    <3> QED  BY <1>1, <1>2
  <2> HIDE DEF f
  <2>3. QED
    BY <2>1, <2>2, Zenon DEF Scan
<1>4. QED
  <2> HIDE DEF f
  <2> QED  BY <1>3

\* A loop that starts at k stops at the first stop.
LEMMA ScanStops ==
  ASSUME NEW f, NEW stops, NEW v, f = Scan(f, stops, v),
         NEW k \in Nat, NEW n \in Nat, k <= n, n \in stops,
         \A j \in k .. n - 1 : j \notin stops
  PROVE  f[k] = v[n]
<1>1. \A j \in Nat : f[j] = IF j \in stops THEN v[j] ELSE f[j + 1]
  BY DEF Scan
<1> DEFINE bad == {d \in Nat : d <= n - k /\ f[n - d] # v[n]}
<1>2. bad = {}
  <2>1. SUFFICES ASSUME bad # {} PROVE FALSE
    OBVIOUS
  <2>2. PICK d \in bad : \A e \in bad : ~ (e < d)
    <3>1. bad \in SUBSET Nat
      OBVIOUS
    <3> HIDE DEF bad
    <3>2. QED
      BY <2>1, <3>1, Lowest
  <2>3. d \in Nat /\ d <= n - k /\ f[n - d] # v[n]
    BY <2>2
  <2>4. d # 0
    <3>1. f[n] = v[n]
      BY <1>1
    <3>2. n - 0 = n
      OBVIOUS
    <3>3. QED
      BY <2>3, <3>1, <3>2
  <2>5. d - 1 \in Nat /\ d - 1 < d /\ d - 1 <= n - k
    BY <2>3, <2>4
  <2>6. d - 1 \notin bad
    <3> HIDE DEF bad
    <3> QED  BY <2>2, <2>5
  <2>7. f[n - (d - 1)] = v[n]
    BY <2>5, <2>6
  <2>8. /\ n - d \in Nat /\ n - d \in k .. n - 1
        /\ (n - d) + 1 = n - (d - 1)
    BY <2>3, <2>4
  <2>9. f[n - d] = f[(n - d) + 1]
    BY <1>1, <2>8
  <2>10. QED
    BY <2>3, <2>7, <2>8, <2>9
<1>3. n - k \notin bad /\ n - k \in Nat
  <2>1. n - k \in Nat
    OBVIOUS
  <2>2. QED
    BY <1>2, <2>1
<1>4. f[n - (n - k)] = v[n]
  BY <1>3
<1>5. n - (n - k) = k
  OBVIOUS
<1>6. QED
  BY <1>4, <1>5

\* The loops of strlen and execute.
LEMMA StrlenIs ==
  ASSUME NEW s, NEW n \in Nat, s[n] = 0, \A j \in 0 .. n - 1 : s[j] # 0
  PROVE  Strlen(s) = n
<1> DEFINE Eq(f)  == [k \in Nat |-> IF s[k] = 0 THEN k ELSE f[k + 1]]
           stops  == {k \in Nat : s[k] = 0}
           v      == [k \in Nat |-> k]
           len    == CHOOSE f : f = Eq(f)
<1>1. \A f : Eq(f) = Scan(f, stops, v)
  BY DEF Scan
<1>2. \E f : f = Eq(f)
  <2> HIDE DEF stops, v, Eq
  <2> QED  BY <1>1, ScanExists
<1>3. len = Scan(len, stops, v)
  <2>1. len = Eq(len)
    <3> HIDE DEF Eq
    <3> QED  BY <1>2
  <2> HIDE DEF stops, v, Eq, len
  <2>2. QED
    BY <1>1, <2>1
<1>4. Strlen(s) = len[0]
  BY DEF Strlen
<1>5. n \in stops /\ \A j \in 0 .. n - 1 : j \notin stops
  OBVIOUS
<1>6. len[0] = v[n]
  <2> HIDE DEF stops, v, len
  <2> QED  BY <1>3, <1>5, ScanStops
<1>7. QED
  BY <1>4, <1>6

-----------------------------------------------------------------------------
(* Positions in a string *)

\* execute skips spaces up to the first other character.
LEMMA AfterSpacesIs ==
  ASSUME NEW s, NEW i \in Nat, NEW n \in Nat, i <= n,
         s[n] # space, \A j \in i .. n - 1 : s[j] = space
  PROVE  AfterSpaces(s, i) = n
<1> DEFINE Eq(f)  == [k \in Nat |-> IF s[k] = space THEN f[k + 1] ELSE k]
           stops  == {k \in Nat : s[k] # space}
           v      == [k \in Nat |-> k]
           skip   == CHOOSE f : f = Eq(f)
<1>1. \A f : Eq(f) = Scan(f, stops, v)
  BY DEF Scan
<1>2. \E f : f = Eq(f)
  <2> HIDE DEF stops, v, Eq
  <2> QED  BY <1>1, ScanExists
<1>3. skip = Scan(skip, stops, v)
  <2>1. skip = Eq(skip)
    <3> HIDE DEF Eq
    <3> QED  BY <1>2
  <2> HIDE DEF stops, v, Eq, skip
  <2>2. QED
    BY <1>1, <2>1
<1>4. AfterSpaces(s, i) = skip[i]
  BY DEF AfterSpaces
<1>5. n \in stops /\ \A j \in i .. n - 1 : j \notin stops
  OBVIOUS
<1>6. skip[i] = v[n]
  <2> HIDE DEF stops, v, skip
  <2> QED  BY <1>3, <1>5, ScanStops
<1>7. QED
  BY <1>4, <1>6

\* It copies a word up to the next space or the end.
LEMMA AfterWordIs ==
  ASSUME NEW s, NEW i \in Nat, NEW n \in Nat, i <= n,
         s[n] \in {0, space}, \A j \in i .. n - 1 : s[j] \notin {0, space}
  PROVE  AfterWord(s, i) = n
<1> DEFINE Eq(f)  == [k \in Nat |-> IF s[k] \in {0, space} THEN k ELSE f[k + 1]]
           stops  == {k \in Nat : s[k] \in {0, space}}
           v      == [k \in Nat |-> k]
           skip   == CHOOSE f : f = Eq(f)
<1>1. \A f : Eq(f) = Scan(f, stops, v)
  BY DEF Scan
<1>2. \E f : f = Eq(f)
  <2> HIDE DEF stops, v, Eq
  <2> QED  BY <1>1, ScanExists
<1>3. skip = Scan(skip, stops, v)
  <2>1. skip = Eq(skip)
    <3> HIDE DEF Eq
    <3> QED  BY <1>2
  <2> HIDE DEF stops, v, Eq, skip
  <2>2. QED
    BY <1>1, <2>1
<1>4. AfterWord(s, i) = skip[i]
  BY DEF AfterWord
<1>5. n \in stops /\ \A j \in i .. n - 1 : j \notin stops
  OBVIOUS
<1>6. skip[i] = v[n]
  <2> HIDE DEF stops, v, skip
  <2> QED  BY <1>3, <1>5, ScanStops
<1>7. QED
  BY <1>4, <1>6

\* strncmp compares up to the first difference, the end, or n characters.
LEMMA StrncmpIs ==
  ASSUME NEW s1, NEW s2, NEW n \in Nat, NEW k \in 0 .. n,
         k = n \/ s1[k] # s2[k] \/ s1[k] = 0,
         \A j \in 0 .. k - 1 : s1[j] = s2[j] /\ s1[j] # 0
  PROVE  Strncmp(s1, s2, n) = IF k = n THEN 0 ELSE s1[k] - s2[k]
<1> DEFINE Eq(f)  == [i \in Nat |-> IF i = n THEN 0
                                    ELSE IF s1[i] # s2[i] \/ s1[i] = 0 THEN s1[i] - s2[i]
                                    ELSE f[i + 1]]
           stops  == {i \in Nat : i = n \/ s1[i] # s2[i] \/ s1[i] = 0}
           v      == [i \in Nat |-> IF i = n THEN 0 ELSE s1[i] - s2[i]]
           cmp    == CHOOSE f : f = Eq(f)
<1>1. \A f : Eq(f) = Scan(f, stops, v)
  BY DEF Scan
<1>2. \E f : f = Eq(f)
  <2> HIDE DEF stops, v, Eq
  <2> QED  BY <1>1, ScanExists
<1>3. cmp = Scan(cmp, stops, v)
  <2>1. cmp = Eq(cmp)
    <3> HIDE DEF Eq
    <3> QED  BY <1>2
  <2> HIDE DEF stops, v, Eq, cmp
  <2>2. QED
    BY <1>1, <2>1
<1>4. Strncmp(s1, s2, n) = cmp[0]
  BY DEF Strncmp
<1>5. k \in stops /\ \A j \in 0 .. k - 1 : j \notin stops
  OBVIOUS
<1>6. cmp[0] = v[k]
  <2> HIDE DEF stops, v, cmp
  <2> QED  BY <1>3, <1>5, ScanStops
<1>7. QED
  BY <1>4, <1>6

\* strncpy copies up to the end of the source or n characters, and fills up.
LEMMA StrncpyIs ==
  ASSUME NEW dest, NEW src, NEW n \in Nat, NEW k \in 0 .. n,
         k = n \/ src[k] = 0, \A j \in 0 .. k - 1 : src[j] # 0
  PROVE  Strncpy(dest, src, n) =
           [i \in DOMAIN dest |-> IF i < k THEN src[i] ELSE IF i < n THEN 0 ELSE dest[i]]
<1> DEFINE Eq(f)  == [i \in Nat |-> IF src[i] # 0 /\ i < n THEN f[i + 1] ELSE i]
           stops  == {i \in Nat : ~ (src[i] # 0 /\ i < n)}
           v      == [i \in Nat |-> i]
           stop   == CHOOSE f : f = Eq(f)
<1>1. \A f : Eq(f) = Scan(f, stops, v)
  BY DEF Scan
<1>2. \E f : f = Eq(f)
  <2> HIDE DEF stops, v, Eq
  <2> QED  BY <1>1, ScanExists
<1>3. stop = Scan(stop, stops, v)
  <2>1. stop = Eq(stop)
    <3> HIDE DEF Eq
    <3> QED  BY <1>2
  <2> HIDE DEF stops, v, Eq, stop
  <2>2. QED
    BY <1>1, <2>1
<1>4. Strncpy(dest, src, n) =
        [i \in DOMAIN dest |-> IF i < stop[0] THEN src[i] ELSE IF i < n THEN 0 ELSE dest[i]]
  BY DEF Strncpy
<1>5. k \in stops /\ \A j \in 0 .. k - 1 : j \notin stops
  OBVIOUS
<1>6. stop[0] = v[k]
  <2> HIDE DEF stops, v, stop
  <2> QED  BY <1>3, <1>5, ScanStops
<1>7. stop[0] = k
  BY <1>6
<1>8. QED
  <2> HIDE DEF stop
  <2> QED  BY <1>4, <1>7

-----------------------------------------------------------------------------
(* Filling and moving memory *)

\* memset and memcpy take a block apart into bytes, dwords and bytes.
LEMMA BlockParts ==
  ASSUME NEW dest \in Nat, NEW n \in Nat,
         NEW head, head = Unaligned(dest, n),
         NEW dwords, dwords = (n - head) \div 4,
         NEW tail, tail = (n - head) % 4
  PROVE  head \in Nat /\ dwords \in Nat /\ tail \in Nat /\ head + 4 * dwords + tail = n
<1>1. (4 - (dest % 4)) % 4 \in Nat
  OBVIOUS
<1>2. head \in Nat /\ head <= n
  BY <1>1 DEF Unaligned
<1>3. PICK m \in Nat : m = n - head
  BY <1>2
<1>4. dwords \in Nat /\ tail \in Nat /\ m = 4 * dwords + tail
  BY <1>3
<1>5. QED
  BY <1>2, <1>3, <1>4

LEMMA FillTwice ==
  ASSUME NEW mem, NEW from \in Nat, NEW n \in Nat, NEW m \in Nat, NEW byte
  PROVE  Fill(Fill(mem, from, n, byte), from + n, m, byte) = Fill(mem, from, n + m, byte)
<1> DEFINE once == Fill(mem, from, n, byte)
<1>1. DOMAIN once = DOMAIN mem
  BY DEF Fill
<1>2. \A a \in DOMAIN mem : once[a] = IF a \in from .. from + n - 1 THEN byte ELSE mem[a]
  BY DEF Fill
<1>3. \A a : a \in from .. from + (n + m) - 1 <=>
               (a \in from .. from + n - 1 \/ a \in from + n .. from + n + m - 1)
  OBVIOUS
<1>4. \A a \in DOMAIN mem :
        (IF a \in from + n .. from + n + m - 1 THEN byte ELSE once[a])
          = (IF a \in from .. from + (n + m) - 1 THEN byte ELSE mem[a])
  <2> HIDE DEF once
  <2> QED  BY <1>2, <1>3
<1>5. Fill(once, from + n, m, byte) = Fill(mem, from, n + m, byte)
  <2> HIDE DEF once
  <2> QED  BY <1>1, <1>4 DEF Fill
<1>6. QED
  BY <1>5

\* memset fills the block, whatever its alignment.
LEMMA MemsetIs ==
  ASSUME NEW mem, NEW s \in Nat, NEW c, NEW n \in Nat
  PROVE  Memset(mem, s, c, n) = Fill(mem, s, n, c % 256)
<1>1. PICK head, dwords, tail :
        /\ head = Unaligned(s, n) /\ dwords = (n - head) \div 4 /\ tail = (n - head) % 4
  OBVIOUS
<1>2. head \in Nat /\ dwords \in Nat /\ tail \in Nat /\ head + 4 * dwords + tail = n
  BY <1>1, BlockParts
<1>3. PICK byte : byte = c % 256
  OBVIOUS
<1>4. Memset(mem, s, c, n) =
        Fill(Fill(Fill(mem, s, head, byte), s + head, 4 * dwords, byte), s + head + 4 * dwords, tail, byte)
  BY <1>1, <1>3 DEF Memset
<1>5. PICK m \in Nat : m = 4 * dwords
  BY <1>2
<1>6. PICK done \in Nat : done = head + m
  BY <1>2
<1>7. Fill(Fill(mem, s, head, byte), s + head, m, byte) = Fill(mem, s, done, byte)
  BY <1>2, <1>6, FillTwice
<1>8. Fill(Fill(mem, s, done, byte), s + done, tail, byte) = Fill(mem, s, done + tail, byte)
  BY <1>2, FillTwice
<1>9. done + tail = n /\ s + head + 4 * dwords = s + done
  BY <1>2, <1>5, <1>6
<1>10. QED
  BY <1>3, <1>4, <1>5, <1>7, <1>8, <1>9

\* A block of memory that moves upwards copy: it is not written over before it is read.
Copyable(mem, dest, src, n) ==
  /\ mem = [a \in DOMAIN mem |-> mem[a]]
  /\ dest <= src \/ src + n <= dest
  /\ src .. src + n - 1 \subseteq DOMAIN mem

\* One part of the block copied after the other.
LEMMA CopyableParts ==
  ASSUME NEW mem, NEW dest \in Nat, NEW src \in Nat, NEW n \in Nat, NEW m \in Nat,
         NEW whole, whole = n + m, Copyable(mem, dest, src, whole)
  PROVE  /\ Copyable(mem, dest, src, n)
         /\ Copyable(Move(mem, dest, src, n), dest + n, src + n, m)
<1> DEFINE once == Move(mem, dest, src, n)
<1>1. /\ mem = [a \in DOMAIN mem |-> mem[a]]
      /\ dest <= src \/ src + (n + m) <= dest
      /\ src .. src + (n + m) - 1 \subseteq DOMAIN mem
  BY DEF Copyable
<1>2. DOMAIN once = DOMAIN mem /\ once = [a \in DOMAIN once |-> once[a]]
  BY DEF Move
<1>3. Copyable(mem, dest, src, n)
  <2>1. dest <= src \/ src + n <= dest
    BY <1>1
  <2>2. src .. src + n - 1 \subseteq DOMAIN mem
    <3>1. src .. src + n - 1 \subseteq src .. src + (n + m) - 1
      OBVIOUS
    <3>2. QED
      BY <1>1, <3>1
  <2>3. QED
    BY <1>1, <2>1, <2>2, Zenon DEF Copyable
<1>4. Copyable(once, dest + n, src + n, m)
  <2>1. dest + n <= src + n \/ src + n + m <= dest + n
    BY <1>1
  <2>2. src + n .. src + n + m - 1 \subseteq DOMAIN once
    <3>1. src + n .. src + n + m - 1 \subseteq src .. src + (n + m) - 1
      OBVIOUS
    <3>2. QED
      BY <1>1, <1>2, <3>1
  <2> HIDE DEF once
  <2>3. QED
    BY <1>2, <2>1, <2>2, Zenon DEF Copyable
<1>5. QED
  BY <1>3, <1>4

LEMMA MoveTwice ==
  ASSUME NEW mem, NEW dest \in Nat, NEW src \in Nat, NEW n \in Nat, NEW m \in Nat,
         NEW whole, whole = n + m, Copyable(mem, dest, src, whole),
         NEW to, to = dest + n, NEW from, from = src + n
  PROVE  Move(Move(mem, dest, src, n), to, from, m) = Move(mem, dest, src, whole)
<1> DEFINE once == Move(mem, dest, src, n)
<1>0. /\ dest <= src \/ src + n + m <= dest
      /\ src .. src + n + m - 1 \subseteq DOMAIN mem
  BY DEF Copyable
<1>1. DOMAIN once = DOMAIN mem
  BY DEF Move
<1>2. \A a \in DOMAIN mem :
        once[a] = IF a \in dest .. dest + n - 1 THEN mem[src + a - dest] ELSE mem[a]
  BY DEF Move
<1>3. \A a : a \in dest .. dest + (n + m) - 1 <=>
               (a \in dest .. dest + n - 1 \/ a \in dest + n .. dest + n + m - 1)
  OBVIOUS
<1>4. ASSUME NEW a \in dest + n .. dest + n + m - 1
      PROVE  once[src + n + a - (dest + n)] = mem[src + a - dest]
  <2>1. /\ src + n + a - (dest + n) = src + a - dest
        /\ src + a - dest \in src .. src + n + m - 1
        /\ src + a - dest \notin dest .. dest + n - 1
    BY <1>0
  <2> HIDE DEF once
  <2>2. QED
    BY <1>0, <1>2, <2>1
<1>5. \A a \in dest .. dest + n - 1 : a \notin dest + n .. dest + n + m - 1
  OBVIOUS
<1>6. \A a \in DOMAIN mem :
        (IF a \in dest + n .. dest + n + m - 1 THEN once[src + n + a - (dest + n)] ELSE once[a])
          = (IF a \in dest .. dest + (n + m) - 1 THEN mem[src + a - dest] ELSE mem[a])
  <2> HIDE DEF once
  <2> QED  BY <1>2, <1>3, <1>4, <1>5
<1>7. Move(once, dest + n, src + n, m) = Move(mem, dest, src, n + m)
  <2> HIDE DEF once
  <2> QED  BY <1>1, <1>6 DEF Move
<1>8. QED
  BY <1>7

LEMMA MoveNone ==
  ASSUME NEW mem, NEW dest \in Nat, NEW src \in Nat, mem = [a \in DOMAIN mem |-> mem[a]]
  PROVE  Move(mem, dest, src, 0) = mem
  BY DEF Move

-----------------------------------------------------------------------------
(* Copying, as many moves *)

\* Induction up to a number, for sets.
LEMMA UpTo ==
  ASSUME NEW n \in Nat, NEW S, 0 \in S, \A i \in 1 .. n : i - 1 \in S => i \in S
  PROVE  0 .. n \subseteq S
<1> DEFINE bad == {i \in 0 .. n : i \notin S}
<1>1. SUFFICES ASSUME bad # {} PROVE FALSE
  OBVIOUS
<1>2. PICK i \in bad : \A j \in bad : ~ (j < i)
  <2>1. bad \in SUBSET Nat
    OBVIOUS
  <2> HIDE DEF bad
  <2>2. QED
    BY <1>1, <2>1, Lowest
<1>3. i \in 0 .. n /\ i \notin S /\ i # 0
  OBVIOUS
<1>4. i \in 1 .. n /\ i - 1 \in 0 .. n /\ i - 1 < i
  BY <1>3
<1>5. i - 1 \notin bad
  <2> HIDE DEF bad
  <2> QED  BY <1>2, <1>4
<1>6. QED
  BY <1>3, <1>4, <1>5

\* Moves upwards copy the block.
LEMMA UpwardsIs ==
  ASSUME NEW mem, NEW dest \in Nat, NEW src \in Nat, NEW width \in Nat, NEW n \in Nat,
         NEW whole \in Nat, whole = width * n, Copyable(mem, dest, src, whole)
  PROVE  Upwards(mem, dest, src, width, n) = Move(mem, dest, src, whole)
<1> DEFINE Eq(f) == [i \in 0 .. n |->
                       IF i = 0 THEN mem
                       ELSE Move(f[i - 1], dest + width * (i - 1), src + width * (i - 1), width)]
           copied == [i \in 0 .. n |-> Move(mem, dest, src, width * i)]
           moved  == CHOOSE f : f = Eq(f)
<1>1. ASSUME NEW i \in 0 .. n, i # 0
      PROVE  Move(copied[i - 1], dest + width * (i - 1), src + width * (i - 1), width) = copied[i]
  <2>1. i - 1 \in 0 .. n /\ i - 1 \in Nat
    BY <1>1
  <2>2. PICK done \in Nat : done = width * (i - 1)
    BY <2>1
  <2>3. width * i = done + width
    BY <2>2
  <2>4. width * i <= width * n
    BY <1>1
  <2>5. PICK rest \in Nat : whole = (done + width) + rest
    BY <2>3, <2>4
  <2>6. PICK part \in Nat : part = done + width
    OBVIOUS
  <2>7. Copyable(mem, dest, src, part)
    <3>1. Copyable(mem, dest, src, part + rest)
      BY <2>5, <2>6
    <3>2. QED
      BY ONLY <3>1, CopyableParts, dest \in Nat, src \in Nat, part \in Nat, rest \in Nat
  <2>8. Copyable(mem, dest, src, done + width)
    BY <2>6, <2>7
  <2>9. Move(Move(mem, dest, src, done), dest + done, src + done, width) = Move(mem, dest, src, done + width)
    BY ONLY <2>8, MoveTwice, dest \in Nat, src \in Nat, done \in Nat, width \in Nat
  <2>10. copied[i - 1] = Move(mem, dest, src, done) /\ copied[i] = Move(mem, dest, src, done + width)
    BY <2>1, <2>2, <2>3
  <2>11. QED
    <3> HIDE DEF copied
    <3> QED  BY <2>2, <2>9, <2>10
<1>2. copied[0] = mem
  <2>1. width * 0 = 0
    OBVIOUS
  <2>2. copied[0] = Move(mem, dest, src, width * 0)
    OBVIOUS
  <2>3. mem = [a \in DOMAIN mem |-> mem[a]]
    BY DEF Copyable
  <2>4. QED
    BY <2>1, <2>2, <2>3, MoveNone
<1>3. copied = Eq(copied)
  <2>1. \A i \in 0 .. n : copied[i] = Eq(copied)[i]
    <3> HIDE DEF copied
    <3> QED  BY <1>1, <1>2
  <2>2. copied = [i \in 0 .. n |-> copied[i]] /\ Eq(copied) = [i \in 0 .. n |-> Eq(copied)[i]]
    OBVIOUS
  <2> HIDE DEF copied, Eq
  <2>3. QED
    BY <2>1, <2>2, Zenon
<1>4. moved = Eq(moved)
  <2> HIDE DEF copied, Eq
  <2> QED  BY <1>3
<1>5. \A i \in 0 .. n : moved[i] = IF i = 0 THEN mem
        ELSE Move(moved[i - 1], dest + width * (i - 1), src + width * (i - 1), width)
  <2> HIDE DEF moved
  <2> QED  BY <1>4
<1> DEFINE same == {i \in 0 .. n : moved[i] = copied[i]}
<1>6. 0 .. n \subseteq same
  <2>1. 0 \in same
    <3> HIDE DEF moved, copied
    <3> QED  BY <1>2, <1>5
  <2>2. ASSUME NEW i \in 1 .. n, i - 1 \in same
        PROVE  i \in same
    <3>1. moved[i - 1] = copied[i - 1] /\ i \in 0 .. n /\ i # 0
      BY <2>2
    <3> HIDE DEF moved, copied
    <3>2. moved[i] = copied[i]
      BY <1>1, <1>5, <3>1
    <3>3. QED
      BY <3>1, <3>2
  <2> HIDE DEF same
  <2>3. QED
    BY <2>1, <2>2, UpTo
<1>7. moved[n] = Move(mem, dest, src, whole)
  <2>1. n \in same
    <3> HIDE DEF same
    <3> QED  BY <1>6
  <2>2. n \in 0 .. n /\ moved[n] = copied[n]
    BY <2>1
  <2> HIDE DEF moved
  <2>3. QED
    BY <2>2
<1>8. Upwards(mem, dest, src, width, n) = moved[n]
  BY DEF Upwards
<1>9. QED
  BY <1>7, <1>8

\* memcpy copies the block, whatever its alignment.
LEMMA MemcpyIs ==
  ASSUME NEW mem, NEW dest \in Nat, NEW src \in Nat, NEW n \in Nat, Copyable(mem, dest, src, n)
  PROVE  Memcpy(mem, dest, src, n) = Move(mem, dest, src, n)
<1>1. PICK head, dwords, tail :
        /\ head = Unaligned(dest, n) /\ dwords = (n - head) \div 4 /\ tail = (n - head) % 4
  OBVIOUS
<1>2. head \in Nat /\ dwords \in Nat /\ tail \in Nat /\ head + 4 * dwords + tail = n
  BY <1>1, BlockParts
<1>3. PICK m \in Nat : m = 4 * dwords
  BY <1>2
<1>4. PICK done \in Nat : done = head + m
  BY <1>2
<1>5. done + tail = n
  BY <1>2, <1>3, <1>4
<1>6. PICK first : first = Upwards(mem, dest, src, 1, head)
  OBVIOUS
<1>7. PICK second : second = Upwards(first, dest + head, src + head, 4, dwords)
  OBVIOUS
<1>8. Memcpy(mem, dest, src, n) = Upwards(second, dest + done, src + done, 1, tail)
  BY <1>1, <1>3, <1>4, <1>6, <1>7 DEF Memcpy
<1>9. /\ Copyable(mem, dest, src, done)
      /\ Copyable(Move(mem, dest, src, done), dest + done, src + done, tail)
      /\ Move(Move(mem, dest, src, done), dest + done, src + done, tail) = Move(mem, dest, src, n)
  <2>1. tail \in Nat /\ n = done + tail
    BY <1>2, <1>5
  <2>2. /\ Copyable(mem, dest, src, done)
        /\ Copyable(Move(mem, dest, src, done), dest + done, src + done, tail)
    BY <2>1, CopyableParts
  <2>3. PICK to, from : to = dest + done /\ from = src + done
    OBVIOUS
  <2>4. Move(Move(mem, dest, src, done), to, from, tail) = Move(mem, dest, src, n)
    BY <2>1, <2>3, MoveTwice, SMTT(30)
  <2>5. QED
    BY <2>2, <2>3, <2>4
<1>10. /\ Copyable(mem, dest, src, head)
       /\ Copyable(Move(mem, dest, src, head), dest + head, src + head, m)
       /\ Move(Move(mem, dest, src, head), dest + head, src + head, m) = Move(mem, dest, src, done)
  <2>1. head \in Nat /\ done = head + m
    BY <1>2, <1>4
  <2>2. /\ Copyable(mem, dest, src, head)
        /\ Copyable(Move(mem, dest, src, head), dest + head, src + head, m)
    BY <1>9, <2>1, CopyableParts
  <2>3. PICK to, from : to = dest + head /\ from = src + head
    OBVIOUS
  <2>4. Move(Move(mem, dest, src, head), to, from, m) = Move(mem, dest, src, done)
    BY <1>9, <2>1, <2>3, MoveTwice
  <2>5. QED
    BY <2>2, <2>3, <2>4
<1>11. first = Move(mem, dest, src, head)
  <2>1. head = 1 * head /\ 1 \in Nat
    BY <1>2
  <2>2. QED
    BY <1>2, <1>6, <1>10, <2>1, UpwardsIs
<1>12. second = Move(mem, dest, src, done)
  <2>1. PICK to \in Nat, from \in Nat : to = dest + head /\ from = src + head
    BY <1>2
  <2>2. Copyable(first, to, from, m)
    BY <1>10, <1>11, <2>1
  <2>3. Upwards(first, to, from, 4, dwords) = Move(first, to, from, m)
    BY <1>2, <1>3, <2>2, UpwardsIs
  <2>4. QED
    BY <1>7, <1>10, <1>11, <2>1, <2>3
<1>13. Upwards(second, dest + done, src + done, 1, tail) = Move(second, dest + done, src + done, tail)
  <2>1. PICK to \in Nat, from \in Nat : to = dest + done /\ from = src + done
    OBVIOUS
  <2>2. Copyable(second, to, from, tail)
    BY <1>9, <1>12, <2>1
  <2>3. tail = 1 * tail /\ 1 \in Nat
    BY <1>2
  <2>4. Upwards(second, to, from, 1, tail) = Move(second, to, from, tail)
    BY <1>2, <2>2, <2>3, UpwardsIs
  <2>5. QED
    BY <2>1, <2>4
<1>14. QED
  BY <1>8, <1>9, <1>12, <1>13

\* Bytes moved downwards copy the block if it lies below the destination.
LEMMA DownwardsIs ==
  ASSUME NEW mem, mem = [a \in DOMAIN mem |-> mem[a]],
         NEW dest \in Nat, NEW src \in Nat, NEW n \in Nat, src <= dest,
         src .. src + n - 1 \subseteq DOMAIN mem
  PROVE  Downwards(mem, dest, src, n) = Move(mem, dest, src, n)
<1> DEFINE Eq(f) == [i \in 0 .. n |->
                       IF i = 0 THEN mem ELSE Move(f[i - 1], dest + n - i, src + n - i, 1)]
           copied == [i \in 0 .. n |-> Move(mem, dest + n - i, src + n - i, i)]
           moved  == CHOOSE f : f = Eq(f)
<1>1. ASSUME NEW i \in 0 .. n, i # 0
      PROVE  Move(copied[i - 1], dest + n - i, src + n - i, 1) = copied[i]
  <2>1. i - 1 \in 0 .. n
    BY <1>1
  <2>2. PICK to \in Nat, from \in Nat : to = dest + n - i /\ from = src + n - i
    OBVIOUS
  <2>3. PICK once : once = copied[i - 1]
    OBVIOUS
  <2>4. once = Move(mem, to + 1, from + 1, i - 1)
    <3>1. dest + n - (i - 1) = to + 1 /\ src + n - (i - 1) = from + 1
      BY <2>2
    <3>2. QED
      BY <2>1, <2>3, <3>1
  <2>5. DOMAIN once = DOMAIN mem
    BY <2>4 DEF Move
  <2>6. \A a \in DOMAIN mem :
          once[a] = IF a \in to + 1 .. to + i - 1 THEN mem[from + a - to] ELSE mem[a]
    <3>1. \A a \in DOMAIN mem :
            once[a] = IF a \in to + 1 .. to + 1 + (i - 1) - 1 THEN mem[from + 1 + a - (to + 1)] ELSE mem[a]
      BY <2>4 DEF Move
    <3>2. to + 1 + (i - 1) - 1 = to + i - 1
      BY <2>2
    <3>3. \A a \in to + 1 .. to + i - 1 : from + 1 + a - (to + 1) = from + a - to
      BY <2>2
    <3>4. QED
      BY <3>1, <3>2, <3>3
  <2>7. once[from] = mem[from]
    <3>1. from \in src .. src + n - 1 /\ from \notin to + 1 .. to + i - 1
      BY <1>1, <2>2
    <3>2. QED
      BY <2>6, <3>1
  <2>8. \A a \in DOMAIN mem :
          (IF a \in to .. to + 1 - 1 THEN once[from + a - to] ELSE once[a])
            = (IF a \in to .. to + i - 1 THEN mem[from + a - to] ELSE mem[a])
    <3>1. ASSUME NEW a \in DOMAIN mem
          PROVE  (IF a \in to .. to + 1 - 1 THEN once[from + a - to] ELSE once[a])
                   = (IF a \in to .. to + i - 1 THEN mem[from + a - to] ELSE mem[a])
      <4>1. CASE a = to
        <5>1. from + a - to = from /\ a \in to .. to + 1 - 1 /\ a \in to .. to + i - 1
          BY <1>1, <2>2, <4>1
        <5>2. QED
          BY <2>7, <5>1
      <4>2. CASE a # to
        <5>1. a \notin to .. to + 1 - 1 /\ (a \in to .. to + i - 1 <=> a \in to + 1 .. to + i - 1)
          BY <2>2, <4>2
        <5>2. QED
          BY <2>6, <5>1
      <4>3. QED
        BY <4>1, <4>2
    <3>2. QED
      BY <3>1
  <2>9. Move(once, to, from, 1) = Move(mem, to, from, i)
    BY <2>5, <2>8 DEF Move
  <2>10. copied[i] = Move(mem, to, from, i)
    BY <2>2
  <2> HIDE DEF copied
  <2>11. QED
    BY <2>2, <2>3, <2>9, <2>10
<1>2. copied[0] = mem
  <2>1. copied[0] = Move(mem, dest + n - 0, src + n - 0, 0)
    OBVIOUS
  <2>2. dest + n - 0 \in Nat /\ src + n - 0 \in Nat
    OBVIOUS
  <2> HIDE DEF copied
  <2>3. QED
    BY <2>1, <2>2, MoveNone
<1>3. copied = Eq(copied)
  <2>1. \A i \in 0 .. n : copied[i] = Eq(copied)[i]
    <3> HIDE DEF copied
    <3> QED  BY <1>1, <1>2
  <2>2. copied = [i \in 0 .. n |-> copied[i]] /\ Eq(copied) = [i \in 0 .. n |-> Eq(copied)[i]]
    OBVIOUS
  <2> HIDE DEF copied, Eq
  <2>3. QED
    BY <2>1, <2>2, Zenon
<1>4. moved = Eq(moved)
  <2> HIDE DEF copied, Eq
  <2> QED  BY <1>3
<1>5. \A i \in 0 .. n : moved[i] = IF i = 0 THEN mem
        ELSE Move(moved[i - 1], dest + n - i, src + n - i, 1)
  <2> HIDE DEF moved
  <2> QED  BY <1>4
<1> DEFINE same == {i \in 0 .. n : moved[i] = copied[i]}
<1>6. 0 .. n \subseteq same
  <2>1. 0 \in same
    <3> HIDE DEF moved, copied
    <3> QED  BY <1>2, <1>5
  <2>2. ASSUME NEW i \in 1 .. n, i - 1 \in same
        PROVE  i \in same
    <3>1. moved[i - 1] = copied[i - 1] /\ i \in 0 .. n /\ i # 0
      BY <2>2
    <3> HIDE DEF moved, copied
    <3>2. moved[i] = copied[i]
      BY <1>1, <1>5, <3>1
    <3>3. QED
      BY <3>1, <3>2
  <2> HIDE DEF same
  <2>3. QED
    BY <2>1, <2>2, UpTo
<1>7. moved[n] = Move(mem, dest, src, n)
  <2>1. n \in same
    <3> HIDE DEF same
    <3> QED  BY <1>6
  <2>2. moved[n] = Move(mem, dest + n - n, src + n - n, n)
    BY <2>1
  <2>3. dest + n - n = dest /\ src + n - n = src
    OBVIOUS
  <2> HIDE DEF moved
  <2>4. QED
    BY <2>2, <2>3
<1>8. Downwards(mem, dest, src, n) = moved[n]
  BY DEF Downwards
<1>9. QED
  BY <1>7, <1>8

LEMMA MemmoveIs ==
  ASSUME NEW mem, mem = [a \in DOMAIN mem |-> mem[a]],
         NEW dest \in Nat, NEW src \in Nat, NEW n \in Nat,
         src .. src + n - 1 \subseteq DOMAIN mem
  PROVE  Memmove(mem, dest, src, n) = Move(mem, dest, src, n)
<1>1. CASE src >= dest
  <2>1. n = 1 * n /\ 1 \in Nat
    OBVIOUS
  <2>2. Copyable(mem, dest, src, n)
    BY <1>1, Zenon DEF Copyable
  <2>3. Upwards(mem, dest, src, 1, n) = Move(mem, dest, src, n)
    BY <2>1, <2>2, UpwardsIs
  <2>4. QED
    BY <1>1, <2>3 DEF Memmove
<1>2. CASE ~ (src >= dest)
  BY <1>2, DownwardsIs DEF Memmove
<1>3. QED
  BY <1>1, <1>2

\* memset fills a block and nothing else, memmove copies any block, and memcpy copies
\* every block that it does not write over before it is read, at every alignment and
\* of every length, whatever memory it is and whatever it holds (memset, memcpy,
\* memmove).
THEOREM BlocksFilledAndCopied ==
  ASSUME NEW mem, mem = [a \in DOMAIN mem |-> mem[a]],
         NEW dest \in Nat, NEW src \in Nat, NEW n \in Nat,
         src .. src + n - 1 \subseteq DOMAIN mem
  PROVE  FillsAndCopies(mem, dest, src, n)
<1>1. PICK copy : copy = [a \in DOMAIN mem |->
                            IF a \in dest .. dest + n - 1 THEN mem[a - dest + src] ELSE mem[a]]
  OBVIOUS
<1>2. Memset(mem, dest, 511, n) =
        [a \in DOMAIN mem |-> IF a \in dest .. dest + n - 1 THEN 255 ELSE mem[a]]
  <2>1. 511 % 256 = 255
    OBVIOUS
  <2>2. Memset(mem, dest, 511, n) = Fill(mem, dest, n, 255)
    BY <2>1, MemsetIs
  <2>3. QED
    BY <2>2 DEF Fill
<1>3. Move(mem, dest, src, n) = copy
  <2>1. ASSUME NEW a \in DOMAIN mem, a \in dest .. dest + n - 1
        PROVE  src + a - dest = a - dest + src
    BY <2>1
  <2>2. QED
    BY <1>1, <2>1 DEF Move
<1>4. Memmove(mem, dest, src, n) = copy
  BY <1>3, MemmoveIs
<1>5. ASSUME dest <= src \/ src + n <= dest
      PROVE  Memcpy(mem, dest, src, n) = copy
  <2>1. Copyable(mem, dest, src, n)
    BY <1>5, Zenon DEF Copyable
  <2>2. QED
    BY <1>3, <2>1, MemcpyIs
<1>6. QED
  BY <1>1, <1>2, <1>4, <1>5 DEF FillsAndCopies

LEMMA MemoryFunctionsHold == MemoryFunctions
<1>1. SUFFICES ASSUME NEW b \in Blocks, NEW dest, dest = b[1], NEW src, src = b[2], NEW n, n = b[3]
               PROVE  FillsAndCopies(Ruler, dest, src, n)
  BY DEF MemoryFunctions
<1>2. /\ dest \in Addresses /\ src \in Addresses /\ n \in Nat
      /\ n # 0 => src + n - 1 \in Addresses
  BY <1>1 DEF Blocks
<1>3. dest \in Nat /\ src \in Nat
  BY <1>2, KernelLibAssumption
<1>4. src .. src + n - 1 \subseteq Addresses
  <2>1. CASE n # 0
    BY <1>2, <2>1, KernelLibAssumption
  <2>2. CASE n = 0
    BY <1>3, <2>2
  <2>3. QED
    BY <2>1, <2>2
<1>5. DOMAIN Ruler = Addresses /\ Ruler = [a \in DOMAIN Ruler |-> Ruler[a]]
  BY DEF Ruler
<1>6. src .. src + n - 1 \subseteq DOMAIN Ruler
  BY <1>4, <1>5
<1>7. QED
  BY <1>2, <1>3, <1>5, <1>6, BlocksFilledAndCopied

-----------------------------------------------------------------------------
(* Strings *)

\* The first position up to n that is in a set.
LEMMA First ==
  ASSUME NEW n \in Nat, NEW S, n \in S
  PROVE  \E k \in 0 .. n : k \in S /\ \A j \in 0 .. k - 1 : j \notin S
<1> DEFINE upTo == {k \in 0 .. n : k \in S}
<1>1. upTo \in SUBSET Nat /\ n \in upTo
  OBVIOUS
<1>2. PICK k \in upTo : \A j \in upTo : ~ (j < k)
  <2> HIDE DEF upTo
  <2> QED  BY <1>1, Lowest
<1>3. k \in 0 .. n /\ k \in S
  OBVIOUS
<1>4. \A j \in 0 .. k - 1 : j \in 0 .. n /\ j < k
  BY <1>3
<1>5. \A j \in 0 .. k - 1 : j \notin S
  BY <1>2, <1>4
<1>6. QED
  BY <1>3, <1>5

\* A string ends at its first 0.
LEMMA StringEnds ==
  ASSUME NEW s, NEW n \in Nat, s[n] = 0
  PROVE  \E l \in 0 .. n : s[l] = 0 /\ (\A j \in 0 .. l - 1 : s[j] # 0) /\ Strlen(s) = l
<1> DEFINE zeros == {i \in Nat : s[i] = 0}
<1>1. n \in zeros
  OBVIOUS
<1>2. PICK l \in 0 .. n : l \in zeros /\ \A j \in 0 .. l - 1 : j \notin zeros
  <2> HIDE DEF zeros
  <2> QED  BY <1>1, First
<1>3. s[l] = 0 /\ \A j \in 0 .. l - 1 : s[j] # 0
  BY <1>2
<1>4. QED
  BY <1>3, StrlenIs

\* What strncmp finds: the end, or the first place where the strings differ or end.
LEMMA StrncmpFinds ==
  ASSUME NEW s1, NEW s2, NEW n \in Nat
  PROVE  \E k \in 0 .. n :
           /\ \A j \in 0 .. k - 1 : s1[j] = s2[j] /\ s1[j] # 0
           /\ k = n \/ s1[k] # s2[k] \/ s1[k] = 0
           /\ Strncmp(s1, s2, n) = IF k = n THEN 0 ELSE s1[k] - s2[k]
<1> DEFINE stops == {i \in Nat : i = n \/ s1[i] # s2[i] \/ s1[i] = 0}
<1>1. n \in stops
  OBVIOUS
<1>2. PICK k \in 0 .. n : k \in stops /\ \A j \in 0 .. k - 1 : j \notin stops
  <2> HIDE DEF stops
  <2> QED  BY <1>1, First
<1>3. /\ \A j \in 0 .. k - 1 : s1[j] = s2[j] /\ s1[j] # 0
      /\ k = n \/ s1[k] # s2[k] \/ s1[k] = 0
  BY <1>2
<1>4. QED
  BY <1>3, StrncmpIs

\* strncmp says whether two strings, cut at n, are the same; what strncpy copied
\* compares as the same, and it writes n bytes, no more and no fewer (strncmp, strncpy).
LEMMA StringFunctionsHold == StringFunctions
<1>1. SUFFICES ASSUME NEW s1 \in Strings, NEW s2 \in Strings, NEW n \in 0 .. MaxString, NEW copy,
                      copy = Strncpy(s2, s1, n)
               PROVE  /\ Strncmp(s1, s2, n) = 0 <=> Cut(s1, n) = Cut(s2, n)
                      /\ Strncmp(copy, s1, n) = 0
                      /\ \A i \in 0 .. MaxString : copy[i] = IF i < Len(Cut(s1, n)) THEN s1[i]
                                                     ELSE IF i < n THEN 0 ELSE s2[i]
  BY DEF StringFunctions
<1>0. MaxString \in Nat
  BY KernelLibAssumption
<1>2. /\ s1 \in [0 .. MaxString -> Nat] /\ s1[MaxString] = 0
      /\ s2 \in [0 .. MaxString -> Nat] /\ s2[MaxString] = 0
  <2>1. LibBytes \subseteq Nat
    BY KernelLibAssumption
  <2>2. QED
    BY <2>1 DEF Strings
<1>3. PICK l1 \in 0 .. MaxString : s1[l1] = 0 /\ (\A j \in 0 .. l1 - 1 : s1[j] # 0) /\ Strlen(s1) = l1
  BY <1>0, <1>2, StringEnds
<1>4. PICK l2 \in 0 .. MaxString : s2[l2] = 0 /\ (\A j \in 0 .. l2 - 1 : s2[j] # 0) /\ Strlen(s2) = l2
  BY <1>0, <1>2, StringEnds
<1>5. PICK m1 \in 0 .. n : m1 = IF l1 < n THEN l1 ELSE n
  OBVIOUS
<1>6. PICK m2 \in 0 .. n : m2 = IF l2 < n THEN l2 ELSE n
  OBVIOUS
<1>7. Cut(s1, n) = [i \in 1 .. m1 |-> s1[i - 1]] /\ Cut(s2, n) = [i \in 1 .. m2 |-> s2[i - 1]]
  BY <1>3, <1>4, <1>5, <1>6 DEF Cut
<1>8. n \in Nat
  BY <1>0
<1>9. Strncmp(s1, s2, n) = 0 <=> Cut(s1, n) = Cut(s2, n)
  <2>1. PICK k \in 0 .. n :
          /\ \A j \in 0 .. k - 1 : s1[j] = s2[j] /\ s1[j] # 0
          /\ k = n \/ s1[k] # s2[k] \/ s1[k] = 0
          /\ Strncmp(s1, s2, n) = IF k = n THEN 0 ELSE s1[k] - s2[k]
    BY <1>8, StrncmpFinds
  <2>2. k <= l1 /\ k <= l2
    BY <1>3, <1>4, <2>1
  <2>3. s1[k] \in Nat /\ s2[k] \in Nat
    <3>1. k \in 0 .. MaxString
      BY <1>0
    <3>2. QED
      BY <1>2, <3>1
  <2>4. ASSUME Strncmp(s1, s2, n) = 0
        PROVE  Cut(s1, n) = Cut(s2, n)
    <3>1. m1 = k /\ m2 = k
      <4>1. CASE k = n
        BY <1>5, <1>6, <2>2, <4>1
      <4>2. CASE k # n
        <5>1. s1[k] = 0 /\ s2[k] = 0
          BY <2>1, <2>3, <2>4, <4>2
        <5>2. l1 = k /\ l2 = k
          BY <1>3, <1>4, <2>2, <5>1
        <5>3. QED
          BY <1>5, <1>6, <4>2, <5>2
      <4>3. QED
        BY <4>1, <4>2
    <3>2. \A i \in 1 .. k : s1[i - 1] = s2[i - 1]
      BY <2>1
    <3>3. QED
      BY <1>7, <3>1, <3>2
  <2>5. ASSUME Cut(s1, n) = Cut(s2, n)
        PROVE  Strncmp(s1, s2, n) = 0
    <3>1. m1 = m2
      <4>1. DOMAIN Cut(s1, n) = 1 .. m1 /\ DOMAIN Cut(s2, n) = 1 .. m2
        BY <1>7
      <4>2. 1 .. m1 = 1 .. m2
        BY <2>5, <4>1
      <4>3. QED
        BY ONLY <4>2, m1 \in 0 .. n, m2 \in 0 .. n, <1>8
    <3>2. CASE k = n
      BY <2>1, <3>2
    <3>3. CASE k # n /\ k < m1
      <4>1. k + 1 \in 1 .. m1 /\ k + 1 - 1 = k
        BY <3>3
      <4>2. Cut(s1, n)[k + 1] = s1[k] /\ Cut(s2, n)[k + 1] = s2[k]
        BY <1>7, <3>1, <4>1
      <4>3. s1[k] = s2[k]
        BY <2>5, <4>2
      <4>4. QED
        BY <2>1, <2>3, <3>3, <4>3
    <3>4. CASE k # n /\ ~ (k < m1)
      <4>1. l1 = k /\ l2 = k
        BY <1>5, <1>6, <2>2, <3>1, <3>4
      <4>2. s1[k] = 0 /\ s2[k] = 0
        BY <1>3, <1>4, <4>1
      <4>3. QED
        BY <2>1, <3>4, <4>2
    <3>5. QED
      BY <3>2, <3>3, <3>4
  <2>6. QED
    BY <2>4, <2>5
<1>10. copy = [i \in 0 .. MaxString |-> IF i < m1 THEN s1[i] ELSE IF i < n THEN 0 ELSE s2[i]]
  <2>1. m1 = n \/ s1[m1] = 0
    BY <1>3, <1>5
  <2>2. \A j \in 0 .. m1 - 1 : s1[j] # 0
    BY <1>3, <1>5
  <2>3. QED
    <3>1. copy = [i \in DOMAIN s2 |-> IF i < m1 THEN s1[i] ELSE IF i < n THEN 0 ELSE s2[i]]
      BY <1>1, <1>8, <2>1, <2>2, StrncpyIs
    <3>2. DOMAIN s2 = 0 .. MaxString
      BY <1>2
    <3>3. QED
      BY <3>1, <3>2
<1>11. Len(Cut(s1, n)) = m1
  BY <1>7, <1>8
<1>12. Strncmp(copy, s1, n) = 0
  <2>1. \A j \in 0 .. m1 - 1 : copy[j] = s1[j] /\ copy[j] # 0
    <3>1. \A j \in 0 .. m1 - 1 : j \in 0 .. MaxString /\ j < m1 /\ s1[j] # 0
      BY <1>0, <1>3, <1>5
    <3>2. QED
      BY <1>10, <3>1
  <2>2. m1 # n => copy[m1] = 0 /\ s1[m1] = 0
    BY <1>3, <1>5, <1>10
  <2>3. Strncmp(copy, s1, n) = IF m1 = n THEN 0 ELSE copy[m1] - s1[m1]
    BY <1>8, <2>1, <2>2, StrncmpIs
  <2>4. QED
    BY <2>2, <2>3
<1>13. QED
  BY <1>9, <1>10, <1>11, <1>12

-----------------------------------------------------------------------------
(* Numbers: what itoa divides *)

\* There is a function that starts with start and goes on by step.
LEMMA IterationExists ==
  ASSUME NEW start \in Nat, NEW step \in [Nat -> Nat]
  PROVE  \E f \in [Nat -> Nat] : f = [i \in Nat |-> IF i = 0 THEN start ELSE step[f[i - 1]]]
<1> DEFINE Good(g, n) == /\ g \in [0 .. n -> Nat] /\ g[0] = start
                         /\ \A i \in 1 .. n : g[i] = step[g[i - 1]]
<1>1. ASSUME NEW n \in Nat
      PROVE  \E g : Good(g, n)
  <2> DEFINE has == {m \in Nat : \E g : Good(g, m)}
  <2>1. 0 \in has
    <3> DEFINE g == [i \in 0 .. 0 |-> start]
    <3>1. Good(g, 0)
      OBVIOUS
    <3> HIDE DEF Good, g
    <3>2. QED
      BY <3>1
  <2>2. ASSUME NEW m \in 1 .. n, m - 1 \in has
        PROVE  m \in has
    <3>1. PICK h : Good(h, m - 1)
      BY <2>2
    <3> DEFINE g == [i \in 0 .. m |-> IF i = m THEN step[h[m - 1]] ELSE h[i]]
    <3>2. h \in [0 .. m - 1 -> Nat] /\ h[0] = start /\ \A i \in 1 .. m - 1 : h[i] = step[h[i - 1]]
      BY <3>1
    <3>3. g[m] = step[h[m - 1]] /\ \A i \in 0 .. m - 1 : g[i] = h[i]
      OBVIOUS
    <3>4. g \in [0 .. m -> Nat]
      <4>1. step[h[m - 1]] \in Nat
        BY <3>2
      <4>2. QED
        BY <3>2, <4>1, SMTT(30)
    <3>5. Good(g, m)
      <4>1. g[0] = start
        BY <3>2, <3>3
      <4>2. ASSUME NEW i \in 1 .. m
            PROVE  g[i] = step[g[i - 1]]
        <5>1. i - 1 \in 0 .. m - 1 /\ (i # m => i \in 1 .. m - 1 /\ i \in 0 .. m - 1)
          OBVIOUS
        <5>2. g[i - 1] = h[i - 1]
          <6> HIDE DEF g
          <6> QED  BY <3>3, <5>1
        <5> HIDE DEF g
        <5>3. QED
          BY <3>2, <3>3, <5>1, <5>2
      <4> HIDE DEF g
      <4>3. QED
        BY <3>4, <4>1, <4>2
    <3> HIDE DEF g, Good
    <3>6. m \in Nat
      OBVIOUS
    <3>7. QED
      BY <3>5, <3>6
  <2>3. 0 .. n \subseteq has
    <3> HIDE DEF has
    <3> QED  BY <2>1, <2>2, UpTo
  <2>4. n \in has
    <3> HIDE DEF has
    <3> QED  BY <2>3
  <2>5. QED
    BY <2>4
<1>2. ASSUME NEW n \in Nat, NEW g, NEW h, Good(g, n), Good(h, n + 1)
      PROVE  g[n] = h[n]
  <2> DEFINE same == {i \in 0 .. n : g[i] = h[i]}
  <2>1. 0 \in same
    BY <1>2
  <2>2. ASSUME NEW i \in 1 .. n, i - 1 \in same
        PROVE  i \in same
    BY <1>2, <2>2
  <2>3. 0 .. n \subseteq same
    <3> HIDE DEF same
    <3> QED  BY <2>1, <2>2, UpTo
  <2>4. n \in same
    <3> HIDE DEF same
    <3> QED  BY <2>3
  <2>5. QED
    BY <2>4
<1> DEFINE G(n) == CHOOSE g : Good(g, n)
           f    == [i \in Nat |-> G(i)[i]]
<1>3. \A n \in Nat : Good(G(n), n)
  <2> HIDE DEF Good
  <2> QED  BY <1>1
<1>4. \A i \in Nat : f[i] = G(i)[i]
  <2> HIDE DEF G
  <2> QED  OBVIOUS
<1>5. f \in [Nat -> Nat]
  <2>1. \A i \in Nat : G(i)[i] \in Nat
    <3> TAKE i \in Nat
    <3>1. Good(G(i), i)
      <4> HIDE DEF Good, G
      <4> QED  BY <1>3
    <3>2. G(i) \in [0 .. i -> Nat] /\ i \in 0 .. i
      <4> HIDE DEF G
      <4> QED  BY <3>1, SMTT(30)
    <3>3. QED
      <4> HIDE DEF G
      <4> QED  BY <3>2
  <2>2. QED
    <3> HIDE DEF G
    <3> QED  BY <2>1
<1>6. f[0] = start
  <2>1. Good(G(0), 0)
    <3> HIDE DEF Good, G
    <3> QED  BY <1>3
  <2>2. QED
    <3> HIDE DEF G, f
    <3> QED  BY <1>4, <2>1
<1>7. ASSUME NEW i \in Nat, i # 0
      PROVE  f[i] = step[f[i - 1]]
  <2>1. PICK j \in Nat : i = j + 1
    BY <1>7
  <2>2. Good(G(j), j) /\ Good(G(j + 1), j + 1)
    <3>1. j + 1 \in Nat
      OBVIOUS
    <3> HIDE DEF Good, G
    <3>2. QED
      BY <1>3, <3>1
  <2>3. G(j)[j] = G(j + 1)[j]
    <3> HIDE DEF Good, G
    <3> QED  BY <1>2, <2>2
  <2>4. G(j + 1)[j + 1] = step[G(j + 1)[j]]
    <3>1. j + 1 \in 1 .. j + 1 /\ j + 1 - 1 = j
      OBVIOUS
    <3> HIDE DEF G
    <3>2. QED
      BY <2>2, <3>1
  <2>5. f[j] = G(j)[j] /\ f[j + 1] = G(j + 1)[j + 1]
    <3> HIDE DEF G, f
    <3> QED  BY <1>4
  <2>6. i - 1 = j
    BY <2>1
  <2> HIDE DEF G, f
  <2>7. QED
    BY <2>1, <2>3, <2>4, <2>5, <2>6
<1>8. QED
  <2> HIDE DEF f
  <2>1. \A i \in Nat : f[i] = IF i = 0 THEN start ELSE step[f[i - 1]]
    BY <1>6, <1>7
  <2>2. f = [i \in Nat |-> IF i = 0 THEN start ELSE step[f[i - 1]]]
    BY <1>5, <2>1
  <2>3. QED
    BY <1>5, <2>2

\* What the loop of itoa divides.
LEMMA QuotientsAre ==
  ASSUME NEW value \in Nat, NEW radix \in Nat, radix # 0
  PROVE  /\ Quotients(value, radix) \in [Nat -> Nat]
         /\ Quotients(value, radix)[0] = value
         /\ \A i \in Nat : Quotients(value, radix)[i + 1] = Quotients(value, radix)[i] \div radix
<1> DEFINE Eq(f) == [i \in Nat |-> IF i = 0 THEN value ELSE f[i - 1] \div radix]
           step  == [x \in Nat |-> x \div radix]
           q     == CHOOSE f : f = Eq(f)
<1>1. step \in [Nat -> Nat]
  OBVIOUS
<1>2. PICK f \in [Nat -> Nat] : f = [i \in Nat |-> IF i = 0 THEN value ELSE step[f[i - 1]]]
  <2> HIDE DEF step
  <2> QED  BY <1>1, IterationExists
<1>3. f = Eq(f)
  <2>1. \A i \in Nat : i # 0 => step[f[i - 1]] = f[i - 1] \div radix
    OBVIOUS
  <2> HIDE DEF step
  <2>2. QED
    BY <1>2, <2>1
<1>4. q = Eq(q)
  <2> HIDE DEF Eq
  <2> QED  BY <1>3
<1>5. \A i \in Nat : q[i] = IF i = 0 THEN value ELSE q[i - 1] \div radix
  <2> HIDE DEF q
  <2> QED  BY <1>4
<1>6. q[0] = value /\ \A i \in Nat : q[i + 1] = q[i] \div radix
  <2>1. \A i \in Nat : i + 1 \in Nat /\ i + 1 # 0 /\ (i + 1) - 1 = i
    OBVIOUS
  <2> HIDE DEF q
  <2>2. QED
    BY <1>5, <2>1
<1>7. \A n \in Nat : q[n] \in Nat
  <2> TAKE n \in Nat
  <2> DEFINE nat == {i \in 0 .. n : q[i] \in Nat}
  <2>1. 0 \in nat
    <3> HIDE DEF q
    <3> QED  BY <1>6
  <2>2. ASSUME NEW i \in 1 .. n, i - 1 \in nat
        PROVE  i \in nat
    <3>1. i - 1 \in Nat /\ (i - 1) + 1 = i /\ q[i - 1] \in Nat
      BY <2>2
    <3> HIDE DEF q
    <3>2. q[i] = q[i - 1] \div radix
      BY <1>6, <3>1
    <3>3. QED
      BY <3>1, <3>2
  <2>3. 0 .. n \subseteq nat
    <3> HIDE DEF nat
    <3> QED  BY <2>1, <2>2, UpTo
  <2>4. n \in nat
    <3> HIDE DEF nat
    <3> QED  BY <2>3
  <2>5. QED
    BY <2>4
<1>8. q \in [Nat -> Nat]
  <2> HIDE DEF q
  <2>1. DOMAIN q = Nat /\ q = [i \in DOMAIN q |-> q[i]]
    BY <1>4
  <2>2. QED
    BY <1>7, <2>1
<1>9. Quotients(value, radix) = q
  BY DEF Quotients
<1>10. QED
  <2> HIDE DEF q
  <2> QED  BY <1>6, <1>8, <1>9

\* After the first 0 there are only zeros, and there is one after at most value steps.
LEMMA QuotientsEnd ==
  ASSUME NEW value \in Nat, NEW radix \in Nat, radix > 1, NEW q, q = Quotients(value, radix)
  PROVE  /\ q[value] = 0
         /\ \A n, m \in Nat : q[n] = 0 => q[n + m] = 0
<1>1. q \in [Nat -> Nat] /\ q[0] = value /\ \A i \in Nat : q[i + 1] = q[i] \div radix
  <2>1. radix # 0
    OBVIOUS
  <2>2. QED
    BY <2>1, QuotientsAre, ZenonT(60)
<1>2. q[value] = 0
  <2> DEFINE small == {i \in 0 .. value : q[i] + i <= value \/ q[i] = 0}
  <2>1. 0 \in small
    BY <1>1
  <2>2. ASSUME NEW i \in 1 .. value, i - 1 \in small
        PROVE  i \in small
    <3>1. PICK j \in Nat : i = j + 1 /\ (q[j] + j <= value \/ q[j] = 0)
      BY <2>2
    <3>2. q[j] \in Nat /\ q[i] \in Nat /\ q[i] = q[j] \div radix
      BY <1>1, <3>1
    <3>3. q[j] = 0 => q[i] = 0
      BY <3>2
    <3>4. q[j] # 0 => q[i] < q[j]
      BY <3>2
    <3>5. q[i] + i <= value \/ q[i] = 0
      BY <3>1, <3>2, <3>3, <3>4
    <3>6. QED
      BY <3>5
  <2>3. 0 .. value \subseteq small
    <3> HIDE DEF small
    <3> QED  BY <2>1, <2>2, UpTo
  <2>4. value \in small
    <3> HIDE DEF small
    <3> QED  BY <2>3
  <2>5. q[value] \in Nat
    BY <1>1
  <2>6. QED
    BY <2>4, <2>5
<1>3. ASSUME NEW n \in Nat, NEW m \in Nat, q[n] = 0
      PROVE  q[n + m] = 0
  <2> DEFINE zero == {i \in 0 .. m : q[n + i] = 0}
  <2>1. 0 \in zero
    BY <1>3
  <2>2. ASSUME NEW i \in 1 .. m, i - 1 \in zero
        PROVE  i \in zero
    <3>1. n + (i - 1) \in Nat /\ (n + (i - 1)) + 1 = n + i /\ q[n + (i - 1)] = 0
      BY <2>2
    <3>2. q[n + i] = 0 \div radix
      BY <1>1, <3>1
    <3>3. QED
      BY <3>2
  <2>3. 0 .. m \subseteq zero
    <3> HIDE DEF zero
    <3> QED  BY <2>1, <2>2, UpTo
  <2>4. m \in zero
    <3> HIDE DEF zero
    <3> QED  BY <2>3
  <2>5. QED
    BY <2>4
<1>4. QED
  BY <1>2, <1>3

LEMMA PlacesAre ==
  ASSUME NEW value \in Nat, NEW radix \in Nat, radix > 1,
         NEW q, q = Quotients(value, radix), NEW n, n = Places(value, radix)
  PROVE  /\ n \in Nat /\ n # 0 /\ q[n] = 0
         /\ value = 0 => n = 1
         /\ value # 0 => q[n - 1] # 0
<1>1. q \in [Nat -> Nat] /\ q[0] = value /\ \A i \in Nat : q[i + 1] = q[i] \div radix
  <2>1. radix # 0
    OBVIOUS
  <2>2. QED
    BY <2>1, QuotientsAre, ZenonT(60)
<1>2. CASE value = 0
  <2>1. n = 1
    BY <1>2 DEF Places
  <2>2. q[0 + 1] = 0 \div radix
    BY <1>1, <1>2
  <2>3. q[1] = 0
    BY <2>2
  <2>4. QED
    BY <1>2, <2>1, <2>3
<1>3. CASE value # 0
  <2> DEFINE zeros == {i \in Nat : q[i] = 0}
  <2>1. value \in zeros
    BY QuotientsEnd
  <2>2. PICK k \in 0 .. value : k \in zeros /\ \A j \in 0 .. k - 1 : j \notin zeros
    <3> HIDE DEF zeros
    <3> QED  BY <2>1, First
  <2>3. k # 0 /\ q[k] = 0
    BY <1>1, <1>3, <2>2
  <2>4. k - 1 \in 0 .. k - 1 /\ k - 1 \in Nat
    BY <2>3
  <2>5. q[k - 1] # 0 /\ k \in 1 .. value
    BY <2>2, <2>3, <2>4
  <2>6. n = CHOOSE i \in 1 .. value : q[i] = 0 /\ q[i - 1] # 0
    BY <1>3 DEF Places
  <2>7. n \in 1 .. value /\ q[n] = 0 /\ q[n - 1] # 0
    <3> HIDE DEF zeros
    <3> QED  BY <2>3, <2>5, <2>6
  <2>8. QED
    BY <1>3, <2>7
<1>4. QED
  BY <1>2, <1>3

\* strrev reverses a string.
LEMMA StrrevIs ==
  ASSUME NEW n \in Nat, NEW s \in [0 .. n -> Nat], s[n] = 0, \A j \in 0 .. n - 1 : s[j] # 0
  PROVE  Strrev(s) = [i \in 0 .. n |-> IF i = n THEN 0 ELSE s[n - 1 - i]]
<1>1. Strlen(s) = n
  BY StrlenIs
<1> DEFINE half == n \div 2
           Swapped(f, beg) == [f EXCEPT ![beg - 1] = f[n - beg], ![n - beg] = f[beg - 1]]
           Eq(f)  == [beg \in 0 .. half |-> IF beg = 0 THEN s ELSE Swapped(f[beg - 1], beg)]
           part   == [beg \in 0 .. half |->
                        [i \in 0 .. n |-> IF i < n /\ (i < beg \/ i >= n - beg) THEN s[n - 1 - i] ELSE s[i]]]
           rev    == CHOOSE f : f = Eq(f)
<1>2. half \in Nat /\ (n = 2 * half \/ n = 2 * half + 1)
  OBVIOUS
<1>20. Strrev(s) = rev[half]
  <2> DEFINE Result(m) == (CHOOSE f : f = [beg \in 0 .. m \div 2 |->
               IF beg = 0 THEN s
               ELSE [f[beg - 1] EXCEPT ![beg - 1] = f[beg - 1][m - beg],
                                       ![m - beg] = f[beg - 1][beg - 1]]])[m \div 2]
  <2>1. Strrev(s) = Result(Strlen(s))
    BY DEF Strrev
  <2>2. Result(Strlen(s)) = Result(n)
    <3> HIDE DEF Result
    <3> QED  BY <1>1
  <2>3. Result(n) = rev[half]
    OBVIOUS
  <2> HIDE DEF Result, rev, half
  <2>4. QED
    BY <2>1, <2>2, <2>3
<1> HIDE DEF half
<1>3. ASSUME NEW beg \in 0 .. half, beg # 0
      PROVE  Swapped(part[beg - 1], beg) = part[beg]
  <2>1. PICK old : old = part[beg - 1]
    OBVIOUS
  <2>2. beg - 1 \in 0 .. half /\ beg - 1 \in 0 .. n /\ n - beg \in 0 .. n /\ beg - 1 # n - beg /\ n - beg < n
    BY <1>2, <1>3
  <2>3. old = [i \in 0 .. n |-> IF i < n /\ (i < beg - 1 \/ i >= n - (beg - 1)) THEN s[n - 1 - i] ELSE s[i]]
    BY <2>1, <2>2
  <2>4. old[beg - 1] = s[beg - 1] /\ old[n - beg] = s[n - beg]
    BY <1>2, <2>2, <2>3
  <2>5. n - 1 - (beg - 1) = n - beg /\ n - 1 - (n - beg) = beg - 1
    BY <2>2
  <2>6. Swapped(old, beg) = [i \in 0 .. n |-> IF i = n - beg THEN s[beg - 1] ELSE IF i = beg - 1 THEN s[n - beg] ELSE old[i]]
    <3>1. DOMAIN old = 0 .. n /\ old = [i \in 0 .. n |-> old[i]]
      BY <2>3
    <3>2. QED
      BY <2>2, <2>4, <3>1
  <2>7. ASSUME NEW i \in 0 .. n
        PROVE  (IF i = n - beg THEN s[beg - 1] ELSE IF i = beg - 1 THEN s[n - beg] ELSE old[i])
                 = IF i < n /\ (i < beg \/ i >= n - beg) THEN s[n - 1 - i] ELSE s[i]
    <3>1. CASE i = n - beg
      BY <2>2, <2>5, <3>1
    <3>2. CASE i = beg - 1
      BY <2>2, <2>5, <3>2
    <3>3. CASE i # n - beg /\ i # beg - 1
      <4>1. old[i] = IF i < n /\ (i < beg - 1 \/ i >= n - (beg - 1)) THEN s[n - 1 - i] ELSE s[i]
        BY <2>3
      <4>2. (i < beg - 1 \/ i >= n - (beg - 1)) <=> (i < beg \/ i >= n - beg)
        BY <2>2, <3>3
      <4>3. QED
        BY <3>3, <4>1, <4>2
    <3>4. QED
      BY <3>1, <3>2, <3>3
  <2>8. part[beg] = [i \in 0 .. n |-> IF i < n /\ (i < beg \/ i >= n - beg) THEN s[n - 1 - i] ELSE s[i]]
    OBVIOUS
  <2>9. Swapped(old, beg) = part[beg]
    <3> HIDE DEF Swapped, part
    <3> QED  BY <2>6, <2>7, <2>8
  <2> HIDE DEF Swapped, part
  <2>10. QED
    BY <2>1, <2>9
<1>4. part[0] = s
  BY <1>2
<1>5. part = Eq(part)
  <2>1. \A beg \in 0 .. half : part[beg] = IF beg = 0 THEN s ELSE Swapped(part[beg - 1], beg)
    <3> HIDE DEF part, Swapped
    <3> QED  BY <1>3, <1>4
  <2>2. part = [beg \in 0 .. half |-> part[beg]]
    OBVIOUS
  <2> HIDE DEF part, Swapped
  <2>3. QED
    BY <2>1, <2>2
<1>6. rev = Eq(rev)
  <2> HIDE DEF part, Eq
  <2> QED  BY <1>5
<1>7. \A beg \in 0 .. half : rev[beg] = IF beg = 0 THEN s ELSE Swapped(rev[beg - 1], beg)
  <2> HIDE DEF rev, Swapped
  <2> QED  BY <1>6
<1> DEFINE same == {beg \in 0 .. half : rev[beg] = part[beg]}
<1>8. 0 .. half \subseteq same
  <2>1. 0 \in same
    <3> HIDE DEF rev, part, Swapped
    <3> QED  BY <1>2, <1>4, <1>7
  <2>2. ASSUME NEW beg \in 1 .. half, beg - 1 \in same
        PROVE  beg \in same
    <3>1. rev[beg - 1] = part[beg - 1] /\ beg \in 0 .. half /\ beg # 0
      BY <2>2
    <3> HIDE DEF rev, part, Swapped
    <3>2. rev[beg] = part[beg]
      BY <1>3, <1>7, <3>1
    <3>3. QED
      BY <3>1, <3>2
  <2> HIDE DEF same
  <2>3. QED
    BY <1>2, <2>1, <2>2, UpTo
<1>9. half \in same
  <2> HIDE DEF same
  <2> QED  BY <1>2, <1>8
<1>10. rev[half] = part[half] /\ half \in 0 .. half
  BY <1>2, <1>9
<1>12. part[half] = [i \in 0 .. n |-> IF i = n THEN 0 ELSE s[n - 1 - i]]
  <2>1. ASSUME NEW i \in 0 .. n
        PROVE  (IF i < n /\ (i < half \/ i >= n - half) THEN s[n - 1 - i] ELSE s[i])
                 = IF i = n THEN 0 ELSE s[n - 1 - i]
    <3>1. CASE i = n
      BY <3>1
    <3>2. CASE i # n /\ (i < half \/ i >= n - half)
      BY <3>2
    <3>3. CASE i # n /\ ~ (i < half \/ i >= n - half)
      <4>1. n - 1 - i = i
        BY <1>2, <3>3
      <4>2. QED
        BY <3>3, <4>1
    <3>4. QED
      BY <3>1, <3>2, <3>3
  <2>2. QED
    BY <1>10, <2>1
<1>13. QED
  <2> HIDE DEF rev, part
  <2> QED  BY <1>10, <1>20, <1>12

-----------------------------------------------------------------------------
(* Digits *)

\* No two digits are the same character.
LEMMA DifferentDigits == \A i, j \in 1 .. 16 : Digit[i] = Digit[j] => i = j
  BY DEF Digit

\* What the loop of itoa divides by, and the digit that is left.
LEMMA Division ==
  ASSUME NEW x \in Nat, NEW radix \in Nat, radix # 0
  PROVE  /\ x \div radix \in Nat /\ x % radix \in Nat /\ x % radix < radix
         /\ x = (radix * (x \div radix)) + (x % radix)
         /\ x < radix => x % radix = x
         /\ x \div radix = 0 => x < radix
<1>1. radix \in Nat \ {0}
  OBVIOUS
<1>2. x \div radix \in Nat /\ x % radix \in Nat /\ x % radix < radix
  BY <1>1
<1>3. x = (radix * (x \div radix)) + (x % radix)
  BY <1>1
<1>4. x \div radix = 0 => x < radix
  BY <1>1
<1>5. x < radix => x % radix = x
  BY <1>1
<1>6. QED
  BY <1>2, <1>3, <1>4, <1>5

\* The digits of a number in len places, given what is left of it at each.
DigitsOf(q, radix, len) == [i \in 1 .. len |-> Digit[(q[len - i] % radix) + 1]]

\* itoa writes the digits of the number in as many places as it divided.
LEMMA ItoaWrites ==
  ASSUME NEW value \in Nat, NEW radix \in Nat, radix > 1,
         NEW q, q = Quotients(value, radix), NEW n, n = Places(value, radix)
  PROVE  Puts(Itoa(value, radix)) = DigitsOf(q, radix, n)
<1>1. q \in [Nat -> Nat] /\ n \in Nat
  <2>1. radix # 0
    OBVIOUS
  <2>2. q \in [Nat -> Nat]
    BY <2>1, QuotientsAre
  <2>3. n \in Nat
    BY PlacesAre
  <2>4. QED
    BY <2>2, <2>3
<1>2. PICK low : low = [i \in 0 .. n |-> IF i = n THEN 0 ELSE (q[i] % radix) + 1]
  OBVIOUS
<1>3. \A i \in Nat : q[i] % radix \in Nat
  <2> TAKE i \in Nat
  <2>1. PICK x \in Nat : x = q[i]
    BY <1>1
  <2>2. radix # 0
    OBVIOUS
  <2>3. QED
    BY <2>1, <2>2, Division
<1>4. /\ low \in [0 .. n -> Nat] /\ low[n] = 0
      /\ \A j \in 0 .. n - 1 : low[j] = (q[j] % radix) + 1 /\ low[j] # 0
  <2>1. \A j \in 0 .. n : j \in Nat
    BY <1>1
  <2>2. \A j \in 0 .. n : (q[j] % radix) + 1 \in Nat \ {0}
    BY <1>3, <2>1
  <2>3. \A j \in 0 .. n : low[j] = IF j = n THEN 0 ELSE (q[j] % radix) + 1
    BY <1>2
  <2>4. low \in [0 .. n -> Nat]
    <3>1. low = [j \in 0 .. n |-> low[j]]
      BY <1>2
    <3>2. \A j \in 0 .. n : low[j] \in Nat
      <4> TAKE j \in 0 .. n
      <4>1. PICK x : x = (q[j] % radix) + 1
        OBVIOUS
      <4>2. x \in Nat
        BY <2>2, <4>1
      <4>3. QED
        BY <2>3, <4>1, <4>2
    <3>3. QED
      BY <3>1, <3>2
  <2>5. low[n] = 0
    BY <1>1, <2>3
  <2>6. ASSUME NEW j \in 0 .. n - 1
        PROVE  low[j] = (q[j] % radix) + 1 /\ low[j] # 0
    <3>1. j \in 0 .. n /\ j # n
      BY <1>1
    <3>2. PICK x : x = (q[j] % radix) + 1
      OBVIOUS
    <3>3. x # 0
      BY <2>2, <3>1, <3>2
    <3>4. QED
      BY <2>3, <3>1, <3>2, <3>3
  <2>7. QED
    BY <2>4, <2>5, <2>6
<1>5. PICK s : s = [i \in 0 .. n |-> IF i = n THEN 0 ELSE low[n - 1 - i]]
  OBVIOUS
<1>6. Itoa(value, radix) = s
  <2>1. Itoa(value, radix) = Strrev(low)
    BY <1>2 DEF Itoa
  <2>2. Strrev(low) = [i \in 0 .. n |-> IF i = n THEN 0 ELSE low[n - 1 - i]]
    <3>1. low \in [0 .. n -> Nat] /\ low[n] = 0 /\ \A j \in 0 .. n - 1 : low[j] # 0
      BY <1>4
    <3>2. QED
      BY <1>1, <3>1, StrrevIs, ZenonT(60)
  <2>3. QED
    BY <1>5, <2>1, <2>2
<1>7. Strlen(s) = n
  <2>1. s[n] = 0
    BY <1>1, <1>5
  <2>2. \A j \in 0 .. n - 1 : s[j] # 0
    <3>1. n \in Nat
      BY <1>1
    <3>2. \A j \in 0 .. n - 1 : n - 1 - j \in 0 .. n - 1 /\ j \in 0 .. n /\ j # n
      BY <3>1
    <3>3. \A j \in 0 .. n - 1 : s[j] = low[n - 1 - j]
      BY <1>5, <3>2
    <3>4. \A j \in 0 .. n - 1 : low[j] # 0
      BY <1>4
    <3>5. QED
      BY <3>2, <3>3, <3>4
  <2>3. QED
    BY <1>1, <2>1, <2>2, StrlenIs
<1>8. Puts(s) = [i \in 1 .. n |-> Digit[s[i - 1]]]
  BY <1>7 DEF Puts
<1>9. \A i \in 1 .. n : s[i - 1] = (q[n - i] % radix) + 1
  <2>1. \A i \in 1 .. n : i - 1 \in 0 .. n - 1 /\ n - 1 - (i - 1) = n - i /\ n - i \in 0 .. n - 1
    BY <1>1
  <2>2. \A i \in 1 .. n : s[i - 1] = low[n - i]
    <3> TAKE i \in 1 .. n
    <3>1. PICK j : j = i - 1
      OBVIOUS
    <3>2. j \in 0 .. n /\ j # n /\ n - 1 - j = n - i
      BY <1>1, <2>1, <3>1
    <3>3. s[j] = low[n - 1 - j]
      BY <1>5, <3>2
    <3>4. QED
      BY <3>1, <3>2, <3>3
  <2>3. QED
    BY <1>4, <2>1, <2>2
<1>10. Puts(s) = DigitsOf(q, radix, n)
  BY <1>8, <1>9 DEF DigitsOf
<1>11. QED
  BY <1>6, <1>10

\* Read as a number they are the number, with zeros in front of them as without.
LEMMA DigitsRead ==
  ASSUME NEW value \in Nat, NEW radix \in Nat, radix > 1, radix <= 16,
         NEW q, q = Quotients(value, radix), NEW len \in Nat, q[len] = 0
  PROVE  Value(DigitsOf(q, radix, len), radix) = value
<1>1. q \in [Nat -> Nat] /\ q[0] = value /\ \A i \in Nat : q[i + 1] = q[i] \div radix
  <2>1. radix # 0
    OBVIOUS
  <2>2. /\ Quotients(value, radix) \in [Nat -> Nat]
        /\ Quotients(value, radix)[0] = value
        /\ \A i \in Nat : Quotients(value, radix)[i + 1] = Quotients(value, radix)[i] \div radix
    BY <2>1, QuotientsAre
  <2>3. QED
    BY <2>2
<1>2. PICK digits : digits = DigitsOf(q, radix, len)
  OBVIOUS
<1>3. Len(digits) = len
  BY <1>2 DEF DigitsOf
<1> DEFINE d(i)   == (CHOOSE k \in 1 .. 16 : Digit[k] = digits[i]) - 1
           Eq(f)  == [i \in 0 .. len |-> IF i = 0 THEN 0 ELSE radix * f[i - 1] + d(i)]
           left   == [i \in 0 .. len |-> q[len - i]]
           v      == CHOOSE f : f = Eq(f)
<1>4. Value(digits, radix) = v[len]
  <2> DEFINE Result(m) == (CHOOSE f : f = [i \in 0 .. m |->
               IF i = 0 THEN 0
               ELSE radix * f[i - 1] + ((CHOOSE k \in 1 .. 16 : Digit[k] = digits[i]) - 1)])[m]
  <2>1. Value(digits, radix) = Result(Len(digits))
    BY DEF Value
  <2>2. Result(Len(digits)) = Result(len)
    <3> HIDE DEF Result
    <3> QED  BY <1>3
  <2>3. Result(len) = v[len]
    OBVIOUS
  <2> HIDE DEF Result, v
  <2>4. QED
    BY <2>1, <2>2, <2>3
<1>5. ASSUME NEW i \in 1 .. len
      PROVE  d(i) = q[len - i] % radix
  <2>1. len - i \in Nat
    OBVIOUS
  <2>2. PICK x \in Nat : x = q[len - i]
    BY <1>1, <2>1
  <2>3. PICK r \in Nat : r = x % radix /\ r < radix
    <3>1. radix # 0
      OBVIOUS
    <3>2. QED
      BY <3>1, Division
  <2>4. digits[i] = Digit[(q[len - i] % radix) + 1]
    BY <1>2 DEF DigitsOf
  <2>5. r + 1 \in 1 .. 16 /\ digits[i] = Digit[r + 1]
    BY <2>2, <2>3, <2>4
  <2>6. PICK k \in 1 .. 16 : k = (CHOOSE h \in 1 .. 16 : Digit[h] = digits[i]) /\ Digit[k] = digits[i]
    BY <2>5
  <2>7. k = r + 1
    BY <2>5, <2>6, DifferentDigits
  <2>8. d(i) = k - 1
    BY <2>6
  <2> HIDE DEF d
  <2>9. QED
    BY <2>2, <2>3, <2>7, <2>8
<1> HIDE DEF d
<1>6. ASSUME NEW i \in 0 .. len, i # 0
      PROVE  radix * left[i - 1] + d(i) = left[i]
  <2>1. /\ i - 1 \in 0 .. len /\ i \in 1 .. len /\ len - i \in Nat
        /\ len - (i - 1) = (len - i) + 1
    BY <1>6
  <2>2. PICK x \in Nat : x = q[len - i]
    BY <1>1, <2>1
  <2>3. left[i - 1] = q[(len - i) + 1] /\ left[i] = x
    BY <2>1, <2>2
  <2>4. left[i - 1] = x \div radix
    BY <1>1, <2>1, <2>2, <2>3
  <2>5. d(i) = x % radix
    BY <1>5, <2>1, <2>2
  <2>6. x = (radix * (x \div radix)) + (x % radix)
    OBVIOUS
  <2> HIDE DEF left
  <2>7. QED
    BY <2>3, <2>4, <2>5, <2>6
<1>7. left[0] = 0
  BY <1>1
<1>8. left = Eq(left)
  <2>1. \A i \in 0 .. len : left[i] = IF i = 0 THEN 0 ELSE radix * left[i - 1] + d(i)
    <3> HIDE DEF left
    <3> QED  BY <1>6, <1>7
  <2>2. left = [i \in 0 .. len |-> left[i]]
    OBVIOUS
  <2> HIDE DEF left
  <2>3. QED
    BY <2>1, <2>2
<1>9. v = Eq(v)
  <2> HIDE DEF left, Eq
  <2> QED  BY <1>8
<1>10. \A i \in 0 .. len : v[i] = IF i = 0 THEN 0 ELSE radix * v[i - 1] + d(i)
  <2> HIDE DEF v
  <2> QED  BY <1>9
<1> DEFINE same == {i \in 0 .. len : v[i] = left[i]}
<1>11. 0 .. len \subseteq same
  <2>1. 0 \in same
    <3> HIDE DEF v, left
    <3> QED  BY <1>7, <1>10
  <2>2. ASSUME NEW i \in 1 .. len, i - 1 \in same
        PROVE  i \in same
    <3>1. v[i - 1] = left[i - 1] /\ i \in 0 .. len /\ i # 0
      BY <2>2
    <3> HIDE DEF v, left
    <3>2. v[i] = left[i]
      BY <1>6, <1>10, <3>1
    <3>3. QED
      BY <3>1, <3>2
  <2> HIDE DEF same
  <2>3. QED
    BY <2>1, <2>2, UpTo
<1>12. len \in same
  <2> HIDE DEF same
  <2> QED  BY <1>11
<1>13. v[len] = value
  <2>1. v[len] = left[len]
    BY <1>12
  <2>2. left[len] = q[len - len] /\ len - len = 0
    OBVIOUS
  <2> HIDE DEF v, left
  <2>3. QED
    BY <1>1, <2>1, <2>2
<1>14. QED
  <2> HIDE DEF v
  <2> QED  BY <1>2, <1>4, <1>13

\* What itoa prints, read as a number, is the number, and begins with no zero.
LEMMA NumberPrinted ==
  ASSUME NEW value \in Nat, NEW radix \in Nat, radix > 1, radix <= 16
  PROVE  /\ Value(Puts(Itoa(value, radix)), radix) = value
         /\ NoLeadingZero(Puts(Itoa(value, radix)))
<1>1. PICK q, n : q = Quotients(value, radix) /\ n = Places(value, radix)
  OBVIOUS
<1>2. /\ n \in Nat /\ n # 0 /\ q[n] = 0
      /\ value = 0 => n = 1
      /\ value # 0 => q[n - 1] # 0
  BY <1>1, PlacesAre
<1>3. q \in [Nat -> Nat] /\ \A i \in Nat : q[i + 1] = q[i] \div radix
  <2>1. radix # 0
    OBVIOUS
  <2>2. QED
    BY <1>1, <2>1, QuotientsAre, ZenonT(60)
<1>4. Puts(Itoa(value, radix)) = DigitsOf(q, radix, n)
  BY <1>1, ItoaWrites
<1>5. Value(DigitsOf(q, radix, n), radix) = value
  BY <1>1, <1>2, DigitsRead
<1>6. ASSUME n > 1
      PROVE  DigitsOf(q, radix, n)[1] # Digit[1]
  <2>1. n - 1 \in Nat /\ (n - 1) + 1 = n /\ q[n - 1] # 0
    BY <1>2, <1>6
  <2>2. PICK x \in Nat : x = q[n - 1] /\ x # 0 /\ x \div radix = 0
    BY <1>2, <1>3, <2>1
  <2>3. x < radix
    BY <2>2
  <2>4. x % radix = x
    <3>1. radix # 0
      OBVIOUS
    <3>2. QED
      BY <2>3, <3>1, Division
  <2>5. x + 1 \in 1 .. 16 /\ x + 1 # 1
    BY <2>2, <2>3
  <2>6. DigitsOf(q, radix, n)[1] = Digit[x + 1]
    <3>1. 1 \in 1 .. n
      BY <1>2, <1>6
    <3>2. DigitsOf(q, radix, n)[1] = Digit[(q[n - 1] % radix) + 1]
      BY <3>1 DEF DigitsOf
    <3>3. QED
      BY <2>2, <2>4, <3>2
  <2>7. QED
    BY <2>5, <2>6, DifferentDigits
<1>7. Len(DigitsOf(q, radix, n)) = n
  BY <1>2 DEF DigitsOf
<1>8. Digit[1] = "0"
  BY DEF Digit
<1>9. NoLeadingZero(DigitsOf(q, radix, n))
  BY <1>6, <1>7, <1>8, Zenon DEF NoLeadingZero
<1>10. QED
  BY <1>4, <1>5, <1>9

-----------------------------------------------------------------------------
(* Words *)

\* A word has at least one hexadecimal digit.
LEMMA HexWidthIs == HexWidth \in Nat /\ HexWidth >= 1
<1>1. WordBits \in Nat /\ WordBits # 0 /\ WordBits % 4 = 0
  BY KernelLibAssumption
<1>2. QED
  BY <1>1 DEF HexWidth

\* The number of words, one hexadecimal digit after the other.
LEMMA WordCountIs ==
  \E count \in [Nat -> Nat] :
    count[0] = 1 /\ (\A i \in Nat : count[i + 1] = 16 * count[i]) /\ WordCount = count[HexWidth]
<1> DEFINE Eq(f) == [n \in Nat |-> IF n = 0 THEN 1 ELSE 16 * f[n - 1]]
           step  == [x \in Nat |-> 16 * x]
           count == CHOOSE f : f = Eq(f)
<1>1. step \in [Nat -> Nat]
  OBVIOUS
<1>2. PICK f \in [Nat -> Nat] : f = [i \in Nat |-> IF i = 0 THEN 1 ELSE step[f[i - 1]]]
  <2> HIDE DEF step
  <2>1. PICK one \in Nat : one = 1
    OBVIOUS
  <2>2. \E f \in [Nat -> Nat] : f = [i \in Nat |-> IF i = 0 THEN one ELSE step[f[i - 1]]]
    BY <1>1, IterationExists
  <2>3. QED
    BY <2>1, <2>2
<1>3. f = Eq(f)
  <2>1. \A i \in Nat : i # 0 => step[f[i - 1]] = 16 * f[i - 1]
    OBVIOUS
  <2> HIDE DEF step
  <2>2. QED
    BY <1>2, <2>1
<1>4. count = Eq(count)
  <2> HIDE DEF Eq
  <2> QED  BY <1>3
<1>5. \A i \in Nat : count[i] = IF i = 0 THEN 1 ELSE 16 * count[i - 1]
  <2> HIDE DEF count
  <2> QED  BY <1>4
<1>6. count[0] = 1 /\ \A i \in Nat : count[i + 1] = 16 * count[i]
  <2>1. \A i \in Nat : i + 1 \in Nat /\ i + 1 # 0 /\ (i + 1) - 1 = i
    OBVIOUS
  <2> HIDE DEF count
  <2>2. QED
    BY <1>5, <2>1
<1>7. \A n \in Nat : count[n] \in Nat
  <2> TAKE n \in Nat
  <2> DEFINE nat == {i \in 0 .. n : count[i] \in Nat}
  <2>1. 0 \in nat
    <3> HIDE DEF count
    <3> QED  BY <1>6
  <2>2. ASSUME NEW i \in 1 .. n, i - 1 \in nat
        PROVE  i \in nat
    <3>1. i - 1 \in Nat /\ (i - 1) + 1 = i /\ count[i - 1] \in Nat
      BY <2>2
    <3> HIDE DEF count
    <3>2. count[i] = 16 * count[i - 1]
      BY <1>6, <3>1
    <3>3. QED
      BY <3>1, <3>2
  <2>3. 0 .. n \subseteq nat
    <3> HIDE DEF nat
    <3> QED  BY <2>1, <2>2, UpTo
  <2>4. n \in nat
    <3> HIDE DEF nat
    <3> QED  BY <2>3
  <2>5. QED
    BY <2>4
<1>8. count \in [Nat -> Nat]
  <2> HIDE DEF count
  <2>1. DOMAIN count = Nat /\ count = [i \in DOMAIN count |-> count[i]]
    BY <1>4
  <2>2. QED
    BY <1>7, <2>1
<1>9. WordCount = count[HexWidth]
  BY DEF WordCount
<1>10. QED
  <2> HIDE DEF count
  <2> QED  BY <1>6, <1>8, <1>9

\* The two radixes that are printed.
Divided(value, radix, q, n) ==
  /\ q \in [Nat -> Nat] /\ q[0] = value /\ \A i \in Nat : q[i + 1] = q[i] \div radix
  /\ n \in Nat /\ n # 0 /\ q[n] = 0
  /\ value = 0 => n = 1
  /\ value # 0 => q[n - 1] # 0
  /\ \A k, m \in Nat : q[k] = 0 => q[k + m] = 0
  /\ Puts(Itoa(value, radix)) = DigitsOf(q, radix, n)

LEMMA NumberDivided ==
  ASSUME NEW value \in Nat, NEW radix \in {10, 16}, NEW q, q = Quotients(value, radix),
         NEW n, n = Places(value, radix)
  PROVE  Divided(value, radix, q, n)
<1>1. radix \in Nat /\ radix # 0 /\ radix > 1
  OBVIOUS
<1>2. q \in [Nat -> Nat] /\ q[0] = value /\ \A i \in Nat : q[i + 1] = q[i] \div radix
  <2>1. /\ Quotients(value, radix) \in [Nat -> Nat]
        /\ Quotients(value, radix)[0] = value
        /\ \A i \in Nat : Quotients(value, radix)[i + 1] = Quotients(value, radix)[i] \div radix
    BY <1>1, QuotientsAre, ZenonT(60)
  <2>2. QED
    BY <2>1
<1>3. /\ n \in Nat /\ n # 0 /\ q[n] = 0
      /\ value = 0 => n = 1
      /\ value # 0 => q[n - 1] # 0
  BY <1>1, PlacesAre
<1>4. \A k, m \in Nat : q[k] = 0 => q[k + m] = 0
  BY <1>1, QuotientsEnd
<1>5. Puts(Itoa(value, radix)) = DigitsOf(q, radix, n)
  BY <1>1, ItoaWrites
<1>6. QED
  BY <1>2, <1>3, <1>4, <1>5 DEF Divided

\* A word has no more than HexWidth hexadecimal digits.
LEMMA WordEnds ==
  ASSUME NEW word \in Nat, word < WordCount, NEW q, q = Quotients(word, 16)
  PROVE  q[HexWidth] = 0 /\ Places(word, 16) <= HexWidth
<1>0. PICK n : n = Places(word, 16)
  OBVIOUS
<1>1. Divided(word, 16, q, n)
  BY <1>0, NumberDivided
<1>2. PICK count \in [Nat -> Nat] :
        count[0] = 1 /\ (\A i \in Nat : count[i + 1] = 16 * count[i]) /\ WordCount = count[HexWidth]
  BY WordCountIs
<1>3. HexWidth \in Nat /\ HexWidth >= 1
  BY HexWidthIs
<1>4. /\ q \in [Nat -> Nat] /\ q[0] = word /\ \A i \in Nat : q[i + 1] = q[i] \div 16
      /\ n \in Nat /\ n # 0 /\ (word = 0 => n = 1) /\ (word # 0 => q[n - 1] # 0)
      /\ \A k, m \in Nat : q[k] = 0 => q[k + m] = 0
  BY <1>1 DEF Divided
<1>5. PICK w \in Nat : w = HexWidth /\ w >= 1
  BY <1>3
<1>6. q[w] = 0
  <2> DEFINE small == {i \in 0 .. w : q[i] < count[w - i]}
  <2>1. 0 \in small
    <3>1. w - 0 = w
      OBVIOUS
    <3>2. QED
      BY <1>2, <1>4, <1>5, <3>1, SMTT(30)
  <2>2. ASSUME NEW i \in 1 .. w, i - 1 \in small
        PROVE  i \in small
    <3>1. PICK j \in Nat, k \in Nat : j = i - 1 /\ i = j + 1 /\ k = w - i /\ w - j = k + 1
      OBVIOUS
    <3>2. q[j] < count[k + 1]
      BY <2>2, <3>1
    <3>3. PICK x \in Nat, y \in Nat : x = q[j] /\ y = count[k] /\ q[i] = x \div 16 /\ count[k + 1] = 16 * y
      <4>1. q[j] \in Nat /\ q[j + 1] = q[j] \div 16
        BY <1>4
      <4>2. count[k] \in Nat /\ count[k + 1] = 16 * count[k]
        BY <1>2
      <4>3. QED
        BY <3>1, <4>1, <4>2
    <3>4. x \div 16 < y
      BY <3>2, <3>3
    <3>5. QED
      BY <3>1, <3>3, <3>4
  <2>3. 0 .. w \subseteq small
    <3> HIDE DEF small
    <3> QED  BY <2>1, <2>2, UpTo
  <2>4. w \in small /\ w - w = 0
    <3> HIDE DEF small
    <3> QED  BY <2>3
  <2>5. q[w] < 1 /\ q[w] \in Nat
    BY <1>2, <1>4, <2>4
  <2>6. QED
    BY <2>5
<1>7. n <= w
  <2>1. CASE word = 0
    BY <1>4, <1>5, <2>1
  <2>2. CASE word # 0
    <3>1. SUFFICES ASSUME n > w PROVE FALSE
      BY <1>4
    <3>2. PICK m \in Nat : w + m = n - 1
      <4>1. n - 1 - w \in Nat /\ w + (n - 1 - w) = n - 1
        BY <1>4, <3>1
      <4>2. QED
        BY <4>1
    <3>3. q[w + m] = 0
      BY <1>4, <1>6
    <3>4. QED
      BY <1>4, <2>2, <3>2, <3>3
  <2>3. QED
    BY <2>1, <2>2
<1>8. QED
  BY <1>0, <1>5, <1>6, <1>7

\* With zeros in front, the digits of a word in all its places.
LEMMA PaddedHexIs ==
  ASSUME NEW word \in Nat, word < WordCount, NEW q, q = Quotients(word, 16)
  PROVE  PrintPaddedHex(word) = DigitsOf(q, 16, HexWidth)
<1>1. PICK w \in Nat : w = HexWidth
  BY HexWidthIs
<1>2. PICK n \in Nat :
        /\ n = Places(word, 16) /\ n <= w /\ q[n] = 0
        /\ \A k, m \in Nat : q[k] = 0 => q[k + m] = 0
        /\ Puts(Itoa(word, 16)) = DigitsOf(q, 16, n)
  <2>1. PICK n : n = Places(word, 16)
    OBVIOUS
  <2>2. Divided(word, 16, q, n)
    BY <2>1, NumberDivided
  <2>3. n <= w
    BY <1>1, <2>1, WordEnds
  <2>4. QED
    BY <2>1, <2>2, <2>3 DEF Divided
<1>3. PICK hex : hex = DigitsOf(q, 16, n)
  OBVIOUS
<1>4. PrintHex(word) = hex
  BY <1>2, <1>3 DEF PrintHex
<1>5. hex = [i \in 1 .. n |-> Digit[(q[n - i] % 16) + 1]]
  BY <1>3 DEF DigitsOf
<1>6. PICK S : S = {hex[i] : i \in 1 .. n} \cup {"0"}
  OBVIOUS
<1>7. hex \in Seq(S) /\ Len(hex) = n
  <2>1. hex \in [1 .. n -> S]
    BY <1>5, <1>6
  <2>2. QED
    BY <2>1
<1>8. PICK z \in Nat : z = w - n
  BY <1>2
<1>9. PICK zeros : zeros = [i \in 1 .. z |-> "0"]
  OBVIOUS
<1>10. zeros \in Seq(S) /\ Len(zeros) = z
  <2>1. zeros \in [1 .. z -> S]
    BY <1>6, <1>9
  <2>2. QED
    BY <2>1
<1>11. PrintPaddedHex(word) = zeros \o hex
  BY <1>1, <1>4, <1>7, <1>8, <1>9 DEF PrintPaddedHex
<1>12. zeros \o hex = [i \in 1 .. w |-> (zeros \o hex)[i]]
  <2>1. zeros \o hex \in Seq(S) /\ Len(zeros \o hex) = z + n
    BY <1>7, <1>10
  <2>2. z + n = w
    BY <1>8
  <2>3. PICK cat \in Seq(S) : cat = zeros \o hex
    BY <2>1
  <2>4. cat \in [1 .. w -> S]
    <3>1. cat \in [1 .. Len(cat) -> S]
      BY LenProperties
    <3>2. Len(cat) = w
      BY <2>1, <2>2, <2>3
    <3>3. QED
      BY <3>1, <3>2
  <2>5. QED
    BY <2>3, <2>4
<1>13. ASSUME NEW i \in 1 .. w
       PROVE  (zeros \o hex)[i] = Digit[(q[w - i] % 16) + 1]
  <2>1. CASE i <= z
    <3>1. (zeros \o hex)[i] = "0"
      BY <1>7, <1>9, <1>10, <2>1
    <3>2. PICK m \in Nat : n + m = w - i
      <4>1. w - i - n \in Nat /\ n + (w - i - n) = w - i
        BY <1>8, <2>1
      <4>2. QED
        BY <4>1
    <3>3. q[n + m] = 0
      BY <1>2
    <3>4. q[w - i] % 16 = 0
      BY <3>2, <3>3
    <3>5. Digit[1] = "0"
      BY DEF Digit
    <3>6. QED
      BY <3>1, <3>4, <3>5
  <2>2. CASE i > z
    <3>1. PICK j \in 1 .. n : j = i - z /\ n - j = w - i
      <4>1. i - z \in 1 .. n /\ n - (i - z) = w - i
        BY <1>8, <2>2
      <4>2. QED
        BY <4>1
    <3>2. (zeros \o hex)[i] = hex[j]
      BY <1>7, <1>10, <2>2, <3>1, SMTT(30)
    <3>3. hex[j] = Digit[(q[n - j] % 16) + 1]
      BY <1>5
    <3>4. QED
      BY <3>1, <3>2, <3>3
  <2>3. i <= z \/ i > z
    OBVIOUS
  <2>4. QED
    BY <2>1, <2>2, <2>3
<1>14. QED
  BY <1>1, <1>11, <1>12, <1>13 DEF DigitsOf

\* A number is printed with at least one digit, and that is no sign.
LEMMA NoSign ==
  ASSUME NEW value \in Nat, NEW d, d = PrintUnsigned(value)
  PROVE  d[1] # "-" /\ \E S : d \in Seq(S)
<1>1. PICK q : q = Quotients(value, 10)
  OBVIOUS
<1>2. PICK n : n = Places(value, 10)
  OBVIOUS
<1>3. n \in Nat /\ n # 0 /\ q \in [Nat -> Nat] /\ d = DigitsOf(q, 10, n)
  <2>1. Divided(value, 10, q, n)
    BY <1>1, <1>2, NumberDivided
  <2>2. QED
    BY <2>1 DEF Divided, PrintUnsigned
<1>4. d = [i \in 1 .. n |-> Digit[(q[n - i] % 10) + 1]]
  BY <1>3 DEF DigitsOf
<1>5. PICK S : S = {d[i] : i \in 1 .. n}
  OBVIOUS
<1>6. d \in Seq(S)
  <2>1. d \in [1 .. n -> S]
    BY <1>4, <1>5
  <2>2. QED
    BY <1>3, <2>1
<1>7. 1 \in 1 .. n /\ n - 1 \in Nat
  BY <1>3
<1>8. PICK x \in Nat : x = q[n - 1]
  BY <1>3, <1>7
<1>9. (x % 10) + 1 \in 1 .. 16
  OBVIOUS
<1>10. \A k \in 1 .. 16 : Digit[k] # "-"
  BY DEF Digit
<1>11. d[1] # "-"
  BY <1>4, <1>7, <1>8, <1>9, <1>10
<1>12. QED
  BY <1>6, <1>11

\* %d prints a word from the upper half as the number it is short of the next one.
LEMMA SignedPrinted ==
  ASSUME NEW word \in Nat, word < WordCount, NEW d, d = PrintSigned(word)
  PROVE  IF d[1] = "-" THEN Value(Tail(d), 10) = WordCount - word ELSE Value(d, 10) = word
<1>1. PICK count \in Nat : count = WordCount
  BY WordCountIs, HexWidthIs
<1>2. ASSUME word >= WordCount \div 2
      PROVE  d[1] = "-" /\ Value(Tail(d), 10) = WordCount - word
  <2>1. PICK value \in Nat : value = WordCount - word
    <3>1. count - word \in Nat
      BY <1>1
    <3>2. QED
      BY <1>1, <3>1
  <2>2. PICK digits : digits = PrintUnsigned(value)
    OBVIOUS
  <2>3. d = <<"-">> \o digits
    BY <1>2, <2>1, <2>2 DEF PrintSigned
  <2>4. PICK S : digits \in Seq(S)
    BY <2>2, NoSign
  <2>5. d[1] = "-" /\ Tail(d) = digits
    BY <2>3, <2>4
  <2>6. Value(digits, 10) = value
    BY <2>2, NumberPrinted DEF PrintUnsigned
  <2>7. QED
    BY <2>1, <2>5, <2>6
<1>3. ASSUME ~ (word >= WordCount \div 2)
      PROVE  d[1] # "-" /\ Value(d, 10) = word
  <2>1. d = PrintUnsigned(word)
    BY <1>3 DEF PrintSigned
  <2>2. d[1] # "-"
    BY <2>1, NoSign
  <2>3. Value(d, 10) = word
    BY <2>1, NumberPrinted DEF PrintUnsigned
  <2>4. QED
    BY <2>2, <2>3
<1>4. QED
  BY <1>2, <1>3

\* What printf prints for %x, %#x, %u and %d, read as a number, is the number, for every
\* word of every width that is a multiple of four bits (printf, itoa).
LEMMA NumbersPrintedHold == NumbersPrinted
<1>1. PICK count \in Nat : count = WordCount
  BY WordCountIs, HexWidthIs
<1>2. SUFFICES ASSUME NEW word \in 0 .. WordCount - 1, NEW d, d = PrintSigned(word)
      PROVE  /\ Value(PrintHex(word), 16) = word /\ NoLeadingZero(PrintHex(word))
             /\ Value(PrintUnsigned(word), 10) = word /\ NoLeadingZero(PrintUnsigned(word))
             /\ Len(PrintPaddedHex(word)) = HexWidth /\ Value(PrintPaddedHex(word), 16) = word
             /\ IF d[1] = "-" THEN Value(Tail(d), 10) = WordCount - word ELSE Value(d, 10) = word
  BY DEF NumbersPrinted
<1>3. word \in Nat /\ word < WordCount
  BY <1>1
<1>4. Value(PrintHex(word), 16) = word /\ NoLeadingZero(PrintHex(word))
  BY <1>3, NumberPrinted DEF PrintHex
<1>5. Value(PrintUnsigned(word), 10) = word /\ NoLeadingZero(PrintUnsigned(word))
  BY <1>3, NumberPrinted DEF PrintUnsigned
<1>6. PICK q : q = Quotients(word, 16)
  OBVIOUS
<1>7. PICK w \in Nat : w = HexWidth
  BY HexWidthIs
<1>8. q[w] = 0 /\ PrintPaddedHex(word) = DigitsOf(q, 16, w)
  BY <1>3, <1>6, <1>7, WordEnds, PaddedHexIs
<1>9. Len(PrintPaddedHex(word)) = HexWidth
  BY <1>7, <1>8 DEF DigitsOf
<1>10. Value(PrintPaddedHex(word), 16) = word
  BY <1>3, <1>6, <1>7, <1>8, DigitsRead
<1>11. IF d[1] = "-" THEN Value(Tail(d), 10) = WordCount - word ELSE Value(d, 10) = word
  BY <1>2, <1>3, SignedPrinted
<1>12. QED
  BY <1>4, <1>5, <1>9, <1>10, <1>11

\* For every memory, every string and every width of a word: memset and memmove do what
\* they say at every alignment, and memcpy when it copies downwards or the blocks are
\* apart; strncmp and strncpy agree on where strings end; and what printf prints for
\* every word, read as a number, is the number (lib.c).
THEOREM LibraryFunctionsHold == Spec => []LibraryFunctions
<1>1. LibraryFunctions
  BY MemoryFunctionsHold, StringFunctionsHold, NumbersPrintedHold DEF LibraryFunctions
<1>2. QED
  BY <1>1, PTL

-----------------------------------------------------------------------------
(* Where a command is cut *)

\* Where a command is cut: its name from a up to b, its arguments from c up to l.
Cuts(s, a, b, c, l) ==
  /\ l \in Nat /\ a \in 0 .. l /\ b \in a .. l /\ c \in b .. l
  /\ 0 .. l \subseteq DOMAIN s /\ Strlen(s) = l /\ s[l] = 0
  /\ \A j \in 0 .. l : s[j] \in Nat
  /\ \A j \in 0 .. l - 1 : s[j] # 0
  /\ AfterSpaces(s, 0) = a /\ s[a] # space
  /\ \A j \in 0 .. a - 1 : s[j] = space
  /\ AfterWord(s, a) = b /\ s[b] \in {0, space}
  /\ \A j \in a .. b - 1 : s[j] \notin {0, space}
  /\ c = (IF s[b] = 0 THEN b ELSE AfterSpaces(s, b + 1)) /\ s[c] # space
  /\ \A j \in b .. c - 1 : s[j] = space

\* The first position from i on that is in a set.
LEMMA FirstFrom ==
  ASSUME NEW n \in Nat, NEW i \in 0 .. n, NEW S, n \in S
  PROVE  \E k \in i .. n : k \in S /\ \A j \in i .. k - 1 : j \notin S
<1> DEFINE T == {k \in Nat : k >= i /\ k \in S}
<1>1. n \in T
  OBVIOUS
<1>2. PICK k \in 0 .. n : k \in T /\ \A j \in 0 .. k - 1 : j \notin T
  <2> HIDE DEF T
  <2> QED  BY <1>1, First
<1>3. k \in i .. n /\ k \in S
  BY <1>2
<1>4. ASSUME NEW j \in i .. k - 1
      PROVE  j \notin S
  <2>1. j \in 0 .. k - 1 /\ j \in Nat /\ j >= i
    OBVIOUS
  <2>2. j \notin T
    <3> HIDE DEF T
    <3> QED  BY <1>2, <2>1
  <2>3. QED
    BY <2>1, <2>2
<1>5. QED
  BY <1>3, <1>4

\* The spaces of a string end before it does.
LEMMA SpacesEnd ==
  ASSUME NEW s, NEW n \in Nat, NEW i \in 0 .. n, s[n] # space
  PROVE  \E k \in i .. n : s[k] # space /\ (\A j \in i .. k - 1 : s[j] = space) /\ AfterSpaces(s, i) = k
<1> DEFINE S == {k \in Nat : s[k] # space}
<1>1. n \in S
  OBVIOUS
<1>2. PICK k \in i .. n : k \in S /\ \A j \in i .. k - 1 : j \notin S
  <2> HIDE DEF S
  <2> QED  BY <1>1, FirstFrom
<1>3. s[k] # space /\ i \in Nat /\ k \in Nat /\ i <= k
  BY <1>2
<1>4. \A j \in i .. k - 1 : s[j] = space
  <2> TAKE j \in i .. k - 1
  <2>1. j \in Nat
    OBVIOUS
  <2>2. j \notin S
    <3> HIDE DEF S
    <3> QED  BY <1>2
  <2>3. QED
    BY <2>1, <2>2
<1>5. AfterSpaces(s, i) = k
  BY <1>3, <1>4, AfterSpacesIs
<1>6. QED
  BY <1>3, <1>4, <1>5

\* And so does a word, or with it.
LEMMA WordEnd ==
  ASSUME NEW s, NEW n \in Nat, NEW i \in 0 .. n, s[n] = 0
  PROVE  \E k \in i .. n :
           /\ s[k] \in {0, space} /\ (\A j \in i .. k - 1 : s[j] \notin {0, space})
           /\ AfterWord(s, i) = k
<1> DEFINE S == {k \in Nat : s[k] \in {0, space}}
<1>1. n \in S
  OBVIOUS
<1>2. PICK k \in i .. n : k \in S /\ \A j \in i .. k - 1 : j \notin S
  <2> HIDE DEF S
  <2> QED  BY <1>1, FirstFrom
<1>3. s[k] \in {0, space} /\ i \in Nat /\ k \in Nat /\ i <= k
  BY <1>2
<1>4. \A j \in i .. k - 1 : s[j] \notin {0, space}
  <2> TAKE j \in i .. k - 1
  <2>1. j \in Nat
    OBVIOUS
  <2>2. j \notin S
    <3> HIDE DEF S
    <3> QED  BY <1>2
  <2>3. QED
    BY <2>1, <2>2
<1>5. AfterWord(s, i) = k
  BY <1>3, <1>4, AfterWordIs
<1>6. QED
  BY <1>3, <1>4, <1>5

\* Every command can be cut like that.
LEMMA CommandCut ==
  ASSUME NEW s, IsString(s)
  PROVE  \E a, b, c, l : Cuts(s, a, b, c, l)
<1>1. PICK n \in Nat : s \in [0 .. n -> Nat] /\ s[n] = 0
  <2>1. PICK n \in DOMAIN s : s \in [0 .. n -> Nat] /\ s[n] = 0
    BY DEF IsString
  <2>2. n \in 0 .. n
    BY <2>1
  <2>3. n \in Nat
    BY <2>2
  <2>4. QED
    BY <2>1, <2>3
<1>2. PICK l \in 0 .. n : s[l] = 0 /\ (\A j \in 0 .. l - 1 : s[j] # 0) /\ Strlen(s) = l
  BY <1>1, StringEnds
<1>3. /\ l \in Nat /\ 0 \in 0 .. l /\ s[l] # space /\ 0 .. l \subseteq DOMAIN s
      /\ \A j \in 0 .. l : s[j] \in Nat
  <2>1. space # 0
    BY ProgramsAssumption
  <2>2. QED
    BY <1>1, <1>2, <2>1
<1>4. PICK a \in 0 .. l :
        s[a] # space /\ (\A j \in 0 .. a - 1 : s[j] = space) /\ AfterSpaces(s, 0) = a
  BY <1>3, SpacesEnd
<1>5. PICK b \in a .. l :
        /\ s[b] \in {0, space} /\ (\A j \in a .. b - 1 : s[j] \notin {0, space})
        /\ AfterWord(s, a) = b
  BY <1>2, <1>3, WordEnd
<1>6. b \in 0 .. l /\ b \in Nat
  BY <1>3
<1>7. PICK c \in b .. l :
        /\ c = (IF s[b] = 0 THEN b ELSE AfterSpaces(s, b + 1)) /\ s[c] # space
        /\ \A j \in b .. c - 1 : s[j] = space
  <2>1. CASE s[b] = 0
    <3>1. s[b] # space
      BY <2>1, ProgramsAssumption
    <3>2. b \in b .. l /\ \A j \in b .. b - 1 : s[j] = space
      BY <1>3, <1>6
    <3>3. QED
      BY <2>1, <3>1, <3>2
  <2>2. CASE s[b] # 0
    <3>1. s[b] = space
      BY <1>5, <2>2
    <3>2. b # l
      BY <1>2, <2>2
    <3>3. PICK i : i = b + 1
      OBVIOUS
    <3>4. i \in 0 .. l
      BY <1>3, <1>6, <3>2, <3>3
    <3>5. PICK c \in i .. l :
            s[c] # space /\ (\A j \in i .. c - 1 : s[j] = space) /\ AfterSpaces(s, i) = c
      BY <1>3, <3>4, SpacesEnd
    <3>6. c \in b .. l /\ \A j \in b .. c - 1 : j = b \/ j \in i .. c - 1
      BY <1>3, <1>6, <3>3, <3>4
    <3>7. \A j \in b .. c - 1 : s[j] = space
      BY <3>1, <3>5, <3>6
    <3>8. QED
      BY <2>2, <3>3, <3>5, <3>6, <3>7
  <2>3. QED
    BY <2>1, <2>2
<1>8. QED
  BY <1>2, <1>3, <1>4, <1>5, <1>7 DEF Cuts

\* exec_name is the name, filled up with zeros.
LEMMA ExecNameIs ==
  ASSUME NEW s, NEW a, NEW b, NEW c, NEW l, Cuts(s, a, b, c, l)
  PROVE  /\ ExecName(s) = [i \in 0 .. l |-> IF i < b - a THEN s[a + i] ELSE 0]
         /\ Strlen(ExecName(s)) = b - a
<1>1. /\ l \in Nat /\ a \in Nat /\ b \in Nat /\ a <= b /\ b <= l
      /\ Strlen(s) = l /\ AfterSpaces(s, 0) = a /\ AfterWord(s, a) = b
      /\ \A j \in a .. b - 1 : s[j] \notin {0, space}
  BY DEF Cuts
<1>2. PICK ones : ones = [i \in 0 .. l |-> 1]
  OBVIOUS
<1>3. PICK zeros : zeros = Memset(ones, 0, 0, l + 1)
  OBVIOUS
<1>4. zeros = [i \in 0 .. l |-> 0]
  <2>1. PICK m \in Nat : m = l + 1
    BY <1>1
  <2>2. zeros = Fill(ones, 0, m, 0 % 256)
    BY <1>3, <2>1, MemsetIs
  <2>3. 0 % 256 = 0
    OBVIOUS
  <2>4. Fill(ones, 0, m, 0) = [i \in 0 .. l |-> IF i \in 0 .. 0 + m - 1 THEN 0 ELSE ones[i]]
    BY <1>2 DEF Fill
  <2>5. \A i \in 0 .. l : i \in 0 .. 0 + m - 1
    BY <1>1, <2>1
  <2>6. QED
    BY <2>2, <2>3, <2>4, <2>5
<1>5. ExecName(s) = [i \in DOMAIN zeros |-> IF i < b - a THEN s[a + i] ELSE zeros[i]]
  BY <1>1, <1>2, <1>3 DEF ExecName
<1>6. ExecName(s) = [i \in 0 .. l |-> IF i < b - a THEN s[a + i] ELSE 0]
  BY <1>4, <1>5
<1>7. PICK name, n : name = ExecName(s) /\ n = b - a
  OBVIOUS
<1>0. n \in Nat /\ n <= l
  BY <1>1, <1>7
<1>8. name[n] = 0
  BY <1>0, <1>1, <1>6, <1>7
<1>9. \A j \in 0 .. n - 1 : name[j] # 0
  <2> TAKE j \in 0 .. n - 1
  <2>1. j \in 0 .. l /\ j < b - a /\ a + j \in a .. b - 1
    BY <1>0, <1>1, <1>7
  <2>2. name[j] = s[a + j]
    BY <1>6, <1>7, <2>1
  <2>3. QED
    BY <1>1, <2>1, <2>2
<1>10. Strlen(name) = n
  BY <1>0, <1>8, <1>9, StrlenIs
<1>11. QED
  BY <1>6, <1>7, <1>10

\* The arguments, filled up with zeros, whatever was there.
LEMMA ParsedArgsAre ==
  ASSUME NEW s, NEW a, NEW b, NEW c, NEW l, Cuts(s, a, b, c, l),
         NEW old, DOMAIN old = 0 .. MaxArgs - 1
  PROVE  ParsedArgs(s, old) = [j \in 0 .. MaxArgs - 1 |-> IF j < l - c THEN s[c + j] ELSE 0]
<1>1. /\ Strlen(s) = l /\ AfterSpaces(s, 0) = a /\ AfterWord(s, a) = b
      /\ c = (IF s[b] = 0 THEN b ELSE AfterSpaces(s, b + 1))
  BY DEF Cuts
<1>2. ParsedArgs(s, old) = [j \in 0 .. MaxArgs - 1 |-> IF j < l - c THEN s[c + j] ELSE Cleared(old)[j]]
  BY <1>1 DEF ParsedArgs
<1>3. PICK m \in Nat : m = MaxArgs
  BY ProgramsAssumption
<1>4. Cleared(old) = Fill(old, 0, m, 0 % 256)
  BY <1>3, MemsetIs DEF Cleared
<1>5. 0 % 256 = 0
  OBVIOUS
<1>6. \A j \in 0 .. m - 1 : Fill(old, 0, m, 0)[j] = 0
  BY <1>3 DEF Fill
<1>7. \A j \in 0 .. MaxArgs - 1 : Cleared(old)[j] = 0
  BY <1>3, <1>4, <1>5, <1>6
<1>8. QED
  BY <1>2, <1>7

-----------------------------------------------------------------------------
(* The parts of a command *)

\* The characters from position i up to position j.
Part(s, i, j) == [k \in 1 .. j - i |-> s[i + k - 1]]

\* It is a part of the text.
LEMMA PartIs ==
  ASSUME NEW s, NEW l \in Nat, Strlen(s) = l, NEW i \in 0 .. l, NEW j \in i .. l
  PROVE  /\ SubSeq(Text(s), i + 1, j) = Part(s, i, j)
         /\ Part(s, i, j) \in Parts(s)
<1>1. PICK t : t = Text(s)
  OBVIOUS
<1>2. t = [k \in 1 .. l |-> s[k - 1]]
  BY <1>1 DEF Text
<1>3. PICK S : S = {t[k] : k \in 1 .. l}
  OBVIOUS
<1>4. t \in Seq(S) /\ Len(t) = l
  <2>1. t \in [1 .. l -> S]
    BY <1>2, <1>3
  <2>2. QED
    BY <2>1
<1>5. PICK m \in Int : m = i + 1
  OBVIOUS
<1>6. PICK u : u = SubSeq(t, m, j)
  OBVIOUS
<1>7. /\ u \in Seq(S) /\ Len(u) = (IF m <= j THEN j - m + 1 ELSE 0)
      /\ \A k \in 1 .. j - m + 1 : u[k] = t[m + k - 1]
  <2>1. \A k \in m .. j : t[k] \in S
    BY <1>3, <1>5
  <2>2. j \in Int
    OBVIOUS
  <2>3. QED
    BY <1>6, <2>1, <2>2, SubSeqProperties
<1>8. Len(u) = j - i /\ j - m + 1 = j - i
  BY <1>5, <1>7
<1>9. u = [k \in 1 .. j - i |-> u[k]]
  <2>1. u \in [1 .. Len(u) -> S]
    BY <1>7, LenProperties
  <2>2. QED
    BY <1>8, <2>1
<1>10. \A k \in 1 .. j - i : u[k] = s[i + k - 1]
  <2> TAKE k \in 1 .. j - i
  <2>1. u[k] = t[m + k - 1]
    BY <1>7, <1>8
  <2>2. PICK h \in 1 .. l : h = m + k - 1 /\ h - 1 = i + k - 1
    <3>1. m + k - 1 \in 1 .. l /\ (m + k - 1) - 1 = i + k - 1
      BY <1>5
    <3>2. QED
      BY <3>1
  <2>3. t[h] = s[h - 1]
    BY <1>2
  <2>4. QED
    BY <2>1, <2>2, <2>3
<1>11. u = Part(s, i, j)
  BY <1>9, <1>10 DEF Part
<1>12. Part(s, i, j) \in Parts(s)
  <2>1. m \in 1 .. Len(Text(s)) + 1 /\ j \in 0 .. Len(Text(s))
    BY <1>1, <1>4, <1>5
  <2>2. u = SubSeq(Text(s), m, j)
    BY <1>1, <1>6
  <2>3. u \in Parts(s)
    BY <2>1, <2>2 DEF Parts
  <2>4. QED
    BY <1>11, <2>3
<1>13. QED
  BY <1>1, <1>5, <1>6, <1>11, <1>12

\* Its length.
LEMMA PartType ==
  ASSUME NEW s, NEW l \in Nat, \A k \in 0 .. l : s[k] \in Nat, NEW i \in 0 .. l, NEW j \in i .. l
  PROVE  Part(s, i, j) \in Seq(Nat) /\ Len(Part(s, i, j)) = j - i
<1>1. PICK n \in Nat : n = j - i
  <2>1. j - i \in Nat
    OBVIOUS
  <2>2. QED
    BY <2>1
<1>2. PICK u : u = Part(s, i, j)
  OBVIOUS
<1>3. u = [k \in 1 .. n |-> s[i + k - 1]]
  BY <1>1, <1>2 DEF Part
<1>4. \A k \in 1 .. n : i + k - 1 \in 0 .. l
  BY <1>1
<1>5. u \in [1 .. n -> Nat]
  BY <1>3, <1>4
<1>6. QED
  BY <1>1, <1>2, <1>5

\* Two parts that follow each other are one.
LEMMA PartsJoin ==
  ASSUME NEW s, NEW l \in Nat, \A k \in 0 .. l : s[k] \in Nat,
         NEW h \in 0 .. l, NEW i \in h .. l, NEW j \in i .. l
  PROVE  Part(s, h, i) \o Part(s, i, j) = Part(s, h, j)
<1>0. h \in Nat /\ i \in 0 .. l /\ j \in h .. l
  OBVIOUS
<1>1. PICK u, v, w : u = Part(s, h, i) /\ v = Part(s, i, j) /\ w = Part(s, h, j)
  OBVIOUS
<1>2. /\ u \in Seq(Nat) /\ Len(u) = i - h
      /\ v \in Seq(Nat) /\ Len(v) = j - i
      /\ w \in Seq(Nat) /\ Len(w) = j - h
  BY <1>0, <1>1, PartType
<1>3. PICK cat \in Seq(Nat) :
        /\ cat = u \o v /\ Len(cat) = (i - h) + (j - i)
        /\ \A k \in 1 .. Len(cat) : cat[k] = IF k <= Len(u) THEN u[k] ELSE v[k - Len(u)]
  <2>1. u \o v \in Seq(Nat) /\ Len(u \o v) = Len(u) + Len(v)
    BY <1>2, ConcatProperties
  <2>2. \A k \in 1 .. Len(u) + Len(v) : (u \o v)[k] = IF k <= Len(u) THEN u[k] ELSE v[k - Len(u)]
    BY <1>2, ConcatProperties
  <2>3. QED
    BY <1>2, <2>1, <2>2
<1>4. Len(cat) = Len(w)
  BY <1>0, <1>2, <1>3
<1>5. ASSUME NEW k \in 1 .. Len(cat)
      PROVE  cat[k] = w[k]
  <2>1. k \in 1 .. j - h
    BY <1>2, <1>4
  <2>2. w[k] = s[h + k - 1]
    BY <1>1, <2>1 DEF Part
  <2>3. CASE k <= i - h
    <3>1. k \in 1 .. i - h
      BY <1>0, <2>1, <2>3
    <3>2. u[k] = s[h + k - 1]
      BY <1>1, <3>1 DEF Part
    <3>3. QED
      BY <1>2, <1>3, <2>2, <2>3, <3>2
  <2>4. CASE ~ (k <= i - h)
    <3>1. PICK m \in 1 .. j - i : m = k - (i - h) /\ i + m - 1 = h + k - 1
      <4>1. k - (i - h) \in 1 .. j - i /\ i + (k - (i - h)) - 1 = h + k - 1
        BY <1>0, <2>1, <2>4
      <4>2. QED
        BY <4>1
    <3>2. v[m] = s[i + m - 1]
      BY <1>1, <3>1 DEF Part
    <3>3. cat[k] = v[m]
      BY <1>2, <1>3, <2>4, <3>1
    <3>4. QED
      BY <2>2, <3>1, <3>2, <3>3
  <2>5. QED
    BY <2>3, <2>4
<1>6. cat = w
  BY <1>2, <1>3, <1>4, <1>5, SeqEqual
<1>7. QED
  BY <1>1, <1>3, <1>6

\* The cuts are a parse of the command, unless the name is empty.
LEMMA CutsAreParse ==
  ASSUME NEW s, NEW a, NEW b, NEW c, NEW l, Cuts(s, a, b, c, l), a < b
  PROVE  IsParse(s, Part(s, a, b), Part(s, c, l))
<1>1. /\ l \in Nat /\ a \in 0 .. l /\ b \in a .. l /\ c \in b .. l
      /\ Strlen(s) = l /\ s[l] = 0 /\ \A k \in 0 .. l : s[k] \in Nat
  BY DEF Cuts
<1>2. /\ s[b] \in {0, space} /\ s[c] # space
      /\ \A j \in 0 .. l - 1 : s[j] # 0
      /\ \A j \in 0 .. a - 1 : s[j] = space
      /\ \A j \in a .. b - 1 : s[j] \notin {0, space}
      /\ \A j \in b .. c - 1 : s[j] = space
      /\ c = (IF s[b] = 0 THEN b ELSE AfterSpaces(s, b + 1))
  BY DEF Cuts
<1>3. PICK name, args : name = Part(s, a, b) /\ args = Part(s, c, l)
  OBVIOUS
<1>4. /\ a \in Nat /\ b \in 0 .. l /\ c \in 0 .. l /\ b \in Nat /\ c \in Nat
      /\ l \in b .. l /\ l \in c .. l /\ a <= b /\ b <= c /\ c <= l
  BY <1>1
<1>5. name \in Seq(Nat) /\ Len(name) = b - a /\ args \in Seq(Nat) /\ Len(args) = l - c
  BY <1>1, <1>3, <1>4, PartType, ZenonT(60)
<1>6. name # <<>>
  BY <1>4, <1>5
<1>7. \A i \in DOMAIN name : name[i] # space
  <2> TAKE i \in DOMAIN name
  <2>1. i \in 1 .. b - a
    BY <1>3 DEF Part
  <2>2. PICK j \in a .. b - 1 : j = a + i - 1
    <3>1. a + i - 1 \in a .. b - 1
      BY <1>4, <2>1
    <3>2. QED
      BY <3>1
  <2>3. name[i] = s[j]
    BY <1>3, <2>1, <2>2 DEF Part
  <2>4. QED
    BY <1>2, <2>3
<1>8. ASSUME args # <<>>
      PROVE  c < l /\ args[1] = s[c] /\ c # b
  <2>1. Len(args) # 0
    BY <1>5, <1>8
  <2>2. c < l /\ 1 \in 1 .. l - c
    BY <1>4, <1>5, <2>1
  <2>3. args[1] = s[c + 1 - 1] /\ c + 1 - 1 = c
    BY <1>3, <1>4, <2>2 DEF Part
  <2>4. s[c] # 0
    BY <1>2, <1>4, <2>2
  <2>5. c # b
    BY <1>2, <2>4
  <2>6. QED
    BY <2>2, <2>3, <2>5
<1>9. Text(s) = Part(s, 0, l)
  BY <1>1, <1>4 DEF Text, Part
<1>10. PICK gap \in Nat : gap = c - b
  <2>1. c - b \in Nat
    BY <1>4
  <2>2. QED
    BY <2>1
<1>11. Spaces(a) = Part(s, 0, a)
  <2>1. \A i \in 1 .. a : 0 + i - 1 \in 0 .. a - 1
    BY <1>4
  <2>2. \A i \in 1 .. a : s[0 + i - 1] = space
    BY <1>2, <2>1
  <2>3. Part(s, 0, a) = [i \in 1 .. a |-> s[0 + i - 1]]
    BY <1>4 DEF Part
  <2>4. QED
    BY <2>2, <2>3 DEF Spaces
<1>12. Spaces(gap) = Part(s, b, c)
  <2>1. \A i \in 1 .. gap : b + i - 1 \in b .. c - 1
    BY <1>4, <1>10
  <2>2. \A i \in 1 .. gap : s[b + i - 1] = space
    BY <1>2, <2>1
  <2>3. QED
    BY <1>10, <2>2 DEF Spaces, Part
<1>13. Text(s) = Spaces(a) \o name \o Spaces(gap) \o args
  <2>1. 0 \in 0 .. l /\ a \in 0 .. l /\ b \in 0 .. l /\ c \in 0 .. l /\ l \in c .. l
    BY <1>1, <1>4
  <2>2. Part(s, 0, a) \o Part(s, a, b) = Part(s, 0, b)
    BY <1>1, <2>1, PartsJoin, ZenonT(60)
  <2>3. Part(s, 0, b) \o Part(s, b, c) = Part(s, 0, c)
    BY <1>1, <2>1, PartsJoin, ZenonT(60)
  <2>4. Part(s, 0, c) \o Part(s, c, l) = Part(s, 0, l)
    BY <1>1, <2>1, PartsJoin, ZenonT(60)
  <2>5. QED
    BY <1>3, <1>9, <1>11, <1>12, <2>2, <2>3, <2>4
<1>14. Len(Text(s)) = l
  BY <1>1, <1>4 DEF Text
<1>15. a \in 0 .. l /\ gap \in 0 .. l /\ (args # <<>> => gap > 0)
  BY <1>1, <1>4, <1>8, <1>10
<1>16. \E m, n \in 0 .. Len(Text(s)) :
         /\ Text(s) = Spaces(m) \o name \o Spaces(n) \o args
         /\ args # <<>> => n > 0
  BY <1>13, <1>14, <1>15
<1>17. args # <<>> => args[1] # space
  BY <1>2, <1>8
<1>18. IsParse(s, name, args)
  BY <1>6, <1>7, <1>16, <1>17 DEF IsParse
<1>19. QED
  BY <1>3, <1>18

-----------------------------------------------------------------------------
(* The file a command names *)

\* An entry that execute accepts has the name of the command, and that is not empty.
LEMMA MatchIsNamed ==
  ASSUME NEW s, NEW a, NEW b, NEW c, NEW l, Cuts(s, a, b, c, l), NEW i \in Matches(ExecName(s))
  PROVE  i \in DOMAIN Directory /\ a < b /\ NameIs(Directory[i].fname, Part(s, a, b))
<1>1. /\ l \in Nat /\ a \in Nat /\ b \in Nat /\ a <= b /\ b <= l
      /\ \A j \in 0 .. l : s[j] \in Nat
      /\ \A j \in a .. b - 1 : s[j] \notin {0, space}
  BY DEF Cuts
<1>2. PICK name : name = ExecName(s)
  OBVIOUS
<1>3. PICK n \in Nat : n = b - a /\ n <= l
  <2>1. b - a \in Nat /\ b - a <= l
    BY <1>1
  <2>2. QED
    BY <2>1
<1>4. name = [j \in 0 .. l |-> IF j < n THEN s[a + j] ELSE 0] /\ Strlen(name) = n
  BY <1>2, <1>3, ExecNameIs
<1>5. name[n] = 0 /\ \A j \in 0 .. n - 1 : name[j] = s[a + j] /\ name[j] # 0 /\ name[j] \in Nat
  <2>1. name[n] = 0
    BY <1>1, <1>3, <1>4
  <2>2. ASSUME NEW j \in 0 .. n - 1
        PROVE  name[j] = s[a + j] /\ name[j] # 0 /\ name[j] \in Nat
    <3>1. j \in 0 .. l /\ j < n
      BY <1>1, <1>3
    <3>2. name[j] = s[a + j]
      BY <1>4, <3>1
    <3>3. PICK k \in a .. b - 1 : k = a + j
      <4>1. a + j \in a .. b - 1
        BY <1>1, <1>3
      <4>2. QED
        BY <4>1
    <3>4. k \in 0 .. l
      BY <1>1
    <3>5. s[k] # 0 /\ s[k] \in Nat
      BY <1>1, <3>4
    <3>6. QED
      BY <3>2, <3>3, <3>5
  <2>3. QED
    BY <2>1, <2>2
<1>6. n <= FnameLength /\ i \in DOMAIN Directory /\ SameName(Directory[i].fname, name)
  <2>1. ~ (Strlen(name) > FnameLength)
    BY <1>2 DEF Matches
  <2>2. i \in {h \in DOMAIN Directory : SameName(Directory[h].fname, name)}
    BY <1>2, <2>1 DEF Matches
  <2>3. FnameLength \in Nat
    BY ProgramsAssumption
  <2>4. QED
    BY <1>3, <1>4, <2>1, <2>2, <2>3
<1>7. PICK F \in Nat : F = FnameLength /\ F # 0
  BY ProgramsAssumption
<1>8. PICK fname : fname = Directory[i].fname
  OBVIOUS
<1>9. fname \in [0 .. F -> Nat] /\ fname[0] # 0 /\ Strncmp(fname, name, F) = 0
  BY <1>6, <1>7, <1>8, DirectoryAssumption DEF SameName
<1>10. PICK k \in 0 .. F :
         /\ \A j \in 0 .. k - 1 : fname[j] = name[j] /\ fname[j] # 0
         /\ k = F \/ fname[k] # name[k] \/ fname[k] = 0
         /\ Strncmp(fname, name, F) = IF k = F THEN 0 ELSE fname[k] - name[k]
  BY StrncmpFinds
<1>11. k <= n
  <2>1. SUFFICES ASSUME k > n PROVE FALSE
    BY <1>3
  <2>2. n \in 0 .. k - 1
    BY <2>1
  <2>3. fname[n] = name[n] /\ fname[n] # 0
    BY <1>10, <2>2
  <2>4. QED
    BY <1>5, <2>3
<1>12. k # F => fname[k] = name[k] /\ fname[k] = 0
  <2>1. SUFFICES ASSUME k # F PROVE fname[k] = name[k] /\ fname[k] = 0
    OBVIOUS
  <2>2. fname[k] - name[k] = 0
    BY <1>9, <1>10, <2>1
  <2>3. fname[k] \in Nat
    BY <1>9
  <2>4. name[k] \in Nat
    <3>1. k \in 0 .. n - 1 \/ k = n
      BY <1>11
    <3>2. QED
      BY <1>5, <3>1
  <2>5. fname[k] = name[k]
    <3>1. PICK x \in Nat, y \in Nat : x = fname[k] /\ y = name[k]
      BY <2>3, <2>4
    <3>2. x - y = 0
      BY <2>2, <3>1
    <3>3. QED
      BY <3>1, <3>2
  <2>6. QED
    BY <1>10, <2>1, <2>5
<1>13. k = n
  <2>1. SUFFICES ASSUME k # n PROVE FALSE
    OBVIOUS
  <2>2. k \in 0 .. n - 1 /\ k # F
    BY <1>6, <1>7, <1>11, <2>1
  <2>3. QED
    BY <1>5, <1>12, <2>2
<1>14. a < b
  <2>1. n # 0
    BY <1>7, <1>9, <1>12, <1>13
  <2>2. QED
    BY <1>1, <1>3, <2>1
<1>15. PICK part : part = Part(s, a, b)
  OBVIOUS
<1>16. part = [j \in 1 .. n |-> s[a + j - 1]] /\ Len(part) = n
  BY <1>3, <1>15 DEF Part
<1>17. \A j \in 1 .. n : fname[j - 1] = part[j]
  <2> TAKE j \in 1 .. n
  <2>1. PICK h \in 0 .. n - 1 : h = j - 1 /\ a + h = a + j - 1
    <3>1. j - 1 \in 0 .. n - 1 /\ a + (j - 1) = a + j - 1
      BY <1>1
    <3>2. QED
      BY <3>1
  <2>2. fname[h] = name[h] /\ name[h] = s[a + h]
    BY <1>5, <1>10, <1>13
  <2>3. QED
    BY <1>16, <2>1, <2>2
<1>18. NameIs(fname, part)
  <2>1. n < F => fname[n] = 0
    BY <1>12, <1>13
  <2>2. QED
    BY <1>6, <1>7, <1>16, <1>17, <2>1 DEF NameIs
<1>19. QED
  BY <1>6, <1>8, <1>14, <1>15, <1>18

\* The inode execute loads is that of an entry with the name.
LEMMA InodeNamedIs ==
  ASSUME NEW s, Matches(ExecName(s)) # {}
  PROVE  \E i \in Matches(ExecName(s)) : InodeNamed(s) = Directory[i].inode
<1>1. PICK found : found = Matches(ExecName(s))
  OBVIOUS
<1>2. found \in SUBSET Nat /\ found # {}
  <2>1. found \subseteq DOMAIN Directory
    BY <1>1 DEF Matches
  <2>2. QED
    BY <1>1, <2>1, DirectoryAssumption
<1>3. PICK m \in found : \A k \in found : ~ (k < m)
  BY <1>2, Lowest
<1>4. \A k \in found : m <= k
  BY <1>2, <1>3
<1>5. (CHOOSE i \in found : \A j \in found : i <= j) \in found
  BY <1>3, <1>4
<1>6. InodeNamed(s) = Directory[CHOOSE i \in found : \A j \in found : i <= j].inode
  BY <1>1 DEF InodeNamed
<1>7. QED
  BY <1>1, <1>5, <1>6

\* What getargs copies is the field of the PCB.
LEMMA GetargsIs ==
  ASSUME NEW p, NEW nbytes \in Nat, MaxArgs <= nbytes
  PROVE  \A j \in 0 .. MaxArgs - 1 : Getargs(p, nbytes)[j] = arg[p][j]
<1>1. PICK m \in Nat : m = MaxArgs /\ m <= nbytes
  BY ProgramsAssumption
<1>2. PICK memory : memory = [a \in 0 .. 2 * nbytes - 1 |-> IF a < MaxArgs THEN arg[p][a] ELSE 255]
  OBVIOUS
<1>3. Copyable(memory, nbytes, 0, nbytes)
  <2>1. 0 .. 0 + nbytes - 1 \subseteq DOMAIN memory
    BY <1>2
  <2>2. memory = [a \in DOMAIN memory |-> memory[a]]
    BY <1>2
  <2>3. 0 + nbytes <= nbytes
    OBVIOUS
  <2>4. QED
    BY <2>1, <2>2, <2>3 DEF Copyable
<1>4. PICK copied : copied = Memcpy(memory, nbytes, 0, nbytes)
  OBVIOUS
<1>5. copied = Move(memory, nbytes, 0, nbytes)
  BY <1>3, <1>4, MemcpyIs
<1>6. Getargs(p, nbytes) = [j \in 0 .. nbytes - 1 |-> copied[nbytes + j]]
  BY <1>2, <1>4 DEF Getargs
<1>7. ASSUME NEW j \in 0 .. m - 1
      PROVE  Getargs(p, nbytes)[j] = arg[p][j]
  <2>1. j \in 0 .. nbytes - 1 /\ j \in 0 .. 2 * nbytes - 1 /\ j < m
    BY <1>1
  <2>2. PICK a : a = nbytes + j
    OBVIOUS
  <2>3. a \in 0 .. 2 * nbytes - 1 /\ a \in nbytes .. nbytes + nbytes - 1 /\ 0 + a - nbytes = j
    BY <2>1, <2>2
  <2>4. copied[a] = memory[0 + a - nbytes]
    BY <1>2, <1>5, <2>3 DEF Move
  <2>5. memory[j] = arg[p][j]
    BY <1>1, <1>2, <2>1
  <2>6. Getargs(p, nbytes)[j] = copied[a]
    BY <1>6, <2>1, <2>2
  <2>7. QED
    BY <2>3, <2>4, <2>5, <2>6
<1>8. QED
  BY <1>1, <1>7

\* The bytes that a file that is not too short says it is executable with are loaded.
LEMMA LoadedBytesAre ==
  ASSUME NEW n \in DOMAIN Files
  PROVE  /\ \A k \in Nat : k < Files[n].file_size /\ k < LoadSize => k < LoadedBytes(n, LoadSize)
         /\ \A left : Files[n].file_size >= Len(ElfMagic) /\ IsElf(n, left) =>
              \A k \in 1 .. Len(ElfMagic) : Files[n].data[k - 1] = ElfMagic[k]
<1>1. PICK size \in Nat : size = Files[n].file_size
  BY DirectoryAssumption
<1>2. PICK load \in Nat, m \in Nat : load = LoadSize /\ m = Len(ElfMagic)
  BY ProgramsAssumption
<1>3. ASSUME NEW k \in Nat, k < size, k < load
      PROVE  k < LoadedBytes(n, LoadSize)
  <2>1. LoadedBytes(n, LoadSize) = IF size = 0 THEN 0 ELSE IF load <= size THEN load ELSE size + 1
    BY <1>1, <1>2 DEF LoadedBytes
  <2>2. QED
    BY <1>3, <2>1
<1>4. ASSUME size >= m, NEW left, IsElf(n, left), NEW k \in 1 .. m
      PROVE  Files[n].data[k - 1] = ElfMagic[k]
  <2>1. size # 0 /\ LoadedBytes(n, Len(ElfMagic)) = m
    BY <1>1, <1>2, <1>4 DEF LoadedBytes
  <2>2. k <= LoadedBytes(n, Len(ElfMagic))
    BY <2>1
  <2>3. QED
    BY <1>2, <1>4, <2>2 DEF IsElf
<1>5. QED
  BY <1>1, <1>2, <1>3, <1>4

-----------------------------------------------------------------------------
(* Processes *)

\* A process that was started by command s, with these arguments and this program.
StartedBy(s, args, image) ==
  /\ s \in Commands \cup {ShellCommand}
  /\ args = ParsedArgs(s, NoArgs)
  /\ Matches(ExecName(s)) # {}
  /\ \A k \in 0 .. PageSize - 1 :
       k < LoadedBytes(InodeNamed(s), LoadSize) => image[k] = Files[InodeNamed(s)].data[k]
  /\ Files[InodeNamed(s)].file_size >= Len(ElfMagic) =>
       \A k \in 1 .. Len(ElfMagic) : Files[InodeNamed(s)].data[k - 1] = ElfMagic[k]

Started(p) == StartedBy(command[p], arg[p], page[p])

\* The inductive invariant.
ProgramsInv == TypeOK /\ \A p \in processes : Started(p)

\* A name that is found names a file.
LEMMA InodeInFiles ==
  ASSUME NEW s, Matches(ExecName(s)) # {}
  PROVE  InodeNamed(s) \in DOMAIN Files
<1>1. PICK i \in Matches(ExecName(s)) : InodeNamed(s) = Directory[i].inode
  BY InodeNamedIs
<1>2. i \in DOMAIN Directory
  BY DEF Matches
<1>3. QED
  BY <1>1, <1>2, DirectoryAssumption

\* What execute writes for a process it starts.
LEMMA StartStarts ==
  ASSUME NEW s \in Commands \cup {ShellCommand}, Matches(ExecName(s)) # {},
         NEW left, IsElf(InodeNamed(s), left),
         NEW old, DOMAIN old = 0 .. MaxArgs - 1,
         NEW image, DOMAIN image = 0 .. PageSize - 1
  PROVE  StartedBy(s, ParsedArgs(s, old), Loaded(InodeNamed(s), image))
<1>1. PICK n \in DOMAIN Files : n = InodeNamed(s)
  BY InodeInFiles
<1>2. ParsedArgs(s, old) = ParsedArgs(s, NoArgs)
  <2>1. IsString(s)
    BY ProgramsAssumption
  <2>2. PICK a, b, c, l : Cuts(s, a, b, c, l)
    BY <2>1, CommandCut
  <2>3. DOMAIN NoArgs = 0 .. MaxArgs - 1
    BY DEF NoArgs
  <2>4. QED
    BY <2>2, <2>3, ParsedArgsAre
<1>3. \A k \in 0 .. PageSize - 1 :
        k < LoadedBytes(n, LoadSize) => Loaded(n, image)[k] = Files[n].data[k]
  BY DEF Loaded
<1>4. Files[n].file_size >= Len(ElfMagic) =>
        \A k \in 1 .. Len(ElfMagic) : Files[n].data[k - 1] = ElfMagic[k]
  BY <1>1, LoadedBytesAre
<1>5. QED
  BY <1>1, <1>2, <1>3, <1>4 DEF StartedBy

\* The boot starts the base shells like execute does.
LEMMA InitProgramsInv == Init => ProgramsInv
<1> SUFFICES ASSUME Init PROVE ProgramsInv
  OBVIOUS
<1>1. MaxTerminals \in Nat /\ MaxProcesses \in Nat /\ MaxTerminals <= MaxProcesses
  BY ProgramsAssumption
<1>2. DOMAIN NoArgs = 0 .. MaxArgs - 1 /\ DOMAIN NoImage = 0 .. PageSize - 1
  BY DEF NoArgs, NoImage
<1>3. BaseShells \subseteq Pid
  BY <1>1 DEF BaseShells, Pid
<1>4. \A n, old : DOMAIN Loaded(n, old) = DOMAIN old
  BY DEF Loaded
<1>5. TypeOK
  <2>1. BaseShells \subseteq processes /\ processes \subseteq Pid
    BY <1>3 DEF Init
  <2>2. parent \in [Pid -> Pid]
    BY DEF Init
  <2>0. DOMAIN arg = Pid /\ DOMAIN page = Pid /\ DOMAIN command = Pid
    BY DEF Init
  <2>3. \A p \in Pid : DOMAIN arg[p] = 0 .. MaxArgs - 1 /\ DOMAIN page[p] = 0 .. PageSize - 1
    BY <1>2, <1>4 DEF Init
  <2>4. QED
    BY <2>0, <2>1, <2>2, <2>3 DEF TypeOK
<1>6. ParsedArgs(ShellCommand, NoArgs) = NoArgs
  <2>1. IsString(ShellCommand)
    BY ProgramsAssumption
  <2>2. PICK a, b, c, l : Cuts(ShellCommand, a, b, c, l)
    BY <2>1, CommandCut
  <2>3. l \in Nat /\ b \in Nat /\ b <= l /\ b \in 0 .. l /\ 0 .. l \subseteq DOMAIN ShellCommand
    BY <2>2 DEF Cuts
  <2>4. ShellCommand[b] # space
    BY <2>3, ShellAssumption
  <2>5. ShellCommand[b] = 0 /\ c = b
    BY <2>2, <2>4 DEF Cuts
  <2>6. b = l
    <3>1. \A j \in 0 .. l - 1 : ShellCommand[j] # 0
      BY <2>2 DEF Cuts
    <3>2. QED
      BY <2>3, <2>5, <3>1
  <2>7. \A j \in 0 .. MaxArgs - 1 : ~ (j < l - c)
    BY <2>3, <2>5, <2>6
  <2>8. ParsedArgs(ShellCommand, NoArgs) =
          [j \in 0 .. MaxArgs - 1 |-> IF j < l - c THEN ShellCommand[c + j] ELSE 0]
    BY <1>2, <2>2, ParsedArgsAre
  <2>9. QED
    BY <2>7, <2>8 DEF NoArgs
<1>7. StartedBy(ShellCommand, NoArgs, Loaded(InodeNamed(ShellCommand), NoImage))
  <2>1. ElfMagic \in Stack
    BY DEF Stack
  <2>2. IsElf(InodeNamed(ShellCommand), ElfMagic) /\ Matches(ExecName(ShellCommand)) # {}
    BY <2>1, ShellAssumption
  <2>3. StartedBy(ShellCommand, ParsedArgs(ShellCommand, NoArgs), Loaded(InodeNamed(ShellCommand), NoImage))
    BY <1>2, <2>2, StartStarts
  <2>4. QED
    BY <1>6, <2>3
<1>8. \A p \in processes : Started(p)
  <2> TAKE p \in processes
  <2>1. p \in BaseShells /\ p \in Pid
    BY <1>3 DEF Init
  <2>2. /\ command[p] = ShellCommand /\ arg[p] = NoArgs
        /\ page[p] = Loaded(InodeNamed(ShellCommand), NoImage)
    BY <2>1 DEF Init
  <2>3. QED
    BY <1>7, <2>2 DEF Started
<1>9. QED
  BY <1>5, <1>8 DEF ProgramsInv

\* The pid execute takes, and what it leaves of the others.
LEMMA StartKeeps ==
  ASSUME TypeOK, NEW p \in Pid, NEW s \in Commands \cup {ShellCommand},
         NEW taken \in SUBSET Pid, taken # Pid,
         \A q \in taken : Started(q), Start(p, s, taken)
  PROVE  \E next \in Pid \ taken :
           /\ \A q \in Pid \ taken : next <= q
           /\ \A q \in taken : Started(q)'
           /\ parent' \in [Pid -> Pid]
           /\ (DOMAIN arg = Pid /\ DOMAIN page = Pid /\ DOMAIN command = Pid)'
           /\ \A q \in Pid : /\ (DOMAIN arg[q] = 0 .. MaxArgs - 1)'
                             /\ (DOMAIN page[q] = 0 .. PageSize - 1)'
           /\ \/ /\ processes' = taken \cup {next} /\ Started(next)' /\ command'[next] = s
                 /\ parent'[next] = IF next \in BaseShells THEN next ELSE p
              \/ /\ processes' = processes
                 /\ \/ Matches(ExecName(s)) = {}
                    \/ \E left \in Stack : ~ IsElf(InodeNamed(s), left)
<1>1. PICK next : next = CHOOSE q \in Pid \ taken : \A r \in Pid \ taken : q <= r
  OBVIOUS
<1>2. next \in Pid \ taken /\ \A q \in Pid \ taken : next <= q
  <2>1. Pid \ taken \in SUBSET Nat /\ Pid \ taken # {}
    <3>1. Pid \subseteq Nat
      BY DEF Pid
    <3>2. Pid \ taken # {}
      OBVIOUS
    <3>3. QED
      BY <3>1, <3>2
  <2>2. PICK m \in Pid \ taken : \A k \in Pid \ taken : ~ (k < m)
    BY <2>1, Lowest
  <2>3. \A k \in Pid \ taken : m <= k
    BY <2>1, <2>2
  <2>4. QED
    BY <1>1, <2>2, <2>3
<1>3. arg' = [arg EXCEPT ![next] = ParsedArgs(s, @)]
  BY <1>1 DEF Start
<1>4. PICK n : n = InodeNamed(s)
  OBVIOUS
<1>5. \/ /\ Matches(ExecName(s)) = {}
         /\ UNCHANGED <<processes, parent, page, command>>
      \/ /\ Matches(ExecName(s)) # {}
         /\ page' = [page EXCEPT ![next] = Loaded(n, @)]
         /\ \E left \in Stack :
              \/ /\ IsElf(n, left)
                 /\ processes' = taken \cup {next}
                 /\ parent' = [parent EXCEPT ![next] = IF next \in BaseShells THEN next ELSE p]
                 /\ command' = [command EXCEPT ![next] = s]
              \/ ~ IsElf(n, left) /\ UNCHANGED <<processes, parent, command>>
  BY <1>1, <1>4 DEF Start
<1>6. \A q \in taken : q # next /\ q \in Pid
  BY <1>2
<1>7. /\ processes \subseteq Pid /\ parent \in [Pid -> Pid]
      /\ DOMAIN arg = Pid /\ DOMAIN page = Pid /\ DOMAIN command = Pid
      /\ \A q \in Pid : DOMAIN arg[q] = 0 .. MaxArgs - 1 /\ DOMAIN page[q] = 0 .. PageSize - 1
  BY DEF TypeOK
<1>8. ASSUME NEW q \in taken
      PROVE  Started(q)'
  <2>1. command'[q] = command[q] /\ arg'[q] = arg[q] /\ page'[q] = page[q]
    BY <1>3, <1>5, <1>6, <1>7
  <2>2. StartedBy(command[q], arg[q], page[q])
    BY DEF Started
  <2>3. StartedBy(command'[q], arg'[q], page'[q])
    BY <2>1, <2>2
  <2>4. QED
    BY <2>3 DEF Started
<1>9. (DOMAIN arg = Pid /\ DOMAIN page = Pid /\ DOMAIN command = Pid)'
  <2>1. DOMAIN arg' = Pid
    BY <1>3, <1>7
  <2>2. DOMAIN page' = Pid
    BY <1>5, <1>7
  <2>3. DOMAIN command' = Pid
    BY <1>5, <1>7
  <2>4. QED
    BY <2>1, <2>2, <2>3
<1>10. parent' \in [Pid -> Pid]
  BY <1>2, <1>5, <1>7
<1>11. ASSUME NEW q \in Pid
       PROVE  DOMAIN arg'[q] = 0 .. MaxArgs - 1 /\ DOMAIN page'[q] = 0 .. PageSize - 1
  <2>1. DOMAIN ParsedArgs(s, arg[q]) = 0 .. MaxArgs - 1
    BY DEF ParsedArgs
  <2>2. arg'[q] = IF q = next THEN ParsedArgs(s, arg[q]) ELSE arg[q]
    BY <1>3, <1>7
  <2>3. DOMAIN Loaded(n, page[q]) = DOMAIN page[q]
    BY DEF Loaded
  <2>4. page'[q] = page[q] \/ page'[q] = Loaded(n, page[q])
    BY <1>5, <1>7
  <2>5. QED
    BY <1>7, <2>1, <2>2, <2>3, <2>4
<1>12. ASSUME NEW left \in Stack, IsElf(n, left), Matches(ExecName(s)) # {},
              page' = [page EXCEPT ![next] = Loaded(n, @)],
              command' = [command EXCEPT ![next] = s]
       PROVE  Started(next)'
  <2>1. /\ arg'[next] = ParsedArgs(s, arg[next]) /\ page'[next] = Loaded(n, page[next])
        /\ command'[next] = s
    BY <1>2, <1>3, <1>7, <1>12
  <2>2. DOMAIN arg[next] = 0 .. MaxArgs - 1 /\ DOMAIN page[next] = 0 .. PageSize - 1
    BY <1>2, <1>7
  <2>3. StartedBy(s, ParsedArgs(s, arg[next]), Loaded(n, page[next]))
    BY <1>4, <1>12, <2>2, StartStarts
  <2>4. StartedBy(command'[next], arg'[next], page'[next])
    BY <2>1, <2>3
  <2>5. QED
    BY <2>4 DEF Started
<1>13. \/ /\ processes' = taken \cup {next} /\ Started(next)' /\ command'[next] = s
          /\ parent'[next] = IF next \in BaseShells THEN next ELSE p
       \/ /\ processes' = processes
          /\ \/ Matches(ExecName(s)) = {}
             \/ \E left \in Stack : ~ IsElf(n, left)
  <2>1. CASE Matches(ExecName(s)) = {}
    BY <1>5, <2>1
  <2>2. ASSUME NEW left \in Stack, IsElf(n, left), Matches(ExecName(s)) # {},
               page' = [page EXCEPT ![next] = Loaded(n, @)],
               processes' = taken \cup {next},
               parent' = [parent EXCEPT ![next] = IF next \in BaseShells THEN next ELSE p],
               command' = [command EXCEPT ![next] = s]
        PROVE  /\ processes' = taken \cup {next} /\ Started(next)' /\ command'[next] = s
               /\ parent'[next] = IF next \in BaseShells THEN next ELSE p
    <3>1. Started(next)'
      BY <1>12, <2>2
    <3>2. command'[next] = s /\ parent'[next] = IF next \in BaseShells THEN next ELSE p
      BY <1>2, <1>7, <2>2
    <3>3. QED
      BY <2>2, <3>1, <3>2
  <2> HIDE DEF Started
  <2>3. QED
    BY <1>5, <2>1, <2>2
<1>14. QED
  BY <1>2, <1>4, <1>8, <1>9, <1>10, <1>11, <1>13

LEMMA ExecuteKeepsInv ==
  ASSUME ProgramsInv, NEW p \in Pid, NEW s \in Commands, Execute(p, s)
  PROVE  ProgramsInv'
<1>1. TypeOK /\ \A q \in processes : Started(q)
  BY DEF ProgramsInv
<1>2. BaseShells \subseteq processes /\ processes \in SUBSET Pid
  BY <1>1 DEF TypeOK
<1>3. processes # Pid /\ Start(p, s, processes)
  BY DEF Execute
<1>4. s \in Commands \cup {ShellCommand}
  OBVIOUS
<1>5. PICK next \in Pid \ processes :
        /\ \A q \in processes : Started(q)'
        /\ parent' \in [Pid -> Pid]
        /\ (DOMAIN arg = Pid /\ DOMAIN page = Pid /\ DOMAIN command = Pid)'
        /\ \A q \in Pid : /\ (DOMAIN arg[q] = 0 .. MaxArgs - 1)'
                          /\ (DOMAIN page[q] = 0 .. PageSize - 1)'
        /\ (processes' = processes \cup {next} /\ Started(next)') \/ processes' = processes
  <2> HIDE DEF Started
  <2> QED  BY <1>1, <1>2, <1>3, <1>4, StartKeeps
<1>6. BaseShells \subseteq processes' /\ processes' \subseteq Pid
  BY <1>2, <1>5
<1>7. TypeOK'
  BY <1>5, <1>6 DEF TypeOK
<1>8. \A q \in processes' : Started(q)'
  BY <1>5
<1>9. QED
  BY <1>7, <1>8 DEF ProgramsInv

\* halt starts a base shell again, and nothing can keep it from that: its own pid is the
\* lowest one that is free then.
LEMMA HaltRestarts ==
  ASSUME ProgramsInv, NEW p \in BaseShells, Halt(p)
  PROVE  /\ processes' = processes /\ command'[p] = ShellCommand /\ parent'[p] = p
         /\ \A q \in processes : Started(q)'
         /\ parent' \in [Pid -> Pid]
         /\ (DOMAIN arg = Pid /\ DOMAIN page = Pid /\ DOMAIN command = Pid)'
         /\ \A q \in Pid : /\ (DOMAIN arg[q] = 0 .. MaxArgs - 1)'
                           /\ (DOMAIN page[q] = 0 .. PageSize - 1)'
<1>1. TypeOK /\ \A q \in processes : Started(q)
  BY DEF ProgramsInv
<1>2. BaseShells \subseteq processes /\ processes \in SUBSET Pid
  BY <1>1 DEF TypeOK
<1>3. p \in processes /\ p \in Pid
  BY <1>2
<1>4. Halt(p) => Start(p, ShellCommand, processes \ {p})
  BY DEF Halt
<1>5. PICK taken \in SUBSET Pid : taken = processes \ {p} /\ taken # Pid
  <2>1. processes \ {p} \in SUBSET Pid
    BY <1>2
  <2>2. p \notin processes \ {p} /\ p \in Pid
    BY <1>3
  <2>3. QED
    BY <2>1, <2>2
<1>6. Start(p, ShellCommand, taken) /\ \A q \in taken : Started(q)
  BY <1>1, <1>4, <1>5
<1>7. ShellCommand \in Commands \cup {ShellCommand}
  OBVIOUS
<1>8. PICK next \in Pid \ taken :
         /\ \A q \in Pid \ taken : next <= q
         /\ \A q \in taken : Started(q)'
         /\ parent' \in [Pid -> Pid]
         /\ (DOMAIN arg = Pid /\ DOMAIN page = Pid /\ DOMAIN command = Pid)'
         /\ \A q \in Pid : /\ (DOMAIN arg[q] = 0 .. MaxArgs - 1)'
                           /\ (DOMAIN page[q] = 0 .. PageSize - 1)'
         /\ \/ /\ processes' = taken \cup {next} /\ Started(next)' /\ command'[next] = ShellCommand
               /\ parent'[next] = IF next \in BaseShells THEN next ELSE p
            \/ /\ processes' = processes
               /\ \/ Matches(ExecName(ShellCommand)) = {}
                  \/ \E left \in Stack : ~ IsElf(InodeNamed(ShellCommand), left)
  <2> HIDE DEF Started
  <2> QED  BY <1>1, <1>3, <1>5, <1>6, <1>7, StartKeeps
<1>9. next = p
  <2>1. p \in Pid \ taken /\ next <= p
    BY <1>3, <1>5, <1>8
  <2>2. SUFFICES ASSUME next # p PROVE FALSE
    OBVIOUS
  <2>3. MaxTerminals \in Nat /\ next \in Nat /\ p \in 0 .. MaxTerminals - 1
    BY ProgramsAssumption DEF BaseShells, Pid
  <2>4. next \in BaseShells
    BY <2>1, <2>3 DEF BaseShells
  <2>5. next \in taken
    BY <1>2, <1>5, <2>2, <2>4
  <2>6. QED
    BY <2>5
<1>10. ElfMagic \in Stack /\ ~ (\E left \in Stack : ~ IsElf(InodeNamed(ShellCommand), left))
       /\ Matches(ExecName(ShellCommand)) # {}
  BY ShellAssumption DEF Stack
<1>11. /\ processes' = taken \cup {p} /\ Started(p)' /\ command'[p] = ShellCommand
       /\ parent'[p] = IF p \in BaseShells THEN p ELSE p
  <2> HIDE DEF Started
  <2> QED  BY <1>8, <1>9, <1>10
<1>12. processes' = processes
  BY <1>3, <1>5, <1>11
<1>13. \A q \in processes : Started(q)'
  BY <1>5, <1>8, <1>11
<1>14. QED
  BY <1>8, <1>11, <1>12, <1>13

LEMMA HaltKeepsInv ==
  ASSUME ProgramsInv, NEW p \in Pid, Halt(p)
  PROVE  ProgramsInv'
<1>1. TypeOK /\ \A q \in processes : Started(q)
  BY DEF ProgramsInv
<1>2. BaseShells \subseteq processes /\ processes \in SUBSET Pid
  BY <1>1 DEF TypeOK
<1>3. p \in processes
  BY DEF Halt, Running
<1>4. CASE p \in BaseShells
  <2>1. /\ processes' = processes
        /\ \A q \in processes : Started(q)'
        /\ parent' \in [Pid -> Pid]
        /\ (DOMAIN arg = Pid /\ DOMAIN page = Pid /\ DOMAIN command = Pid)'
        /\ \A q \in Pid : /\ (DOMAIN arg[q] = 0 .. MaxArgs - 1)'
                          /\ (DOMAIN page[q] = 0 .. PageSize - 1)'
    <3> HIDE DEF Started
    <3> QED  BY <1>4, HaltRestarts
  <2>2. TypeOK'
    BY <1>2, <2>1 DEF TypeOK
  <2>3. \A q \in processes' : Started(q)'
    BY <2>1
  <2>4. QED
    BY <2>2, <2>3 DEF ProgramsInv
<1>5. CASE p \notin BaseShells
  <2>1. processes' = processes \ {p} /\ UNCHANGED <<parent, arg, page, command>>
    BY <1>5 DEF Halt
  <2>2. BaseShells \subseteq processes' /\ processes' \subseteq Pid
    BY <1>2, <1>5, <2>1
  <2>3. TypeOK'
    BY <1>1, <2>1, <2>2 DEF TypeOK
  <2>4. \A q \in processes' : Started(q)'
    BY <1>1, <2>1 DEF Started
  <2>5. QED
    BY <2>3, <2>4 DEF ProgramsInv
<1>6. QED
  BY <1>4, <1>5

\* The inductive invariant: every process was given the arguments of its command and
\* the program its command names (execute, halt).
THEOREM AlwaysProgramsInv == Spec => []ProgramsInv
<1>1. Init => ProgramsInv
  BY InitProgramsInv
<1>2. ProgramsInv /\ [Next]_vars => ProgramsInv'
  <2> SUFFICES ASSUME ProgramsInv, [Next]_vars PROVE ProgramsInv'
    OBVIOUS
  <2>1. CASE Next
    <3>1. PICK p \in Pid : Halt(p) \/ \E s \in Commands : Execute(p, s)
      BY <2>1 DEF Next
    <3>2. CASE Halt(p)
      BY <3>2, HaltKeepsInv
    <3>3. ASSUME NEW s \in Commands, Execute(p, s)
          PROVE  ProgramsInv'
      BY <3>3, ExecuteKeepsInv
    <3>4. QED
      BY <3>1, <3>2, <3>3
  <2>2. CASE UNCHANGED vars
    <3>1. TypeOK /\ \A q \in processes : Started(q)
      BY DEF ProgramsInv
    <3>2. UNCHANGED <<processes, parent, arg, page, command>>
      BY <2>2 DEF vars
    <3>3. TypeOK'
      BY <3>1, <3>2 DEF TypeOK
    <3>4. \A q \in processes' : Started(q)'
      BY <3>1, <3>2 DEF Started
    <3>5. QED
      BY <3>3, <3>4 DEF ProgramsInv
  <2>3. QED
    BY <2>1, <2>2
<1>3. QED
  BY <1>1, <1>2, PTL DEF Spec

\* The base shells are always there, and every pid keeps a whole PCB and page, also of
\* processes that have ended and of calls of execute that failed (execute, halt).
THEOREM ProgramsTypeOK == Spec => []TypeOK
<1>1. ProgramsInv => TypeOK
  BY DEF ProgramsInv
<1>2. QED
  BY <1>1, AlwaysProgramsInv, PTL

\* A base shell that halts is at once the shell again, in the same pid and with itself
\* as its parent, whatever ran before (halt, execute).
RestartsShell ==
  \A p \in BaseShells :
    Halt(p) => processes' = processes /\ command'[p] = ShellCommand /\ parent'[p] = p

THEOREM ShellIsRestarted == Spec => [][RestartsShell]_vars
<1>1. ProgramsInv => RestartsShell
  BY HaltRestarts DEF RestartsShell
<1>2. ProgramsInv => [RestartsShell]_vars
  BY <1>1
<1>3. QED
  BY <1>2, AlwaysProgramsInv, PTL

LEMMA InvArgs == ProgramsInv => ArgsOfCommand
<1>1. SUFFICES ASSUME ProgramsInv, NEW p \in processes, NEW nbytes \in {MaxArgs, MaxArgs + 3}
      PROVE  \E name, args \in Parts(command[p]) :
               /\ IsParse(command[p], name, args)
               /\ GetargsOk(p, nbytes) <=> args # <<>>
               /\ GetargsOk(p, nbytes) =>
                    \A j \in 1 .. MaxArgs :
                      Getargs(p, nbytes)[j - 1] = IF j <= Len(args) THEN args[j] ELSE 0
  BY DEF ArgsOfCommand
<1>2. PICK m \in Nat : m = MaxArgs /\ m # 0
  BY ProgramsAssumption
<1>3. nbytes \in Nat /\ MaxArgs <= nbytes
  BY <1>2
<1>4. PICK s : s = command[p]
  OBVIOUS
<1>5. s \in Commands \cup {ShellCommand} /\ arg[p] = ParsedArgs(s, NoArgs) /\ Matches(ExecName(s)) # {}
  BY <1>1, <1>4 DEF ProgramsInv, Started, StartedBy
<1>6. PICK a, b, c, l : Cuts(s, a, b, c, l)
  BY <1>5, ProgramsAssumption, CommandCut
<1>7. /\ l \in Nat /\ a \in 0 .. l /\ b \in a .. l /\ c \in b .. l
      /\ Strlen(s) = l /\ \A j \in 0 .. l : s[j] \in Nat
      /\ \A j \in 0 .. l - 1 : s[j] # 0
  BY <1>6 DEF Cuts
<1>8. a < b
  BY <1>5, <1>6, MatchIsNamed
<1>9. PICK name, args : name = Part(s, a, b) /\ args = Part(s, c, l)
  OBVIOUS
<1>10. IsParse(s, name, args)
  BY <1>6, <1>8, <1>9, CutsAreParse
<1>11. c \in 0 .. l /\ c \in Nat /\ b \in 0 .. l /\ l \in c .. l /\ c <= l
  BY <1>7
<1>12. name \in Parts(s) /\ args \in Parts(s)
  BY <1>7, <1>9, <1>11, PartIs
<1>13. Len(args) = l - c /\ args \in Seq(Nat)
  BY <1>7, <1>9, <1>11, PartType
<1>14. \A j \in 0 .. m - 1 : arg[p][j] = IF j < l - c THEN s[c + j] ELSE 0
  <2>1. DOMAIN NoArgs = 0 .. MaxArgs - 1
    BY DEF NoArgs
  <2>2. arg[p] = [j \in 0 .. MaxArgs - 1 |-> IF j < l - c THEN s[c + j] ELSE 0]
    BY <1>5, <1>6, <2>1, ParsedArgsAre
  <2>3. QED
    BY <1>2, <2>2
<1>15. GetargsOk(p, nbytes) <=> args # <<>>
  <2>1. arg[p][0] = IF 0 < l - c THEN s[c] ELSE 0
    BY <1>2, <1>11, <1>14
  <2>2. c < l => s[c] # 0
    BY <1>7, <1>11
  <2>3. arg[p][0] # 0 <=> c < l
    BY <1>11, <2>1, <2>2
  <2>4. args # <<>> <=> c < l
    BY <1>11, <1>13
  <2>5. GetargsOk(p, nbytes) <=> arg[p][0] # 0
    BY <1>2, <1>3 DEF GetargsOk
  <2>6. QED
    BY <2>3, <2>4, <2>5
<1>16. ASSUME NEW j \in 1 .. MaxArgs
       PROVE  Getargs(p, nbytes)[j - 1] = IF j <= Len(args) THEN args[j] ELSE 0
  <2>1. PICK h \in 0 .. m - 1 : h = j - 1 /\ (j <= l - c <=> h < l - c) /\ c + h = c + j - 1
    <3>1. j - 1 \in 0 .. m - 1 /\ (j <= l - c <=> j - 1 < l - c) /\ c + (j - 1) = c + j - 1
      BY <1>2, <1>11
    <3>2. QED
      BY <3>1
  <2>2. Getargs(p, nbytes)[h] = arg[p][h]
    BY <1>2, <1>3, GetargsIs
  <2>3. arg[p][h] = IF h < l - c THEN s[c + h] ELSE 0
    BY <1>14
  <2>4. j <= l - c => args[j] = s[c + j - 1]
    <3>1. j <= l - c => j \in 1 .. l - c
      BY <1>2, <1>11
    <3>2. QED
      BY <1>9, <3>1 DEF Part
  <2>5. QED
    BY <1>13, <2>1, <2>2, <2>3, <2>4
<1>17. QED
  BY <1>4, <1>10, <1>12, <1>15, <1>16

\* For every directory, every command and every history, a process is given what follows
\* the name in its command, cut at MAX_ARGS, and nothing of what had its pid before; and
\* getargs fails if and only if that is nothing (execute, getargs).
THEOREM ArgsAreOfCommand == Spec => []ArgsOfCommand
  BY AlwaysProgramsInv, InvArgs, PTL

LEMMA InvFile == ProgramsInv => RunsNamedFile
<1>1. SUFFICES ASSUME ProgramsInv, NEW p \in processes
      PROVE  \E name \in Parts(command[p]), args \in Parts(command[p]), i \in DOMAIN Directory :
               /\ IsParse(command[p], name, args)
               /\ NameIs(Directory[i].fname, name)
               /\ \A k \in 0 .. PageSize - 1 :
                    k < Files[Directory[i].inode].file_size /\ k < LoadSize =>
                      page[p][k] = Files[Directory[i].inode].data[k]
               /\ Files[Directory[i].inode].file_size >= Len(ElfMagic) =>
                    \A k \in 1 .. Len(ElfMagic) : page[p][k - 1] = ElfMagic[k]
  BY DEF RunsNamedFile
<1>2. PICK s : s = command[p]
  OBVIOUS
<1>3. PICK n : n = InodeNamed(s)
  OBVIOUS
<1>4. /\ s \in Commands \cup {ShellCommand} /\ Matches(ExecName(s)) # {}
      /\ \A k \in 0 .. PageSize - 1 : k < LoadedBytes(n, LoadSize) => page[p][k] = Files[n].data[k]
      /\ Files[n].file_size >= Len(ElfMagic) =>
           \A k \in 1 .. Len(ElfMagic) : Files[n].data[k - 1] = ElfMagic[k]
  BY <1>1, <1>2, <1>3 DEF ProgramsInv, Started, StartedBy
<1>5. PICK a, b, c, l : Cuts(s, a, b, c, l)
  BY <1>4, ProgramsAssumption, CommandCut
<1>6. PICK i \in Matches(ExecName(s)) : n = Directory[i].inode
  BY <1>3, <1>4, InodeNamedIs
<1>7. i \in DOMAIN Directory /\ a < b /\ NameIs(Directory[i].fname, Part(s, a, b))
  BY <1>5, MatchIsNamed
<1>8. IsParse(s, Part(s, a, b), Part(s, c, l))
  BY <1>5, <1>7, CutsAreParse
<1>9. Part(s, a, b) \in Parts(s) /\ Part(s, c, l) \in Parts(s)
  <2>1. /\ l \in Nat /\ a \in 0 .. l /\ b \in a .. l /\ c \in 0 .. l /\ l \in c .. l
        /\ Strlen(s) = l
    BY <1>5 DEF Cuts
  <2>2. QED
    BY <2>1, PartIs
<1>10. n \in DOMAIN Files
  BY <1>6, <1>7, DirectoryAssumption
<1>11. ASSUME NEW k \in 0 .. PageSize - 1, k < Files[n].file_size, k < LoadSize
       PROVE  page[p][k] = Files[n].data[k]
  <2>1. k \in Nat
    OBVIOUS
  <2>2. k < LoadedBytes(n, LoadSize)
    BY <1>10, <1>11, <2>1, LoadedBytesAre
  <2>3. QED
    BY <1>4, <2>2
<1>12. ASSUME Files[n].file_size >= Len(ElfMagic), NEW k \in 1 .. Len(ElfMagic)
       PROVE  page[p][k - 1] = ElfMagic[k]
  <2>1. PICK size \in Nat, m \in Nat, load \in Nat, room \in Nat :
          /\ size = Files[n].file_size /\ m = Len(ElfMagic) /\ load = LoadSize /\ room = PageSize
          /\ m <= load /\ m <= room
    BY <1>10, ProgramsAssumption, DirectoryAssumption
  <2>2. PICK h \in 0 .. room - 1 : h = k - 1 /\ h < size /\ h < load
    <3>1. k - 1 \in 0 .. room - 1 /\ k - 1 < size /\ k - 1 < load
      BY <1>12, <2>1
    <3>2. QED
      BY <3>1
  <2>3. page[p][h] = Files[n].data[h]
    BY <1>11, <2>1, <2>2
  <2>4. Files[n].data[k - 1] = ElfMagic[k]
    BY <1>4, <1>12
  <2>5. QED
    BY <2>2, <2>3, <2>4
<1>13. QED
  BY <1>2, <1>6, <1>7, <1>8, <1>9, <1>11, <1>12

\* For every directory, every command and every history, the page of a process holds the
\* file that its command names, and that is an executable unless it is too short to say
\* so (execute, read_dentry_by_name, read_data).
THEOREM FileIsRun == Spec => []RunsNamedFile
  BY AlwaysProgramsInv, InvFile, PTL

-----------------------------------------------------------------------------
(* The file system *)

\* What reads can deliver.
Items == {ByteAt(n, k) : n \in DOMAIN inodes, k \in Nat} \cup Names

Inodes == {0} \cup {dentries[i].inode : i \in DOMAIN dentries}

Descriptors == [kind : {"closed", "rtc", "directory", "regular"}, inode : Inodes, file_pos : Nat]

\* The reads of a file delivered s and left the position at pos: up to the size the
\* two go together, and the read that crosses the end delivers one byte too many, or
\* none at all if it starts at the end.
FileRead(n, pos, s) ==
  LET size == inodes[n].file_size
  IN  /\ Len(s) <= size + 1
      /\ pos <= size => Len(s) = pos
      /\ pos > size => Len(s) >= size
      /\ \A k \in 1 .. Len(s) : s[k] = ByteAt(n, k - 1)

DirectoryRead(pos, s) ==
  /\ Len(s) = pos /\ pos <= Len(dentries)
  /\ \A k \in 1 .. Len(s) : s[k] = dentries[k].fname

TypeInv ==
  /\ fda \in [Fds -> Descriptors]
  /\ got \in [Fds -> Seq(Items)]

DescriptorInv(fd) ==
  /\ fda[fd].kind = "regular" => fda[fd].inode \in DOMAIN inodes
                                 /\ FileRead(fda[fd].inode, fda[fd].file_pos, got[fd])
  /\ fda[fd].kind = "directory" => DirectoryRead(fda[fd].file_pos, got[fd])

IInv == TypeInv /\ \A fd \in Fds : DescriptorInv(fd)

-----------------------------------------------------------------------------
(* The functions on the image *)

\* read_data delivers what is asked for, or what is left and a byte more.
LEMMA DataRead ==
  ASSUME NEW n \in DOMAIN inodes, NEW pos \in Nat, NEW nbytes \in Nat
  PROVE  LET size == inodes[n].file_size
             data == ReadData(n, pos, nbytes)
         IN  /\ data \in Seq(Items)
             /\ Len(data) = IF pos >= size THEN 0
                            ELSE IF nbytes < size - pos + 1 THEN nbytes ELSE size - pos + 1
             /\ \A k \in 1 .. Len(data) : data[k] = ByteAt(n, pos + k - 1)
<1> DEFINE size == inodes[n].file_size
           data == ReadData(n, pos, nbytes)
           m    == IF pos >= size THEN 0
                   ELSE IF nbytes < size - pos + 1 THEN nbytes ELSE size - pos + 1
<1>1. size \in Nat
  BY ImageAssumption
<1>2. BytesRead(n, pos, nbytes) = m
  BY DEF BytesRead
<1>3. m \in Nat
  BY <1>1
<1> HIDE DEF m
<1>4. data = [k \in 1 .. m |-> ByteAt(n, pos + k - 1)]
  BY <1>2 DEF ReadData
<1>5. \A k \in 1 .. m : ByteAt(n, pos + k - 1) \in Items
  <2>1. \A k \in 1 .. m : pos + k - 1 \in Nat
    BY <1>3
  <2>2. QED
    BY <2>1 DEF Items
<1>6. data \in Seq(Items) /\ Len(data) = m
  BY <1>3, <1>4, <1>5
<1>7. QED
  BY <1>4, <1>6 DEF m

LEMMA FileGrows ==
  ASSUME NEW n \in DOMAIN inodes, NEW pos \in Nat, NEW nbytes \in Nat,
         NEW s \in Seq(Items), FileRead(n, pos, s)
  PROVE  /\ s \o ReadData(n, pos, nbytes) \in Seq(Items)
         /\ FileRead(n, pos + nbytes, s \o ReadData(n, pos, nbytes))
<1> DEFINE size == inodes[n].file_size
<1>1. PICK data : data = ReadData(n, pos, nbytes)
  OBVIOUS
<1>2. /\ data \in Seq(Items) /\ Len(data) \in Nat
      /\ Len(data) = IF pos >= size THEN 0
                     ELSE IF nbytes < size - pos + 1 THEN nbytes ELSE size - pos + 1
      /\ \A k \in 1 .. Len(data) : data[k] = ByteAt(n, pos + k - 1)
  BY <1>1, DataRead, LenProperties
<1>3. size \in Nat /\ Len(s) \in Nat
  BY ImageAssumption, LenProperties
<1>4. PICK both : both = s \o data
  OBVIOUS
<1>5. /\ both \in Seq(Items) /\ Len(both) = Len(s) + Len(data)
      /\ \A k \in 1 .. Len(s) + Len(data) : both[k] = IF k <= Len(s) THEN s[k] ELSE data[k - Len(s)]
  BY <1>2, <1>4, ConcatProperties
<1> HIDE DEF size
<1>6. /\ Len(s) <= size + 1
      /\ pos <= size => Len(s) = pos
      /\ pos > size => Len(s) >= size
      /\ \A k \in 1 .. Len(s) : s[k] = ByteAt(n, k - 1)
  BY DEF FileRead, size
<1>7. /\ Len(both) <= size + 1
      /\ pos + nbytes <= size => Len(both) = pos + nbytes
      /\ pos + nbytes > size => Len(both) >= size
  BY <1>2, <1>3, <1>5, <1>6
<1>8. ASSUME NEW k \in 1 .. Len(both)
      PROVE  both[k] = ByteAt(n, k - 1)
  <2>1. CASE k <= Len(s)
    BY <1>3, <1>5, <1>6, <2>1
  <2>2. CASE ~ (k <= Len(s))
    <3>1. k - Len(s) \in 1 .. Len(data) /\ both[k] = data[k - Len(s)]
      BY <1>2, <1>3, <1>5, <2>2
    <3>2. Len(s) = pos
      BY <1>2, <1>3, <1>6, <3>1
    <3>3. pos + (k - Len(s)) - 1 = k - 1
      BY <1>3, <3>1, <3>2
    <3>4. QED
      BY <1>2, <3>1, <3>3
  <2>3. QED
    BY <2>1, <2>2
<1>9. QED
  BY <1>1, <1>4, <1>5, <1>7, <1>8 DEF FileRead, size

\* open finds the entry of a name, and the lowest descriptor that is free.
LEMMA EntryOfName ==
  ASSUME NEW name \in Names
  PROVE  \E i \in DOMAIN dentries : DentryByName(name) = dentries[i]
<1> DEFINE S == {i \in DOMAIN dentries : dentries[i].fname = name}
<1>1. DOMAIN dentries = 1 .. Len(dentries) /\ Len(dentries) \in Nat
  BY ImageAssumption
<1>2. S \in SUBSET Nat /\ S # {}
  BY <1>1 DEF Names
<1>3. PICK m \in S : \A k \in S : ~ (k < m)
  BY <1>2, Lowest
<1>4. \A j \in 1 .. m - 1 : dentries[j].fname # name
  <2>1. \A j \in 1 .. m - 1 : j \in DOMAIN dentries /\ j < m
    BY <1>1, <1>2
  <2>2. QED
    BY <1>3, <2>1
<1>5. PICK i \in DOMAIN dentries :
        i = CHOOSE h \in DOMAIN dentries :
              dentries[h].fname = name /\ \A j \in 1 .. h - 1 : dentries[j].fname # name
  <2>1. m \in DOMAIN dentries /\ dentries[m].fname = name
    OBVIOUS
  <2>2. QED
    BY <1>4, <2>1, Zenon
<1>6. QED
  BY <1>5 DEF DentryByName

LEMMA FreeDescriptor ==
  ASSUME \E fd \in Fds : fda[fd].kind = "closed"
  PROVE  LowestFree \in Fds
<1> DEFINE S == {fd \in Fds : fda[fd].kind = "closed"}
<1>1. S \in SUBSET Nat /\ S # {}
  BY FileSystemAssumption
<1>2. PICK m \in S : \A k \in S : ~ (k < m)
  BY <1>1, Lowest
<1>3. m \in Fds /\ fda[m].kind = "closed" /\ \A g \in Fds : g < m => fda[g].kind # "closed"
  BY <1>2
<1>4. QED
  BY <1>3, Zenon DEF LowestFree

-----------------------------------------------------------------------------
(* The calls *)

LEMMA InitIInv ==
  ASSUME FSInit
  PROVE  IInv
<1>1. Closed \in Descriptors /\ Closed.kind = "closed"
  BY DEF Closed, Descriptors, Inodes
<1>2. <<>> \in Seq(Items)
  OBVIOUS
<1>3. TypeInv
  BY <1>1, <1>2 DEF FSInit, TypeInv
<1>4. \A fd \in Fds : DescriptorInv(fd)
  BY <1>1 DEF FSInit, DescriptorInv
<1>5. QED
  BY <1>3, <1>4 DEF IInv

\* A step on one descriptor leaves what the others have read.
LEMMA OneDescriptor ==
  ASSUME IInv, NEW fd \in Fds, NEW d \in Descriptors, NEW s \in Seq(Items),
         fda' = [fda EXCEPT ![fd] = d], got' = [got EXCEPT ![fd] = s],
         d.kind = "regular" => d.inode \in DOMAIN inodes /\ FileRead(d.inode, d.file_pos, s),
         d.kind = "directory" => DirectoryRead(d.file_pos, s)
  PROVE  IInv'
<1>1. /\ fda \in [Fds -> Descriptors] /\ got \in [Fds -> Seq(Items)]
      /\ \A g \in Fds : DescriptorInv(g)
  BY DEF IInv, TypeInv
<1>2. TypeInv'
  BY <1>1 DEF TypeInv
<1>3. /\ fda'[fd] = d /\ got'[fd] = s
      /\ \A g \in Fds : g # fd => fda'[g] = fda[g] /\ got'[g] = got[g]
  BY <1>1
<1>4. DescriptorInv(fd)'
  BY <1>3 DEF DescriptorInv
<1>5. ASSUME NEW g \in Fds, g # fd
      PROVE  DescriptorInv(g)'
  BY <1>1, <1>3, <1>5 DEF DescriptorInv
<1>6. QED
  BY <1>2, <1>4, <1>5 DEF IInv

LEMMA OpenIInv ==
  ASSUME IInv, NEW name \in Names, Open(name)
  PROVE  IInv'
<1>1. PICK fd \in Fds : fd = LowestFree
  BY FreeDescriptor DEF Open
<1>2. PICK i \in DOMAIN dentries : DentryByName(name) = dentries[i]
  BY EntryOfName
<1>3. PICK d : d = Opened(fd, dentries[i])
  OBVIOUS
<1>4. fda' = [fda EXCEPT ![fd] = d] /\ got' = [got EXCEPT ![fd] = <<>>]
  BY <1>1, <1>2, <1>3 DEF Open
<1>5. PICK old \in Descriptors : old = fda[fd]
  BY DEF IInv, TypeInv
<1>6. /\ dentries[i].ftype \in {"rtc", "directory", "regular"} /\ dentries[i].inode \in Inodes
      /\ dentries[i].ftype = "regular" => dentries[i].inode \in DOMAIN inodes
  BY ImageAssumption DEF Inodes
<1>7. d = [kind |-> dentries[i].ftype,
           inode |-> IF dentries[i].ftype = "regular" THEN dentries[i].inode ELSE old.inode,
           file_pos |-> 0]
  BY <1>3, <1>5 DEF Opened, Descriptors
<1>8. d \in Descriptors /\ d.file_pos = 0 /\ (d.kind = "regular" => d.inode \in DOMAIN inodes)
  BY <1>5, <1>6, <1>7 DEF Descriptors
<1>9. PICK s : s = <<>> /\ s \in Seq(Items) /\ Len(s) = 0
  <2>1. <<>> \in Seq(Items) /\ Len(<<>>) = 0
    OBVIOUS
  <2>2. QED
    BY <2>1
<1>10. d.kind = "regular" => FileRead(d.inode, d.file_pos, s)
  <2>1. d.kind = "regular" => inodes[d.inode].file_size \in Nat
    BY <1>8, ImageAssumption
  <2>2. QED
    BY <1>8, <1>9, <2>1 DEF FileRead
<1>11. DirectoryRead(d.file_pos, s)
  <2>1. Len(dentries) \in Nat
    BY ImageAssumption, LenProperties
  <2>2. QED
    BY <1>8, <1>9, <2>1 DEF DirectoryRead
<1>12. got' = [got EXCEPT ![fd] = s]
  BY <1>4, <1>9
<1>13. fda' = [fda EXCEPT ![fd] = d]
  BY <1>4
<1>14. QED
  BY ONLY IInv, <1>1, <1>8, <1>9, <1>10, <1>11, <1>12, <1>13, OneDescriptor

LEMMA CloseIInv ==
  ASSUME IInv, NEW fd \in Fds, Close(fd)
  PROVE  IInv'
<1>1. PICK old \in Descriptors : old = fda[fd]
  BY DEF IInv, TypeInv
<1>2. PICK d : d = [old EXCEPT !.kind = "closed"]
  OBVIOUS
<1>3. d \in Descriptors /\ d.kind = "closed"
  BY <1>1, <1>2 DEF Descriptors
<1>4. PICK s \in Seq(Items) : s = got[fd]
  BY DEF IInv, TypeInv
<1>5. fda' = [fda EXCEPT ![fd] = d] /\ got' = [got EXCEPT ![fd] = s]
  BY <1>1, <1>2, <1>4 DEF Close, IInv, TypeInv
<1>6. QED
  BY <1>3, <1>4, <1>5, OneDescriptor

LEMMA ReadFileIInv ==
  ASSUME IInv, NEW fd \in Fds, NEW nbytes \in Sizes, ReadFile(fd, nbytes)
  PROVE  IInv'
<1>1. PICK old \in Descriptors : old = fda[fd]
  BY DEF IInv, TypeInv
<1>2. PICK s \in Seq(Items) : s = got[fd]
  BY DEF IInv, TypeInv
<1>3. old.kind = "regular" /\ old.inode \in DOMAIN inodes /\ FileRead(old.inode, old.file_pos, s)
  BY <1>1, <1>2 DEF ReadFile, IInv, DescriptorInv
<1>4. nbytes \in Nat /\ old.file_pos \in Nat
  BY FileSystemAssumption DEF Descriptors
<1>5. PICK r : r = s \o ReadData(old.inode, old.file_pos, nbytes)
  OBVIOUS
<1>6. r \in Seq(Items) /\ FileRead(old.inode, old.file_pos + nbytes, r)
  BY <1>3, <1>4, <1>5, FileGrows
<1>7. PICK d : d = [old EXCEPT !.file_pos = old.file_pos + nbytes]
  OBVIOUS
<1>8. d \in Descriptors /\ d.kind = "regular" /\ d.inode = old.inode /\ d.file_pos = old.file_pos + nbytes
  BY <1>3, <1>4, <1>7 DEF Descriptors
<1>9. fda' = [fda EXCEPT ![fd] = d] /\ got' = [got EXCEPT ![fd] = r]
  BY <1>1, <1>2, <1>5, <1>7 DEF ReadFile
<1>10. QED
  BY <1>3, <1>6, <1>8, <1>9, OneDescriptor

LEMMA ReadDirIInv ==
  ASSUME IInv, NEW fd \in Fds, ReadDir(fd)
  PROVE  IInv'
<1>1. PICK old \in Descriptors : old = fda[fd]
  BY DEF IInv, TypeInv
<1>2. PICK s \in Seq(Items) : s = got[fd]
  BY DEF IInv, TypeInv
<1>3. PICK pos \in Nat : pos = old.file_pos
  BY DEF Descriptors
<1>4. old.kind = "directory" /\ DirectoryRead(pos, s) /\ pos < Len(dentries)
  BY <1>1, <1>2, <1>3 DEF ReadDir, HasDentry, IInv, DescriptorInv
<1>5. DOMAIN dentries = 1 .. Len(dentries) /\ Len(dentries) \in Nat
  BY ImageAssumption
<1>6. PICK name \in Items : name = dentries[pos + 1].fname
  BY <1>4, <1>5 DEF Items, Names
<1>7. PICK r : r = Append(s, name)
  OBVIOUS
<1>8. /\ r \in Seq(Items) /\ Len(s) \in Nat /\ Len(r) = Len(s) + 1 /\ r[Len(s) + 1] = name
      /\ \A k \in 1 .. Len(s) : r[k] = s[k]
  BY <1>7, AppendProperties, LenProperties
<1>9. DirectoryRead(pos + 1, r)
  <2>1. Len(r) = pos + 1 /\ pos + 1 <= Len(dentries)
    BY <1>4, <1>5, <1>8 DEF DirectoryRead
  <2>2. ASSUME NEW k \in 1 .. Len(r)
        PROVE  r[k] = dentries[k].fname
    <3>1. CASE k = pos + 1
      BY <1>4, <1>6, <1>8, <3>1 DEF DirectoryRead
    <3>2. CASE k # pos + 1
      <4>1. k \in 1 .. Len(s)
        BY <1>8, <2>1, <3>2
      <4>2. QED
        BY <1>4, <1>8, <4>1 DEF DirectoryRead
    <3>3. QED
      BY <3>1, <3>2
  <2>3. QED
    BY <2>1, <2>2 DEF DirectoryRead
<1>10. PICK d : d = [old EXCEPT !.file_pos = pos + 1]
  OBVIOUS
<1>11. d \in Descriptors /\ d.kind = "directory" /\ d.file_pos = pos + 1
  BY <1>4, <1>10 DEF Descriptors
<1>12. fda' = [fda EXCEPT ![fd] = d] /\ got' = [got EXCEPT ![fd] = r]
  BY <1>1, <1>2, <1>3, <1>6, <1>7, <1>10 DEF ReadDir, NextEntry, DentryByIndex
<1>13. QED
  BY <1>8, <1>9, <1>11, <1>12, OneDescriptor

LEMMA AlwaysIInv == FSSpec => []IInv
<1>1. FSInit => IInv
  BY InitIInv
<1>2. IInv /\ [FSNext]_fsVars => IInv'
  <2>1. SUFFICES ASSUME IInv, [FSNext]_fsVars PROVE IInv'
    OBVIOUS
  <2>2. CASE UNCHANGED fsVars
    BY <2>1, <2>2 DEF fsVars, IInv, TypeInv, DescriptorInv
  <2>3. QED
    BY <2>1, <2>2, OpenIInv, CloseIInv, ReadFileIInv, ReadDirIInv DEF FSNext
<1>3. QED
  BY <1>1, <1>2, PTL DEF FSSpec

-----------------------------------------------------------------------------
(* The theorems *)

\* Two sequences that agree as far as both go have the same beginnings.
LEMMA SamePrefix ==
  ASSUME NEW S, NEW s \in Seq(S), NEW r \in Seq(S), NEW n \in Nat, n <= Len(s),
         \A k \in 1 .. Len(s) : k <= n /\ k <= Len(r) => s[k] = r[k], n <= Len(r)
  PROVE  SubSeq(s, 1, n) = SubSeq(r, 1, n)
<1>1. Len(s) \in Nat /\ Len(r) \in Nat
  BY LenProperties
<1>2. /\ SubSeq(s, 1, n) \in Seq(S) /\ Len(SubSeq(s, 1, n)) = n
      /\ \A k \in 1 .. n : SubSeq(s, 1, n)[k] = s[k]
  BY <1>1
<1>3. /\ SubSeq(r, 1, n) \in Seq(S) /\ Len(SubSeq(r, 1, n)) = n
      /\ \A k \in 1 .. n : SubSeq(r, 1, n)[k] = r[k]
  BY <1>1
<1>4. \A k \in 1 .. n : s[k] = r[k]
  BY <1>1
<1>5. \A k \in 1 .. n : SubSeq(s, 1, n)[k] = SubSeq(r, 1, n)[k]
  BY <1>2, <1>3, <1>4
<1>6. QED
  BY <1>2, <1>3, <1>5, SeqEqual

\* For every image and every size of a read, what the reads of an open file deliver
\* is the file from its beginning, and at most one byte more (open, read_file,
\* read_data).
THEOREM FilesAreDelivered == FSSpec => []ReadsDeliverFile
<1>1. IInv => ReadsDeliverFile
  <2>1. SUFFICES ASSUME IInv, NEW fd \in Fds, fda[fd].kind = "regular"
                 PROVE  LET size == inodes[fda[fd].inode].file_size
                        IN  /\ Len(got[fd]) <= size + 1
                            /\ PrefixUpTo(got[fd], size) = PrefixUpTo(FileOf(fda[fd].inode), Len(got[fd]))
    BY DEF ReadsDeliverFile
  <2>2. PICK n \in DOMAIN inodes : n = fda[fd].inode
    BY <2>1 DEF IInv, DescriptorInv
  <2>3. PICK s \in Seq(Items) : s = got[fd]
    BY <2>1 DEF IInv, TypeInv
  <2>4. PICK size \in Nat : size = inodes[n].file_size
    BY ImageAssumption
  <2>5. Len(s) <= size + 1 /\ Len(s) \in Nat /\ \A k \in 1 .. Len(s) : s[k] = ByteAt(n, k - 1)
    BY <2>1, <2>2, <2>3, <2>4, LenProperties DEF IInv, DescriptorInv, FileRead
  <2>6. PICK f : f = FileOf(n)
    OBVIOUS
  <2>7. f = [k \in 1 .. size |-> ByteAt(n, k - 1)]
    BY <2>4, <2>6, Zenon DEF FileOf, ByteAt
  <2>8. f \in Seq(Items) /\ Len(f) = size
    <3>1. \A k \in 1 .. size : ByteAt(n, k - 1) \in Items
      <4>1. \A k \in 1 .. size : k - 1 \in Nat
        OBVIOUS
      <4>2. QED
        BY <4>1 DEF Items
    <3>2. QED
      BY <2>7, <3>1
  <2>9. \A k \in 1 .. Len(s) : k <= Len(f) => s[k] = f[k]
    BY <2>5, <2>7, <2>8
  <2>10. PICK m \in Nat : m = IF Len(s) < size THEN Len(s) ELSE size
    BY <2>5
  <2>11. SubSeq(s, 1, m) = SubSeq(f, 1, m)
    BY <2>5, <2>8, <2>9, <2>10, SamePrefix
  <2>12. PrefixUpTo(s, size) = SubSeq(s, 1, m)
    BY <2>10 DEF PrefixUpTo
  <2>13. PrefixUpTo(f, Len(s)) = SubSeq(f, 1, m)
    <3>1. m = IF Len(f) < Len(s) THEN Len(f) ELSE Len(s)
      BY <2>5, <2>8, <2>10
    <3>2. QED
      BY <3>1 DEF PrefixUpTo
  <2>14. QED
    BY <2>2, <2>3, <2>4, <2>5, <2>6, <2>11, <2>12, <2>13
<1>2. QED
  BY <1>1, AlwaysIInv, PTL

\* For every image, reading an open directory delivers its names in order, each once
\* (open, read_dir, read_dentry_by_index).
THEOREM DirectoryIsListed == FSSpec => []ReadsListDirectory
<1>1. IInv => ReadsListDirectory
  <2>1. SUFFICES ASSUME IInv, NEW fd \in Fds, fda[fd].kind = "directory"
                 PROVE  got[fd] = PrefixUpTo([i \in DOMAIN dentries |-> dentries[i].fname], Len(got[fd]))
    BY DEF ReadsListDirectory
  <2>2. PICK s \in Seq(Items) : s = got[fd]
    BY <2>1 DEF IInv, TypeInv
  <2>3. Len(s) \in Nat /\ Len(s) <= Len(dentries) /\ \A k \in 1 .. Len(s) : s[k] = dentries[k].fname
    BY <2>1, <2>2, LenProperties DEF IInv, DescriptorInv, DirectoryRead
  <2>4. DOMAIN dentries = 1 .. Len(dentries) /\ Len(dentries) \in Nat
    BY ImageAssumption
  <2>5. PICK f : f = [i \in DOMAIN dentries |-> dentries[i].fname]
    OBVIOUS
  <2>6. f \in Seq(Items) /\ Len(f) = Len(dentries)
    <3>1. \A i \in DOMAIN dentries : dentries[i].fname \in Items
      BY DEF Items, Names
    <3>2. QED
      BY <2>4, <2>5, <3>1
  <2>7. SubSeq(s, 1, Len(s)) = SubSeq(f, 1, Len(s))
    <3>1. \A k \in 1 .. Len(s) : s[k] = f[k]
      BY <2>3, <2>4, <2>5
    <3>2. QED
      BY <2>3, <2>6, <3>1, SamePrefix
  <2>8. SubSeq(s, 1, Len(s)) = s
    BY <2>3, SubSeqFull
  <2>9. PrefixUpTo(f, Len(s)) = SubSeq(f, 1, Len(s))
    BY <2>3, <2>6 DEF PrefixUpTo
  <2>10. QED
    BY <2>2, <2>5, <2>7, <2>8, <2>9
<1>2. QED
  BY <1>1, AlwaysIInv, PTL

-----------------------------------------------------------------------------
(* The two models of a file *)

\* Programs has the bytes of a file, FileSystem its blocks.
SameFile(n) ==
  /\ n \in DOMAIN Files /\ n \in DOMAIN inodes
  /\ Files[n].file_size = inodes[n].file_size
  /\ \A k \in 0 .. inodes[n].file_size : Files[n].data[k] = ByteAt(n, k)

\* What execute has in the page is what read_data delivers from the start of the file,
\* at the length execute passes, and behind it what was there before: for every file
\* and every length the two models agree on the byte past the end, on empty files and
\* on files that are longer (execute, read_data).
THEOREM LoadIsReadData ==
  ASSUME NEW n, SameFile(n), NEW old, DOMAIN old \subseteq Nat
  PROVE  LET data == ReadData(n, 0, LoadSize)
         IN  Loaded(n, old) = [k \in DOMAIN old |-> IF k < Len(data) THEN data[k + 1] ELSE old[k]]
<1>1. PICK data : data = ReadData(n, 0, LoadSize)
  OBVIOUS
<1>2. PICK size \in Nat, m \in Nat :
        /\ size = inodes[n].file_size /\ size = Files[n].file_size /\ m = LoadSize
  BY ProgramsAssumption, ImageAssumption DEF SameFile
<1>3. n \in DOMAIN inodes /\ 0 \in Nat /\ LoadSize \in Nat
  BY <1>2 DEF SameFile
<1>4. PICK len \in Nat : len = LoadedBytes(n, LoadSize) /\ len <= size + 1
  <2>1. LoadedBytes(n, LoadSize) = IF size = 0 THEN 0 ELSE IF m <= size THEN m ELSE size + 1
    BY <1>2 DEF LoadedBytes
  <2>2. QED
    BY <2>1
<1>5. BytesRead(n, 0, LoadSize) = len
  <2>1. len = IF size = 0 THEN 0 ELSE IF m <= size THEN m ELSE size + 1
    BY <1>2, <1>4 DEF LoadedBytes
  <2>2. BytesRead(n, 0, LoadSize) =
          IF 0 >= size THEN 0 ELSE IF m < size - 0 + 1 THEN m ELSE size - 0 + 1
    BY <1>2, <1>3 DEF BytesRead
  <2>3. QED
    BY <2>1, <2>2
<1>6. data = [k \in 1 .. len |-> ByteAt(n, 0 + k - 1)]
  BY <1>1, <1>5 DEF ReadData
<1>7. Len(data) = len
  BY <1>6
<1>8. ASSUME NEW k \in Nat, k < len
      PROVE  Files[n].data[k] = data[k + 1]
  <2>1. PICK h \in 1 .. len : h = k + 1 /\ 0 + h - 1 = k
    <3>1. k + 1 \in 1 .. len /\ 0 + (k + 1) - 1 = k
      BY <1>8
    <3>2. QED
      BY <3>1
  <2>2. data[h] = ByteAt(n, k)
    BY <1>6, <2>1
  <2>3. k \in 0 .. size
    BY <1>4, <1>8
  <2>4. Files[n].data[k] = ByteAt(n, k)
    BY <1>2, <2>3 DEF SameFile
  <2>5. QED
    BY <2>1, <2>2, <2>4
<1>9. Loaded(n, old) = [k \in DOMAIN old |-> IF k < len THEN Files[n].data[k] ELSE old[k]]
  BY <1>4 DEF Loaded
<1>10. Loaded(n, old) = [k \in DOMAIN old |-> IF k < Len(data) THEN data[k + 1] ELSE old[k]]
  BY <1>7, <1>8, <1>9
<1>11. QED
  BY <1>1, <1>10

===============================================================================
