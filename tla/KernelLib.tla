------------------------------- MODULE KernelLib -------------------------------
(***************************************************************************)
(* The functions of lib.c that other modules of the kernel rely on and     *)
(* that keep no state: copying and filling memory, strings and the         *)
(* conversion of numbers.                                                  *)
(*                                                                         *)
(* Memory is a function from addresses to bytes, a string such a function  *)
(* from 0 with a 0 in it.  The loops read it one byte after the other, so  *)
(* that a function that looks past the end of a buffer looks outside the   *)
(* domain here.                                                            *)
(***************************************************************************)
EXTENDS Integers, Sequences

CONSTANTS
  Addresses,    \* the memory that the properties below look at
  LibBytes,     \* the bytes of the strings that they look at
  MaxString,    \* the length of the longest of them
  WordBits      \* width of uint32_t, a multiple of 4: 32 in the code

ASSUME KernelLibAssumption ==
  /\ Addresses \subseteq Nat /\ \A a, b \in Addresses : a .. b \subseteq Addresses
  /\ 0 \in LibBytes /\ LibBytes \subseteq 0 .. 255
  /\ MaxString \in Nat
  /\ WordBits \in Nat \ {0} /\ WordBits % 4 = 0

-----------------------------------------------------------------------------
(* Memory *)

Fill(mem, from, n, byte) ==
  [a \in DOMAIN mem |-> IF a \in from .. from + n - 1 THEN byte ELSE mem[a]]

\* What is filled or copied byte by byte before dest is a multiple of 4.
Unaligned(dest, n) == LET rest == (4 - (dest % 4)) % 4 IN IF n < rest THEN n ELSE rest

\* memset: bytes up to a dword, dwords, and the bytes that are left.
Memset(mem, s, c, n) ==
  LET byte   == c % 256
      head   == Unaligned(s, n)
      dwords == (n - head) \div 4
      tail   == (n - head) % 4
      filled == Fill(Fill(mem, s, head, byte), s + head, 4 * dwords, byte)
  IN  Fill(filled, s + head + 4 * dwords, tail, byte)

\* One mov: width bytes are read, then written.
Move(mem, dest, src, width) ==
  [a \in DOMAIN mem |-> IF a \in dest .. dest + width - 1 THEN mem[src + a - dest] ELSE mem[a]]

\* n moves of width bytes, upwards or downwards in memory.
Upwards(mem, dest, src, width, n) ==
  LET moved[i \in 0 .. n] ==
        IF i = 0 THEN mem
        ELSE Move(moved[i - 1], dest + width * (i - 1), src + width * (i - 1), width)
  IN  moved[n]

Downwards(mem, dest, src, n) ==
  LET moved[i \in 0 .. n] ==
        IF i = 0 THEN mem ELSE Move(moved[i - 1], dest + n - i, src + n - i, 1)
  IN  moved[n]

\* Mutant of Memcpy: the bytes after the last dword are forgotten.
MemcpyNoTail(mem, dest, src, n) ==
  LET head   == Unaligned(dest, n)
      dwords == (n - head) \div 4
  IN  Upwards(Upwards(mem, dest, src, 1, head), dest + head, src + head, 4, dwords)

Memcpy(mem, dest, src, n) ==
  LET head   == Unaligned(dest, n)
      dwords == (n - head) \div 4
      done   == head + 4 * dwords
      moved  == Upwards(Upwards(mem, dest, src, 1, head), dest + head, src + head, 4, dwords)
  IN  Upwards(moved, dest + done, src + done, 1, (n - head) % 4)

\* From the end if the destination lies above the source.
Memmove(mem, dest, src, n) ==
  IF src >= dest THEN Upwards(mem, dest, src, 1, n) ELSE Downwards(mem, dest, src, n)

-----------------------------------------------------------------------------
(* Strings *)

Strlen(s) ==
  LET len[i \in Nat] == IF s[i] = 0 THEN i ELSE len[i + 1]
  IN  len[0]

Strncmp(s1, s2, n) ==
  LET cmp[i \in Nat] == IF i = n THEN 0
                        ELSE IF s1[i] # s2[i] \/ s1[i] = 0 THEN s1[i] - s2[i]
                        ELSE cmp[i + 1]
  IN  cmp[0]

\* src[n] is read before it is noticed that i is n.
Strncpy(dest, src, n) ==
  LET stop[i \in Nat] == IF src[i] # 0 /\ i < n THEN stop[i + 1] ELSE i
  IN  [i \in DOMAIN dest |-> IF i < stop[0] THEN src[i] ELSE IF i < n THEN 0 ELSE dest[i]]

\* beg counts up, end, n - beg, down, and the bytes at them are exchanged.
Strrev(s) ==
  LET n    == Strlen(s)
      half == n \div 2
      rev[beg \in 0 .. half] ==
        IF beg = 0 THEN s
        ELSE [rev[beg - 1] EXCEPT ![beg - 1] = rev[beg - 1][n - beg],
                                  ![n - beg] = rev[beg - 1][beg - 1]]
  IN  rev[half]

-----------------------------------------------------------------------------
(* Numbers *)

Digit == << "0", "1", "2", "3", "4", "5", "6", "7", "8", "9",
            "A", "B", "C", "D", "E", "F" >>

\* What the loop of itoa divides, value first.
Quotients(value, radix) ==
  LET newval[i \in Nat] == IF i = 0 THEN value ELSE newval[i - 1] \div radix
  IN  newval

\* How often it divides, and the digit it writes without dividing.
Places(value, radix) ==
  IF value = 0 THEN 1
  ELSE CHOOSE n \in 1 .. value :
         Quotients(value, radix)[n] = 0 /\ Quotients(value, radix)[n - 1] # 0

\* itoa: the lowest digit first, then reversed.  Digits are numbers here, the
\* character of digit d is d + 1: a string ends with 0.
Itoa(value, radix) ==
  LET n == Places(value, radix)
  IN  Strrev([i \in 0 .. n |->
                IF i = n THEN 0 ELSE (Quotients(value, radix)[i] % radix) + 1])

\* puts: the characters before the 0.
Puts(s) == [i \in 1 .. Strlen(s) |-> Digit[s[i - 1]]]

PrintHex(value)      == Puts(Itoa(value, 16))
PrintUnsigned(value) == Puts(Itoa(value, 10))

\* %#x: itoa writes into the middle of a buffer, zeros are put in front of it.
HexWidth == WordBits \div 4
PrintPaddedHex(value) ==
  [i \in 1 .. HexWidth - Len(PrintHex(value)) |-> "0"] \o PrintHex(value)

\* How many words there are, 2^WordBits: 16 for each hexadecimal digit.
WordCount ==
  LET count[n \in Nat] == IF n = 0 THEN 1 ELSE 16 * count[n - 1]
  IN  count[HexWidth]

\* A word read as a signed number, negated when that is negative.
PrintSigned(word) ==
  IF word >= WordCount \div 2 THEN <<"-">> \o PrintUnsigned(WordCount - word)
  ELSE PrintUnsigned(word)

-----------------------------------------------------------------------------
(* Properties *)

\* Two blocks of the same length, of any length that the memory has room for.
Lengths == {0} \cup {last - first + 1 : first, last \in Addresses}
Blocks  == {b \in Addresses \X Addresses \X (Lengths \cap Nat) :
              b[3] # 0 => b[1] + b[3] - 1 \in Addresses /\ b[2] + b[3] - 1 \in Addresses}

\* memset fills the block and nothing else; memmove copies the block as it was, also
\* onto itself; so does memcpy, when the blocks are apart or it copies downwards.
FillsAndCopies(mem, dest, src, n) ==
  LET block == dest .. dest + n - 1
      copy  == [a \in DOMAIN mem |-> IF a \in block THEN mem[a - dest + src] ELSE mem[a]]
  IN  /\ Memset(mem, dest, 511, n) = [a \in DOMAIN mem |-> IF a \in block THEN 255 ELSE mem[a]]
      /\ Memmove(mem, dest, src, n) = copy
      /\ dest <= src \/ src + n <= dest => Memcpy(mem, dest, src, n) = copy

\* Every byte different from every other.
Ruler == [a \in Addresses |-> a]

\* memset, memmove and memcpy do what they should with every block, at every
\* alignment, with any number of dwords between the bytes before and after them.
MemoryFunctions == \A b \in Blocks : FillsAndCopies(Ruler, b[1], b[2], b[3])

Strings == {s \in [0 .. MaxString -> LibBytes] : s[MaxString] = 0}
Cut(s, n) == LET l == Strlen(s) IN [i \in 1 .. (IF l < n THEN l ELSE n) |-> s[i - 1]]

\* strncmp says whether two strings, cut at n, are the same; what strncpy copied
\* compares as the same, and it writes n bytes, no more and no fewer.
StringFunctions ==
  \A s1, s2 \in Strings, n \in 0 .. MaxString :
    /\ Strncmp(s1, s2, n) = 0 <=> Cut(s1, n) = Cut(s2, n)
    /\ LET copy == Strncpy(s2, s1, n)
       IN  /\ Strncmp(copy, s1, n) = 0
           /\ \A i \in 0 .. MaxString : copy[i] = IF i < Len(Cut(s1, n)) THEN s1[i]
                                          ELSE IF i < n THEN 0 ELSE s2[i]

\* The number a sequence of digits stands for.
Value(digits, radix) ==
  LET d(i) == (CHOOSE k \in 1 .. 16 : Digit[k] = digits[i]) - 1
      v[i \in 0 .. Len(digits)] == IF i = 0 THEN 0 ELSE radix * v[i - 1] + d(i)
  IN  v[Len(digits)]

NoLeadingZero(digits) == Len(digits) > 1 => digits[1] # "0"

\* What printf prints for %x, %u and %d, read as a number, is the number, for every
\* word, without leading zeros; %#x prints as many digits as a word has (printf, itoa).
NumbersPrinted ==
  \A word \in 0 .. WordCount - 1 :
    /\ Value(PrintHex(word), 16) = word /\ NoLeadingZero(PrintHex(word))
    /\ Value(PrintUnsigned(word), 10) = word /\ NoLeadingZero(PrintUnsigned(word))
    /\ Len(PrintPaddedHex(word)) = HexWidth /\ Value(PrintPaddedHex(word), 16) = word
    /\ LET d == PrintSigned(word)
       IN  IF d[1] = "-" THEN Value(Tail(d), 10) = WordCount - word ELSE Value(d, 10) = word

================================================================================
