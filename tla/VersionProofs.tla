--------------------------- MODULE VersionProofs ---------------------------
(***************************************************************************)
(* Proofs about Version: 32 bits carry three components of a byte each     *)
(* unchanged, and of the two checks made of what comes out one agrees with *)
(* the order of versions, the other with its comment but for the micro     *)
(* version.                                                                *)
(***************************************************************************)
EXTENDS Version, TLAPS

-----------------------------------------------------------------------------
\* Bits

\* A byte is the sum of its digits.
LEMMA Binary ==
    ASSUME NEW n \in 0 .. 255
    PROVE  n = (n % 2) + 2 * ((n \div 2) % 2) + 4 * ((n \div 4) % 2)
               + 8 * ((n \div 8) % 2) + 16 * ((n \div 16) % 2)
               + 32 * ((n \div 32) % 2) + 64 * ((n \div 64) % 2)
               + 128 * ((n \div 128) % 2)
BY SMTT(60)

\* A byte has no bit above its eight.
LEMMA HighBits ==
    ASSUME NEW n \in 0 .. 255
    PROVE  Bits(n) \subseteq 0 .. 7
<1> SUFFICES ASSUME NEW i \in 8 .. 14 PROVE (n \div Power[i + 1]) % 2 = 0
  BY DEF Bits
<1>1. i \in {8, 9, 10, 11, 12, 13, 14}
  OBVIOUS
<1>2. n \div 256 = 0 /\ n \div 512 = 0 /\ n \div 1024 = 0 /\ n \div 2048 = 0
      /\ n \div 4096 = 0 /\ n \div 8192 = 0 /\ n \div 16384 = 0
  OBVIOUS
<1> QED
  BY <1>1, <1>2 DEF Power

\* The low byte of a word depends on its eight low positions.
LEMMA LowByteOf ==
    ASSUME NEW n \in 0 .. 255, NEW word,
           \A i \in 0 .. 7 : i \in word <=> i \in Bits(n)
    PROVE  LowByte(word) = n
<1> DEFINE Digit(i) == IF i \in word THEN Power[i + 1] ELSE 0
<1>0. \A i \in 0 .. 7 : i \in word <=> (n \div Power[i + 1]) % 2 = 1
  BY DEF Bits
<1>1. Digit(0) = n % 2
  BY <1>0 DEF Power
<1>2. Digit(1) = 2 * ((n \div 2) % 2)
  BY <1>0 DEF Power
<1>3. Digit(2) = 4 * ((n \div 4) % 2)
  BY <1>0 DEF Power
<1>4. Digit(3) = 8 * ((n \div 8) % 2)
  BY <1>0 DEF Power
<1>5. Digit(4) = 16 * ((n \div 16) % 2)
  BY <1>0 DEF Power
<1>6. Digit(5) = 32 * ((n \div 32) % 2)
  BY <1>0 DEF Power
<1>7. Digit(6) = 64 * ((n \div 64) % 2)
  BY <1>0 DEF Power
<1>8. Digit(7) = 128 * ((n \div 128) % 2)
  BY <1>0 DEF Power
<1>9. LowByte(word) = Digit(0) + Digit(1) + Digit(2) + Digit(3)
                      + Digit(4) + Digit(5) + Digit(6) + Digit(7)
  BY DEF LowByte
<1> HIDE DEF Digit
<1> QED
  BY <1>1, <1>2, <1>3, <1>4, <1>5, <1>6, <1>7, <1>8, <1>9, Binary

\* Whatever the word, its low byte is a byte.
LEMMA LowByteRange ==
    ASSUME NEW word
    PROVE  LowByte(word) \in 0 .. 255
BY DEF LowByte, Power

\* Three bytes come out of the packed number as they went in.
LEMMA RoundTrip ==
    ASSUME NEW v \in [1 .. 3 -> 0 .. 255]
    PROVE  Unpack(Pack(v)) = <<v[1], v[2], v[3]>>
<1>1. /\ v[1] \in 0 .. 255 /\ Bits(v[1]) \subseteq 0 .. 7
      /\ v[2] \in 0 .. 255 /\ Bits(v[2]) \subseteq 0 .. 7
      /\ v[3] \in 0 .. 255 /\ Bits(v[3]) \subseteq 0 .. 7
  BY HighBits
<1>2. LowByte(ShiftRight(Pack(v), 16)) = v[1]
  <2>1. \A i \in 0 .. 7 : i \in ShiftRight(Pack(v), 16) <=> i \in Bits(v[1])
    BY <1>1 DEF ShiftRight, Pack, ShiftLeft
  <2> QED
    BY <2>1, <1>1, LowByteOf
<1>3. LowByte(ShiftRight(Pack(v), 8)) = v[2]
  <2>1. \A i \in 0 .. 7 : i \in ShiftRight(Pack(v), 8) <=> i \in Bits(v[2])
    BY <1>1 DEF ShiftRight, Pack, ShiftLeft
  <2> QED
    BY <2>1, <1>1, LowByteOf
<1>4. LowByte(Pack(v)) = v[3]
  <2>1. \A i \in 0 .. 7 : i \in Pack(v) <=> i \in Bits(v[3])
    BY <1>1 DEF Pack, ShiftLeft
  <2> QED
    BY <2>1, <1>1, LowByteOf
<1> QED
  BY <1>2, <1>3, <1>4 DEF Unpack

-----------------------------------------------------------------------------
\* Versions

\* The part of the type invariant that a step can disturb.
Typed == header \in [1 .. 3 -> Components] /\ library \in Texts

\* A text of bytes is read as three bytes.
LEMMA ParsedType ==
    ASSUME NEW n \in 0 .. 3, NEW text \in [1 .. n -> 0 .. 255]
    PROVE  ParsedVersion(text) \in [1 .. 3 -> 0 .. 255]
<1>1. Len(text) = n
  OBVIOUS
<1> QED
  BY SMTT(30), <1>1 DEF ParsedVersion

\* The two versions are what the header and the library say.
LEMMA TypedInvariant == Spec => []Typed
<1>1. Init => Typed
  BY DEF Init, Typed, Texts
<1>2. Typed /\ [Next]_vars => Typed'
  BY DEF Typed, Next, Install, vars
<1> QED
  BY <1>1, <1>2, PTL DEF Spec

\* The type invariant: whatever is installed, what the isolate unpacks are
\* bytes (native_bridge.dart:109).
THEOREM TypeCorrect == Spec => []TypeOK
<1>1. Typed => TypeOK
  BY SMTT(30), LowByteRange DEF Typed, TypeOK, HeaderSeen, LibrarySeen, Unpack
<1> QED
  BY <1>1, TypedInvariant, PTL

\* The isolate sees both versions as they are.
LEMMA SeenAsIs ==
    ASSUME Components \subseteq 0 .. 255, Typed
    PROVE  LET l == ParsedVersion(library)
           IN /\ header \in [1 .. 3 -> 0 .. 255] /\ l \in [1 .. 3 -> 0 .. 255]
              /\ HeaderSeen = <<header[1], header[2], header[3]>>
              /\ LibrarySeen = <<l[1], l[2], l[3]>>
<1>1. header \in [1 .. 3 -> 0 .. 255]
  BY DEF Typed
<1>2. ParsedVersion(library) \in [1 .. 3 -> 0 .. 255]
  <2> PICK n \in 0 .. 3 : library \in [1 .. n -> Components]
    BY DEF Typed, Texts
  <2>1. library \in [1 .. n -> 0 .. 255]
    OBVIOUS
  <2> QED
    BY <2>1, ParsedType
<1> QED
  BY <1>1, <1>2, RoundTrip DEF HeaderSeen, LibrarySeen

\* The first component that differs decides, spelled out.
LEMMA Earlier ==
    ASSUME NEW v \in [1 .. 3 -> Nat], NEW w \in [1 .. 3 -> Nat]
    PROVE  Before(v, w) <=>
               \/ v[1] < w[1]
               \/ v[1] = w[1] /\ v[2] < w[2]
               \/ v[1] = w[1] /\ v[2] = w[2] /\ v[3] < w[3]
<1>1. 1 .. 3 = {1, 2, 3} /\ 1 .. 1 - 1 = {} /\ 1 .. 2 - 1 = {1} /\ 1 .. 3 - 1 = {1, 2}
  OBVIOUS
<1> QED
  BY <1>1 DEF Before

\* The minimum is met by exactly the libraries that are not older than it, for
\* any versions whose components fit into eight bits (version.dart:39).
THEOREM Minimum_Is_Exact ==
    ASSUME Components \subseteq 0 .. 255
    PROVE  Spec => []MinimumIsExact
<1>1. Typed => MinimumIsExact
  <2> SUFFICES ASSUME Typed PROVE MinimumIsExact
    OBVIOUS
  <2> DEFINE l == ParsedVersion(library)
  <2>1. l \in [1 .. 3 -> 0 .. 255] /\ LibrarySeen = <<l[1], l[2], l[3]>>
    BY SeenAsIs
  <2> HIDE DEF l
  <2>2. MinVersion \in [1 .. 3 -> Nat] /\ l \in [1 .. 3 -> Nat]
    BY <2>1 DEF MinVersion
  <2>3. Before(l, MinVersion) <=>
            \/ l[1] < MinVersion[1]
            \/ l[1] = MinVersion[1] /\ l[2] < MinVersion[2]
            \/ l[1] = MinVersion[1] /\ l[2] = MinVersion[2] /\ l[3] < MinVersion[3]
    BY <2>2, Earlier
  <2>4. MeetsMinimum(LibrarySeen) <=> ~ Before(l, MinVersion)
    BY <2>1, <2>3 DEF MeetsMinimum, MinVersion
  <2> QED
    BY <2>4 DEF MinimumIsExact, l
<1> QED
  BY <1>1, TypedInvariant, PTL

\* Where the code's rule for compatible libraries differs from the documented
\* one (version.dart:25), it is stricter, and only by the micro version, for any
\* versions whose components fit into eight bits.
THEOREM Compatible_But_For_Micro ==
    ASSUME Components \subseteq 0 .. 255
    PROVE  Spec => []CompatibleButForMicro
<1>1. Typed => CompatibleButForMicro
  <2> SUFFICES ASSUME Typed PROVE CompatibleButForMicro
    OBVIOUS
  <2> DEFINE l == ParsedVersion(library)
  <2>1. /\ header \in [1 .. 3 -> 0 .. 255] /\ l \in [1 .. 3 -> 0 .. 255]
        /\ HeaderSeen = <<header[1], header[2], header[3]>>
        /\ LibrarySeen = <<l[1], l[2], l[3]>>
    BY SeenAsIs
  <2> HIDE DEF l
  <2>2. /\ l[1] \in Nat /\ l[2] \in Nat /\ l[3] \in Nat
        /\ header[1] \in Nat /\ header[2] \in Nat /\ header[3] \in Nat
    BY SMTT(30), <2>1
  <2>3. IsCompatible(HeaderSeen, LibrarySeen) <=>
            /\ l[1] = header[1]
            /\ IF l[2] # header[2] THEN l[2] > header[2] ELSE l[3] >= header[3]
    BY <2>1 DEF IsCompatible
  <2>4. /\ IsCompatible(HeaderSeen, LibrarySeen) => Documented(header, l)
        /\ Documented(header, l) /\ ~ IsCompatible(HeaderSeen, LibrarySeen)
               => l[2] = header[2] /\ l[3] < header[3]
    BY <2>2, <2>3 DEF Documented
  <2> QED
    BY <2>4 DEF CompatibleButForMicro, l
<1> QED
  BY <1>1, TypedInvariant, PTL
=============================================================================
