------------------------------ MODULE Version ------------------------------
(***************************************************************************)
(* PipeWire versions: packed into 32 bits by the C API (pw_dart_native.cpp)*)
(* unpacked and compared by the isolate (native_bridge.dart, version.dart).*)
(* The headers' version is fixed at compile time; the library under it may *)
(* be any other, and is known from a text "major.minor.micro".             *)
(***************************************************************************)
EXTENDS Naturals, Sequences

CONSTANTS
    Components  \* the numbers that may stand in a version

\* Below 2^15 a component keeps the packed number within 32 bits.
ASSUME ComponentsAssumption == Components \subseteq 0 .. 32767

VARIABLES
    header,     \* the version the native library was compiled against
    library     \* what pw_get_library_version returns: the numbers of its
                \* text, from none (NULL, or not a number) to three

vars == <<header, library>>

Texts == UNION {[1 .. n -> Components] : n \in 0 .. 3}

-----------------------------------------------------------------------------
\* pw_dart_get_pw_library_version: strtoul up to three times; what is not
\* there is 0.
ParsedVersion(text) == [i \in 1 .. 3 |-> IF i <= Len(text) THEN text[i] ELSE 0]

\* The powers of two: Power[i + 1] is 2^i.
Power == <<1, 2, 4, 8, 16, 32, 64, 128, 256, 512, 1024, 2048, 4096, 8192, 16384>>

\* A number of 32 bits as the set of the positions that are 1: | is a union, a
\* shift moves the positions, a mask keeps the low ones.
Bits(n) == {i \in 0 .. 14 : (n \div Power[i + 1]) % 2 = 1}

ShiftLeft(word, by) == {i \in by .. 31 : i - by \in word}

ShiftRight(word, by) == {i \in 0 .. 31 : i + by \in word}

\* word & 0xFF, as a number.
LowByte(word) ==
    LET Digit(i) == IF i \in word THEN Power[i + 1] ELSE 0
    IN Digit(0) + Digit(1) + Digit(2) + Digit(3)
       + Digit(4) + Digit(5) + Digit(6) + Digit(7)

\* (major << 16) | (minor << 8) | micro, as uint32_t.
Pack(v) == ShiftLeft(Bits(v[1]), 16) \union ShiftLeft(Bits(v[2]), 8) \union Bits(v[3])

\* Mutant: the mask of the minor version is a bit too wide, 0x1FF.
UnpackWide(packed) ==
    LET minor == ShiftRight(packed, 8)
    IN <<LowByte(ShiftRight(packed, 16)),
         LowByte(minor) + (IF 8 \in minor THEN 256 ELSE 0),
         LowByte(packed)>>

\* PwNativeBridge._unpackVersion.
Unpack(packed) ==
    <<LowByte(ShiftRight(packed, 16)), LowByte(ShiftRight(packed, 8)), LowByte(packed)>>

\* What the isolate knows of the two versions (getVersionInfo).
HeaderSeen == Unpack(Pack(header))
LibrarySeen == Unpack(Pack(ParsedVersion(library)))

\* Mutant: minor and micro are compared each for itself.
CompatibleEach(h, l) == l[1] = h[1] /\ l[2] >= h[2] /\ l[3] >= h[3]

\* PwVersionInfo.isCompatible.
IsCompatible(h, l) ==
    /\ l[1] = h[1]
    /\ IF l[2] # h[2] THEN l[2] > h[2] ELSE l[3] >= h[3]

MinVersion == <<0, 3, 40>>

\* Mutant: the micro version counts whatever the minor is.
MeetsEach(v) == v[1] > 0 \/ (v[2] >= MinVersion[2] /\ v[3] >= MinVersion[3])

\* PwVersion.meetsMinimumVersion.
MeetsMinimum(v) ==
    IF v[1] # MinVersion[1] THEN v[1] > MinVersion[1]
    ELSE IF v[2] # MinVersion[2] THEN v[2] > MinVersion[2]
    ELSE v[3] >= MinVersion[3]

-----------------------------------------------------------------------------
Init ==
    /\ header \in [1 .. 3 -> Components]
    /\ library = header

\* The system gets another PipeWire library.
Install(text) ==
    /\ library' = text
    /\ UNCHANGED header

Next == \E text \in Texts : Install(text)

Spec == Init /\ [][Next]_vars

-----------------------------------------------------------------------------
\* Properties

\* The type invariant.
TypeOK ==
    /\ header \in [1 .. 3 -> Components] /\ library \in Texts
    /\ HeaderSeen \in [1 .. 3 -> 0 .. 255] /\ LibrarySeen \in [1 .. 3 -> 0 .. 255]

\* The order of versions: the first component that differs decides.
Before(v, w) ==
    \E i \in 1 .. 3 : v[i] < w[i] /\ \A j \in 1 .. i - 1 : v[j] = w[j]

\* The minimum is met by exactly the libraries that are not older than it,
\* although version and comparison pass through 32 bits, a text and three
\* languages.
MinimumIsExact ==
    MeetsMinimum(LibrarySeen) <=> ~ Before(ParsedVersion(library), MinVersion)

\* The rule that version.dart:25 documents: the major versions are equal and the
\* library's minor version is not below the headers'.
Documented(h, l) == l[1] = h[1] /\ l[2] >= h[2]

\* isCompatible never says yes where the documented rule says no, and says no
\* against it only to a library of the headers' minor version with a lower
\* micro version (native_bridge.dart:141).
CompatibleButForMicro ==
    LET l == ParsedVersion(library)
        compatible == IsCompatible(HeaderSeen, LibrarySeen)
    IN /\ compatible => Documented(header, l)
       /\ Documented(header, l) /\ ~ compatible => l[2] = header[2] /\ l[3] < header[3]

\* isCompatible is the documented rule.  It is not: the code also compares the
\* micro versions when the minor versions are equal.
CompatibleAsDocumented ==
    IsCompatible(HeaderSeen, LibrarySeen) <=> Documented(header, ParsedVersion(library))
=============================================================================
