------------------------------ MODULE ByteCodec ------------------------------
(***************************************************************************)
(* The encodings of ByteArray's typed operations, at a scaled width: a     *)
(* byte has ByteBits bits (8 in the code), a word WordBytes bytes (2, 4 or *)
(* 8), the length of a string LenBytes bytes.  Only the widths are scaled: *)
(* the arithmetic wraps at the width of the type as in the code, and the   *)
(* host is little-endian, as on every platform the code builds for.        *)
(***************************************************************************)
EXTENDS Integers, Sequences, FiniteSetsExt, SequencesExt

CONSTANTS
  ByteBits,      \* bits of a byte; one of them marks continuation in a varint
  WordBytes,     \* bytes of an int32_t, uint32_t, int64_t ...
  LenBytes       \* bytes of the length in front of a string

ASSUME CodecAssumption ==
  /\ ByteBits \in Nat /\ ByteBits > 1
  /\ WordBytes \in Nat \ {0}
  /\ LenBytes \in 1..WordBytes

Byte == 2 ^ ByteBits
Group == ByteBits - 1                \* the data bits of a varint's byte (7)
WordBits == ByteBits * WordBytes
Word == 2 ^ WordBits

Fixed == {"Fint32", "Fuint32", "Fint64"}
Varint == {"Int32", "Uint32"}
Strings == {"StringF", "StringVint"}
Signed == {"Fint32", "Fint64", "Int32"}

\* The values of a kind of number.
Values(kind) == IF kind \in Signed THEN -(Word \div 2)..(Word \div 2 - 1)
                                   ELSE 0..(Word - 1)

\* A number of the signed type with the same bits as the unsigned u.
AsSigned(u) == IF u >= Word \div 2 THEN u - Word ELSE u

\* The bytes of u as they lie in memory: least significant first.
HostBytes(u, bytes) == [i \in 1..bytes |-> (u \div Byte ^ (i - 1)) % Byte]

\* endian::hostToNetwork, networkToHost: the bytes in the opposite order.
hostToNetwork(mem) == Reverse(mem)

\* The number with these bytes in memory.
FromHost(mem) == MapThenSumSet(LAMBDA i : mem[i] * Byte ^ (i - 1), DOMAIN mem)

\* -v is taken as an int32_t, where the least number is its own negation,
\* and doubled as a uint32_t.
EncodeZigzag32(v) == IF v < 0 THEN (-v * 2 - 1) % Word ELSE v * 2

\* v >> 1, with all its bits inverted when v is odd.
DecodeZigzag32(v) == AsSigned(IF v % 2 = 1 THEN Word - 1 - v \div 2
                                           ELSE v \div 2)

\* The groups of Group bits of value, least significant first, every byte
\* but the last with the continuation bit.
writeUint32(value) ==
  LET k == Min({i \in 1..WordBits : value < 2 ^ (Group * i)})
      group(i) == (value \div 2 ^ (Group * (i - 1))) % 2 ^ Group
  IN [i \in 1..k |-> group(i) + IF i < k THEN 2 ^ Group ELSE 0]

\* Mutant of VarintLength: the loop ends one shift too early.
VarintShort(bytes) ==
  LET last == {i \in DOMAIN bytes : bytes[i] < 2 ^ Group}
  IN Min(last \union {(WordBits - 1) \div Group})

\* How many bytes readUint32 takes: up to the first without continuation bit,
\* and no more than the for loop over the shifts below the word's width.
VarintLength(bytes) ==
  LET limit == (WordBits - 1) \div Group + 1
      last == {i \in DOMAIN bytes : bytes[i] < 2 ^ Group}
  IN Min(last \union {limit})

readUint32(bytes) ==
  MapThenSumSet(LAMBDA i : ((bytes[i] % 2 ^ Group) * 2 ^ (Group * (i - 1))) % Word,
                1..VarintLength(bytes))

\* The bytes write() is called with for a number.  writeFint32 computes the
\* swapped v and then writes the argument as it is.
FixedBytes(kind, v) ==
  LET mem == HostBytes(v % Word, WordBytes)
  IN IF kind = "Fint32" THEN mem ELSE hostToNetwork(mem)

NumberBytes(kind, v) ==
  CASE kind \in Fixed -> FixedBytes(kind, v)
    [] kind = "Uint32" -> writeUint32(v)
    [] kind = "Int32" -> writeUint32(EncodeZigzag32(v))

\* How many of the bytes in front the read function of the kind consumes.
NumberLength(kind, bytes) ==
  IF kind \in Fixed THEN WordBytes ELSE VarintLength(bytes)

NumberRead(kind, bytes) ==
  LET fixed == FromHost(hostToNetwork(SubSeq(bytes, 1, WordBytes)))
  IN CASE kind = "Fuint32" -> fixed
       [] kind \in {"Fint32", "Fint64"} -> AsSigned(fixed)
       [] kind = "Uint32" -> readUint32(bytes)
       [] kind = "Int32" -> DecodeZigzag32(readUint32(bytes))

\* The length in front of a string: a fixed unsigned number, which keeps the
\* low bits of size(), or a varint.
LengthBytes(kind, size) ==
  IF kind = "StringF" THEN hostToNetwork(HostBytes(size, LenBytes))
                      ELSE writeUint32(size)

LengthLength(kind, bytes) ==
  IF kind = "StringF" THEN LenBytes ELSE VarintLength(bytes)

LengthRead(kind, bytes) ==
  IF kind = "StringF" THEN FromHost(hostToNetwork(SubSeq(bytes, 1, LenBytes)))
                      ELSE readUint32(bytes)
==============================================================================
