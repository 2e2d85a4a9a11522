------------------------------- MODULE Crc32 --------------------------------
(***************************************************************************)
(* The CRC of RdeCommandHandler (calcCrcTable, updateCrc, finalChecksum,   *)
(* and the comparison in handleCrc), bit by bit.  A word is the set of its *)
(* one bits, 0 being the least significant.  RdeHandler takes the CRC to   *)
(* be free of collisions; here it is the function the code computes, and   *)
(* it is compared with a reference over all streams within a bound.        *)
(***************************************************************************)
EXTENDS Integers, SequencesExt

CONSTANTS
  StreamBytes,   \* the bytes that occur in the streams
  MaxStream      \* bound on the bytes of a stream

Byte == SUBSET (0 .. 7)
AllOnes == 0 .. 31                             \* 0xFFFFFFFF
Xor(a, b) == (a \ b) \cup (b \ a)
ShiftRight(a, n) == {b - n : b \in {c \in a : c >= n}}
ShiftLeft(a, n) == {b + n : b \in a}

(* 0xedb88320                                                              *)
crcDevisor == {31, 30, 29, 27, 26, 24, 23, 21, 20, 19, 15, 9, 8, 5}

(* One round of the inner loop of calcCrcTable.                            *)
Round(rem) == IF 0 \in rem THEN Xor(ShiftRight(rem, 1), crcDevisor)
              ELSE ShiftRight(rem, 1)

(* Faulty variant: seven rounds instead of eight.                          *)
RemainderOfSeven(i) ==
  LET rem[k \in 0 .. 7] == IF k = 0 THEN i ELSE Round(rem[k - 1]) IN rem[7]

Remainder(i) ==
  LET rem[k \in 0 .. 8] == IF k = 0 THEN i ELSE Round(rem[k - 1]) IN rem[8]

crcTable == [i \in Byte |-> Remainder(i)]

UpdateCrc(c, data) ==
  LET step(acc, byte) ==
        Xor(crcTable[Xor(acc, byte) \cap (0 .. 7)], ShiftRight(acc, 8))
  IN FoldLeft(step, c, data)

FinalChecksum(c) == Xor(c, AllOnes)

(* Faulty variant: a transfer starts from zero.                            *)
InitialCrcZero == {}

(* What the constructor and the START flags set crc to.                    *)
InitialCrc == AllOnes

(* The checksum field of a packet, four bytes, lowest first.               *)
ChecksumOf(field) == UNION {ShiftLeft(field[k], 8 * (k - 1)) : k \in 1 .. 4}

(* handleCrc accepts the field.                                            *)
Accepts(c, field) == FinalChecksum(c) = ChecksumOf(field)

-----------------------------------------------------------------------------
(* The reference: CRC-32 of IEEE 802.3 as division of polynomials over     *)
(* GF(2).  A polynomial is the set of its exponents.  The bits of the data *)
(* are sent lowest first, the first 32 are complemented, 32 zeros are      *)
(* appended, and the remainder is complemented and sent highest first.     *)
Generator == {32, 26, 23, 22, 16, 12, 11, 10, 8, 7, 5, 4, 2, 1, 0}

DataPolynomial(data) ==
  LET last == 8 * Len(data) - 1
      bits == {pos \in 0 .. last : pos % 8 \in data[pos \div 8 + 1]}
  IN Xor({last - pos + 32 : pos \in bits}, last + 1 .. last + 32)

(* Long division: cancel the leading term while the degree is 32 or more.  *)
ModGenerator(poly, degree) ==
  LET cancel(r, k) ==
        IF degree - k \in r THEN Xor(r, ShiftLeft(Generator, degree - k - 32))
        ELSE r
  IN FoldLeft(cancel, poly, [k \in 1 .. degree - 31 |-> k - 1])

ReferenceCrc(data) ==
  LET rest == ModGenerator(DataPolynomial(data), 8 * Len(data) + 31)
  IN {31 - e : e \in (0 .. 31) \ rest}

(* The field a sender fills in, lowest byte first.                         *)
ReferenceField(data) ==
  [k \in 1 .. 4 |-> ShiftRight(ReferenceCrc(data), 8 * (k - 1)) \cap (0 .. 7)]

Streams == UNION {[1 .. n -> StreamBytes] : n \in 0 .. MaxStream}

-----------------------------------------------------------------------------
(* However the data is cut into two packets, either of them empty or not,  *)
(* handleCrc accepts the IEEE 802.3 checksum of the data, and no field     *)
(* that differs from it in one bit.                                        *)
AcceptsOnlyReference(data) ==
  LET field == ReferenceField(data)
      whole == UpdateCrc(InitialCrc, data)
      after(n) == UpdateCrc(UpdateCrc(InitialCrc, SubSeq(data, 1, n)),
                            SubSeq(data, n + 1, Len(data)))
  IN /\ \A n \in 0 .. Len(data) : Accepts(after(n), field)
     /\ \A k \in 1 .. 4, b \in 0 .. 7 :
          ~Accepts(whole, [field EXCEPT ![k] = Xor(@, {b})])

(* No two streams within the bound have the same CRC.                      *)
AllDiffer ==
  LET crcs == {UpdateCrc(InitialCrc, data) : data \in Streams}
  IN Cardinality(crcs) = Cardinality(Streams)
=============================================================================
