------------------------ MODULE MCDictionaryTransfer ------------------------
(***************************************************************************)
(* Instances of DictionaryTransfer for TLC: the annotation dictionary and  *)
(* one schema dictionary, in transfers of two versions cut into one or two *)
(* chunks each.  The CRC that the transfers are protected by is compared   *)
(* with its reference on streams of four byte values: 0x00 and 0xFF, which *)
(* a CRC is weakest on, 0x31 and 0x80.                                     *)
(***************************************************************************)
EXTENDS DictionaryTransfer, Crc32

CONSTANTS annotation, schema,           \* resource ids
          a1, a2, s1, s2, a3, s3        \* chunks, a3 and s3 of version 2

MCResourceIds == {annotation, schema}
MCChunks == {a1, a2, s1, s2, a3, s3}

Piece(r, c) == [resource |-> r, chunk |-> c]

(* Both dictionaries in two chunks, both in one chunk, the schema alone.   *)
MCTransfers ==
  {<<Piece(annotation, a1), Piece(annotation, a2),
     Piece(schema, s1), Piece(schema, s2)>>,
   <<Piece(schema, s3), Piece(annotation, a3)>>,
   <<Piece(schema, s3)>>}

Stray(flag, r) == [flag |-> flag, resource |-> r, data |-> <<s1>>,
                   sizeMatches |-> FALSE, checksum |-> <<>>]

(* A packet whose transferFlag is none of the four.                        *)
InvalidFlagPackets == {Stray("Invalid", r) : r \in MCResourceIds}

(* Any packet whose size does not fit its header and the checksum.         *)
MisfitPackets ==
  {Stray(flag, r) : flag \in {"Middle", "End", "StartAndEnd"},
                    r \in MCResourceIds}
    \cup InvalidFlagPackets

MCStreamBytes == {{}, 0 .. 7, {0, 4, 5}, {7}}

Digit(d) == {4, 5} \cup {b \in 0 .. 3 : (d \div 2 ^ b) % 2 = 1}

(* The reference has the published check value: the CRC-32 of the text     *)
(* "123456789", bytes 0x31 to 0x39, is 0xCBF43926.                         *)
ASSUME CheckValue ==
  ReferenceCrc([d \in 1 .. 9 |-> Digit(d)]) =
    {31, 30, 27, 25, 24, 23, 22, 21, 20, 18, 13, 12, 11, 8, 5, 2, 1}
(* Both are about data, not states, and are evaluated in the initial one:  *)
(* handleCrc accepts exactly the IEEE 802.3 checksum of every stream,      *)
(* however it is cut into packets;                                         *)
AcceptsReference == Init => \A data \in Streams : AcceptsOnlyReference(data)

(* and data that differs (a packet lost, repeated, swapped or changed) has *)
(* a different CRC, which is what RdeHandler assumes of it.                *)
NoCollision == Init => AllDiffer
=============================================================================
