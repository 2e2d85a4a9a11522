--------------------------- MODULE PciDataHandler ---------------------------
(***************************************************************************)
(* PciDataHandler (pci_handler.cpp): which bytes of the mapped region a    *)
(* read returns and a write changes.  Integers keep their order of widths, *)
(* scaled down: AddressValues for uint32_t, LengthValues for the uint16_t  *)
(* that write counts in.  A byte is named by its offset in the mapping.    *)
(***************************************************************************)
EXTENDS Integers

CONSTANTS
  AddressValues, LengthValues,   \* how many there are: 2^32 and 2^16
  RegionSizes,                   \* build option memory-region-size
  MappedSize,                    \* what mmap makes accessible: whole pages
  AccessLengths                  \* lengths tried, also above LengthValues

ASSUME WidthAssumption ==
  /\ AddressValues \in Nat \ {0} /\ LengthValues \in Nat \ {0}
  /\ MappedSize \in Nat
  /\ RegionSizes \subseteq 1 .. MappedSize
  /\ AccessLengths \subseteq Nat
  \* No sum of an offset and a length reaches 2^32.
  /\ \A length \in AccessLengths : MappedSize + length < AddressValues

EndOf(offset, length) == (offset + length) % AddressValues

(* Faulty variant: a length that ends past the region is not cut.          *)
FinalLengthUncut(regionSize, offset, length) == length

(* Up to the end of the region.                                            *)
FinalLength(regionSize, offset, length) ==
  IF EndOf(offset, length) < regionSize THEN length ELSE regionSize - offset

RefusesAccess(regionSize, offset, length) == offset > regionSize \/ length = 0

BytesFrom(offset, length) == offset .. offset + length - 1

(* The bytes that read returns.                                            *)
BytesRead(regionSize, offset, length) ==
  IF RefusesAccess(regionSize, offset, length) THEN {}
  ELSE BytesFrom(offset, FinalLength(regionSize, offset, length))

(* What write returns, counted in a uint16_t, and the bytes it changes.    *)
WrittenLength(regionSize, offset, length) ==
  IF RefusesAccess(regionSize, offset, length) THEN 0
  ELSE FinalLength(regionSize, offset, length) % LengthValues

BytesWritten(regionSize, offset, length) ==
  BytesFrom(offset, WrittenLength(regionSize, offset, length))

(* A read reaches exactly those of its bytes that lie in the region, and a *)
(* write none of its neighbours in the mapping.  A write that is cut, by   *)
(* the end of the region or by the width of its counter, returns another   *)
(* length than it was given, so that its caller can tell.                  *)
StaysInRegion(regionSize, offset, length) ==
  LET asked == BytesFrom(offset, length)
      inRegion == {byte \in asked : byte < regionSize}
  IN /\ BytesRead(regionSize, offset, length) = inRegion
     /\ BytesWritten(regionSize, offset, length) \subseteq inRegion
     /\ WrittenLength(regionSize, offset, length) = length <=>
          BytesWritten(regionSize, offset, length) = asked
     /\ length < LengthValues =>
          BytesWritten(regionSize, offset, length) = inRegion
=============================================================================
