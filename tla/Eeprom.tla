------------------------------- MODULE Eeprom -------------------------------
(***************************************************************************)
(* The EEPROM driver of eeprom.c.  A byte is the set of its bits that are   *)
(* 1, so that erasing a cell sets all of its bits, and programming it clears *)
(* some.                                                                    *)
(*                                                                         *)
(* A call of eeprom_put_char is one step of the program that uses this      *)
(* module (Settings), and power may fail within it.                         *)
(***************************************************************************)
EXTENDS Integers, Sequences, FiniteSetsExt

CONSTANTS
  ByteBits,     \* bits of a byte
  EepromSize    \* cells of the chip

ASSUME SizeAssumption == ByteBits \in Nat \ {0} /\ EepromSize \in Nat \ {0}

VARIABLE eeprom    \* address -> byte

Bits      == 0 .. (ByteBits - 1)
Bytes     == SUBSET Bits
Erased    == Bits
Zero      == {}
Addresses == 0 .. (EepromSize - 1)

\* Numbers modulo the width of a byte, and back.
Byte(n)  == {i \in Bits : (n \div 2^i) % 2 = 1}
Value(b) == MapThenSumSet(LAMBDA i : 2^i, b)

\* What a write of new over old, cut short by a power failure, may leave: bits
\* that have to become 1 take an erasure first, those that become 0 do not.
PutOutcomes(old, new) ==
  IF new \ old # {} THEN {old, Erased, new} ELSE {old, new}

Put(at, byte) == [op |-> "put", at |-> at, byte |-> byte]

\* EEAR holds no more bits of an address than the chip has cells for.
Cell(address) == address % EepromSize

\* The checksum's "rotation" is a logical or: all it keeps of the bytes before
\* is whether they came to zero.
Checksum(data) ==
  LET sum[i \in 0 .. Len(data)] ==
        IF i = 0 THEN 0
        ELSE ((IF sum[i - 1] # 0 THEN 1 ELSE 0) + Value(data[i])) % 2^ByteBits
  IN  Byte(sum[Len(data)])

\* memcpy_to_eeprom_with_checksum, as the writes it makes.
memcpy_to_eeprom_with_checksum(destination, source) ==
  [i \in 1 .. (Len(source) + 1) |->
    Put(destination + i - 1,
        IF i <= Len(source) THEN source[i] ELSE Checksum(source))]

\* memcpy_from_eeprom_with_checksum: the data, and whether its checksum holds.
Data(source, size) == [i \in 1 .. size |-> eeprom[source + i - 1]]
Valid(source, size) == Checksum(Data(source, size)) = eeprom[source + size]
=============================================================================
