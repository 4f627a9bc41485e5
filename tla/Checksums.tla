----------------------------- MODULE Checksums -----------------------------
(***************************************************************************)
(* The two 16-bit checksums of the program: nmbs_crc_calc, which guards    *)
(* the frames on the serial line, and EEPROM::crc16, which is stored with  *)
(* a text.                                                                 *)
(***************************************************************************)
EXTENDS Integers, Sequences, SequencesExt

\* The exclusive or of two words, bit by bit.
Xor[x, y \in Nat] == IF x + y = 0 THEN 0 ELSE ((x + y) % 2) + 2 * Xor[x \div 2, y \div 2]

\* The low byte shifted out of a reflected register, bit by bit.
ShiftedRight(crc) == IF crc % 2 = 1 THEN Xor[crc \div 2, 40961] ELSE crc \div 2

FourShifts(crc) == ShiftedRight(ShiftedRight(ShiftedRight(ShiftedRight(crc))))

NextModbusCrc(crc, byte) == FourShifts(FourShifts(Xor[crc, byte]))

\* nmbs_crc_calc, whose return swaps the bytes: put_2 then sends the low
\* byte first.
ModbusCrc(bytes) ==
    LET from[crc, i \in Nat] ==
            IF i > Len(bytes) THEN crc ELSE from[NextModbusCrc(crc, bytes[i]), i + 1]
        all == from[65535, 1]
    IN  256 * (all % 256) + all \div 256

Low16(w) == w % 65536

\* EEPROM::crc16 folds a whole byte in at once.
NextRecordCrc(crc, byte) ==
    LET y == Xor[crc \div 256, byte]
        x == Xor[y, y \div 16]
    IN  Xor[Xor[Xor[Low16(crc * 256), Low16(x * 4096)], x * 32], x]

RecordCrc(bytes) ==
    LET from[crc, i \in Nat] ==
            IF i > Len(bytes) THEN crc ELSE from[NextRecordCrc(crc, bytes[i]), i + 1]
    IN  from[65535, 1]
=============================================================================
