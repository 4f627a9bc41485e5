---------------------------- MODULE EepromRecords ----------------------------
(***************************************************************************)
(* The bytes behind EEPROM's texts, numbers and log: four records of 64    *)
(* bytes.  A memory is the sequence of its bytes; the I2C transfers are    *)
(* taken to succeed.                                                       *)
(***************************************************************************)
EXTENDS Checksums

RecordSize == 64                \* LOG_ENTRY_SIZE
LogEnd == 256                   \* LOG_ENTRY_ADD_MAX

Zeros(n) == [i \in 1..n |-> 0]

\* eeprom_write_bytes and eeprom_read_bytes.
WriteBytes(mem, addr, values) ==
    [i \in DOMAIN mem |-> IF i - addr \in DOMAIN values THEN values[i - addr] ELSE mem[i]]
ReadBytes(mem, addr, n) == SubSeq(mem, addr + 1, addr + n)

\* A C string: what stands before the first 0.
CString(bytes) ==
    LET ends == {i \in DOMAIN bytes : bytes[i] = 0}
    IN  IF ends = {} THEN bytes ELSE SubSeq(bytes, 1, Min(ends) - 1)

\* Text, terminator and checksum, which has its place behind the text and
\* not at the record's end.
Unterminated(text, rest) ==                              \* faulty variant
    LET crc == RecordCrc(text)
    IN  SubSeq(text \o <<crc \div 256, crc % 256>> \o rest, 1, RecordSize)
TextRecord(text, rest) ==
    LET crc == RecordCrc(text)
    IN  SubSeq(text \o <<0, crc \div 256, crc % 256>> \o rest, 1, RecordSize)

WriteString(mem, addr, text) ==
    IF Len(text) \in 1..(RecordSize - 3)
    THEN WriteBytes(mem, addr, TextRecord(text, Zeros(RecordSize))) ELSE mem

\* The checksum is read from the record's end and compared with nothing.
ReadString(mem, addr) == CString(ReadBytes(mem, addr, RecordSize))

WriteNumber(mem, addr, n) == WriteBytes(mem, addr, <<n \div 256, n % 256>>)
ReadNumber(mem, addr) == 256 * mem[addr + 1] + mem[addr + 2]

-----------------------------------------------------------------------------
(* The log, which nothing calls: [mem, address] with the caller's address. *)

\* Record by record, up to the log's end or past it.
EraseLog(mem, addr) ==
    WriteBytes(mem, addr, Zeros(RecordSize * ((LogEnd - addr + RecordSize - 1) \div RecordSize)))

\* junk is what the uninitialised buffer holds; the checksum is taken over
\* 62 bytes of it.
LogRecord(text, junk) ==
    LET data == SubSeq(text \o <<0>> \o junk, 1, RecordSize)
        crc  == RecordCrc(SubSeq(data, 1, 62))
    IN  [data EXCEPT ![Len(text) + 2] = crc \div 256, ![Len(text) + 3] = crc % 256]

LogFull(log) == log.address >= LogEnd

\* A full log is erased and the message with it.
WriteLog(log, text, junk) ==
    IF Len(text) \notin 1..61 THEN log
    ELSE IF LogFull(log) THEN [mem |-> EraseLog(log.mem, 0), address |-> 0]
    ELSE [mem |-> IF log.address < LogEnd /\ log.mem[log.address + 1] # 0 THEN log.mem
                  ELSE WriteBytes(log.mem, log.address, LogRecord(text, junk)),
          address |-> log.address + RecordSize]

\* The lines read_log prints.
ReadLog(mem) ==
    LET record(i)  == ReadBytes(mem, RecordSize * (i - 1), RecordSize)
        Printed(r) == r[1] # 0 /\ Len(CString(r)) < 62 /\ RecordCrc(r) # 0
        kept == SelectSeq([i \in 1..(LogEnd \div RecordSize) |-> record(i)], Printed)
    IN  [i \in DOMAIN kept |-> CString(kept[i])]
=============================================================================
