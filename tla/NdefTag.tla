------------------------------- MODULE NdefTag -------------------------------
(***************************************************************************)
(* components/ST25DV/st25dv_ndef.c: the NDEF message in the user memory of *)
(* the NFC tag.                                                            *)
(*                                                                         *)
(* Every transfer on the bus is a step: it may be done, it may fail, and,  *)
(* as i2c_send_sync can answer ESP_OK for a request that another client's  *)
(* completion overtook (module I2cAsync), it may be answered ESP_OK        *)
(* without having been done.  Bytes, addresses and lengths have their real *)
(* widths; what the bytes of a type or payload are is left open.  Left out *)
(* are a request that was given up and is carried out later, with whatever *)
(* its operations point at by then, and a phone that writes to the tag.    *)
(*                                                                         *)
(* One task uses the driver, whose request is a static variable, and it    *)
(* writes all the records of a message before it does anything else.       *)
(***************************************************************************)
EXTENDS Integers, Sequences

CONSTANTS
  MEMORY,        \* bytes of user memory
  Enda1,         \* the register ENDA1: blocks of 32 bytes of the first area
  Packages,      \* lengths of the application package names
  Jsons,         \* lengths of the texts of JSON records
  MaxRecords,    \* bound: records of a message
  MaxMessages,   \* bound: messages written
  MaxFaults      \* bound: transfers that are not done

ASSUME TagAssumption ==
  /\ MEMORY \in Nat /\ Enda1 \in 0 .. 255
  /\ Packages \subseteq Nat /\ Jsons \subseteq Nat
  /\ MaxRecords \in Nat /\ MaxMessages \in Nat /\ MaxFaults \in Nat

CCFILE_LENGTH   == 8
RECORD_BUF_SIZE == 256
NDEF_MESSAGE    == 3
TERMINATOR_TLV  == 254
CcFile          == <<226, 64, 0, 1, 0, 0, 4, 0>>

VARIABLES
  tag,        \* the user memory
  writer,     \* the local variables of st25dv_ndef_write_content
  next,       \* *address, which the caller hands from record to record
  reader,     \* the local variables of st25dv_ndef_read
  message,    \* history: the records of the last message, whether the one with
              \* me is still to come, and whether all its transfers were done
              \* and none of its records began behind address 255
  written, faults  \* counters for the bounds

tagVars == <<tag, writer, next, reader, message, written, faults>>

Text(n, c) == [i \in 1 .. n |-> c]

\* NDEF_APP_LAUNCHER_TYPE with NDEF_ST25DV_TNF_EXTERNAL, NDEF_JSON_TYPE with
\* NDEF_ST25DV_TNF_MIME.
AppLauncher(n) == [tnf |-> 4, type |-> Text(15, 97), payload |-> Text(n, 112)]
JsonRecord(n)  == [tnf |-> 2, type |-> Text(16, 106), payload |-> Text(n, 123)]

NoRecord == [tnf |-> 0, type |-> <<>>, payload |-> <<>>]

Idle == [pc |-> "idle", me |-> FALSE, data |-> <<>>,
         length |-> 0, address |-> 0, l |-> <<0, 0, 0>>, content |-> <<>>]

NotReading == [pc |-> "idle", num |-> 0, count |-> 0, address |-> 0, l |-> 0,
               out |-> NoRecord]

TagInit ==
  /\ tag = [a \in 0 .. MEMORY - 1 |-> 0]
  /\ writer = Idle /\ next = CCFILE_LENGTH /\ reader = NotReading
  /\ message = [records |-> <<>>, open |-> FALSE, intact |-> FALSE]
  /\ written = 0 /\ faults = 0

Ready == writer.pc = "idle" /\ reader.pc = "idle"

(***************************************************************************)
(* st25dv_write, st25dv_write_byte, st25dv_read and st25dv_read_byte.      *)
(***************************************************************************)
Bytes(a, n) == [i \in 1 .. n |-> tag[a + i - 1]]

Stored(a, data) ==
  [x \in 0 .. MEMORY - 1 |->
     IF x >= a /\ x < a + Len(data) THEN data[x - a + 1] ELSE tag[x]]

Spoilt(m) == [m EXCEPT !.intact = FALSE]

\* A writing whose result nobody looks at; m is the message once it is done.
Transfer(a, data, m) ==
  \/ /\ a + Len(data) <= MEMORY
     /\ tag' = Stored(a, data)
     /\ message' = m
     /\ UNCHANGED faults
  \/ /\ a + Len(data) > MEMORY \/ faults < MaxFaults
     /\ faults' = IF a + Len(data) > MEMORY THEN faults ELSE faults + 1
     /\ message' = Spoilt(m)
     /\ UNCHANGED tag

\* The caller has no message half written.
Between == Ready /\ ~message.open

st25dv_ndef_write_ccfile ==
  /\ Between
  /\ Transfer(0, CcFile, message)
  /\ UNCHANGED <<writer, next, reader, written>>

(***************************************************************************)
(* st25dv_ndef_write_content                                               *)
(***************************************************************************)
Bit(flag, weight) == IF flag THEN weight ELSE 0

\* Total length : Record header + Type length + Payload length + ID + ...
RecordLength(r) ==
  3 + (IF Len(r.payload) > 255 THEN 4 ELSE 1) + Len(r.type) + Len(r.payload)

TlvHead(r) ==
  <<NDEF_MESSAGE>> \o
    IF RecordLength(r) > 254
    THEN <<255, RecordLength(r) \div 256, RecordLength(r) % 256>>
    ELSE <<RecordLength(r)>>

\* The length is a uint16_t: its shifts by 24 and by 16 give 0.
PayloadLength(n) ==
  IF n > 255 THEN <<0, 0, n \div 256, n % 256>> ELSE <<n>>

RecordData(mb, me, r) ==
  (IF mb THEN TlvHead(r) ELSE <<>>)
    \o <<Bit(mb, 128) + Bit(me, 64) + Bit(Len(r.payload) <= 255, 16) + 8
           + r.tnf, Len(r.type)>>
    \o PayloadLength(Len(r.payload)) \o <<0>> \o r.type \o r.payload

\* record_address is a uint8_t.
RecordAddress == IF next > CCFILE_LENGTH THEN next % 256 ELSE CCFILE_LENGTH

\* A record that is put together in record_data.  The first of a message has
\* mb, and the caller begins it with the address behind the CC file.  Records
\* that do not fit record_data overrun it; callers with such records are left
\* out.
Compose(mb, me, r) ==
  /\ Ready
  /\ mb = ~message.open
  /\ IF mb THEN written < MaxMessages ELSE Len(message.records) < MaxRecords
  /\ Len(RecordData(mb, me, r)) <= RECORD_BUF_SIZE
  /\ writer' = [Idle EXCEPT
       !.pc = IF mb THEN "record" ELSE "read_l", !.me = me,
       !.data = RecordData(mb, me, r), !.length = RecordLength(r),
       !.address = RecordAddress]
  /\ message' = IF mb THEN [records |-> <<r>>, open |-> TRUE, intact |-> TRUE]
                ELSE [message EXCEPT !.records = Append(@, r),
                                     !.intact = @ /\ next < 256]
  /\ written' = IF mb THEN written + 1 ELSE written
  /\ UNCHANGED <<tag, next, reader, faults>>

st25dv_ndef_write_app_launcher_record(mb, me) ==
  \E n \in Packages : Compose(mb, me, AppLauncher(n))

st25dv_ndef_write_json_record(mb, me) ==
  \E n \in Jsons : Compose(mb, me, JsonRecord(n))

\* The possible 3 byte l value.  When the transfer is not done, what was on the
\* stack counts: a short length, or one that looks long.
ReadL ==
  /\ writer.pc = "read_l"
  /\ \/ /\ writer' = [writer EXCEPT !.pc = "write_l",
                                    !.l = Bytes(CCFILE_LENGTH + 1, 3)]
        /\ UNCHANGED <<message, faults>>
     \/ /\ faults < MaxFaults
        /\ \E l \in {<<0, 0, 0>>, <<255, 0, 0>>} :
             writer' = [writer EXCEPT !.pc = "write_l", !.l = l]
        /\ faults' = faults + 1 /\ message' = Spoilt(message)
  /\ UNCHANGED <<tag, next, reader, written>>

TwoBytes(n) == <<(n \div 256) % 256, n % 256>>

\* The l value has three bytes already.
UpdateLongL ==
  /\ writer.pc = "write_l" /\ writer.l[1] = 255
  /\ LET total == 256 * writer.l[2] + writer.l[3] + writer.length IN
       Transfer(CCFILE_LENGTH + 1, <<255>> \o TwoBytes(total), message)
  /\ writer' = [writer EXCEPT !.pc = "record"]
  /\ UNCHANGED <<next, reader, written>>

UpdateShortL ==
  /\ writer.pc = "write_l" /\ writer.l[1] + writer.length <= 254
  /\ Transfer(CCFILE_LENGTH + 1, <<writer.l[1] + writer.length>>, message)
  /\ writer' = [writer EXCEPT !.pc = "record"]
  /\ UNCHANGED <<next, reader, written>>

\* Mutant of Moved: the new record stays where it was to go.
MovedNot(address) == address

\* record_address += 2
Moved(address) == (address + 2) % 256

\* The l value grows to three bytes and the records move by two: they are read,
\* the l value is written, and they are written back.  What is not read is
\* whatever the stack held.
GrowRead ==
  /\ writer.pc = "write_l" /\ writer.l[1] < 255
  /\ writer.l[1] + writer.length > 254
  /\ \/ /\ writer' = [writer EXCEPT !.pc = "grow_l",
                        !.content = Bytes(CCFILE_LENGTH + 2, writer.l[1]),
                        !.address = Moved(@)]
        /\ message' = [message EXCEPT !.intact = @ /\ writer.address + 2 < 256]
        /\ UNCHANGED faults
     \/ /\ faults < MaxFaults
        /\ writer' = [writer EXCEPT !.pc = "grow_l",
                        !.content = Text(writer.l[1], 0),
                        !.address = Moved(@)]
        /\ faults' = faults + 1 /\ message' = Spoilt(message)
  /\ UNCHANGED <<tag, next, reader, written>>

GrowL ==
  /\ writer.pc = "grow_l"
  /\ Transfer(CCFILE_LENGTH + 1,
              <<255>> \o TwoBytes(writer.l[1] + writer.length), message)
  /\ writer' = [writer EXCEPT !.pc = "grow_move"]
  /\ UNCHANGED <<next, reader, written>>

GrowMove ==
  /\ writer.pc = "grow_move"
  /\ Transfer(CCFILE_LENGTH + 4, writer.content, message)
  /\ writer' = [writer EXCEPT !.pc = "record", !.content = <<>>]
  /\ UNCHANGED <<next, reader, written>>

WriteRecord ==
  /\ writer.pc = "record"
  /\ Transfer(writer.address, writer.data, message)
  /\ next' = writer.address + Len(writer.data)
  /\ writer' = IF writer.me THEN [writer EXCEPT !.pc = "terminator"] ELSE Idle
  /\ UNCHANGED <<reader, written>>

\* After it the caller begins its next message with a new address.
WriteTerminator ==
  /\ writer.pc = "terminator"
  /\ Transfer(next, <<TERMINATOR_TLV>>, [message EXCEPT !.open = FALSE])
  /\ writer' = Idle
  /\ next' = CCFILE_LENGTH
  /\ UNCHANGED <<reader, written>>

(***************************************************************************)
(* st25dv_ndef_read.  A transfer that is not done ends it, or, where        *)
(* ESP_OK was answered, makes the result worthless; nothing is claimed     *)
(* then.                                                                   *)
(***************************************************************************)
EndOfArea == (Enda1 * 32 + 31) % 256

Long(v) == v = 255

\* The type and length in front of the message; ESP_FAIL when there is none.
ReadTlv(num) ==
  /\ Between
  /\ tag[CCFILE_LENGTH] = NDEF_MESSAGE
  /\ LET tlv == Bytes(CCFILE_LENGTH, 4) IN
       reader' = [NotReading EXCEPT
         !.pc = "record", !.num = num,
         !.address = CCFILE_LENGTH + (IF Long(tlv[2]) THEN 4 ELSE 2),
         !.l = IF Long(tlv[2]) THEN 256 * tlv[3] + tlv[4] ELSE tlv[2]]
  /\ UNCHANGED <<tag, writer, next, message, written, faults>>

Flag(v, weight) == (v \div weight) % 2 = 1

\* The fields of the record at an address, and the address behind it.
RecordAt(a) ==
  LET short == Flag(tag[a], 16)
      size  == IF short THEN tag[a + 2] ELSE 256 * tag[a + 4] + tag[a + 5]
      body  == a + 2 + (IF short THEN 1 ELSE 4) + Bit(Flag(tag[a], 8), 1)
  IN [tnf |-> tag[a] % 8, types |-> body, payloads |-> body + tag[a + 1],
      end |-> body + tag[a + 1] + size]

InMemory(a) == a + 5 < MEMORY /\ RecordAt(a).end < MEMORY

More ==
  \/ reader.address < EndOfArea
  \/ reader.address < CCFILE_LENGTH + reader.l + 3

Read(r) ==
  [tnf |-> r.tnf, type |-> Bytes(r.types, r.payloads - r.types),
   payload |-> Bytes(r.payloads, r.end - r.payloads)]

\* A turn of the loop.
ReadRecord ==
  /\ reader.pc = "record" /\ More /\ InMemory(reader.address)
  /\ LET r == RecordAt(reader.address) IN
       reader' = [reader EXCEPT
         !.count = @ + 1, !.address = r.end,
         !.out = IF reader.count + 1 = reader.num THEN Read(r) ELSE @,
         !.pc = IF tag[r.end] = TERMINATOR_TLV THEN "done" ELSE "record"]
  /\ UNCHANGED <<tag, writer, next, message, written, faults>>

ReadLeaves ==
  /\ reader.pc = "record" /\ ~More
  /\ reader' = [reader EXCEPT !.pc = "done"]
  /\ UNCHANGED <<tag, writer, next, message, written, faults>>

\* The caller has the record and frees it with st25dv_ndef_delete_records.
RecordReturned ==
  /\ reader.pc = "done"
  /\ reader' = NotReading
  /\ UNCHANGED <<tag, writer, next, message, written, faults>>

(***************************************************************************)
(* The power goes, or ESP_ERROR_CHECK (or a JSON text for which there was  *)
(* no memory) stops the program: the tag keeps its memory and the caller   *)
(* starts anew.                                                            *)
(***************************************************************************)
TagReset ==
  /\ writer' = Idle /\ reader' = NotReading
  /\ next' = CCFILE_LENGTH
  /\ message' = [message EXCEPT !.open = FALSE, !.intact = @ /\ ~message.open]
  /\ UNCHANGED <<tag, written, faults>>

TagWork ==
  \/ st25dv_ndef_write_ccfile
  \/ \E mb, me \in BOOLEAN : \/ st25dv_ndef_write_app_launcher_record(mb, me)
                             \/ st25dv_ndef_write_json_record(mb, me)
  \/ ReadL \/ UpdateLongL \/ UpdateShortL \/ GrowRead \/ GrowL \/ GrowMove
  \/ WriteRecord \/ WriteTerminator
  \/ \E num \in 1 .. MaxRecords : ReadTlv(num)
  \/ ReadRecord \/ ReadLeaves \/ RecordReturned

TagNext == TagWork \/ TagReset

TagSpec == TagInit /\ [][TagNext]_tagVars

(***************************************************************************)
(* Properties.                                                             *)
(***************************************************************************)

\* A message whose transfers were all done, and whose records all begin below
\* address 256, is read back record by record: st25dv_ndef_read counts its
\* records and gives the one asked for, without ever reading behind the last,
\* also when the length field has grown and the records have moved, and
\* whatever was in the memory before.
ReadsBack ==
  message.intact /\ ~message.open =>
    /\ reader.pc = "record" =>
         reader.count < Len(message.records) /\ InMemory(reader.address)
    /\ reader.pc = "done" =>
         /\ reader.count = Len(message.records)
         /\ reader.out = IF reader.num <= Len(message.records)
                         THEN message.records[reader.num] ELSE NoRecord
=============================================================================
