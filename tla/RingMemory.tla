------------------------------- MODULE RingMemory ------------------------------
(***************************************************************************)
(* The bytes of the ring buffer of messages/msg_shared_memory.go: how a    *)
(* message is laid out, which messages fit a slot, and what is read from a *)
(* slot that held other, longer messages before.  SharedMemoryRing models  *)
(* what happens when several processes do this at the same time; here      *)
(* Write and Read are one step each.                                       *)
(*                                                                         *)
(* The sizes of the code are CONSTANTS: a byte has ByteBase values, not    *)
(* 256, a uint32 has ShortBytes of them and a uint64 has LongBytes.        *)
(* MessageSamples are bounded: texts have different lengths, and markers   *)
(* as their bytes that tell them apart.                                    *)
(***************************************************************************)
EXTENDS Integers, Sequences, SequencesExt, Folds

CONSTANTS
  ByteBase, ShortBytes, LongBytes,
  MinMessageLength,      (* deserializeMessage refuses less: 24 in the code *)
  MessageHeaderSize,     (* slotHeaderSize: 48 in the code                  *)
  MessageSlotSize, MessageSlots,
  MaxMessageWrites       (* bound                                           *)

ASSUME RingMemoryAssumption ==
  /\ ByteBase \in Nat /\ ByteBase > 6
  /\ ShortBytes \in Nat \ {0} /\ LongBytes \in Nat \ {0}
  /\ MessageHeaderSize >= 2 * ShortBytes /\ MessageSlotSize > MessageHeaderSize
  /\ MinMessageLength \in Nat /\ MessageSlots \in Nat \ {0} /\ MaxMessageWrites \in Nat

VARIABLES
  ringMemory,     (* the slots, byte by byte                                *)
  writeAt, readAt,(* writeIndex and readIndex                               *)
  unread,         (* history: the messages written and not yet read         *)
  misread         (* history: Read has returned something else than the     *)
                  (* message that was written                               *)

memoryVars == <<ringMemory, writeAt, readAt, unread, misread>>

--------------------------------------------------------------------------------
(* encoding/binary: little endian, negative numbers as two's complement.   *)
BytesOf(n, width) == [i \in 1 .. width |-> (n \div ByteBase^(i - 1)) % ByteBase]
NumberOf(bytes) ==
  FoldLeftDomain(LAMBDA n, i : n + bytes[i] * ByteBase^(i - 1), 0, bytes)
Signed(n, width) == IF 2 * n >= ByteBase^width THEN n - ByteBase^width ELSE n

(* data[at : at+n], counted from 1.  (The code panics where data ends      *)
(* before; RingMemoryExact shows that it does not.)                        *)
Slice(bytes, at, n) ==
  SubSeq(bytes, at, IF at + n - 1 <= Len(bytes) THEN at + n - 1 ELSE Len(bytes))

(* A length and the bytes of a text.                                       *)
Text(bytes) == BytesOf(Len(bytes), ShortBytes) \o bytes
LengthAt(bytes, at) == NumberOf(Slice(bytes, at, ShortBytes))
TextAt(bytes, at) == Slice(bytes, at + ShortBytes, LengthAt(bytes, at))
AfterText(bytes, at) == at + ShortBytes + LengthAt(bytes, at)

SerializeMessage(m) ==
  Text(m.topic) \o Text(m.key) \o Text(m.value)
    \o BytesOf(m.partition, ShortBytes) \o BytesOf(m.offset, LongBytes)
    \o BytesOf(m.timestamp, LongBytes)
    \o BytesOf(Len(m.headers), ShortBytes)
    \o FlattenSeq([i \in DOMAIN m.headers |-> Text(m.headers[i].key) \o Text(m.headers[i].value)])

NoMessage == [topic |-> <<>>]

DeserializeMessage(bytes) ==
  LET keyAt       == AfterText(bytes, 1)
      valueAt     == AfterText(bytes, keyAt)
      partitionAt == AfterText(bytes, valueAt)
      offsetAt    == partitionAt + ShortBytes
      timestampAt == offsetAt + LongBytes
      headersAt   == timestampAt + LongBytes
      headerAt[i \in Nat] ==
        IF i = 1 THEN headersAt + ShortBytes
        ELSE AfterText(bytes, AfterText(bytes, headerAt[i - 1]))
      Number(at, width) == Signed(NumberOf(Slice(bytes, at, width)), width)
  IN  IF Len(bytes) < MinMessageLength THEN NoMessage
      ELSE [topic |-> TextAt(bytes, 1), key |-> TextAt(bytes, keyAt),
            value |-> TextAt(bytes, valueAt),
            partition |-> Number(partitionAt, ShortBytes),
            offset |-> Number(offsetAt, LongBytes),
            timestamp |-> Number(timestampAt, LongBytes),
            headers |-> [i \in 1 .. LengthAt(bytes, headersAt) |->
                           [key |-> TextAt(bytes, headerAt[i]),
                            value |-> TextAt(bytes, AfterText(bytes, headerAt[i]))]]]

--------------------------------------------------------------------------------
(* The header of a slot: the length of the message, and its flag.          *)
EmptySlot == 0
ReadySlot == 2

SlotOffset(i) == (i % MessageSlots) * MessageSlotSize
FlagAt(i) == NumberOf(Slice(ringMemory, SlotOffset(i) + ShortBytes + 1, ShortBytes))

(* memory with bytes from offset on.                                       *)
Copied(memory, offset, bytes) ==
  [i \in DOMAIN memory |->
     IF i \in offset + 1 .. offset + Len(bytes) THEN bytes[i - offset] ELSE memory[i]]

WithFlag(memory, i, flag) == Copied(memory, SlotOffset(i) + ShortBytes, BytesOf(flag, ShortBytes))

Fits(bytes) == Len(bytes) + MessageHeaderSize <= MessageSlotSize

RingMemoryInit ==
  /\ ringMemory = [i \in 1 .. MessageSlots * MessageSlotSize |-> 0]
  /\ writeAt = 0 /\ readAt = 0 /\ unread = <<>> /\ misread = FALSE

(* Mutant of WriteMessage: the header of the slot is not counted. *)
WriteMessageTight(m) ==
  LET bytes == SerializeMessage(m)
      length == Copied(ringMemory, SlotOffset(writeAt), BytesOf(Len(bytes), ShortBytes))
      copied == Copied(length, SlotOffset(writeAt) + MessageHeaderSize, bytes)
  IN  /\ Len(bytes) <= MessageSlotSize /\ FlagAt(writeAt) = EmptySlot
      /\ ringMemory' = WithFlag(copied, writeAt, ReadySlot)
      /\ writeAt' = writeAt + 1 /\ unread' = Append(unread, m)
      /\ UNCHANGED <<readAt, misread>>

WriteMessage(m) ==
  LET bytes == SerializeMessage(m)
      length == Copied(ringMemory, SlotOffset(writeAt), BytesOf(Len(bytes), ShortBytes))
      copied == Copied(length, SlotOffset(writeAt) + MessageHeaderSize, bytes)
  IN  /\ Fits(bytes) /\ FlagAt(writeAt) = EmptySlot
      /\ ringMemory' = WithFlag(copied, writeAt, ReadySlot)
      /\ writeAt' = writeAt + 1 /\ unread' = Append(unread, m)
      /\ UNCHANGED <<readAt, misread>>

ReadMessage ==
  LET at == SlotOffset(readAt)
      length == LengthAt(ringMemory, at + 1)
      valid == at + MessageHeaderSize + length <= Len(ringMemory)
      bytes == Slice(ringMemory, at + MessageHeaderSize + 1, length)
  IN  /\ FlagAt(readAt) = ReadySlot
      /\ ringMemory' = WithFlag(ringMemory, readAt, EmptySlot)
      /\ readAt' = readAt + 1 /\ unread' = Tail(unread)
      /\ misread' = (misread \/ ~valid \/ DeserializeMessage(bytes) # Head(unread))
      /\ UNCHANGED writeAt

--------------------------------------------------------------------------------
(* Bound: the messages that are sent.                                      *)
MessageSamples ==
  LET h == [key |-> <<5>>, value |-> <<6, 6>>]
  IN  [topic : {<<>>, <<1>>}, key : {<<2>>}, value : {<<>>, <<3, 4, 3>>},
       partition : {-1}, offset : {ByteBase}, timestamp : {-2},
       headers : {<<>>, <<h>>, <<h, [h EXCEPT !.value = <<>>]>>}]

RingMemoryNext ==
  \/ ReadMessage
  \/ \E m \in MessageSamples : writeAt < MaxMessageWrites /\ WriteMessage(m)

--------------------------------------------------------------------------------
(* A message is read as it was written, from the slot where it was         *)
(* written, whatever longer message has left its bytes there, and whatever *)
(* was written to the slots beside it; and just the slots of the messages  *)
(* that were not read yet are not empty.                                   *)
RingMemoryExact ==
  /\ ~misread
  /\ writeAt = readAt + Len(unread)
  /\ \A i \in readAt .. readAt + MessageSlots - 1 :
       FlagAt(i) = IF i < writeAt THEN ReadySlot ELSE EmptySlot
================================================================================
