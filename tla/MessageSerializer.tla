------------------------- MODULE MessageSerializer -------------------------
(***************************************************************************)
(* app/src/message_serializer.cpp: AggregatedMessageSerializer, the binary *)
(* frames of docs/API.md, and a client that decodes them by that document. *)
(*                                                                         *)
(* A byte is a digit of base Byte and the integer types have scaled sizes, *)
(* so that the conversions to uint16_t and uint32_t can be seen to cut     *)
(* values off.  ZSTD is external: its output is opaque, and decompressing  *)
(* it gives the input back.                                                *)
(***************************************************************************)
EXTENDS Integers, Sequences, SequencesExt

CONSTANTS
  Byte,            \* values of a byte, 256 in the code
  SizeOf16, SizeOf32, SizeOf64, \* sizeof(uint16_t), sizeof(uint32_t), sizeof(uint64_t)
  kBinaryFrameMagic

(* The number of values of an integer type, by its size.                   *)
Values[size \in Nat] == IF size = 0 THEN 1 ELSE Byte * Values[size - 1]

ASSUME WidthAssumption ==
  /\ Byte \in Nat \ {0, 1}
  /\ {SizeOf16, SizeOf32, SizeOf64} \subseteq Nat \ {0}
  /\ kBinaryFrameMagic \in 0 .. Values[SizeOf32] - 1

(* static_cast to an unsigned type of the given size.                      *)
Cast(value, size) == value % Values[size]

(* write_le *)
WriteLe(value, size) == [i \in 1..size |-> (value \div Values[i - 1]) % Byte]

(* write_str: the length is cut off at 16 bits, the string is not.         *)
WriteStr(str) == WriteLe(Cast(Len(str), SizeOf16), SizeOf16) \o str

(* Faulty: more bytes than the length says. *)
SerializeWhole(m) ==
  WriteStr(m.name) \o WriteLe(m.stamp, SizeOf64) \o WriteLe(Cast(Len(m.data), SizeOf32), SizeOf32)
    \o m.data

(* What serialize_message appends for a message, which is a record of its  *)
(* topic's name, its timestamp and its bytes: of these, as many as the     *)
(* 32-bit length says.                                                     *)
Serialize(m) ==
  LET msg_size == Cast(Len(m.data), SizeOf32)
  IN  WriteStr(m.name) \o WriteLe(m.stamp, SizeOf64) \o WriteLe(msg_size, SizeOf32)
        \o SubSeq(m.data, 1, msg_size)

(* finalize after serialize_message for each of the messages: the header   *)
(* and the compressed payload.                                             *)
Finalize(msgs, flags) ==
  LET serialized_data == FlattenSeq([i \in DOMAIN msgs |-> Serialize(msgs[i])])
  IN  [header |-> WriteLe(kBinaryFrameMagic, SizeOf32)
                    \o WriteLe(Cast(Len(msgs), SizeOf32), SizeOf32)
                    \o WriteLe(Cast(Len(serialized_data), SizeOf32), SizeOf32)
                    \o WriteLe(flags, SizeOf32),
       zstd |-> serialized_data]

-----------------------------------------------------------------------------
(* The client.                                                             *)

(* The number in size bytes of s, from an offset on.                       *)
ReadLe(s, offset, size) ==
  LET sum[i \in 0..size] == IF i = 0 THEN 0 ELSE sum[i - 1] + s[offset + i] * Values[i - 1]
  IN  sum[size]

(* The message at an offset of the payload, and the offset after it.       *)
ReadMessage(s, offset) ==
  LET name == offset + SizeOf16
      stamp == name + ReadLe(s, offset, SizeOf16)
      size == stamp + SizeOf64
      data == size + SizeOf32
      next == data + ReadLe(s, size, SizeOf32)
  IN  [msg |-> [name |-> SubSeq(s, name + 1, stamp), stamp |-> ReadLe(s, stamp, SizeOf64),
                data |-> SubSeq(s, data + 1, next)],
       next |-> next]

(* The messages of a frame, and what its header says.                      *)
Decode(frame) ==
  LET field(k) == ReadLe(frame.header, k * SizeOf32, SizeOf32)
      count == field(1)
      read[i \in 0..count] ==
        IF i = 0 THEN [out |-> <<>>, next |-> 0]
        ELSE LET before == read[i - 1]
                 r == ReadMessage(frame.zstd, before.next)
             IN  [out |-> Append(before.out, r.msg), next |-> r.next]
  IN  [magic |-> field(0), uncompressed_size |-> field(2), flags |-> field(3),
       msgs |-> read[count].out, length |-> read[count].next]
=============================================================================
