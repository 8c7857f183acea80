------------------------------- MODULE TlvCodec -----------------------------
(***************************************************************************)
(* Type-length-value messages: agent/tlv_parser.c, which the bus, the 1905 *)
(* messages and the WSC attributes are written and read with.  A message   *)
(* is built as a tree of items in memory, attached in any order; printed   *)
(* into a buffer that grows; sent with the length the root has counted;    *)
(* and parsed, one level at a time, by the receiver.                       *)
(*                                                                         *)
(* Bytes are numbers.  Memory is there when it is asked for.               *)
(***************************************************************************)
EXTENDS Integers, SequencesExt

CONSTANTS
    MaxItems,           \* bound: items made in one run
    Types,              \* of each type_len, the types in use
    Values,             \* values of TLVs, sequences of bytes
    DefaultBufferSize   \* default_buffer_size in Kami_Tlv_Print

Byte == 0..255

(* Bound: a tlv_len counts to here, and no message gets as long.           *)
MaxLength == 65535

ASSUME CodecAssumption ==
    /\ MaxItems \in Nat /\ DefaultBufferSize \in Nat \ {0}
    /\ Types[1] \subseteq Byte /\ Types[2] \subseteq 0..MaxLength
    /\ Values \subseteq Seq(Byte) /\ \A v \in Values : Len(v) <= MaxLength

VARIABLES
    items,      \* the KamiTlv_S structures made
    type_len    \* bytes of a type in this message: 1, or 2

vars == <<items, type_len>>

NULL == 0

(* next and prev link the children of an item in one order, the oldest     *)
(* first: child is that sequence.  They are the items that have it as      *)
(* their parent.                                                           *)
TypeOK ==
    /\ type_len \in {1, 2}
    /\ items \in Seq([obj_type : {"tlv", "object", "array"}, type : 0..MaxLength,
                      value : Seq(Byte), length : 0..MaxLength, child : Seq(Nat), parent : Nat])
    /\ \A t \in DOMAIN items :
          /\ IsInjective(items[t].child)
          /\ ToSet(items[t].child) = {i \in DOMAIN items : items[i].parent = t}

sizeof_tlv_len == 2

HeaderLen == type_len + sizeof_tlv_len

-----------------------------------------------------------------------------
(* Building *)

Init ==
    /\ items = <<>>
    /\ type_len \in {1, 2}

NewItem(k, t, v) ==
    [obj_type |-> k, type |-> t, value |-> v, length |-> Len(v), child |-> <<>>, parent |-> NULL]

Create(item) ==
    /\ Len(items) < MaxItems
    /\ items' = Append(items, item)
    /\ UNCHANGED type_len

Kami_Tlv_CreateObject == Create(NewItem("object", 0, <<>>))

Kami_Tlv_CreateArray(t) == Create(NewItem("array", t, <<>>))

Kami_Tlv_CreateTlv(t, v) == Create(NewItem("tlv", t, v))

(* The items from t up to its root: the fewest that have t and the parents *)
(* of its members.                                                         *)
Climbs(s, A) == \A j \in A : s[j].parent # NULL => s[j].parent \in A

Ancestry(s, t) ==
    {j \in DOMAIN s : \A A \in SUBSET DOMAIN s : t \in A /\ Climbs(s, A) => j \in A}

(* What an item adds to the length of what holds it: the header is counted *)
(* with the types of the message, and an object has none.                  *)
Increment(item) ==
    IF item.obj_type = "object" THEN item.length ELSE HeaderLen + item.length

Attach_ParentOnly(s, t, i) ==
    [j \in DOMAIN s |->
        IF j = t THEN [s[j] EXCEPT !.child = Append(@, i), !.length = @ + Increment(s[i])]
        ELSE IF j = i THEN [s[j] EXCEPT !.parent = t]
        ELSE s[j]]

Attach_ChildOnly(s, t, i) ==
    [j \in DOMAIN s |->
        LET longer == IF j \in Ancestry(s, t) THEN Increment(s[i]) ELSE 0
        IN  [s[j] EXCEPT !.length = @ + longer, !.child = IF j = t THEN Append(@, i) ELSE @]]

Attach(s, t, i) ==
    LET longer == Ancestry(s, t)
        linked == [s EXCEPT ![t].child = Append(@, i), ![i].parent = t]
    IN  [j \in DOMAIN s |-> IF j \in longer THEN [linked[j] EXCEPT !.length = @ + Increment(s[i])]
                                            ELSE linked[j]]

Fits(t, n) == \A j \in Ancestry(items, t) : items[j].length + n <= MaxLength

(* An item is in one place of one message. *)
Kami_Tlv_AddItemToObject(t, i) ==
    /\ items[t].obj_type # "tlv"
    /\ items[i].parent = NULL /\ i \notin Ancestry(items, t)
    /\ Fits(t, Increment(items[i]))
    /\ items' = Attach(items, t, i)
    /\ UNCHANGED type_len

Kami_Tlv_AddTlvToObject(t, type, v) ==
    /\ items[t].obj_type # "tlv" /\ Len(items) < MaxItems
    /\ Fits(t, HeaderLen + Len(v))
    /\ items' = Attach(Append(items, NewItem("tlv", type, v)), t, Len(items) + 1)
    /\ UNCHANGED type_len

Next ==
    \/ Kami_Tlv_CreateObject
    \/ \E t \in Types[type_len] : \/ Kami_Tlv_CreateArray(t)
                        \/ \E v \in Values : Kami_Tlv_CreateTlv(t, v)
    \/ \E i \in DOMAIN items :
          \/ \E j \in DOMAIN items : Kami_Tlv_AddItemToObject(i, j)
          \/ \E t \in Types[type_len], v \in Values : Kami_Tlv_AddTlvToObject(i, t, v)

Spec == Init /\ [][Next]_vars

-----------------------------------------------------------------------------
(* Printing.  out is the buffer: the bytes written, its size, and whether  *)
(* no call has failed; its offset is their number.                         *)

TypeBytes(t) == IF type_len = 1 THEN <<t % 256>> ELSE <<t \div 256, t % 256>>

LengthBytes(n) == <<n \div 256, n % 256>>

Kami_Tlv_Ensure_Exactly(out, n) ==
    LET needed == n + Len(out.bytes)
    IN  IF ~out.ok \/ Len(out.bytes) >= out.size THEN [out EXCEPT !.ok = FALSE]
        ELSE IF needed <= out.size THEN out ELSE [out EXCEPT !.size = needed * 2]

(* Room for n bytes and one more. *)
Kami_Tlv_Ensure(out, n) ==
    LET needed == n + Len(out.bytes) + 1
    IN  IF ~out.ok \/ Len(out.bytes) >= out.size THEN [out EXCEPT !.ok = FALSE]
        ELSE IF needed <= out.size THEN out ELSE [out EXCEPT !.size = needed * 2]

(* The bytes go where Ensure says, unless it failed. *)
Put(out, bytes) ==
    LET room == Kami_Tlv_Ensure(out, Len(bytes))
    IN  IF room.ok THEN [room EXCEPT !.bytes = @ \o bytes] ELSE room

Header(i) == TypeBytes(items[i].type) \o LengthBytes(items[i].length)

(* What is written for an item, in the pieces and in the order in which it *)
(* is written: a TLV whole, the header of an array, and what is in either  *)
(* container.                                                              *)
Kami_Tlv_PrintValue[i \in DOMAIN items] ==
    IF items[i].obj_type = "tlv" THEN <<Header(i) \o items[i].value>>
    ELSE (IF items[i].obj_type = "array" THEN <<Header(i)>> ELSE <<>>)
         \o FlattenSeq([k \in DOMAIN items[i].child |-> Kami_Tlv_PrintValue[items[i].child[k]]])

(* A piece that finds no room ends the printing. *)
Kami_Tlv_Print(i) ==
    LET pieces == Kami_Tlv_PrintValue[i]
        out[k \in 0..Len(pieces)] ==
            IF k = 0 THEN [bytes |-> <<>>, size |-> DefaultBufferSize, ok |-> TRUE]
            ELSE Put(out[k - 1], pieces[k])
    IN  out[Len(pieces)]

-----------------------------------------------------------------------------
(* Parsing *)

ParsedType_HostOrder(bytes) == IF type_len = 2 THEN bytes[1] + bytes[2] * 256 ELSE bytes[1]

(* A type of one byte is read as a signed char and widened. *)
ParsedType(bytes) ==
    IF type_len = 2 THEN bytes[1] * 256 + bytes[2]
    ELSE IF bytes[1] < 128 THEN bytes[1] ELSE 256 * 255 + bytes[1]

ParsedLength(bytes) == bytes[1] * 256 + bytes[2]

(* The length in the header at an offset. *)
LengthAt(bytes, o) == ParsedLength(SubSeq(bytes, o + type_len + 1, o + HeaderLen))

ItemAt(bytes, o) ==
    [type  |-> ParsedType(SubSeq(bytes, o + 1, o + type_len)),
     value |-> SubSeq(bytes, o + HeaderLen + 1, o + HeaderLen + LengthAt(bytes, o))]

(* The items found, of which a NULL root has none. *)
Kami_Tlv_ParseObject(bytes) ==
    LET from[o \in Nat] ==
            IF Len(bytes) - o <= HeaderLen THEN <<>>
            ELSE <<ItemAt(bytes, o)>> \o from[o + HeaderLen + LengthAt(bytes, o)]
    IN  from[0]

(* The item number idx, from 0, of those of the type; a set of at most one.*)
Kami_Tlv_GetObjectItem(parsed, type, idx) ==
    {parsed[k] : k \in {k \in DOMAIN parsed :
        /\ parsed[k].type = type
        /\ Cardinality({j \in 1..k - 1 : parsed[j].type = type}) = idx}}

-----------------------------------------------------------------------------

(* What follows the header of an array, or all of an object. *)
Contents(i) ==
    LET bytes == Kami_Tlv_Print(i).bytes
    IN  IF items[i].obj_type = "object" THEN bytes ELSE SubSeq(bytes, HeaderLen + 1, Len(bytes))

Containers == {i \in DOMAIN items : items[i].obj_type # "tlv"}

(* The length that is sent with a message, and that an array's header has, *)
(* is the number of bytes printed, in whatever order items were attached.  *)
LengthIsBytes == \A i \in Containers : items[i].length = Len(Contents(i))

(* Printing never fails and never writes past the buffer, however often it *)
(* has to grow.                                                            *)
BufferHolds ==
    \A i \in DOMAIN items :
        LET out == Kami_Tlv_Print(i) IN out.ok /\ Len(out.bytes) < out.size

(* The TLVs and arrays in an object, those of objects in it included. *)
Printed[i \in DOMAIN items] ==
    FlattenSeq([k \in DOMAIN items[i].child |->
        LET c == items[i].child[k]
        IN  IF items[c].obj_type = "object" THEN Printed[c] ELSE <<c>>])

(* A receiver finds every item that was added by its type and its number   *)
(* among those of its type, with what was in it; except an empty one at    *)
(* the end, such as the End-of-message of 1905, and 1-byte types above 127.*)
Found ==
    \A i \in Containers :
        LET sent   == Printed[i]
            parsed == Kami_Tlv_ParseObject(Contents(i))
        IN  \A k \in DOMAIN sent :
                LET t   == items[sent[k]].type
                    idx == Cardinality({j \in 1..k - 1 : items[sent[j]].type = t})
                IN  (type_len = 1 => t < 128) /\ (k = Len(sent) => Contents(sent[k]) # <<>>)
                    => Kami_Tlv_GetObjectItem(parsed, t, idx)
                         = {[type |-> t, value |-> Contents(sent[k])]}
=============================================================================
