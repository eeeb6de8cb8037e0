------------------------------ MODULE Records ------------------------------
(***************************************************************************)
(* The binary messages of ITCH, OUCH and SQF: the types of                 *)
(* common/message/types.py, the records, arrays and messages of            *)
(* common/message/structures.py, and the message ids of soup/soup_app.py.  *)
(* A value is a sequence: the number of an int, 0 or 1 of a boolean, the   *)
(* codes of a text, the values of a record's fields, the elements of an    *)
(* array; an absent record is the empty sequence.  A type is what its      *)
(* class is:                                                               *)
(*   values   what a field of the type may hold and can be packed: neither *)
(*            __setattr__ nor to_bytes() raises                            *)
(*   write    to_bytes()                                                   *)
(*   read     from_bytes(): the size n that it claims, whatever was there, *)
(*            and the value v                                              *)
(*   exact    the values that fit the format                               *)
(***************************************************************************)
EXTENDS Bytes

CONSTANTS
    Layouts,            \* the registry: per message id the types of its fields
    SpecifiedLayouts    \* what those who wrote its definitions meant

\* A message id is its indicator and its direction.
ASSUME LayoutsAssumption ==
    /\ DOMAIN Layouts = DOMAIN SpecifiedLayouts
    /\ DOMAIN Layouts \subseteq (0..255) \X {"outgoing", "incoming"}

-----------------------------------------------------------------------------
(* Integers: to_bytes() raises where the value does not fit. *)

Shifted(v, n) == LET s[i \in 0..n] == IF i = 0 THEN v ELSE s[i - 1] \div 256 IN s[n]

Fits(format, v) == Shifted(v, format.size - 1) \in (IF format.signed THEN -128..127 ELSE 0..255)

IntToBytes(format, v) ==
    LET little == [i \in 1..format.size |-> Shifted(v, i - 1) % 256]
    IN  IF format.big THEN Reverse(little) ELSE little

\* Bytes that are missing count for nothing: int.from_bytes(value[:size]).
BigEndian(format, bytes) == IF format.big THEN bytes ELSE Reverse(bytes)

IntFromBytes(format, bytes) ==
    LET digits == BigEndian(format, Prefix(bytes, format.size))
        Digit(i) == IF i = 1 /\ format.signed /\ digits[i] > 127 THEN digits[i] - 256 ELSE digits[i]
    IN  Positional(256, 0, [i \in DOMAIN digits |-> Digit(i)])

IntType(size, signed, big) ==
    LET format == [size |-> size, signed |-> signed, big |-> big]
        values == {v \in FieldValue : v \in Seq(Int) /\ Len(v) = 1 /\ Fits(format, v[1])}
    IN  [format |-> format, values |-> values, exact |-> values,
         write |-> [v \in values |-> IntToBytes(format, v[1])],
         read |-> [b \in Octets |-> [n |-> size, v |-> <<IntFromBytes(format, b)>>]]]

Int4 == IntType(4, TRUE, FALSE)
IntBE == IntType(4, TRUE, TRUE)
UnsignedInt == IntType(4, FALSE, FALSE)
UnsignedIntBE == IntType(4, FALSE, TRUE)
Byte == IntType(1, FALSE, FALSE)
Short == IntType(2, TRUE, FALSE)
ShortBE == IntType(2, TRUE, TRUE)
UnsignedShort == IntType(2, FALSE, FALSE)
UnsignedShortBE == IntType(2, FALSE, TRUE)
Long == IntType(8, TRUE, FALSE)
LongBE == IntType(8, TRUE, TRUE)
UnsignedLong == IntType(8, FALSE, FALSE)
UnsignedLongBE == IntType(8, FALSE, TRUE)

-----------------------------------------------------------------------------
(* Booleans and texts, of ASCII and of ISO 8859-1 alike *)

Boolean ==
    LET values == {v \in FieldValue : v \in {<<0>>, <<1>>}}
    IN  [values |-> values, exact |-> values,
         write |-> [v \in values |-> v],
         read |-> [b \in Octets |-> [n |-> 1, v |-> IF Prefix(b, 1) = <<1>> THEN <<1>> ELSE <<0>>]]]

Char ==
    LET values == {v \in FieldValue : v \in Octets}
    IN  [values |-> values, exact |-> {v \in values : Len(v) = 1},
         write |-> [v \in values |-> Prefix(v, 1)],
         read |-> [b \in Octets |-> [n |-> 1, v |-> Prefix(b, 1)]]]

\* AsciiString, Iso8859String
Text ==
    LET values == {v \in FieldValue : v \in Octets /\ Fits(Short.format, Len(v))}
        Size(b) == 2 + IntFromBytes(Short.format, b)
    IN  [values |-> values, exact |-> values,
         write |-> [v \in values |-> IntToBytes(Short.format, Len(v)) \o v],
         read |-> [b \in Octets |-> [n |-> Size(b), v |-> From(Prefix(b, Bound(b, Size(b))), 2)]]]

\* What str.strip() removes, the blanks of ISO 8859-1 included.
Blank == Whitespace \union {133, 160}

Fixed(length, right) ==
    LET values == {v \in FieldValue : v \in Octets}
    IN  [values |-> values,
         exact |-> {v \in values : Len(v) <= length /\ Strip(v, Blank) = v},
         write |-> [v \in values |-> IF right THEN Rjust(v, length) ELSE Ljust(v, length)],
         read |-> [b \in Octets |-> [n |-> length, v |-> Strip(Prefix(b, length), Blank)]]]

\* The class of a fixed text without its length: it neither packs nor reads.
Unfixed == [values |-> {}, exact |-> {}, write |-> <<>>, read |-> <<>>]

-----------------------------------------------------------------------------
(* Records and arrays *)

\* What is left for the next reader, from an offset that may have become negative.
FromOffset(bytes, offset) == From(bytes, Bound(bytes, offset))

\* The values that the readers find one behind the other, from an offset on.
ListFromBytes(readers, bytes, offset) ==
    LET at[k \in 0..Len(readers)] ==
            IF k = 0 THEN offset
            ELSE LET last == at[k - 1] IN last + readers[k][FromOffset(bytes, last)].n
    IN  [n |-> at[Len(readers)],
         v |-> [k \in 1..Len(readers) |-> readers[k][FromOffset(bytes, at[k - 1])].v]]

\* A record without fields cannot be packed.
Record(fields) ==
    LET values == {v \in FieldValue : /\ v # <<>> /\ v = [i \in DOMAIN fields |-> v[i]]
                                 /\ \A i \in DOMAIN fields : v[i] \in fields[i].values}
    IN  [values |-> values,
         exact |-> {v \in values : \A i \in DOMAIN fields : v[i] \in fields[i].exact},
         write |-> [v \in values |-> FlattenSeq([i \in DOMAIN fields |-> fields[i].write[v[i]]])],
         read |-> [b \in Octets |-> ListFromBytes([i \in DOMAIN fields |-> fields[i].read], b, 0)]]

RecordWithPresentBit(fields) ==
    LET record == Record(fields)
        values == {v \in FieldValue : v = <<>> \/ v \in record.values}
        Rest(b) == record.read[From(b, 1)]
    IN  [record |-> record, values |-> values,
         exact |-> {v \in values : v = <<>> \/ v \in record.exact},
         write |-> [v \in values |-> IF v = <<>> THEN <<0>> ELSE <<1>> \o record.write[v]],
         read |-> [b \in Octets |-> IF Prefix(b, 1) = <<1>> THEN [n |-> 1 + Rest(b).n, v |-> Rest(b).v]
                                    ELSE [n |-> 1, v |-> <<>>]]]

\* The elements of an array carry no present bit.
Element(type) == IF "record" \in DOMAIN type THEN type.record ELSE type

Array(of, length) ==
    LET element == Element(of)
        values == {v \in FieldValue : v \in Seq(element.values) /\ Fits(length.format, Len(v))}
        Readers(b) == [i \in 1..IntFromBytes(length.format, b) |-> element.read]
    IN  [values |-> values,
         exact |-> {v \in values : \A i \in DOMAIN v : v[i] \in element.exact},
         write |-> [v \in values |-> IntToBytes(length.format, Len(v))
                                       \o FlattenSeq([i \in DOMAIN v |-> element.write[v[i]]])],
         read |-> [b \in Octets |-> ListFromBytes(Readers(b), b, length.format.size)]]

-----------------------------------------------------------------------------
(* CommonMessage: the id, then the record of the message's class.  from_bytes *)
(* looks the indicator up as that of an outgoing message, or raises.         *)

MessageToBytes(m) == IntToBytes(Byte.format, m.id[1]) \o Record(Layouts[m.id]).write[m.values]

UnknownId == [id |-> <<>>, values |-> <<>>]

MessageFromBytes(bytes) ==
    LET id == <<IntFromBytes(Byte.format, bytes), "outgoing">>
    IN  IF id \notin DOMAIN Layouts THEN UnknownId
        ELSE [id |-> id, values |-> Record(Layouts[id]).read[From(bytes, 1)].v]

-----------------------------------------------------------------------------

\* The messages that come back unchanged: one character in a Char, in a fixed
\* text no more than fits it and no space at its ends.
RecordFaithful(m) == m.id[2] = "outgoing" /\ m.values \in Record(SpecifiedLayouts[m.id]).exact

=============================================================================
