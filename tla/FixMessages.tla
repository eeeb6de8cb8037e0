---------------------------- MODULE FixMessages ----------------------------
(***************************************************************************)
(* FIX messages, fix/core.py and fix/types.py; their framing is that of     *)
(* FixFraming.  A message is its type and three segments; a segment, and an *)
(* instance of a group, is a sequence of fields, a field its tag and its    *)
(* value: the codes of a text, the number of an int, True or False as       *)
(* str() writes it, or, for the tag that counts a repeating group, the      *)
(* sequence of the group's instances.                                      *)
(*                                                                          *)
(* A class, of a segment or of a group's instances, is the sequence of its  *)
(* entries, each what its class is:                                         *)
(*   tag, required                                                          *)
(*   write    to_bytes()                                                    *)
(*   read     from_bytes()                                                  *)
(*   exact    the values that come back, elsewhere and at a message's end   *)
(*   inner    the tags of a group's instances, at any depth                 *)
(***************************************************************************)
EXTENDS FixFraming, Selection

CONSTANTS
    Dictionary,     \* the classes that are generated: [header, trailer, bodies],
                    \* the bodies per message type, a text
    Specified       \* the classes that the dictionary's file means

ASSUME FixAssumption == DOMAIN Dictionary.bodies = DOMAIN Specified.bodies

Fields == Seq([tag : Nat, value : FieldValue])
Tags(fields) == {fields[i].tag : i \in DOMAIN fields}
Indexed(class) == {class[i].tag : i \in DOMAIN class}
EntryOf(class, tag) == class[Max({i \in DOMAIN class : class[i].tag = tag})]
Classes(dictionary, type) == <<dictionary.header, dictionary.bodies[type], dictionary.trailer>>

\* What was read, the bytes that are left, and whether nothing raised.
Parsed(value, rest) == [ok |-> TRUE, value |-> value, rest |-> rest]
ParseError == [ok |-> FALSE, value |-> <<>>, rest |-> <<>>]

-----------------------------------------------------------------------------
(* The types of fields *)

TrueValue == <<84, 114, 117, 101>>
FalseValue == <<70, 97, 108, 115, 101>>

FixBool ==
    [write |-> [v \in FieldValue |-> IF v = TrueValue THEN <<89>> ELSE <<78>>],
     read |-> [text \in Octets |-> Parsed(IF text = <<89>> THEN TrueValue ELSE FalseValue, <<>>)],
     exact |-> {v \in FieldValue : v \in {TrueValue, FalseValue}}]

\* A bool passes for an int, whose text is then no number.
FixInt ==
    [write |-> [v \in FieldValue |-> IF Len(v) = 1 THEN Signed(v[1]) ELSE v],
     read |-> [text \in Octets |-> IF IsInteger(text) THEN Parsed(<<Integer(text)>>, <<>>) ELSE ParseError],
     exact |-> {v \in FieldValue : v \in Seq(Int) /\ Len(v) = 1}]

FixString ==
    [write |-> [v \in FieldValue |-> v],
     read |-> [text \in Octets |-> IF Ascii(text) THEN Parsed(text, <<>>) ELSE ParseError],
     exact |-> {v \in FieldValue : v \in Octets /\ Ascii(v) /\ SOH \notin Range(v)}]

\* The text of the first field's value, and what follows its separator.
ValueOf(bytes) ==
    LET soh == Find(bytes, SOH, 1)
        end == IF soh = 0 THEN Len(bytes) + 1 ELSE soh
    IN  [text |-> SubSeq(bytes, Find(bytes, EQ, 1) + 1, end - 1), rest |-> From(bytes, end)]

Field(tag, type) ==
    [tag |-> tag, required |-> FALSE, inner |-> {},
     write |-> [v \in FieldValue |-> TagValue(tag, type.write[v])],
     read |-> [b \in Octets |->
                LET v == type.read[ValueOf(b).text]
                IN  IF v.ok THEN Parsed(v.value, ValueOf(b).rest) ELSE ParseError],
     exact |-> [last \in BOOLEAN |-> type.exact]]

Mandatory(entry) == [entry EXCEPT !.required = TRUE]

-----------------------------------------------------------------------------
(* Segments and instances *)

\* A field that only the dictionary of a peer of another make has is a text.
Writing(class, tag) == IF tag \in Indexed(class) THEN EntryOf(class, tag) ELSE Field(tag, FixString)

FieldsToBytes(class, fields) ==
    Join([i \in DOMAIN fields |-> Writing(class, fields[i].tag).write[fields[i].value]], <<SOH>>)

\* A repeated tag ends an instance of a group and so begins the next one.
NeverRepeats(tag, done) == FALSE
Repeats(tag, done) == tag \in Tags(done)

\* Where find() answers -1 the slice ends before the last byte.
TagText(bytes) ==
    LET sep == Find(bytes, EQ, 1) IN SubSeq(bytes, 1, (IF sep = 0 THEN Len(bytes) ELSE sep) - 1)

\* DataSegment.from_bytes(): up to a tag that repeats or is not of the class.
NextField(class, p) ==
    LET tag == Integer(TagText(p.rest))
        v == EntryOf(class, tag).read[p.rest]
    IN  IF ~p.ok \/ p.rest = <<>> THEN p
        ELSE IF ~IsInteger(TagText(p.rest)) THEN ParseError
        ELSE IF Repeats(tag, p.value) \/ tag \notin Indexed(class) THEN p
        ELSE IF EQ \notin Range(p.rest) \/ ~v.ok THEN ParseError
        ELSE Parsed(Append(p.value, [tag |-> tag, value |-> v.value]), v.rest)

\* At most a field for each entry, and a look at what comes then.
FieldsFromBytes(class, bytes) ==
    LET at[k \in 0..(Len(class) + 1)] ==
            IF k = 0 THEN Parsed(<<>>, bytes) ELSE NextField(class, at[k - 1])
    IN  at[Len(class) + 1]

\* The segments and instances that can be read back: every tag is one of the
\* class and set once, and only the last field may hold what comes back at a
\* message's end alone.
Readable(class, fields, isLast) ==
    /\ fields \in Fields
    /\ \A i \in DOMAIN fields :
         /\ fields[i].tag \in Indexed(class)
         /\ \A j \in DOMAIN fields : fields[i].tag = fields[j].tag => i = j
         /\ fields[i].value \in EntryOf(class, fields[i].tag).exact[isLast /\ i = Len(fields)]

-----------------------------------------------------------------------------
(* Repeating groups *)

\* A group writes its fields in the order of its definition, a segment in the
\* order in which they were set.
AsDefined(class, fields) ==
    LET known == SelectSeq(class, LAMBDA e : e.tag \in Tags(fields))
    IN  [i \in DOMAIN known |-> CHOOSE f \in Range(fields) : f.tag = known[i].tag]

GroupsToBytes(tag, class, groups) ==
    Join(<<TagValue(tag, Decimal(Len(groups)))>>
           \o [i \in DOMAIN groups |-> FieldsToBytes(class, AsDefined(class, groups[i]))], <<SOH>>)

\* GroupContainer.from_bytes(): as many instances as the count says; where the
\* next tag is of neither, an instance is empty.
Gathered(groups, group) ==
    IF group.ok THEN Parsed(Append(groups, group.value), group.rest) ELSE ParseError
NextGroup(class, p) ==
    IF p.rest = <<>> THEN ParseError ELSE Gathered(p.value, FieldsFromBytes(class, p.rest))

GroupsFromBytes(class, count, bytes) ==
    LET at[k \in 0..count] ==
            IF k = 0 THEN Parsed(<<>>, bytes) ELSE NextGroup(class, at[k - 1])
    IN  IF count < 0 THEN ParseError ELSE at[count]

\* The fields of an instance come as they are defined, an instance begins with
\* a tag of the one before it, and only the last thing in a message may be an
\* instance without fields.
ReadableGroups(class, groups, isLast) ==
    /\ groups \in Seq(Fields)
    /\ \A i \in DOMAIN groups :
         LET lastGroup == isLast /\ i = Len(groups)
         IN  /\ Readable(class, groups[i], lastGroup)
             /\ groups[i] = AsDefined(class, groups[i])
             /\ groups[i] = <<>> => lastGroup
             /\ i > 1 /\ groups[i] # <<>> => groups[i][1].tag \in Tags(groups[i - 1])

AllTags(class) == Indexed(class) \union UNION {class[i].inner : i \in DOMAIN class}

Group(tag, class) ==
    [tag |-> tag, required |-> FALSE, inner |-> AllTags(class),
     write |-> [v \in FieldValue |-> GroupsToBytes(tag, class, v)],
     read |-> [b \in Octets |->
                LET count == ValueOf(b).text
                IN  IF IsInteger(count) THEN GroupsFromBytes(class, Integer(count), ValueOf(b).rest)
                    ELSE ParseError],
     exact |-> [last \in BOOLEAN |-> {v \in FieldValue : ReadableGroups(class, v, last)}]]

-----------------------------------------------------------------------------
(* Messages *)

\* The classes that can be told apart: a tag of a group's instances that is one
\* of the class itself, or of a segment behind it, would be taken for a field of
\* the group's last instance.
Unambiguous(class) == \A i \in DOMAIN class : class[i].inner \intersect Indexed(class) = {}
Apart(classes) ==
    \A i, j \in DOMAIN classes : i < j => AllTags(classes[i]) \intersect Indexed(classes[j]) = {}

Ended(bytes) == IF bytes # <<>> /\ Last(bytes) = SOH THEN bytes ELSE Append(bytes, SOH)

JoinedSegments(segments) == Join(Selected(segments, Range(segments) \ {<<>>}), <<SOH>>)
FixToBytes(m) ==
    Ended(JoinedSegments([i \in 1..3 |-> FieldsToBytes(Classes(Dictionary, m.type)[i], m.segments[i])]))

FixBody(m) == Body(m.type, FixToBytes(m))
FixEncode(m, beginString) == CompleteMsg(FixBody(m), beginString)

\* FixSession.send_msg() refuses a body without its mandatory fields; those of
\* the instances of its groups are not looked at.
Complete(class, fields) == \A e \in Range(class) : e.required => e.tag \in Tags(fields)
Valid(m) == Complete(Dictionary.bodies[m.type], m.segments[2])

\* Message.get_msg_type(): what follows the first "35=".
TypeOf(bytes) == ValueOf(From(bytes, TypePosition(bytes) - 1)).text

\* Header, body and trailer, each from what the one before it left.  What
\* follows the trailer, or a tag that no segment knows, is dropped.
FixDecoded(type, classes, bytes) ==
    LET header == FieldsFromBytes(classes[1], bytes)
        body == FieldsFromBytes(classes[2], header.rest)
        trailer == FieldsFromBytes(classes[3], body.rest)
    IN  IF type \in DOMAIN Dictionary.bodies /\ header.ok /\ body.ok /\ trailer.ok
        THEN [type |-> type, segments |-> <<header.value, body.value, trailer.value>>]
        ELSE FixInvalid
FixDecode(bytes) == FixDecoded(TypeOf(bytes), Classes(Dictionary, TypeOf(bytes)), bytes)

-----------------------------------------------------------------------------
(* FixMessageReader.deserialize *)

FixDeserialize(view) == FixRead(view, FixDecode(Prefix(view, FrameLength(view))))

-----------------------------------------------------------------------------

\* What the peer of send_msg() has to decode: the message with the fields of
\* its framing.
Completed(m, beginString) ==
    LET f(tag, text) == [tag |-> tag, value |-> text]
        front == <<f(BEGIN_STRING_FIELD, beginString),
                   f(BODY_LEN_FIELD, <<Len(FixBody(m))>>),
                   f(MSG_TYPE_FIELD, m.type)>>
        sum == f(CHECKSUM_FIELD, Checksum(Heading(FixBody(m), beginString) \o FixBody(m)))
    IN  [m EXCEPT !.segments = <<front \o @[1], @[2], Append(@[3], sum)>>]

\* The messages that a FIX frame carries unchanged: readable, with the mandatory
\* fields, and without the fields that the framing adds, which a message that
\* was received has.
FixFaithful(m) ==
    LET classes == Classes(Specified, m.type)
    IN  /\ \E i \in 1..3 : m.segments[i] # <<>>
        /\ {BEGIN_STRING_FIELD, BODY_LEN_FIELD, MSG_TYPE_FIELD} \intersect Tags(m.segments[1]) = {}
        /\ CHECKSUM_FIELD \notin Tags(m.segments[3])
        /\ Complete(classes[2], m.segments[2])
        /\ \A i \in 1..3 :
             Readable(classes[i], m.segments[i], \A k \in (i + 1)..3 : m.segments[k] = <<>>)

=============================================================================
