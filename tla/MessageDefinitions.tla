------------------------- MODULE MessageDefinitions -------------------------
(***************************************************************************)
(* The definitions of an ITCH, OUCH or SQF application: from the XML file   *)
(* that common/message/parser.py reads to the types of the fields in the    *)
(* classes of message_soup_app.mustache.                                    *)
(*   a file      a sequence of sections [tag, items]                        *)
(*   "enums-root"      items [name, type]                                   *)
(*   "fielddef-root"   items [name, field]                                  *)
(*   "records-root"    items [name, fields]                                 *)
(*   "messages-root"   items [indicator, group, direction, fields]          *)
(*   a field     <<"def", name>>, or <<"field", kind, type, length, array,  *)
(*               length type>>, the kind "plain", "enum" or "record", and   *)
(*               "" for an attribute that is not there                      *)
(* The names of fields, which the layout does not depend on, are left out.  *)
(***************************************************************************)
EXTENDS Records

FixedTexts == {"str_ascii_n", "str_iso-8859-1_n"}

\* TypeDefinition.Definitions; a fixed text takes its length from the field.
Plain(name, length) ==
    CASE name = "boolean"   -> Boolean
      [] name = "int_4"     -> Int4
      [] name = "int_4_be"  -> IntBE
      [] name = "uint_4"    -> UnsignedInt
      [] name = "uint_4_be" -> UnsignedIntBE
      [] name = "byte"      -> Byte
      [] name = "int_2"     -> Short
      [] name = "int_2_be"  -> ShortBE
      [] name = "uint_2"    -> UnsignedShort
      [] name = "uint_2_be" -> UnsignedShortBE
      [] name = "int_8"     -> Long
      [] name = "int_8_be"  -> LongBE
      [] name = "uint_8"    -> UnsignedLong
      [] name = "uint_8_be" -> UnsignedLongBE
      [] name \in {"char_ascii", "char_iso-8859-1"}     -> Char
      [] name \in {"str_ascii", "str_iso-8859-1"}       -> Text
      [] name \in FixedTexts                            -> Fixed(length, FALSE)

\* A dictionary of the items under their keys, where the last one counts.
By(keys, items) == [k \in Range(keys) |-> items[Max({i \in DOMAIN items : keys[i] = k})]]
Names(items) == [i \in DOMAIN items |-> items[i].name]

\* The field definitions are the class's: those of a file parsed before would
\* still be there.  Here none was.
NoParse == [ok |-> TRUE, fields |-> <<>>, enums |-> <<>>, records |-> <<>>, messages |-> <<>>]

\* copy.deepcopy() of the definition, whatever else the field says.
Resolved(fields, f) == IF f[1] = "def" THEN fields[f[2]].field ELSE f
Known(fields, list) == \A f \in Range(list) : f[1] = "def" => f[2] \in DOMAIN fields
ParsedFields(fields, list) == [i \in DOMAIN list |-> Resolved(fields, list[i])]
Filled(fields, items) == [i \in DOMAIN items |-> [items[i] EXCEPT !.fields = ParsedFields(fields, @)]]

Keys(items) == [i \in DOMAIN items |-> <<items[i].indicator, items[i].group, items[i].direction>>]
Distinct(items) == Cardinality(Range(Keys(items))) = Len(items)

\* A field definition counts for the sections after it; a section that comes
\* twice replaces the first one.  A message whose key is taken raises, or
\* replaces the first one.
Section(override, d, s) ==
    LET hasFields == s.tag \in {"records-root", "messages-root"}
        legal == /\ hasFields => \A x \in Range(s.items) : Known(d.fields, x.fields)
                 /\ s.tag = "messages-root" => override \/ Distinct(s.items)
    IN  IF ~d.ok \/ ~legal THEN [d EXCEPT !.ok = FALSE]
        ELSE CASE s.tag = "enums-root"    -> [d EXCEPT !.enums = By(Names(s.items), s.items)]
               [] s.tag = "fielddef-root" -> [d EXCEPT !.fields = By(Names(s.items), s.items)]
               [] s.tag = "records-root"  -> [d EXCEPT !.records = By(Names(s.items), Filled(d.fields, s.items))]
               [] s.tag = "messages-root" -> [d EXCEPT !.messages = By(Keys(s.items), Filled(d.fields, s.items))]

ParseFile(file, override) ==
    FoldLeft(LAMBDA d, s : Section(override, d, s), NoParse, file)

\* An enum never gets the length of the field.
Enum(name) == IF name \in FixedTexts THEN Unfixed ELSE Plain(name, 0)

\* FieldDef._field_context(): the type that is written into the class.  The
\* records of every protocol are without a present bit.
RECURSIVE TypeOfField(_, _)
TypeOfField(d, f) ==
    LET fields == d.records[f[3]].fields
        OrArray(type) == IF f[5] = "" THEN type ELSE Array(type, Plain(f[6], 0))
    IN  OrArray(CASE f[2] = "record" -> Record([i \in DOMAIN fields |-> TypeOfField(d, fields[i])])
                  [] f[2] = "enum"   -> Enum(d.enums[f[3]].type)
                  [] f[2] = "plain"  -> Plain(f[3], f[4]))

\* What is written for an array of arrays, or of fixed texts, raises on import.
Imports(f) == f[5] # "" => f[5] # "double" /\ f[3] \notin FixedTexts

Id(m) == <<m.indicator, m.direction>>

\* The registry that the generated module fills, or nothing where the parser or
\* the import raises.  The id of a message leaves its group out: a second
\* message with the id raises, too.
LayoutsOf(d) ==
    LET messages == Range(d.messages)
        legal == /\ d.ok
                 /\ \A x \in messages \union Range(d.records) : \A f \in Range(x.fields) : Imports(f)
                 /\ \A m, n \in messages : Id(m) = Id(n) => m = n
    IN  [id \in {Id(m) : m \in IF legal THEN messages ELSE {}} |->
            LET fields == (CHOOSE m \in messages : Id(m) = id).fields
            IN  [i \in DOMAIN fields |-> TypeOfField(d, fields[i])]]

=============================================================================
