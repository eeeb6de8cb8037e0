--------------------------- MODULE FixDictionary ---------------------------
(***************************************************************************)
(* The FIX dictionary: from the XML file that fix/parser/parser.py reads    *)
(* to the classes of fields.mustache, groups.mustache and bodies.mustache.  *)
(*   a file     a sequence of sections [tag, items]                         *)
(*   "fields"   items [number, name, type]                                  *)
(*   "header", "trailer"   their entries                                    *)
(*   "components", "messages"   items [name, msgtype, entries]              *)
(*   an entry   [tag, name, required, entries], the tag one of "field",     *)
(*              "component" and "group"                                     *)
(* Names are unique: that the parser keeps a component it has expanded      *)
(* makes no difference then.  A group is a class of its own wherever it     *)
(* occurs, as the unique names of the generated classes have it.            *)
(***************************************************************************)
EXTENDS FixMessages

\* The types of the fields by what their values are; the codec of a float is
\* not modelled.
Fix42Types ==
    [bool |-> {"BOOLEAN"},
     int |-> {"DAYOFMONTH", "INT", "LENGTH", "MONTHYEAR", "LONG"},
     float |-> {"AMT", "FLOAT", "PERCENTAGE", "PRICE", "PRICEOFFSET", "QTY"},
     string |-> {"CHAR", "CURRENCY", "DATA", "EXCHANGE", "LOCALMKTDATE", "MULTIPLEVALUESTRING",
                 "STRING", "UTCDATE", "UTCTIMEONLY", "UTCTIMESTAMP", "COUNTRY"}]
Fix44Types == [Fix42Types EXCEPT !.int = @ \union {"SEQNUM", "NUMINGROUP"}]
Fix50Types == [Fix44Types EXCEPT !.string = @ \union {"FIXSTRING", "MULTIPLECHARVALUE"}]
Fix502Types == [Fix50Types EXCEPT !.string = @ \union {"TZTIMEONLY", "MULTIPLESTRINGVALUE"}]

SupportedTypes(version) ==
    CASE version = "4.2"    -> Fix42Types
      [] version = "4.4"    -> Fix44Types
      [] version = "5.0"    -> Fix50Types
      [] version = "5.0SP2" -> Fix502Types

NoDefinitions == [ok |-> TRUE, fields |-> <<>>, header |-> <<>>, trailer |-> <<>>, messages |-> <<>>]
Supported(types, name) == \E kind \in DOMAIN types : name \in types[kind]
KindOf(types, name) == CHOOSE kind \in DOMAIN types : name \in types[kind]

Named(items, name) == CHOOSE x \in Range(items) : x.name = name
Components(file) == FlattenSeq([i \in DOMAIN file |-> IF file[i].tag = "components" THEN file[i].items ELSE <<>>])
HasComponent(file, name) == \E c \in Range(Components(file)) : c.name = name

\* _handle_entry() raises for a field that is not defined yet and a component
\* that the file lacks, the generated module for a group nobody counts.
RECURSIVE Defined(_, _, _)
Defined(fields, file, entries) ==
    \A e \in Range(entries) :
        CASE e.tag = "field"     -> e.name \in DOMAIN fields
          [] e.tag = "group"     -> e.name \in DOMAIN fields /\ Defined(fields, file, e.entries)
          [] e.tag = "component" -> /\ HasComponent(file, e.name)
                                    /\ Defined(fields, file, Named(Components(file), e.name).entries)

\* A component is its entries, whether it is required or not.
RECURSIVE ClassOf(_, _, _)
ClassOf(fields, file, entries) ==
    LET Entry(e, type, group) ==
            <<[tag |-> fields[e.name].tag, type |-> type, required |-> e.required, group |-> group]>>
        Handled(e) ==
            CASE e.tag = "field"     -> Entry(e, fields[e.name].type, <<>>)
              [] e.tag = "group"     -> Entry(e, "group", ClassOf(fields, file, e.entries))
              [] e.tag = "component" -> ClassOf(fields, file, Named(Components(file), e.name).entries)
    IN  FlattenSeq([i \in DOMAIN entries |-> Handled(entries[i])])

FieldDefs(types, items) ==
    [n \in {f.name : f \in Range(items)} |->
        [tag |-> Named(items, n).number, type |-> KindOf(types, Named(items, n).type)]]

\* The containers whose entries a section has.
Containers(section) ==
    CASE section.tag \in {"header", "trailer"}      -> <<section.items>>
      [] section.tag \in {"components", "messages"} -> [i \in DOMAIN section.items |-> section.items[i].entries]
      [] section.tag = "fields"                     -> <<>>

Handle(version, file, d, section) ==
    LET types == SupportedTypes(version)
        Of(entries) == ClassOf(d.fields, file, entries)
        OfMessages == [i \in DOMAIN section.items |->
                          [msgtype |-> section.items[i].msgtype, body |-> Of(section.items[i].entries)]]
        legal == /\ \A c \in Range(Containers(section)) : Defined(d.fields, file, c)
                 /\ section.tag = "fields" => \A f \in Range(section.items) : Supported(types, f.type)
    IN  IF ~d.ok \/ ~legal THEN [d EXCEPT !.ok = FALSE]
        ELSE CASE section.tag = "fields"     -> [d EXCEPT !.fields = FieldDefs(types, section.items) @@ @]
               [] section.tag = "header"     -> [d EXCEPT !.header = @ \o Of(section.items)]
               [] section.tag = "trailer"    -> [d EXCEPT !.trailer = @ \o Of(section.items)]
               [] section.tag = "messages"   -> [d EXCEPT !.messages = @ \o OfMessages]
               [] section.tag = "components" -> d

\* The last section comes first: what a section uses is defined below it.
Parse(file, version) ==
    FoldLeft(LAMBDA d, section : Handle(version, file, d, section), NoDefinitions, Reverse(file))

-----------------------------------------------------------------------------
(* The generated classes *)

Codec == [bool |-> FixBool, int |-> FixInt, string |-> FixString]

RECURSIVE EntryFrom(_)
EntryFrom(e) ==
    [(IF e.type = "group" THEN Group(e.tag, [i \in DOMAIN e.group |-> EntryFrom(e.group[i])])
                          ELSE Field(e.tag, Codec[e.type]))
     EXCEPT !.required = e.required]

ClassFrom(entries) == [i \in DOMAIN entries |-> EntryFrom(entries[i])]

\* No bodies where the parser raised, or the generator for a version that has
\* no session; of two messages with one type the later one counts.
Generated(version, d) ==
    LET legal == d.ok /\ version \in {"4.4", "5.0", "5.0SP2"}
        types == {m.msgtype : m \in Range(IF legal THEN d.messages ELSE <<>>)}
        Last1(t) == d.messages[Max({i \in DOMAIN d.messages : d.messages[i].msgtype = t})]
    IN  [header |-> ClassFrom(d.header), trailer |-> ClassFrom(d.trailer),
         bodies |-> [t \in types |-> ClassFrom(Last1(t).body)]]

=============================================================================
