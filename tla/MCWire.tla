------------------------------- MODULE MCWire -------------------------------
(***************************************************************************)
(* The run of the codecs: for each protocol the messages at the edges of   *)
(* its format, alone and behind one another, and the pieces in which they  *)
(* arrive.                                                                 *)
(***************************************************************************)
EXTENDS Wire, FixDictionary, MessageDefinitions

\* Texts, by their codes: a..z are 97..122, the digits 48..57.
T(n) == [i \in 1..n |-> 97 + ((i - 1) % 26)]
Fix44 == <<70, 73, 88, 46, 52, 46, 52>>

-----------------------------------------------------------------------------
(* SoupBinTCP *)

Msg(class, fields) == [class |-> class, fields |-> fields]
Login(user, password, sequence) == Msg("LoginRequest", <<user, password, <<>>, sequence>>)
Sequenced(n) == Msg("SequencedData", <<T(n)>>)
Accepted == Msg("LoginAccepted", <<T(10), <<52, 50>>>>)
ServerHb == Msg("ServerHeartbeat", <<>>)
End == Msg("EndOfSession", <<>>)

SoupEdges ==
    {Login(T(6), T(2), <<49>>),             \* fits
     Login(T(7), T(2), <<49>>),             \* a user that is cut
     Login(T(2), <<32>> \o T(1), <<49>>),   \* a password that is trimmed
     Login(T(2), <<>>, <<48, 48, 55>>),     \* a sequence normalised
     Login(T(2), T(2), T(1)),               \* a sequence that is no number
     Accepted, Msg("LoginAccepted", <<T(11), <<48>>>>),
     Msg("LoginRejected", <<<<65>>>>), Msg("Debug", <<T(2)>>),
     Sequenced(0), Msg("UnSequencedData", <<<<0>>>>)}

SoupScripts ==
    {<<Sequenced(2), ServerHb, Msg("UnSequencedData", <<<<0>>>>)>>,
     <<ServerHb, Msg("ClientHeartbeat", <<>>), Sequenced(0), Sequenced(1)>>,
     <<Sequenced(1), End, Sequenced(2)>>,
     <<Sequenced(1), Msg("LogoutRequest", <<>>)>>,
     <<Sequenced(3), Login(T(2), T(2), <<>>), Sequenced(1)>>}

\* Payloads about the size where the length's first byte counts, and about
\* the one where its sign does.
LongScripts == {<<Sequenced(254), Sequenced(300)>>}
HugeScripts == {<<Sequenced(MaxLength - 1), Sequenced(1)>>, <<Sequenced(MaxLength), Sequenced(1)>>}

-----------------------------------------------------------------------------
(* FIX: an order with parties, which have accounts *)

FieldDef(number, name, type) == [number |-> number, name |-> name, type |-> type]
XmlEntry(tag, name, required, entries) ==
    [tag |-> tag, name |-> name, required |-> required, entries |-> entries]
XmlField(name) == XmlEntry("field", name, FALSE, <<>>)
XmlMandatory(name) == XmlEntry("field", name, TRUE, <<>>)
Container(name, msgtype, entries) == [name |-> name, msgtype |-> msgtype, entries |-> entries]

\* As the dictionaries have it, the fields come last; a component before the
\* one that it uses.
FixFile ==
    <<[tag |-> "header",
       items |-> <<XmlMandatory("BeginString"), XmlMandatory("BodyLength"), XmlMandatory("MsgType"),
                   XmlField("MsgSeqNum"), XmlField("PossDupFlag")>>],
      [tag |-> "messages",
       items |-> <<Container("Order", <<68>>, <<XmlMandatory("ClOrdID"), XmlEntry("component", "Parties", FALSE, <<>>),
                                                XmlField("Text"), XmlField("Side")>>),
                   Container("Logon", <<65>>, <<XmlField("HeartBtInt")>>),
                   Container("Heartbeat", <<48>>, <<>>), Container("Logout", <<53>>, <<>>)>>],
      [tag |-> "trailer", items |-> <<XmlField("SignatureLength"), XmlMandatory("CheckSum")>>],
      [tag |-> "components",
       items |-> <<Container("Parties", <<>>,
                      <<XmlEntry("group", "NoPartyIDs", FALSE,
                           <<XmlField("PartyID"), XmlField("PartyIDSource"),
                             XmlEntry("component", "Accounts", FALSE, <<>>)>>)>>),
                   Container("Accounts", <<>>,
                      <<XmlEntry("group", "NoPartySubIDs", FALSE, <<XmlField("PartySubID"), XmlField("PartySubIDType")>>)>>)>>],
      [tag |-> "fields",
       items |-> <<FieldDef(8, "BeginString", "STRING"), FieldDef(9, "BodyLength", "LENGTH"), FieldDef(35, "MsgType", "STRING"),
                   FieldDef(34, "MsgSeqNum", "SEQNUM"), FieldDef(43, "PossDupFlag", "BOOLEAN"), FieldDef(11, "ClOrdID", "STRING"),
                   FieldDef(58, "Text", "STRING"), FieldDef(54, "Side", "CHAR"), FieldDef(108, "HeartBtInt", "INT"),
                   FieldDef(93, "SignatureLength", "LENGTH"), FieldDef(10, "CheckSum", "STRING"),
                   FieldDef(453, "NoPartyIDs", "NUMINGROUP"), FieldDef(448, "PartyID", "STRING"), FieldDef(447, "PartyIDSource", "CHAR"),
                   FieldDef(802, "NoPartySubIDs", "NUMINGROUP"), FieldDef(523, "PartySubID", "STRING"), FieldDef(803, "PartySubIDType", "INT")>>]>>

MCDefinitions == Parse(FixFile, "4.4")
MCDictionary == Generated("4.4", MCDefinitions)

\* What the file means, by hand.
Accounts == Group(802, <<Field(523, FixString), Field(803, FixInt)>>)
PartyGroup == Group(453, <<Field(448, FixString), Field(447, FixString), Accounts>>)
MCSpecified ==
    [header |-> <<Mandatory(Field(8, FixString)), Mandatory(Field(9, FixInt)), Mandatory(Field(35, FixString)),
                  Field(34, FixInt), Field(43, FixBool)>>,
     trailer |-> <<Field(93, FixInt), Mandatory(Field(10, FixString))>>,
     bodies |-> [t \in {<<68>>, <<65>>, <<48>>, <<53>>} |->
                    CASE t = <<68>> -> <<Mandatory(Field(11, FixString)), PartyGroup,
                                         Field(58, FixString), Field(54, FixString)>>
                      [] t = <<65>> -> <<Field(108, FixInt)>>
                      [] OTHER      -> <<>>]]

F(tag, value) == [tag |-> tag, value |-> value]
Fix(type, body, trailer) == [type |-> type, segments |-> <<<<F(34, <<7>>)>>, body, trailer>>]
Order(body) == Fix(<<68>>, <<F(11, T(1))>> \o body, <<>>)
Parties(groups) == F(453, groups)
Party(n) == <<F(448, T(n)), F(447, T(1))>>
PartyId == <<F(448, T(1))>>
PartySource == <<F(447, T(2))>>

FixEdges ==
    {Order(<<>>), Fix(<<68>>, <<F(58, T(1))>>, <<>>),       \* without its id
     Order(<<F(58, <<97, EQ, 98>>), F(54, <<>>)>>),         \* out of order, and empty
     Order(<<F(58, <<97, SOH, 98>>)>>),                     \* a text with the separator
     Order(<<F(99, T(1)), F(58, T(1))>>),                   \* a tag that is not defined
     Order(<<Parties(<<>>)>>),
     Order(<<Parties(<<Party(1), Party(2), PartyId>>), F(58, T(1))>>),
     Order(<<Parties(<<PartyId, PartySource>>)>>),                    \* two instances that read as one
     Order(<<Parties(<<PartySource \o PartyId>>)>>),                  \* an instance out of order
     Order(<<Parties(<<Party(1), <<>>>>)>>),                \* an empty instance at the end
     Order(<<Parties(<<Party(1), <<>>>>), F(54, T(1))>>),   \* ... and not at the end
     Order(<<Parties(<<<<>>, PartyId>>)>>),
     Order(<<Parties(<<PartyId \o <<F(802, <<<<F(523, T(1))>>>>)>>, PartyId>>), F(54, T(1))>>),
     Order(<<F(58, <<200>>)>>),                             \* a text that is not ASCII
     Fix(<<65>>, <<F(108, <<-30>>)>>, <<F(93, <<1>>)>>),
     Fix(<<65>>, <<F(108, TrueValue)>>, <<>>),              \* a bool where an int is due
     Fix(<<65>>, <<>>, <<F(10, <<48, 48, 48>>)>>),          \* sent with a checksum
     [type |-> <<65>>, segments |-> <<<<F(34, <<7>>), F(43, TrueValue)>>, <<F(108, <<0>>)>>, <<>>>>],
     [type |-> <<65>>, segments |-> <<<<F(43, FalseValue)>>, <<>>, <<>>>>],
     [type |-> <<65>>, segments |-> <<<<F(35, <<65>>), F(34, <<7>>)>>, <<F(108, <<3>>)>>, <<>>>>]}

FixScripts ==
    {<<Fix(<<48>>, <<>>, <<>>), Order(<<>>)>>, <<Order(<<>>), Fix(<<53>>, <<>>, <<>>), Order(<<>>)>>}

-----------------------------------------------------------------------------
(* ITCH, OUCH, SQF *)

XmlPlain(type) == <<"field", "plain", type, 0, "", "">>
XmlArray(kind, type, length) == <<"field", kind, type, 0, "single", length>>
XmlMessage(indicator, direction, fields) ==
    [indicator |-> indicator, group |-> "", direction |-> direction, fields |-> fields]

\* A file of definitions, whose last message comes in the place of the first.
AppFile ==
    <<[tag |-> "enums-root", items |-> <<[name |-> "Side", type |-> "char_ascii"]>>],
      [tag |-> "fielddef-root",
       items |-> <<[name |-> "orderId", field |-> XmlPlain("uint_8")],
                   [name |-> "code", field |-> <<"field", "plain", "str_ascii_n", 4, "", "">>]>>],
      [tag |-> "records-root",
       items |-> <<[name |-> "Level", fields |-> <<XmlPlain("int_4_be"), XmlPlain("uint_4")>>]>>],
      [tag |-> "messages-root",
       items |-> <<XmlMessage(83, "outgoing", <<XmlPlain("byte")>>),
                   XmlMessage(79, "incoming", <<<<"def", "orderId">>, XmlPlain("uint_8_be")>>),
                   XmlMessage(83, "outgoing",
                      <<XmlPlain("int_4"), XmlPlain("uint_4_be"), XmlPlain("int_2"), XmlPlain("int_2_be"),
                        <<"def", "code">>, <<"field", "enum", "Side", 0, "", "">>,
                        XmlArray("record", "Level", "byte")>>)>>]>>

\* Classes that are written by hand; only such have a present bit.
Leg == RecordWithPresentBit(<<UnsignedShortBE, Boolean>>)
Owner == RecordWithPresentBit(<<Text, LongBE, Long>>)
HandWritten == <<65, "outgoing">> :> <<Array(Leg, Short), Owner, Array(UnsignedShort, Byte), Fixed(3, TRUE)>>

MCFieldValue == Any
MCLayouts == LayoutsOf(ParseFile(AppFile, TRUE)) @@ HandWritten
MCSpecifiedLayouts ==
    HandWritten
      @@ <<79, "incoming">> :> <<UnsignedLong, UnsignedLongBE>>
      @@ <<83, "outgoing">> :> <<Int4, UnsignedIntBE, Short, ShortBE, Fixed(4, FALSE), Char,
                                 Array(Record(<<IntBE, UnsignedInt>>), Byte)>>

Message(indicator, direction, values) == [id |-> <<indicator, direction>>, values |-> values]
System(short, fixed, char, levels) ==
    Message(83, "outgoing", <<<<-70000>>, <<70000>>, <<short>>, <<-2>>, fixed, char, levels>>)
Level == <<<<-1>>, <<65536>>>>
Book(legs, owner, list, last) == Message(65, "outgoing", <<legs, owner, list, last>>)

AppEdges ==
    {System(-32768, T(4), T(1), <<Level>>), System(32767, T(1), T(1), <<>>),
     System(32768, T(1), T(1), <<>>),                       \* does not fit
     System(1, T(5), T(1), <<>>),                           \* a fixed text too long
     System(1, <<32>> \o T(1), T(1), <<>>),                 \* ... and one that is trimmed
     System(1, T(2), T(2), <<Level, Level>>), System(1, T(2), <<>>, <<>>),
     Book(<<>>, <<>>, <<>>, <<>>), Book(<<>>, <<>>, <<>>, T(4)),
     Book(<<<<<<65535>>, <<1>>>>, <<<<258>>, <<0>>>>>>, <<T(3), <<-3>>, <<1000>>>>, <<<<258>>>>, T(2)),
     Book(<<<<<<1>>, <<0>>>>>>, <<<<>>, <<300>>, <<-300>>>>, <<<<0>>, <<65535>>>>, T(1)),
     Message(79, "incoming", <<<<1>>, <<2>>>>)}

-----------------------------------------------------------------------------

FeedsOf(proto, scripts, chunks) ==
    {Feed(proto, s, chunks) : s \in {t \in scripts : \A i \in DOMAIN t : Sendable(proto, t[i])}}
Alone(messages) == {<<m>> : m \in messages}

MCBatches ==
    {<<"soup", Alone(SoupEdges), {5, 20}>>, <<"soup", SoupScripts, {1, 3}>>,
     <<"soup", LongScripts, {100, 157}>>, <<"soup", HugeScripts, {40000}>>,
     <<"fix", Alone(FixEdges), {8, 25}>>, <<"fix", FixScripts, {20, 45}>>,
     <<"app", Alone(AppEdges), {4, 9}>>}
MCFeeds == UNION {FeedsOf(b[1], b[2], b[3]) : b \in MCBatches}

\* What the proofs of FramesMatch suppose of the feeds, and of deserialize(),
\* here tried at each byte of the feeds that are not huge.
ASSUME FeedsAssumption ==
    \A f \in MCFeeds :
        /\ OutcomesOfFrames(f)
        /\ IF f.proto = "fix" THEN FixFramed(f.bytes, f.ends) ELSE SoupFramed(f.bytes, f.ends)
        /\ Len(f.bytes) < 1000 => TakesWholeFrames(f)

\* What the proof of the FIX round trip supposes of a dictionary, as far as it can
\* be evaluated: classes that can be told apart, and generated ones that have the
\* entries which the file means.
Shape(class) == [i \in DOMAIN class |-> <<class[i].tag, class[i].required, class[i].inner>>]
ASSUME DictionaryAssumption ==
    \A t \in DOMAIN MCDictionary.bodies :
        LET generated == Classes(MCDictionary, t)
        IN  /\ Apart(generated) /\ \A i \in 1..3 : Unambiguous(generated[i])
            /\ \A i \in 1..3 : Shape(generated[i]) = Shape(Classes(MCSpecified, t)[i])

=============================================================================
