------------------------- MODULE WireProofs ------------------------------
(***************************************************************************)
(* Proofs about the codecs in their frames.  For any FIX dictionary whose  *)
(* groups are nested to any depth, each field and each group reads what it *)
(* wrote, up to what comes behind it; segments and instances read their    *)
(* fields one by one; and a message that fits the format, framed as the    *)
(* session does, comes back from the wire as it was sent, while one with a *)
(* field that no bytes are read as does not.  With what CodecProofs has of *)
(* the other protocols, and the readers of ReaderFramingProofs, this is    *)
(* RoundTrip of Wire.                                                      *)
(***************************************************************************)
EXTENDS Wire, ReaderFramingProofs

-----------------------------------------------------------------------------
(* Numbers in FIX texts *)

\* A number is written in digits, which are read as that number.
LEMMA DecimalInteger ==
    ASSUME NEW n \in Nat
    PROVE  LET s == Decimal(n)
           IN  /\ s \in Octets /\ s # <<>> /\ IsInteger(s) /\ Integer(s) = n
               /\ IsNumber(s) /\ Number(s) = n /\ \A i \in 1..Len(s) : s[i] \in 48..57
<1>. DEFINE s == Decimal(n)
<1>1. s \in Seq(48..57) /\ s # <<>> /\ Number(s) = n /\ s \in Octets
  BY DecimalReads, DecimalType DEF Writes, Octets
<1>. HIDE DEF s
<1>2. IsNumber(s) /\ 1 \in DOMAIN s /\ s[1] \in 48..57 /\ \A i \in 1..Len(s) : s[i] \in 48..57
  BY <1>1 DEF IsNumber
<1>3. s[1] # MINUS
  BY <1>2 DEF MINUS
<1>4. IsInteger(s) /\ Integer(s) = n
  BY <1>1, <1>2, <1>3 DEF IsInteger, Integer
<1>. QED BY <1>1, <1>2, <1>4 DEF s

\* The text of an int has no separator and is read as that int.
LEMMA SignedInteger ==
    ASSUME NEW v \in Int
    PROVE  LET s == Signed(v)
           IN  s \in Octets /\ IsInteger(s) /\ Integer(s) = v /\ \A i \in 1..Len(s) : s[i] # SOH
<1>1. CASE v >= 0
  <2>1. v \in Nat /\ Signed(v) = Decimal(v)
    BY <1>1 DEF Signed
  <2>2. \A x \in 48..57 : x # SOH
    BY DEF SOH
  <2>. QED BY <2>1, <2>2, DecimalInteger
<1>2. CASE v < 0
  <2>. DEFINE d == Decimal(-v)
              s == <<MINUS>> \o d
  <2>1. -v \in Nat /\ Signed(v) = s
    BY <1>2 DEF Signed
  <2>2. d \in Octets /\ IsNumber(d) /\ Number(d) = -v /\ \A i \in 1..Len(d) : d[i] \in 48..57
    BY <2>1, DecimalInteger
  <2>. HIDE DEF d
  <2>3. <<MINUS>> \in Octets /\ Len(<<MINUS>>) = 1 /\ <<MINUS>>[1] = MINUS
    BY OneByte DEF MINUS, Octet, Octets
  <2>4. /\ s \in Octets /\ Len(s) = 1 + Len(d) /\ Len(d) \in Nat /\ s[1] = MINUS
        /\ \A i \in 1..Len(d) : s[1 + i] = d[i]
    BY <2>2, <2>3, Joined DEF Octets
  <2>5. Tail(s) = d
    <3>1. Tail(s) = SubSeq(s, 2, Len(s))
      BY <2>2, <2>4 DEF Octets
    <3>2. From(s, 1) = d
      BY <2>2, <2>3, OctetsConcat
    <3>. QED BY <3>1, <3>2 DEF From
  <2>6. s # <<>>
    BY <2>4
  <2>. HIDE DEF s
  <2>7. IsInteger(s) /\ Integer(s) = v
    <3>1. IsNumber(Tail(s)) /\ Number(Tail(s)) = -v
      BY <2>2, <2>5
    <3>2. IsInteger(s) /\ Integer(s) = -Number(Tail(s))
      BY <2>4, <2>6, <3>1 DEF IsInteger, Integer
    <3>3. -(-v) = v
      OBVIOUS
    <3>. QED BY <3>1, <3>2, <3>3
  <2>8. \A i \in 1..Len(s) : s[i] # SOH
    <3>. SUFFICES ASSUME NEW i \in 1..Len(s) PROVE s[i] # SOH
      OBVIOUS
    <3>1. CASE i = 1
      BY <2>4, <3>1 DEF MINUS, SOH
    <3>2. CASE i # 1
      <4>1. i - 1 \in 1..Len(d) /\ s[1 + (i - 1)] = d[i - 1] /\ 1 + (i - 1) = i
        BY <2>4, <3>2
      <4>. QED BY <2>2, <4>1 DEF SOH
    <3>. QED BY <3>1, <3>2
  <2>. QED BY <2>1, <2>4, <2>7, <2>8
<1>. QED BY <1>1, <1>2

-----------------------------------------------------------------------------
(* The first field of some bytes *)

\* Bytes that begin with a field of the tag, and those that do with one of a
\* tag that is none of some.
Tagged(bytes, tag) == \E w \in Octets : bytes = TagValue(tag, w)
Behind(tags) == {b \in Octets : \E tag \in Nat \ tags : Tagged(b, tag)}

\* The tag of a field is found in front of its first "=".
LEMMA TagFound ==
    ASSUME NEW tag \in Nat, NEW w \in Octets
    PROVE  LET b == TagValue(tag, w)
           IN  /\ b \in Octets /\ b # <<>>
               /\ Find(b, EQ, 1) = Len(Decimal(tag)) + 1 /\ EQ \in Range(b)
               /\ TagText(b) = Decimal(tag) /\ IsInteger(TagText(b)) /\ Integer(TagText(b)) = tag
<1>. DEFINE t == Decimal(tag)
            b == TagValue(tag, w)
<1>1. /\ b \in Octets /\ Len(b) = Len(t) + 1 + Len(w) /\ t \in Octets /\ Len(t) \in Nat
      /\ \A i \in 1..Len(t) : b[i] = t[i]
      /\ b[Len(t) + 1] = EQ
  BY TagValueIs DEF Octets
<1>2. Len(w) \in Nat /\ Len(b) \in Nat
  BY <1>1 DEF Octets
<1>3. /\ t # <<>> /\ IsInteger(t) /\ Integer(t) = tag
      /\ \A i \in 1..Len(t) : t[i] \in 48..57
  BY DecimalInteger
<1>4. b = (t \o <<EQ>>) \o w
  BY DEF TagValue
<1>. HIDE DEF b, t
<1>5. Len(t) + 1 \in 1..Len(b)
  BY <1>1, <1>2
<1>6. \A i \in 1..((Len(t) + 1) - 1) : b[i] # EQ
  BY <1>1, <1>3 DEF EQ
<1>7. Find(b, EQ, 1) = Len(t) + 1
  BY <1>1, <1>2, <1>5, <1>6, FindAt
<1>8. EQ \in Range(b)
  BY <1>1, <1>5 DEF Range, Octets
<1>9. b # <<>>
  BY <1>2, <1>5
<1>10. TagText(b) = t
  <2>1. <<EQ>> \in Octets
    BY Separators, OneByte DEF Octets
  <2>2. b = t \o (<<EQ>> \o w) /\ <<EQ>> \o w \in Octets
    <3>1. (t \o <<EQ>>) \o w = t \o (<<EQ>> \o w)
      BY <1>1, <2>1, OctetsAssociative
    <3>2. <<EQ>> \o w \in Octets
      BY <2>1, OctetsConcat
    <3>. QED BY <1>4, <3>1, <3>2
  <2>3. Prefix(b, Len(t)) = t
    BY <1>1, <2>2, OctetsConcat
  <2>4. Len(t) < Len(b)
    BY <1>1, <1>2
  <2>5. SubSeq(b, 1, Len(t)) = t
    BY <2>3, <2>4 DEF Prefix
  <2>6. Len(t) + 1 # 0 /\ (Len(t) + 1) - 1 = Len(t)
    BY <1>1
  <2>. QED BY <1>7, <2>5, <2>6 DEF TagText
<1>. QED BY <1>1, <1>3, <1>7, <1>8, <1>9, <1>10 DEF b, t

\* The value of a field that ends with the separator.
LEMMA ValueFound ==
    ASSUME NEW tag \in Nat, NEW text \in Octets, \A i \in 1..Len(text) : text[i] # SOH,
           NEW rest \in Octets
    PROVE  LET b == (TagValue(tag, text) \o <<SOH>>) \o rest
           IN  /\ b \in Octets /\ Tagged(b, tag)
               /\ ValueOf(b) = [text |-> text, rest |-> rest]
<1>. DEFINE t == Decimal(tag)
            f == TagValue(tag, text)
            w == (text \o <<SOH>>) \o rest
            b == (f \o <<SOH>>) \o rest
<1>0. <<SOH>> \in Octets /\ <<EQ>> \in Octets /\ Len(<<SOH>>) = 1 /\ <<SOH>>[1] = SOH
  BY Separators, OneByte DEF Octets
<1>1. /\ f \in Octets /\ Len(f) = Len(t) + 1 + Len(text) /\ t \in Octets /\ Len(t) \in Nat
      /\ \A i \in 1..Len(t) : f[i] = t[i]
      /\ f[Len(t) + 1] = EQ
      /\ \A i \in 1..Len(text) : f[Len(t) + 1 + i] = text[i]
  BY TagValueIs DEF Octets
<1>2. Len(text) \in Nat /\ Len(rest) \in Nat /\ text \o <<SOH>> \in Octets /\ w \in Octets
  BY <1>0, OctetsConcat
<1>3. b = TagValue(tag, w)
  <2>. DEFINE h == t \o <<EQ>>
  <2>1. f = h \o text /\ TagValue(tag, w) = h \o w /\ h \in Octets
    BY <1>0, <1>1, OctetsConcat DEF TagValue
  <2>. HIDE DEF h
  <2>2. (h \o text) \o <<SOH>> = h \o (text \o <<SOH>>)
    BY <1>0, <2>1, OctetsAssociative
  <2>3. (h \o (text \o <<SOH>>)) \o rest = h \o ((text \o <<SOH>>) \o rest)
    BY <1>2, <2>1, OctetsAssociative
  <2>. QED BY <2>1, <2>2, <2>3
<1>4. b \in Octets /\ Find(b, EQ, 1) = Len(t) + 1
  BY <1>2, <1>3, TagFound
<1>5. \A i \in 1..Len(t) : t[i] \in 48..57
  BY DecimalInteger
<1>. HIDE DEF w, t
<1>. DEFINE g == f \o <<SOH>>
            end == Len(f) + 1
<1>6. /\ g \in Octets /\ Len(g) = end /\ end \in Nat /\ g[end] = SOH
      /\ \A i \in 1..Len(f) : g[i] = f[i]
  <2>. HIDE DEF f
  <2>1. f \in Seq(Octet) /\ <<SOH>> \in Seq(Octet) /\ Len(f) \in Nat
    BY <1>0, <1>1, <1>2 DEF Octets
  <2>2. /\ g \in Seq(Octet) /\ Len(g) = Len(f) + Len(<<SOH>>)
        /\ \A i \in 1..Len(f) : g[i] = f[i]
        /\ \A i \in 1..Len(<<SOH>>) : g[Len(f) + i] = <<SOH>>[i]
    BY <2>1, Joined
  <2>3. 1 \in 1..Len(<<SOH>>)
    BY <1>0
  <2>. HIDE DEF g
  <2>. QED BY <1>0, <2>1, <2>2, <2>3 DEF Octets
<1>7. \A i \in 1..Len(f) : f[i] # SOH
  <2>. SUFFICES ASSUME NEW i \in 1..Len(f) PROVE f[i] # SOH
    OBVIOUS
  <2>1. CASE i \in 1..Len(t)
    BY <1>1, <1>5, <2>1 DEF SOH
  <2>2. CASE i = Len(t) + 1
    BY <1>1, <2>2 DEF SOH, EQ
  <2>3. CASE i > Len(t) + 1
    <3>1. i - (Len(t) + 1) \in 1..Len(text) /\ Len(t) + 1 + (i - (Len(t) + 1)) = i
      BY <1>1, <1>2, <2>3
    <3>. QED BY <1>1, <3>1
  <2>. QED BY <1>1, <2>1, <2>2, <2>3
<1>8. b = g \o rest
  OBVIOUS
<1>. HIDE DEF f, g, b
<1>9. /\ Len(b) = end + Len(rest)
      /\ \A i \in 1..end : b[i] = g[i]
  <2>1. g \in Seq(Octet) /\ rest \in Seq(Octet)
    BY <1>6 DEF Octets
  <2>2. /\ Len(g \o rest) = Len(g) + Len(rest)
        /\ \A i \in 1..Len(g) : (g \o rest)[i] = g[i]
    BY <2>1, Joined
  <2>. HIDE DEF end
  <2>. QED BY <1>6, <1>8, <2>2
<1>10. Find(b, SOH, 1) = end
  <2>1. end \in 1..Len(b) /\ Len(b) \in Nat /\ 1 \in Nat
    BY <1>1, <1>2, <1>6, <1>9
  <2>2. b[end] = SOH
    BY <1>6, <1>9, <2>1
  <2>3. \A i \in 1..(end - 1) : b[i] # SOH
    BY <1>1, <1>2, <1>6, <1>7, <1>9
  <2>. QED BY <2>1, <2>2, <2>3, FindAt
<1>11. From(b, end) = rest
  BY <1>6, <1>8, OctetsConcat
<1>12. SubSeq(b, (Len(t) + 1) + 1, end - 1) = text
  <2>1. /\ (Len(t) + 1) + 1 \in Nat /\ end - 1 = Len(f) /\ Len(f) \in Nat
        /\ (end - 1) - ((Len(t) + 1) + 1) + 1 = Len(text) /\ Len(f) <= Len(b)
    BY <1>1, <1>2, <1>9
  <2>. DEFINE from == (Len(t) + 1) + 1
              s == SubSeq(b, from, end - 1)
  <2>2. /\ s \in Seq(Octet)
        /\ Len(s) = IF from <= Len(f) THEN Len(f) - from + 1 ELSE 0
        /\ \A i \in 1..(Len(f) - from + 1) : s[i] = b[from + i - 1]
    <3>1. \A i \in from..Len(f) : b[i] \in Octet
      <4>1. \A i \in from..Len(f) : i \in 1..Len(b)
        BY <1>1, <1>2, <2>1
      <4>2. \A i \in 1..Len(b) : b[i] \in Octet
        BY <1>4 DEF Octets
      <4>. QED BY <4>1, <4>2
    <3>. QED BY <2>1, <3>1, SubSeqProperties
  <2>3. Len(s) = Len(text)
    BY <1>1, <1>2, <2>1, <2>2
  <2>4. \A i \in 1..Len(text) : s[i] = text[i]
    <3>. SUFFICES ASSUME NEW i \in 1..Len(text) PROVE s[i] = text[i]
      OBVIOUS
    <3>1. i \in 1..(Len(f) - from + 1) /\ from + i - 1 = Len(t) + 1 + i /\ Len(t) + 1 + i \in 1..Len(f)
      BY <1>1, <1>2
    <3>2. s[i] = b[Len(t) + 1 + i] /\ b[Len(t) + 1 + i] = f[Len(t) + 1 + i]
      <4>1. Len(t) + 1 + i \in 1..end
        BY <1>1, <1>6, <3>1
      <4>. HIDE DEF s, from
      <4>. QED BY <1>6, <1>9, <2>2, <3>1, <4>1
    <3>. QED BY <1>1, <3>2
  <2>. HIDE DEF s
  <2>5. s = text
    BY <2>2, <2>3, <2>4 DEF Octets
  <2>. QED BY <2>5 DEF s
<1>13. end # 0
  BY <1>1, <1>2
<1>14. ValueOf(b) = [text |-> text, rest |-> rest]
  <2>. HIDE DEF end
  <2>. QED BY <1>4, <1>10, <1>11, <1>12, <1>13 DEF ValueOf
<1>15. Tagged(b, tag)
  BY <1>2, <1>3 DEF Tagged
<1>. QED BY <1>4, <1>14, <1>15 DEF b, f

-----------------------------------------------------------------------------
(* The types of fields *)

\* What a value that comes back is written as has no separator and is read as
\* the value.
IsType(type) ==
    /\ type.exact \subseteq FieldValue
    /\ \A v \in type.exact :
         LET text == type.write[v]
         IN  /\ text \in Octets /\ \A i \in 1..Len(text) : text[i] # SOH
             /\ type.read[text] = Parsed(v, <<>>)

\* Each of the types of fields is one.
LEMMA TypesRead ==
    ASSUME NEW type \in {FixBool, FixInt, FixString}
    PROVE  IsType(type)
<1>1. CASE type = FixBool
  <2>1. /\ FixBool.exact \subseteq FieldValue
        /\ \A v \in FixBool.exact : v \in FieldValue /\ v \in {TrueValue, FalseValue}
    BY DEF FixBool
  <2>2. <<89>> \in Octets /\ <<78>> \in Octets /\ <<78>> # <<89>> /\ TrueValue # FalseValue
    BY OneByte DEF Octets, Octet, TrueValue, FalseValue
  <2>3. \A x \in {<<89>>, <<78>>} : \A i \in 1..Len(x) : x[i] # SOH
    BY DEF SOH
  <2>4. ASSUME NEW v \in FixBool.exact
        PROVE  /\ FixBool.write[v] = IF v = TrueValue THEN <<89>> ELSE <<78>>
               /\ FixBool.read[FixBool.write[v]] = Parsed(v, <<>>)
    <3>1. FixBool.write[v] = IF v = TrueValue THEN <<89>> ELSE <<78>>
      BY <2>1 DEF FixBool
    <3>2. \A x \in Octets : FixBool.read[x] = Parsed(IF x = <<89>> THEN TrueValue ELSE FalseValue, <<>>)
      BY DEF FixBool
    <3>. QED BY <2>1, <2>2, <3>1, <3>2
  <2>. QED BY <1>1, <2>1, <2>2, <2>3, <2>4 DEF IsType
<1>2. CASE type = FixInt
  <2>1. /\ FixInt.exact \subseteq FieldValue
        /\ \A v \in FixInt.exact : v \in FieldValue /\ v \in Seq(Int) /\ Len(v) = 1
    BY DEF FixInt
  <2>2. ASSUME NEW v \in FixInt.exact
        PROVE  LET text == FixInt.write[v]
               IN  /\ text \in Octets /\ \A i \in 1..Len(text) : text[i] # SOH
                   /\ FixInt.read[text] = Parsed(v, <<>>)
    <3>1. v[1] \in Int /\ v = <<v[1]>>
      BY <2>1, Single
    <3>2. FixInt.write[v] = Signed(v[1])
      BY <2>1 DEF FixInt
    <3>3. \A x \in Octets : FixInt.read[x] = IF IsInteger(x) THEN Parsed(<<Integer(x)>>, <<>>) ELSE ParseError
      BY DEF FixInt
    <3>4. /\ Signed(v[1]) \in Octets /\ IsInteger(Signed(v[1])) /\ Integer(Signed(v[1])) = v[1]
          /\ \A i \in 1..Len(Signed(v[1])) : Signed(v[1])[i] # SOH
      BY <3>1, SignedInteger
    <3>. QED BY <3>1, <3>2, <3>3, <3>4
  <2>. QED BY <1>2, <2>1, <2>2 DEF IsType
<1>3. CASE type = FixString
  <2>1. /\ FixString.exact \subseteq FieldValue
        /\ \A v \in FixString.exact : v \in FieldValue /\ v \in Octets /\ Ascii(v) /\ SOH \notin Range(v)
    BY DEF FixString
  <2>2. ASSUME NEW v \in FixString.exact
        PROVE  LET text == FixString.write[v]
               IN  /\ text \in Octets /\ \A i \in 1..Len(text) : text[i] # SOH
                   /\ FixString.read[text] = Parsed(v, <<>>)
    <3>1. FixString.write[v] = v
      BY <2>1 DEF FixString
    <3>2. \A x \in Octets : FixString.read[x] = IF Ascii(x) THEN Parsed(x, <<>>) ELSE ParseError
      BY DEF FixString
    <3>3. \A i \in 1..Len(v) : v[i] # SOH
      BY <2>1 DEF Range, Octets
    <3>. QED BY <2>1, <3>1, <3>2, <3>3
  <2>. QED BY <1>3, <2>1, <2>2 DEF IsType
<1>. QED BY <1>1, <1>2, <1>3

-----------------------------------------------------------------------------
(* Entries *)

\* A field or a group reads what it wrote, to which the separator is added
\* where it is not there, when behind it comes a field that none of its
\* instances knows.  A value that comes back anywhere ends with something else.
IsEntry(e) ==
    /\ e.tag \in Nat
    /\ e.exact[FALSE] \subseteq e.exact[TRUE] /\ e.exact[TRUE] \subseteq FieldValue
    /\ \A v \in e.exact[TRUE] : Tagged(e.write[v], e.tag)
    /\ \A v \in e.exact[FALSE] : Last(e.write[v]) # SOH
    /\ \A v \in e.exact[TRUE] : \A rest \in Behind(e.inner) :
         e.read[Ended(e.write[v]) \o rest] = Parsed(v, rest)

\* Such bytes have a tag to be found.
LEMMA TaggedIs ==
    ASSUME NEW b, NEW tag \in Nat, Tagged(b, tag)
    PROVE  /\ b \in Octets /\ b # <<>> /\ EQ \in Range(b)
           /\ IsInteger(TagText(b)) /\ Integer(TagText(b)) = tag
BY TagFound DEF Tagged

\* More bytes behind a field leave its tag as it is.
LEMMA TaggedMore ==
    ASSUME NEW b, NEW tag \in Nat, Tagged(b, tag), NEW rest \in Octets
    PROVE  Tagged(b \o rest, tag)
<1>1. PICK w \in Octets : b = TagValue(tag, w)
  BY DEF Tagged
<1>. DEFINE h == Decimal(tag) \o <<EQ>>
<1>2. h \in Octets /\ b = h \o w /\ TagValue(tag, w \o rest) = h \o (w \o rest)
  BY <1>1, DecimalInteger, Separators, OneByte, OctetsConcat DEF TagValue, Octets
<1>. HIDE DEF h
<1>3. b \o rest = h \o (w \o rest) /\ w \o rest \in Octets
  BY <1>2, OctetsAssociative, OctetsConcat
<1>. QED BY <1>2, <1>3 DEF Tagged

\* One byte more.
LEMMA AppendOctet ==
    ASSUME NEW s \in Octets, NEW b \in Octet
    PROVE  /\ Append(s, b) = s \o <<b>> /\ Append(s, b) \in Octets /\ Append(s, b) # <<>>
           /\ Last(Append(s, b)) = b /\ Last(s \o <<b>>) = b
<1>1. Append(s, b) = s \o <<b>>
  BY AppendIsConcat DEF Octets
<1>2. Append(s, b) \in Seq(Octet) /\ Len(Append(s, b)) = Len(s) + 1 /\ Append(s, b)[Len(s) + 1] = b
  BY AppendProperties DEF Octets
<1>. QED BY <1>1, <1>2 DEF Last, Octets

\* Ended of some bytes is those bytes, or the bytes and the separator.
LEMMA EndedIs ==
    ASSUME NEW s \in Octets
    PROVE  /\ Ended(s) \in Octets
           /\ s # <<>> /\ Last(s) = SOH => Ended(s) = s
           /\ s = <<>> \/ Last(s) # SOH => Ended(s) = s \o <<SOH>>
BY AppendOctet, Separators DEF Ended

\* ... as does the separator.
LEMMA EndedTagged ==
    ASSUME NEW b, NEW tag \in Nat, Tagged(b, tag), NEW rest \in Octets
    PROVE  Ended(b) \in Octets /\ Tagged(Ended(b) \o rest, tag)
<1>1. b \in Octets
  BY TaggedIs
<1>2. Ended(b) \in Octets /\ Ended(b) \in {b, b \o <<SOH>>}
  BY <1>1, EndedIs
<1>3. Tagged(b \o <<SOH>>, tag)
  BY TaggedMore, Separators, OneByte DEF Octets
<1>4. Tagged(Ended(b), tag)
  BY <1>2, <1>3
<1>. QED BY <1>2, <1>4, TaggedMore

\* Bytes behind an entry are bytes, and there are some.
LEMMA BehindIsOctets ==
    ASSUME NEW tags, NEW rest \in Behind(tags)
    PROVE  rest \in Octets /\ rest # <<>>
BY TaggedIs DEF Behind

\* What is written for a field does not end with the separator.
LEMMA TextField ==
    ASSUME NEW tag \in Nat, NEW text \in Octets, \A i \in 1..Len(text) : text[i] # SOH
    PROVE  LET w == TagValue(tag, text)
           IN  /\ w \in Octets /\ w # <<>> /\ Tagged(w, tag)
               /\ Last(w) # SOH /\ Ended(w) = w \o <<SOH>>
<1>. DEFINE w == TagValue(tag, text)
            t == Decimal(tag)
<1>1. Tagged(w, tag) /\ w \in Octets /\ w # <<>>
  BY TagFound DEF Tagged
<1>2. /\ Len(w) = Len(t) + 1 + Len(text) /\ Len(t) \in Nat
      /\ w[Len(t) + 1] = EQ
      /\ \A i \in 1..Len(text) : w[Len(t) + 1 + i] = text[i]
  BY TagValueIs DEF Octets
<1>3. Len(text) \in Nat
  BY DEF Octets
<1>. HIDE DEF t, w
<1>4. w[Len(w)] # SOH
  <2>1. CASE Len(text) = 0
    BY <1>2, <2>1 DEF EQ, SOH
  <2>2. CASE Len(text) # 0
    <3>1. Len(text) \in 1..Len(text)
      BY <1>3, <2>2
    <3>. QED BY <1>2, <3>1
  <2>. QED BY <2>1, <2>2
<1>5. Last(w) # SOH
  BY <1>4 DEF Last
<1>6. Ended(w) = w \o <<SOH>>
  BY <1>1, <1>5, EndedIs
<1>. QED BY <1>1, <1>5, <1>6 DEF w

\* A field comes back whatever follows it.
LEMMA FieldReads ==
    ASSUME NEW tag \in Nat, NEW type, IsType(type), NEW v \in type.exact, NEW rest \in Octets
    PROVE  LET e == Field(tag, type)
               w == e.write[v]
           IN  /\ w = TagValue(tag, type.write[v]) /\ w \in Octets /\ w # <<>>
               /\ Tagged(w, tag) /\ Last(w) # SOH /\ Ended(w) = w \o <<SOH>>
               /\ e.read[Ended(w) \o rest] = Parsed(v, rest)
<1>. DEFINE e == Field(tag, type)
            w == e.write[v]
            text == type.write[v]
            b == (w \o <<SOH>>) \o rest
<1>1. /\ v \in FieldValue /\ text \in Octets /\ \A i \in 1..Len(text) : text[i] # SOH
      /\ type.read[text] = Parsed(v, <<>>)
  BY DEF IsType
<1>2. w = TagValue(tag, text)
  BY <1>1 DEF Field
<1>3. e.read = [x \in Octets |-> LET r == type.read[ValueOf(x).text]
                                 IN  IF r.ok THEN Parsed(r.value, ValueOf(x).rest) ELSE ParseError]
  BY DEF Field
<1>. HIDE DEF e, w, text
<1>4. /\ Tagged(w, tag) /\ w \in Octets /\ w # <<>>
      /\ Last(w) # SOH /\ Ended(w) = w \o <<SOH>>
  BY <1>1, <1>2, TextField
<1>7. b \in Octets /\ ValueOf(b) = [text |-> text, rest |-> rest]
  BY <1>1, <1>2, ValueFound
<1>. HIDE DEF b
<1>8. type.read[text].ok /\ type.read[text].value = v
  BY <1>1 DEF Parsed
<1>9. e.read[b] = Parsed(v, rest)
  BY <1>3, <1>7, <1>8
<1>10. e.read[Ended(w) \o rest] = Parsed(v, rest)
  BY <1>4, <1>9 DEF b
<1>11. w = TagValue(tag, type.write[v])
  BY <1>2 DEF text
<1>. QED BY <1>4, <1>10, <1>11 DEF e, w

\* A field of a type is an entry.
LEMMA FieldIsEntry ==
    ASSUME NEW tag \in Nat, NEW type, IsType(type)
    PROVE  IsEntry(Field(tag, type))
<1>. DEFINE e == Field(tag, type)
<1>1. /\ e.tag = tag /\ e.exact[TRUE] = type.exact /\ e.exact[FALSE] = type.exact
  BY DEF Field
<1>2. type.exact \subseteq FieldValue
  BY DEF IsType
<1>3. <<>> \in Octets
  BY DEF Octets
<1>4. ASSUME NEW v \in type.exact
      PROVE  /\ Tagged(e.write[v], tag) /\ Last(e.write[v]) # SOH
             /\ \A rest \in Octets : e.read[Ended(e.write[v]) \o rest] = Parsed(v, rest)
  BY <1>3, FieldReads
<1>. HIDE DEF e
<1>5. IsEntry(e)
  BY <1>1, <1>2, <1>4, BehindIsOctets DEF IsEntry
<1>. QED BY <1>5 DEF e

\* An entry that is mandatory reads and writes as before.
LEMMA MandatoryIsEntry ==
    ASSUME NEW e, IsEntry(e),
           e = [tag |-> e.tag, required |-> e.required, inner |-> e.inner, write |-> e.write,
                read |-> e.read, exact |-> e.exact]
    PROVE  IsEntry(Mandatory(e))
<1>. DEFINE m == Mandatory(e)
<1>1. m.tag = e.tag /\ m.inner = e.inner /\ m.write = e.write /\ m.read = e.read /\ m.exact = e.exact
  BY DEF Mandatory
<1>. HIDE DEF m
<1>2. IsEntry(m)
  BY <1>1 DEF IsEntry
<1>. QED BY <1>2 DEF m

-----------------------------------------------------------------------------
(* Segments and instances *)

\* What a sequence of fields consists of.
LEMMA FieldsAre ==
    ASSUME NEW fields \in Fields
    PROVE  /\ Len(fields) \in Nat /\ DOMAIN fields = 1..Len(fields)
           /\ \A i \in 1..Len(fields) :
                /\ fields[i] \in [tag : Nat, value : FieldValue]
                /\ fields[i].tag \in Nat /\ fields[i].value \in FieldValue
                /\ fields[i] = [tag |-> fields[i].tag, value |-> fields[i].value]
<1>. DEFINE F == [tag : Nat, value : FieldValue]
<1>1. fields \in Seq(F)
  BY DEF Fields
<1>2. \A f \in F : f.tag \in Nat /\ f.value \in FieldValue /\ f = [tag |-> f.tag, value |-> f.value]
  OBVIOUS
<1>. HIDE DEF F
<1>3. Len(fields) \in Nat /\ DOMAIN fields = 1..Len(fields) /\ \A i \in 1..Len(fields) : fields[i] \in F
  BY <1>1, LenProperties, ElementOfSeq
<1>4. \A i \in 1..Len(fields) :
         /\ fields[i].tag \in Nat /\ fields[i].value \in FieldValue
         /\ fields[i] = [tag |-> fields[i].tag, value |-> fields[i].value]
  BY <1>2, <1>3
<1>. QED BY <1>3, <1>4 DEF F

\* An entry of a tag is one of the class's.
LEMMA EntryIs ==
    ASSUME NEW class, DOMAIN class = 1..Len(class), Len(class) \in Nat, NEW tag \in Indexed(class)
    PROVE  \E i \in 1..Len(class) : EntryOf(class, tag) = class[i] /\ class[i].tag = tag
<1>. DEFINE m == Len(class)
            S == {i \in DOMAIN class : class[i].tag = tag}
            T == {k \in Nat : m - k \in S}
<1>1. PICK i \in 1..m : class[i].tag = tag
  BY DEF Indexed
<1>2. m - i \in T
  BY <1>1
<1>3. PICK x \in T : \A y \in T : x <= y
  BY <1>2, LeastNat
<1>4. m - x \in S /\ S \in SUBSET Int /\ x \in Nat
  BY <1>3
<1>5. ASSUME NEW j \in S PROVE j <= m - x
  <2>1. j \in 1..m /\ m - j \in Nat /\ m - (m - j) = j
    OBVIOUS
  <2>2. m - j \in T
    BY <2>1
  <2>3. x <= m - j
    BY <1>3, <2>2
  <2>. QED BY <1>4, <2>1, <2>3
<1>6. m - x \in 1..m /\ class[m - x].tag = tag
  BY <1>4
<1>. HIDE DEF S
<1>7. Max(S) = m - x
  BY <1>4, <1>5, MaxIs
<1>8. EntryOf(class, tag) = class[m - x]
  BY <1>7 DEF EntryOf, S
<1>. QED BY <1>6, <1>8

\* A class has an entry for each of the fields, whose tags differ.
LEMMA FieldsFit ==
    ASSUME NEW class, DOMAIN class = 1..Len(class), Len(class) \in Nat,
           NEW fields \in Fields,
           \A i \in 1..Len(fields) : fields[i].tag \in Indexed(class),
           \A i, j \in 1..Len(fields) : fields[i].tag = fields[j].tag => i = j
    PROVE  Len(fields) <= Len(class)
<1>. DEFINE n == Len(fields)
            m == Len(class)
            f == [i \in 1..n |-> CHOOSE j \in 1..m : class[j].tag = fields[i].tag]
<1>1. n \in Nat /\ m \in Nat
  BY DEF Fields
<1>2. ASSUME NEW i \in 1..n PROVE f[i] \in 1..m /\ class[f[i]].tag = fields[i].tag
  <2>1. \E j \in 1..m : class[j].tag = fields[i].tag
    BY DEF Indexed
  <2>. QED BY <2>1
<1>. SUFFICES ASSUME m < n PROVE FALSE
  BY <1>1
<1>3. f \in [1..n -> 1..m]
  BY <1>2
<1>. HIDE DEF f
<1>. DEFINE A == 1..n
            B == 1..m
<1>4. ASSUME NEW k \in Nat PROVE IsFiniteSet(1..k) /\ Cardinality(1..k) = k
  <2>1. Cardinality(1..k) = k
    BY FS_Interval
  <2>2. IsFiniteSet(1..k)
    BY FS_Interval
  <2>. QED BY <2>1, <2>2
<1>5. IsFiniteSet(A) /\ IsFiniteSet(B) /\ Cardinality(B) < Cardinality(A)
  BY <1>1, <1>4
<1>. HIDE DEF A, B
<1>6. \E x, y \in A : x # y /\ f[x] = f[y]
  <2>1. f \in [A -> B]
    BY <1>3 DEF A, B
  <2>. QED BY <1>5, <2>1, FS_PigeonHole
<1>. QED BY <1>2, <1>6 DEF A

\* What NextField does with the field in front, and where it stops.
LEMMA NextFieldReads ==
    ASSUME NEW class, NEW done, NEW bytes, NEW f, f = [tag |-> f.tag, value |-> f.value],
           f.tag \in Nat, Tagged(bytes, f.tag), f.tag \in Indexed(class), f.tag \notin Tags(done),
           NEW rest, EntryOf(class, f.tag).read[bytes] = Parsed(f.value, rest)
    PROVE  NextField(class, Parsed(done, bytes)) = Parsed(Append(done, f), rest)
<1>. DEFINE tag == f.tag
            value == f.value
<1>1. /\ bytes # <<>> /\ EQ \in Range(bytes)
      /\ IsInteger(TagText(bytes)) /\ Integer(TagText(bytes)) = tag
  BY TaggedIs
<1>2. ~Repeats(tag, done)
  BY DEF Repeats
<1>3. Parsed(done, bytes).ok = TRUE /\ Parsed(value, rest).ok = TRUE
  BY DEF Parsed
<1>4. Parsed(done, bytes).value = done /\ Parsed(done, bytes).rest = bytes
  BY DEF Parsed
<1>5. Parsed(value, rest).value = value /\ Parsed(value, rest).rest = rest
  BY DEF Parsed
<1>. DEFINE p == Parsed(done, bytes)
            v == Parsed(value, rest)
<1>6. NextField(class, p) =
        LET t == Integer(TagText(p.rest))
            w == EntryOf(class, t).read[p.rest]
        IN  IF ~p.ok \/ p.rest = <<>> THEN p
            ELSE IF ~IsInteger(TagText(p.rest)) THEN ParseError
            ELSE IF Repeats(t, p.value) \/ t \notin Indexed(class) THEN p
            ELSE IF EQ \notin Range(p.rest) \/ ~w.ok THEN ParseError
            ELSE Parsed(Append(p.value, [tag |-> t, value |-> w.value]), w.rest)
  BY DEF NextField
<1>. HIDE DEF p, v
<1>7. p.ok /\ p.rest = bytes /\ p.value = done /\ v.ok /\ v.value = value /\ v.rest = rest
  BY <1>3, <1>4, <1>5 DEF p, v
<1>8. EntryOf(class, tag).read[bytes] = v /\ tag \in Indexed(class)
  BY DEF v
<1>. HIDE DEF tag, value
<1>9. NextField(class, p) = Parsed(Append(done, [tag |-> tag, value |-> value]), rest)
  BY <1>1, <1>2, <1>6, <1>7, <1>8
<1>. QED BY <1>9 DEF p, tag, value

\* Behind the last field is nothing, or a field that is not the segment's.
Stops(class, fields, rest) ==
    rest = <<>> \/ \E tag \in Nat : /\ Tagged(rest, tag)
                                    /\ tag \in Tags(fields) \/ tag \notin Indexed(class)

\* There nothing more is read.
LEMMA NextFieldStops ==
    ASSUME NEW class, NEW fields, NEW rest, Stops(class, fields, rest)
    PROVE  NextField(class, Parsed(fields, rest)) = Parsed(fields, rest)
<1>1. Parsed(fields, rest).value = fields /\ Parsed(fields, rest).rest = rest
  BY DEF Parsed
<1>2. CASE rest = <<>>
  BY <1>1, <1>2 DEF NextField
<1>3. ASSUME NEW tag \in Nat, Tagged(rest, tag), tag \in Tags(fields) \/ tag \notin Indexed(class)
      PROVE  NextField(class, Parsed(fields, rest)) = Parsed(fields, rest)
  <2>1. IsInteger(TagText(rest)) /\ Integer(TagText(rest)) = tag
    BY <1>3, TaggedIs
  <2>. QED BY <1>1, <1>3, <2>1 DEF NextField, Repeats
<1>. QED BY <1>2, <1>3 DEF Stops

\* What comes of the fields with such bytes behind them, and stays.
EndsIn(class, fields, rest, p) == NextField(class, Parsed(fields, rest)) = p /\ NextField(class, p) = p

LEMMA StopsThere ==
    ASSUME NEW class, NEW fields, NEW rest, Stops(class, fields, rest)
    PROVE  EndsIn(class, fields, rest, Parsed(fields, rest))
BY NextFieldStops DEF EndsIn

\* The first k of some fields.
LEMMA FirstFields ==
    ASSUME NEW S, NEW s \in Seq(S)
    PROVE  /\ SubSeq(s, 1, 0) = <<>> /\ SubSeq(s, 1, Len(s)) = s
           /\ \A k \in 1..Len(s) :
                /\ SubSeq(s, 1, k) = Append(SubSeq(s, 1, k - 1), s[k])
                /\ SubSeq(s, 1, k - 1) \in Seq(S) /\ Len(SubSeq(s, 1, k - 1)) = k - 1
                /\ \A i \in 1..(k - 1) : SubSeq(s, 1, k - 1)[i] = s[i]
<1>1. SubSeq(s, 1, 0) = <<>> /\ SubSeq(s, 1, Len(s)) = s
  BY SubSeqEmpty, SubSeqFull
<1>2. ASSUME NEW k \in 1..Len(s)
      PROVE  /\ SubSeq(s, 1, k) = Append(SubSeq(s, 1, k - 1), s[k])
             /\ SubSeq(s, 1, k - 1) \in Seq(S) /\ Len(SubSeq(s, 1, k - 1)) = k - 1
             /\ \A i \in 1..(k - 1) : SubSeq(s, 1, k - 1)[i] = s[i]
  <2>. DEFINE p == SubSeq(s, 1, k - 1)
  <2>1. Len(s) \in Nat /\ k \in Nat /\ k >= 1 /\ 1 \in 1..Len(s) /\ k \in 1..Len(s)
    OBVIOUS
  <2>2. \A i \in 1..(k - 1) : s[i] \in S
    BY <2>1
  <2>3. /\ p \in Seq(S) /\ Len(p) = (IF 1 <= k - 1 THEN (k - 1) - 1 + 1 ELSE 0)
        /\ \A i \in 1..((k - 1) - 1 + 1) : p[i] = s[1 + i - 1]
    BY <2>1, <2>2, SubSeqProperties
  <2>4. SubSeq(s, 1, k) = p \o <<s[k]>>
    BY <2>1, SubSeqRecursiveSecond
  <2>5. s[k] \in S
    OBVIOUS
  <2>. HIDE DEF p
  <2>6. Append(p, s[k]) = p \o <<s[k]>>
    BY <2>3, <2>5, AppendIsConcat
  <2>7. Len(p) = k - 1 /\ \A i \in 1..(k - 1) : p[i] = s[i]
    BY <2>1, <2>3
  <2>. QED BY <2>3, <2>4, <2>6, <2>7 DEF p
<1>. QED BY <1>1, <1>2

\* tails[i] is what is left behind the first i fields, each of which its entry
\* reads.
ReadOneByOne(class, fields, tails) ==
    /\ \A i \in 1..Len(fields) :
          /\ fields[i].tag \in Indexed(class) /\ Tagged(tails[i - 1], fields[i].tag)
          /\ EntryOf(class, fields[i].tag).read[tails[i - 1]] = Parsed(fields[i].value, tails[i])
    /\ \A i, j \in 1..Len(fields) : fields[i].tag = fields[j].tag => i = j

\* So a segment is read field by field.
LEMMA FieldsRead ==
    ASSUME NEW class, DOMAIN class = 1..Len(class), Len(class) \in Nat,
           NEW fields \in Fields, NEW tails, ReadOneByOne(class, fields, tails),
           NEW end, EndsIn(class, fields, tails[Len(fields)], end)
    PROVE  FieldsFromBytes(class, tails[0]) = end
<1>. USE DEF ReadOneByOne
<1>. DEFINE n == Len(fields)
            N == Len(class) + 1
            p == [k \in 0..N |-> IF k <= n THEN Parsed(SubSeq(fields, 1, k), tails[k]) ELSE end]
            at == CHOOSE h : h = [k \in 0..N |->
                      IF k = 0 THEN Parsed(<<>>, tails[0]) ELSE NextField(class, h[k - 1])]
<1>1. n \in Nat /\ N \in Nat /\ n < N
  <2>1. n <= Len(class)
    BY FieldsFit
  <2>2. n \in Nat
    BY FieldsAre
  <2>. QED BY <2>1, <2>2
<1>2. /\ SubSeq(fields, 1, 0) = <<>> /\ SubSeq(fields, 1, n) = fields
      /\ \A k \in 1..n : /\ SubSeq(fields, 1, k) = Append(SubSeq(fields, 1, k - 1), fields[k])
                         /\ SubSeq(fields, 1, k - 1) \in Fields /\ Len(SubSeq(fields, 1, k - 1)) = k - 1
                         /\ \A i \in 1..(k - 1) : SubSeq(fields, 1, k - 1)[i] = fields[i]
  BY FirstFields DEF Fields
<1>3. \A k \in 0..N : p[k] = IF k <= n THEN Parsed(SubSeq(fields, 1, k), tails[k]) ELSE end
  OBVIOUS
<1>4. p = [k \in 0..N |-> p[k]]
  OBVIOUS
<1>. HIDE DEF p
<1>5. ASSUME NEW k \in 1..n PROVE p[k] = NextField(class, p[k - 1])
  <2>. DEFINE done == SubSeq(fields, 1, k - 1)
              f == fields[k]
  <2>1. p[k - 1] = Parsed(done, tails[k - 1]) /\ p[k] = Parsed(Append(done, f), tails[k])
    <3>1. k \in 0..N /\ k - 1 \in 0..N /\ k <= n /\ k - 1 <= n
      BY <1>1
    <3>. QED BY <1>2, <1>3, <3>1
  <2>2. f.tag \in Nat /\ f = [tag |-> f.tag, value |-> f.value]
    BY FieldsAre
  <2>3. f.tag \notin Tags(done)
    <3>. SUFFICES ASSUME f.tag \in Tags(done) PROVE FALSE
      OBVIOUS
    <3>1. DOMAIN done = 1..(k - 1) /\ \A i \in 1..(k - 1) : done[i] = fields[i]
      BY <1>2 DEF Fields
    <3>2. PICK i \in 1..(k - 1) : f.tag = fields[i].tag
      BY <3>1 DEF Tags
    <3>3. i \in 1..n /\ i # k
      BY <1>1
    <3>. QED BY <3>2, <3>3
  <2>4. /\ f.tag \in Indexed(class) /\ Tagged(tails[k - 1], f.tag)
        /\ EntryOf(class, f.tag).read[tails[k - 1]] = Parsed(f.value, tails[k])
    OBVIOUS
  <2>. DEFINE bytes == tails[k - 1]
              rest == tails[k]
  <2>. HIDE DEF done, f, bytes, rest
  <2>5. NextField(class, Parsed(done, bytes)) = Parsed(Append(done, f), rest)
    BY <2>2, <2>3, <2>4, NextFieldReads DEF bytes, rest
  <2>. QED BY <2>1, <2>5 DEF bytes, rest
<1>6. ASSUME NEW k \in (n + 1)..N PROVE p[k] = NextField(class, p[k - 1])
  <2>1. p[k] = end
    <3>1. k \in 0..N /\ ~(k <= n)
      BY <1>1
    <3>. QED BY <1>3, <3>1
  <2>2. p[k - 1] = end \/ p[k - 1] = Parsed(fields, tails[n])
    <3>1. k - 1 \in 0..N /\ (k - 1 <= n => k - 1 = n)
      BY <1>1
    <3>. QED BY <1>2, <1>3, <3>1
  <2>. QED BY <2>1, <2>2 DEF EndsIn
<1>7. p[0] = Parsed(<<>>, tails[0]) /\ p[N] = end
  <2>1. 0 \in 0..N /\ 0 <= n /\ N \in 0..N /\ ~(N <= n)
    BY <1>1
  <2>. QED BY <1>2, <1>3, <2>1
<1>8. p = [k \in 0..N |-> IF k = 0 THEN Parsed(<<>>, tails[0]) ELSE NextField(class, p[k - 1])]
  <2>1. ASSUME NEW k \in 0..N
        PROVE  p[k] = IF k = 0 THEN Parsed(<<>>, tails[0]) ELSE NextField(class, p[k - 1])
    <3>1. k = 0 \/ k \in 1..n \/ k \in (n + 1)..N
      BY <1>1
    <3>. HIDE DEF N, n
    <3>. QED BY <1>5, <1>6, <1>7, <3>1
  <2>. QED BY <1>4, <2>1, Zenon
<1>9. at = [k \in 0..N |-> IF k = 0 THEN Parsed(<<>>, tails[0]) ELSE NextField(class, at[k - 1])]
  BY <1>8, Zenon
<1>10. FieldsFromBytes(class, tails[0]) = at[N]
  BY DEF FieldsFromBytes
<1>. HIDE DEF at
<1>11. \A k \in Nat : k <= N => at[k] = p[k]
  <2>. DEFINE T == {k \in Nat : k <= N => at[k] = p[k]}
  <2>1. \A k \in 0..N : at[k] = IF k = 0 THEN Parsed(<<>>, tails[0]) ELSE NextField(class, at[k - 1])
    BY <1>9, Zenon
  <2>2. \A k \in 0..N : p[k] = IF k = 0 THEN Parsed(<<>>, tails[0]) ELSE NextField(class, p[k - 1])
    BY <1>8, Zenon
  <2>3. 0 \in T
    <3>1. 0 \in 0..N
      BY <1>1
    <3>. QED BY <2>1, <2>2, <3>1
  <2>4. ASSUME NEW k \in Nat, k \in T PROVE k + 1 \in T
    <3>. SUFFICES ASSUME k + 1 <= N PROVE at[k + 1] = p[k + 1]
      OBVIOUS
    <3>1. k + 1 \in 0..N /\ k + 1 # 0 /\ (k + 1) - 1 = k /\ at[k] = p[k]
      BY <1>1, <2>4
    <3>. QED BY <2>1, <2>2, <3>1
  <2>. HIDE DEF T
  <2>5. \A k \in Nat : k \in T
    BY <2>3, <2>4, SetInduction
  <2>. QED BY <2>5 DEF T
<1>. QED BY <1>1, <1>7, <1>10, <1>11

-----------------------------------------------------------------------------
(* Bytes that are joined *)

\* Nothing is joined to nothing,
LEMMA FlattenNone == FlattenSeq(<<>>) = <<>>
<1>. DEFINE s == <<>>
<1>1. Len(s) = 0
  OBVIOUS
<1>2. FlattenSeq(s) = s
  BY <1>1 DEF FlattenSeq
<1>. QED BY <1>2

\* one piece to itself,
LEMMA FlattenOne == ASSUME NEW a \in Octets PROVE FlattenSeq(<<a>>) = a
<1>. DEFINE s == <<a>>
<1>1. Len(s) = 1 /\ Len(s) \in Nat /\ Len(s) # 0 /\ s[1] = a
  OBVIOUS
<1>. HIDE DEF s
<1>2. PICK f : IsJoin(f, s, Len(s)) /\ FlattenSeq(s) = f[Len(s)]
  BY <1>1, FlattenIs
<1>3. \A i \in 1..Len(s) : f[i] = IF i = 1 THEN s[i] ELSE f[i - 1] \o s[i]
  BY <1>2, Zenon DEF IsJoin
<1>4. f[1] = s[1]
  BY <1>1, <1>3
<1>. QED BY <1>1, <1>2, <1>4 DEF s

\* one piece more to what it is behind,
LEMMA FlattenAppend ==
    ASSUME NEW s \in Seq(Octets), NEW a \in Octets
    PROVE  FlattenSeq(Append(s, a)) = FlattenSeq(s) \o a
<1>. DEFINE n == Len(s)
            t == Append(s, a)
<1>1. n \in Nat /\ t \in Seq(Octets) /\ Len(t) = n + 1 /\ t[n + 1] = a /\ \A i \in 1..n : t[i] = s[i]
  BY AppendProperties
<1>2. CASE n = 0
  <2>1. s = <<>> /\ t = <<a>>
    BY <1>1, <1>2, EmptySeq
  <2>2. <<>> \o a = a
    BY ConcatEmptySeq DEF Octets
  <2>. QED BY <2>1, <2>2, FlattenNone, FlattenOne
<1>3. CASE n # 0
  <2>. HIDE DEF t
  <2>1. PICK f : IsJoin(f, s, n) /\ FlattenSeq(s) = f[n]
    BY <1>1, <1>3, FlattenIs
  <2>2. PICK g : IsJoin(g, t, n + 1) /\ FlattenSeq(t) = g[n + 1]
    BY <1>1, FlattenIs
  <2>3. /\ \A i \in 1..n : f[i] = IF i = 1 THEN s[i] ELSE f[i - 1] \o s[i]
        /\ \A i \in 1..(n + 1) : g[i] = IF i = 1 THEN t[i] ELSE g[i - 1] \o t[i]
    BY <2>1, <2>2, Zenon DEF IsJoin
  <2>. DEFINE T == {k \in Nat : k + 1 <= n => f[k + 1] = g[k + 1]}
  <2>4. 0 \in T
    BY <1>1, <1>3, <2>3
  <2>5. ASSUME NEW k \in Nat, k \in T PROVE k + 1 \in T
    <3>. SUFFICES ASSUME (k + 1) + 1 <= n PROVE f[(k + 1) + 1] = g[(k + 1) + 1]
      OBVIOUS
    <3>1. (k + 1) + 1 \in 1..n /\ (k + 1) + 1 \in 1..(n + 1) /\ ((k + 1) + 1) - 1 = k + 1 /\ (k + 1) + 1 # 1
          /\ f[k + 1] = g[k + 1]
      BY <1>1, <2>5
    <3>. QED BY <1>1, <2>3, <3>1
  <2>. HIDE DEF T
  <2>6. \A k \in Nat : k \in T
    BY <2>4, <2>5, SetInduction
  <2>7. f[n] = g[n]
    <3>1. n - 1 \in Nat /\ (n - 1) + 1 = n /\ n - 1 \in T
      BY <1>1, <1>3, <2>6
    <3>. QED BY <3>1 DEF T
  <2>8. g[n + 1] = g[n] \o a
    <3>1. n + 1 \in 1..(n + 1) /\ n + 1 # 1 /\ (n + 1) - 1 = n
      BY <1>1, <1>3
    <3>. QED BY <1>1, <2>3, <3>1
  <2>. QED BY <2>1, <2>2, <2>7, <2>8 DEF t
<1>. QED BY <1>2, <1>3

\* and two lists of pieces to what each is joined to.
LEMMA FlattenConcat ==
    ASSUME NEW s \in Seq(Octets), NEW t \in Seq(Octets)
    PROVE  FlattenSeq(s \o t) = FlattenSeq(s) \o FlattenSeq(t)
<1>. DEFINE T == {n \in Nat : \A u \in Seq(Octets) : Len(u) = n =>
                     FlattenSeq(s \o u) = FlattenSeq(s) \o FlattenSeq(u)}
<1>1. 0 \in T
  <2>1. \A u \in Seq(Octets) : Len(u) = 0 => u = <<>>
    BY EmptySeq
  <2>2. s \o <<>> = s /\ FlattenSeq(s) \o <<>> = FlattenSeq(s)
    <3>1. FlattenSeq(s) \in Seq(Octet)
      BY FlattenCuts DEF Octets
    <3>. QED BY <3>1, ConcatEmptySeq
  <2>. QED BY <2>1, <2>2, FlattenNone
<1>2. ASSUME NEW n \in Nat, n \in T PROVE n + 1 \in T
  <2>. SUFFICES ASSUME NEW u \in Seq(Octets), Len(u) = n + 1
                PROVE  FlattenSeq(s \o u) = FlattenSeq(s) \o FlattenSeq(u)
    OBVIOUS
  <2>. DEFINE v == SubSeq(u, 1, n)
              a == u[n + 1]
  <2>1. v \in Seq(Octets) /\ Len(v) = n /\ a \in Octets /\ u = Append(v, a)
    <3>1. n + 1 \in 1..Len(u) /\ (n + 1) - 1 = n /\ a \in Octets
      OBVIOUS
    <3>2. SubSeq(u, 1, n + 1) = u
      BY FirstFields
    <3>3. SubSeq(u, 1, n + 1) = Append(v, a) /\ v \in Seq(Octets) /\ Len(v) = n
      BY <3>1, FirstFields
    <3>. QED BY <3>1, <3>2, <3>3
  <2>. HIDE DEF v, a
  <2>2. FlattenSeq(s \o v) = FlattenSeq(s) \o FlattenSeq(v)
    BY <1>2, <2>1
  <2>3. s \o u = Append(s \o v, a) /\ s \o v \in Seq(Octets)
    <3>1. Append(v, a) = v \o <<a>> /\ <<a>> \in Seq(Octets)
      BY <2>1, AppendIsConcat
    <3>2. s \o (v \o <<a>>) = (s \o v) \o <<a>> /\ s \o v \in Seq(Octets)
      BY <2>1, <3>1, ConcatAssociative, ConcatProperties
    <3>3. Append(s \o v, a) = (s \o v) \o <<a>>
      BY <2>1, <3>2, AppendIsConcat
    <3>. QED BY <2>1, <3>1, <3>2, <3>3
  <2>4. FlattenSeq(Append(s \o v, a)) = FlattenSeq(s \o v) \o a /\ FlattenSeq(Append(v, a)) = FlattenSeq(v) \o a
    BY <2>1, <2>3, FlattenAppend
  <2>5. (FlattenSeq(s) \o FlattenSeq(v)) \o a = FlattenSeq(s) \o (FlattenSeq(v) \o a)
    <3>1. FlattenSeq(s) \in Octets /\ FlattenSeq(v) \in Octets
      BY <2>1, FlattenCuts
    <3>. QED BY <2>1, <3>1, OctetsAssociative
  <2>. QED BY <2>1, <2>2, <2>3, <2>4, <2>5
<1>. HIDE DEF T
<1>3. \A n \in Nat : n \in T
  BY <1>1, <1>2, SetInduction
<1>4. Len(t) \in Nat
  OBVIOUS
<1>. QED BY <1>3, <1>4 DEF T

\* sep.join() of one part more.
LEMMA JoinAppend ==
    ASSUME NEW s \in Seq(Octets), NEW a \in Octets
    PROVE  LET sep == <<SOH>>
           IN  /\ Join(Append(s, a), sep) = IF s = <<>> THEN a ELSE Join(s, sep) \o (sep \o a)
               /\ Join(s, sep) \in Octets
<1>. DEFINE sep == <<SOH>>
            n == Len(s)
            t == Append(s, a)
            P(x) == [i \in DOMAIN x |-> IF i = 1 THEN x[i] ELSE sep \o x[i]]
<1>0. sep \in Octets
  BY Separators, OneByte DEF Octets
<1>1. n \in Nat /\ t \in Seq(Octets) /\ Len(t) = n + 1 /\ t[n + 1] = a /\ \A i \in 1..n : t[i] = s[i]
  BY AppendProperties
<1>2. ASSUME NEW x \in Seq(Octets)
      PROVE  /\ P(x) \in Seq(Octets) /\ Len(P(x)) = Len(x)
             /\ \A i \in 1..Len(x) : P(x)[i] = IF i = 1 THEN x[i] ELSE sep \o x[i]
             /\ Join(x, sep) = FlattenSeq(P(x))
  <2>. HIDE DEF sep
  <2>1. Len(x) \in Nat /\ DOMAIN x = 1..Len(x) /\ \A i \in 1..Len(x) : x[i] \in Octets
    OBVIOUS
  <2>2. \A i \in 1..Len(x) : (IF i = 1 THEN x[i] ELSE sep \o x[i]) \in Octets
    BY <1>0, <2>1, OctetsConcat
  <2>3. P(x) = [i \in 1..Len(x) |-> IF i = 1 THEN x[i] ELSE sep \o x[i]]
    BY <2>1
  <2>4. Join(x, sep) = FlattenSeq(P(x))
    BY DEF Join
  <2>5. P(x) \in Seq(Octets) /\ Len(P(x)) = Len(x)
    BY <2>1, <2>2, <2>3
  <2>6. \A i \in 1..Len(x) : P(x)[i] = IF i = 1 THEN x[i] ELSE sep \o x[i]
    BY <2>3
  <2>. QED BY <2>4, <2>5, <2>6
<1>. DEFINE e == IF n = 0 THEN a ELSE sep \o a
<1>. HIDE DEF sep, t
<1>3. e \in Octets
  BY <1>0, OctetsConcat
<1>4. P(t) = Append(P(s), e)
  <2>. DEFINE p == P(s)
              q == P(t)
  <2>1. /\ p \in Seq(Octets) /\ Len(p) = n
        /\ \A i \in 1..n : p[i] = IF i = 1 THEN s[i] ELSE sep \o s[i]
        /\ q \in Seq(Octets) /\ Len(q) = n + 1
        /\ \A i \in 1..(n + 1) : q[i] = IF i = 1 THEN t[i] ELSE sep \o t[i]
    BY <1>1, <1>2
  <2>. HIDE DEF p, q, e
  <2>2. /\ Append(p, e) \in Seq(Octets) /\ Len(Append(p, e)) = n + 1 /\ Append(p, e)[n + 1] = e
        /\ \A i \in 1..n : Append(p, e)[i] = p[i]
    BY <1>3, <2>1, AppendProperties
  <2>3. ASSUME NEW i \in 1..n PROVE q[i] = p[i]
    <3>1. i \in 1..(n + 1) /\ t[i] = s[i]
      BY <1>1
    <3>. HIDE DEF n
    <3>. QED BY <2>1, <3>1
  <2>4. q[n + 1] = e
    <3>1. n + 1 \in 1..(n + 1) /\ (n + 1 = 1 <=> n = 0)
      BY <1>1
    <3>. QED BY <1>1, <2>1, <3>1 DEF e
  <2>5. \A i \in 1..(n + 1) : q[i] = Append(p, e)[i]
    <3>1. \A i \in 1..(n + 1) : i \in 1..n \/ i = n + 1
      BY <1>1
    <3>. QED BY <2>2, <2>3, <2>4, <3>1
  <2>6. q = Append(p, e)
    BY <2>1, <2>2, <2>5, SeqEqual
  <2>. QED BY <2>6 DEF p, q
<1>5. Join(t, sep) = Join(s, sep) \o e /\ Join(s, sep) \in Octets
  <2>1. Join(t, sep) = FlattenSeq(Append(P(s), e)) /\ Join(s, sep) = FlattenSeq(P(s)) /\ P(s) \in Seq(Octets)
    BY <1>1, <1>2, <1>4
  <2>. HIDE DEF P, e
  <2>. QED BY <1>3, <2>1, FlattenAppend, FlattenCuts
<1>6. CASE s = <<>>
  <2>1. n = 0 /\ e = a
    BY <1>6
  <2>2. Join(s, sep) = <<>>
    <3>1. P(s) = <<>> /\ Join(s, sep) = FlattenSeq(P(s))
      <4>1. Len(P(s)) = 0 /\ P(s) \in Seq(Octets) /\ Join(s, sep) = FlattenSeq(P(s))
        BY <1>2, <2>1
      <4>. HIDE DEF P
      <4>. QED BY <4>1, EmptySeq
    <3>. QED BY <3>1, FlattenNone
  <2>3. <<>> \o a = a
    BY ConcatEmptySeq DEF Octets
  <2>. QED BY <1>5, <1>6, <2>1, <2>2, <2>3 DEF sep, t
<1>7. CASE s # <<>>
  <2>1. n # 0
    BY <1>7, EmptySeq
  <2>. QED BY <1>5, <1>7, <2>1 DEF sep, t
<1>. QED BY <1>6, <1>7

\* sep.join() of no part.
LEMMA JoinNone == Join(<<>>, <<SOH>>) = <<>>
<1>. DEFINE s == <<>>
            p == [i \in DOMAIN s |-> IF i = 1 THEN s[i] ELSE <<SOH>> \o s[i]]
<1>1. p = <<>>
  <2>1. p \in Seq(Octets) /\ Len(p) = 0
    OBVIOUS
  <2>. HIDE DEF p
  <2>. QED BY <2>1, EmptySeq
<1>2. Join(s, <<SOH>>) = FlattenSeq(p)
  BY DEF Join
<1>. QED BY <1>1, <1>2, FlattenNone

\* What one part more makes of bytes that do not end with the separator.
LEMMA EndedMore ==
    ASSUME NEW x \in Octets, x # <<>>, Last(x) # SOH, NEW a \in Octets
    PROVE  LET y == x \o (<<SOH>> \o a)
           IN  /\ Ended(y) = Ended(x) \o (IF a = <<>> THEN <<>> ELSE Ended(a))
               /\ y \in Octets /\ y # <<>>
               /\ a # <<>> => Last(y) = Last(a)
<1>. DEFINE sep == <<SOH>>
            z == x \o sep
            y == x \o (sep \o a)
<1>1. sep \in Octets /\ z \in Octets /\ sep \o a \in Octets /\ y \in Octets /\ y = z \o a
  <2>1. sep \in Octets
    BY Separators, OneByte DEF Octets
  <2>. HIDE DEF sep
  <2>. QED BY <2>1, OctetsConcat, OctetsAssociative
<1>2. Ended(x) = z
  BY EndedIs
<1>3. z # <<>> /\ Last(z) = SOH
  BY AppendOctet, Separators
<1>. HIDE DEF y, z, sep
<1>4. CASE a = <<>>
  <2>1. y = z /\ z \o <<>> = z
    BY <1>1, <1>4, ConcatEmptySeq DEF Octets
  <2>2. Ended(y) = z
    BY <1>1, <1>3, <2>1, EndedIs
  <2>. QED BY <1>1, <1>2, <1>3, <1>4, <2>1, <2>2 DEF y, sep
<1>5. CASE a # <<>>
  <2>1. y # <<>> /\ Last(y) = Last(a)
    <3>1. /\ Len(y) = Len(z) + Len(a) /\ Len(z) \in Nat /\ Len(a) \in Nat \ {0}
          /\ \A i \in 1..Len(a) : y[Len(z) + i] = a[i]
      BY <1>1, <1>5, Joined, EmptySeq DEF Octets
    <3>2. y[Len(y)] = a[Len(a)] /\ y # <<>>
      BY <3>1
    <3>. QED BY <3>2 DEF Last
  <2>2. CASE Last(a) = SOH
    BY <1>1, <1>2, <1>5, <2>1, <2>2, EndedIs DEF y, sep
  <2>3. CASE Last(a) # SOH
    <3>1. Ended(y) = y \o <<SOH>> /\ Ended(a) = a \o <<SOH>>
      BY <1>1, <1>5, <2>1, <2>3, EndedIs
    <3>2. (z \o a) \o sep = z \o (a \o sep)
      BY <1>1, OctetsAssociative
    <3>. QED BY <1>1, <1>2, <1>5, <2>1, <3>1, <3>2 DEF y, sep
  <2>. QED BY <2>2, <2>3
<1>. QED BY <1>4, <1>5

\* Parts of which only the last may be empty or end with the separator.
Parts(parts) ==
    /\ parts \in Seq(Octets) /\ parts # <<>> /\ parts[1] # <<>>
    /\ \A i \in 1..Len(parts) : i < Len(parts) => parts[i] # <<>> /\ Last(parts[i]) # SOH

\* The bytes begin with some, and the parts with their separators.
BeginsWith(x, a) == \E rest \in Octets : x = a \o rest

EndedParts(parts) == [i \in 1..Len(parts) |-> IF parts[i] = <<>> THEN <<>> ELSE Ended(parts[i])]

\* They are joined as if each brought its separator with it.
LEMMA JoinEnds ==
    ASSUME NEW parts, Parts(parts)
    PROVE  LET whole == Join(parts, <<SOH>>)
           IN  /\ EndedParts(parts) \in Seq(Octets) /\ Len(EndedParts(parts)) = Len(parts)
               /\ whole \in Octets /\ whole # <<>>
               /\ BeginsWith(whole, parts[1])
               /\ Ended(whole) = FlattenSeq(EndedParts(parts))
               /\ parts[Len(parts)] # <<>> => Last(whole) = Last(parts[Len(parts)])
<1>. DEFINE n == Len(parts)
            ended == EndedParts(parts)
            J(k) == Join(SubSeq(parts, 1, k), <<SOH>>)
            Q(k) == /\ J(k) \in Octets /\ J(k) # <<>>
                    /\ BeginsWith(J(k), parts[1])
                    /\ Ended(J(k)) = FlattenSeq(SubSeq(ended, 1, k))
                    /\ parts[k] # <<>> => Last(J(k)) = Last(parts[k])
            T == {k \in Nat : k + 1 <= n => Q(k + 1)}
<1>1. /\ parts \in Seq(Octets) /\ n \in Nat \ {0} /\ parts[1] # <<>>
      /\ \A i \in 1..n : parts[i] \in Octets
      /\ \A i \in 1..n : i < n => parts[i] # <<>> /\ Last(parts[i]) # SOH
  BY EmptySeq DEF Parts
<1>2. <<>> \in Octets /\ \A x \in Octets : <<>> \o x = x
  BY ConcatEmptySeq DEF Octets
<1>3. /\ ended \in Seq(Octets) /\ Len(ended) = n
      /\ \A i \in 1..n : ended[i] = (IF parts[i] = <<>> THEN <<>> ELSE Ended(parts[i])) /\ ended[i] \in Octets
  <2>1. \A i \in 1..n : (IF parts[i] = <<>> THEN <<>> ELSE Ended(parts[i])) \in Octets
    BY <1>1, <1>2, EndedIs
  <2>. HIDE DEF n
  <2>. QED BY <1>1, <2>1 DEF EndedParts, n
<1>. HIDE DEF ended
<1>4. ASSUME NEW k \in 1..n
      PROVE  /\ SubSeq(parts, 1, k) = Append(SubSeq(parts, 1, k - 1), parts[k])
             /\ SubSeq(ended, 1, k) = Append(SubSeq(ended, 1, k - 1), ended[k])
             /\ SubSeq(parts, 1, k - 1) \in Seq(Octets) /\ Len(SubSeq(parts, 1, k - 1)) = k - 1
             /\ SubSeq(ended, 1, k - 1) \in Seq(Octets)
  BY <1>1, <1>3, FirstFields
<1>5. 0 \in T
  <2>1. 1 \in 1..n /\ 1 - 1 = 0 /\ 0 + 1 = 1
    BY <1>1
  <2>2. SubSeq(parts, 1, 0) = <<>> /\ SubSeq(ended, 1, 0) = <<>>
    BY <1>1, <1>3, FirstFields
  <2>3. SubSeq(parts, 1, 1) = Append(<<>>, parts[1]) /\ SubSeq(ended, 1, 1) = Append(<<>>, ended[1])
    BY <1>4, <2>1, <2>2
  <2>4. J(1) = parts[1]
    <3>1. <<>> \in Seq(Octets)
      OBVIOUS
    <3>. QED BY <1>1, <2>1, <2>3, <3>1, JoinAppend
  <2>5. FlattenSeq(SubSeq(ended, 1, 1)) = ended[1]
    <3>1. <<>> \in Seq(Octets) /\ ended[1] \in Octets
      BY <1>3, <2>1
    <3>2. FlattenSeq(Append(<<>>, ended[1])) = FlattenSeq(<<>>) \o ended[1]
      BY <3>1, FlattenAppend
    <3>. QED BY <1>2, <2>3, <3>1, <3>2, FlattenNone
  <2>6. ended[1] = Ended(parts[1])
    BY <1>1, <1>3, <2>1
  <2>7. parts[1] = parts[1] \o <<>>
    BY <1>1, <2>1, ConcatEmptySeq DEF Octets
  <2>. HIDE DEF J
  <2>8. BeginsWith(J(1), parts[1])
    BY <1>2, <2>4, <2>7 DEF BeginsWith
  <2>9. Q(1)
    BY <1>1, <2>1, <2>4, <2>5, <2>6, <2>8
  <2>. QED BY <2>1, <2>9
<1>6. ASSUME NEW k \in Nat, k \in T PROVE k + 1 \in T
  <2>. SUFFICES ASSUME (k + 1) + 1 <= n PROVE Q((k + 1) + 1)
    OBVIOUS
  <2>. DEFINE i == k + 1
  <2>1. i \in 1..n /\ i + 1 \in 1..n /\ (i + 1) - 1 = i /\ i # 0 /\ i < n /\ Q(i)
    BY <1>1, <1>6
  <2>. HIDE DEF T, i
  <2>2. SubSeq(parts, 1, i + 1) = Append(SubSeq(parts, 1, i), parts[i + 1])
    BY <1>4, <2>1
  <2>3. SubSeq(ended, 1, i + 1) = Append(SubSeq(ended, 1, i), ended[i + 1])
    BY <1>4, <2>1
  <2>4. SubSeq(parts, 1, i) \in Seq(Octets) /\ SubSeq(parts, 1, i) # <<>> /\ SubSeq(ended, 1, i) \in Seq(Octets)
    <3>1. SubSeq(parts, 1, i) \in Seq(Octets) /\ Len(SubSeq(parts, 1, i)) = i /\ SubSeq(ended, 1, i) \in Seq(Octets)
      <4>1. (i + 1) - 1 = i /\ i + 1 \in 1..n
        BY <2>1
      <4>. HIDE DEF n, Q
      <4>2. SubSeq(parts, 1, (i + 1) - 1) \in Seq(Octets) /\ Len(SubSeq(parts, 1, (i + 1) - 1)) = (i + 1) - 1
            /\ SubSeq(ended, 1, (i + 1) - 1) \in Seq(Octets)
        BY <1>4, <4>1
      <4>. QED BY <4>1, <4>2
    <3>. QED BY <2>1, <3>1
  <2>. DEFINE x == J(i)
              a == parts[i + 1]
              y == x \o (<<SOH>> \o a)
  <2>5. a \in Octets /\ x \in Octets /\ x # <<>> /\ Last(x) # SOH /\ Ended(x) = FlattenSeq(SubSeq(ended, 1, i))
    BY <1>1, <2>1
  <2>6. J(i + 1) = y
    BY <2>2, <2>4, <2>5, JoinAppend
  <2>. HIDE DEF x
  <2>7. /\ Ended(y) = Ended(x) \o (IF a = <<>> THEN <<>> ELSE Ended(a))
        /\ y \in Octets /\ y # <<>>
        /\ a # <<>> => Last(y) = Last(a)
    BY <2>5, EndedMore
  <2>8. ended[i + 1] = (IF a = <<>> THEN <<>> ELSE Ended(a)) /\ ended[i + 1] \in Octets
    BY <1>3, <2>1
  <2>9. FlattenSeq(SubSeq(ended, 1, i + 1)) = FlattenSeq(SubSeq(ended, 1, i)) \o ended[i + 1]
    BY <2>3, <2>4, <2>8, FlattenAppend
  <2>10. Ended(y) = FlattenSeq(SubSeq(ended, 1, i + 1))
    BY <2>5, <2>7, <2>8, <2>9
  <2>11. BeginsWith(y, parts[1])
    <3>. DEFINE b == <<SOH>> \o a
    <3>1. PICK r \in Octets : x = parts[1] \o r
      <4>1. BeginsWith(x, parts[1])
        BY <2>1 DEF x
      <4>. QED BY <4>1 DEF BeginsWith
    <3>2. b \in Octets
      <4>1. <<SOH>> \in Octets
        BY Separators, OneByte DEF Octets
      <4>. QED BY <2>5, <4>1, OctetsConcat
    <3>3. parts[1] \in Octets
      BY <1>1
    <3>. HIDE DEF b, a
    <3>4. (parts[1] \o r) \o b = parts[1] \o (r \o b) /\ r \o b \in Octets
      BY <3>2, <3>3, OctetsAssociative, OctetsConcat
    <3>. QED BY <3>1, <3>4 DEF b, BeginsWith
  <2>. HIDE DEF y, J
  <2>12. Q(i + 1)
    BY <2>6, <2>7, <2>10, <2>11 DEF a
  <2>. QED BY <2>12 DEF i
<1>. HIDE DEF T
<1>7. \A k \in Nat : k \in T
  BY <1>5, <1>6, SetInduction
<1>8. Q(n)
  <2>1. n - 1 \in Nat /\ (n - 1) + 1 = n /\ n - 1 \in T
    BY <1>1, <1>7
  <2>. HIDE DEF Q, n
  <2>. QED BY <2>1 DEF T
<1>9. SubSeq(parts, 1, n) = parts /\ SubSeq(ended, 1, n) = ended
  BY <1>1, <1>3, FirstFields
<1>. QED BY <1>3, <1>8, <1>9 DEF ended

\* A class whose entries read what they wrote.
IsClass(class) ==
    /\ Len(class) \in Nat /\ DOMAIN class = 1..Len(class)
    /\ \A i \in 1..Len(class) : IsEntry(class[i])
    /\ Unambiguous(class)

\* The entry of a tag of a class reads what it wrote, and none of its instances
\* knows a tag of the class.
LEMMA EntryOfClass ==
    ASSUME NEW class, IsClass(class), NEW tag \in Indexed(class)
    PROVE  LET e == EntryOf(class, tag)
           IN  IsEntry(e) /\ e.tag = tag /\ tag \in Nat /\ e.inner \intersect Indexed(class) = {}
<1>1. PICK i \in 1..Len(class) : EntryOf(class, tag) = class[i] /\ class[i].tag = tag
  BY EntryIs DEF IsClass
<1>2. IsEntry(class[i])
  BY DEF IsClass
<1>3. class[i].inner \intersect Indexed(class) = {}
  BY DEF IsClass, Unambiguous
<1>4. class[i].tag \in Nat
  BY <1>2 DEF IsEntry
<1>. QED BY <1>1, <1>2, <1>3, <1>4

\* The entry reads the value in front of what none of its instances takes.
ReadsBehind(e, text, v) == \A rest \in Behind(e.inner) : e.read[text \o rest] = Parsed(v, rest)

\* What an entry of a class reads of what it wrote.
LEMMA EntryReads ==
    ASSUME NEW e, IsEntry(e), NEW last \in BOOLEAN, NEW v \in e.exact[last]
    PROVE  /\ v \in FieldValue /\ Tagged(e.write[v], e.tag)
           /\ e.write[v] \in Octets /\ e.write[v] # <<>>
           /\ ~last => Last(e.write[v]) # SOH
           /\ ReadsBehind(e, Ended(e.write[v]), v)
<1>1. /\ e.tag \in Nat
      /\ e.exact[FALSE] \subseteq e.exact[TRUE] /\ e.exact[TRUE] \subseteq FieldValue
      /\ \A x \in e.exact[TRUE] : Tagged(e.write[x], e.tag)
      /\ \A x \in e.exact[FALSE] : Last(e.write[x]) # SOH
      /\ \A x \in e.exact[TRUE] : \A rest \in Behind(e.inner) :
           e.read[Ended(e.write[x]) \o rest] = Parsed(x, rest)
  BY DEF IsEntry
<1>2. v \in e.exact[TRUE] /\ (~last => v \in e.exact[FALSE])
  <2>1. CASE last = TRUE
    BY <2>1
  <2>2. CASE last = FALSE
    BY <1>1, <2>2
  <2>. QED BY <2>1, <2>2
<1>3. Tagged(e.write[v], e.tag)
  BY <1>1, <1>2
<1>4. e.write[v] \in Octets /\ e.write[v] # <<>>
  BY <1>1, <1>3, TaggedIs
<1>5. ReadsBehind(e, Ended(e.write[v]), v)
  BY <1>1, <1>2 DEF ReadsBehind
<1>. QED BY <1>1, <1>2, <1>3, <1>4, <1>5

\* Pieces of which each begins with the tag of its field, and that are read in
\* front of the next.
PiecesOfFields(class, fields, w, end) ==
    LET reads(i, rest) ==
            EntryOf(class, fields[i].tag).read[w[i] \o rest] = Parsed(fields[i].value, rest)
    IN  /\ fields \in Fields
        /\ \A i \in 1..Len(fields) : fields[i].tag \in Indexed(class)
        /\ \A i, j \in 1..Len(fields) : fields[i].tag = fields[j].tag => i = j
        /\ w \in Seq(Octets) /\ Len(w) = Len(fields)
        /\ \A i \in 1..Len(w) : Tagged(w[i], fields[i].tag)
        /\ \A i \in 1..Len(w) : \A rest \in Octets :
              i < Len(w) /\ Tagged(rest, fields[i + 1].tag) => reads(i, rest)
        /\ Len(w) # 0 => reads(Len(w), end)

\* From such pieces the fields are read.
LEMMA PiecesRead ==
    ASSUME NEW class, DOMAIN class = 1..Len(class), Len(class) \in Nat,
           NEW fields, NEW w, NEW end \in Octets, PiecesOfFields(class, fields, w, end),
           NEW p, EndsIn(class, fields, end, p)
    PROVE  /\ FieldsFromBytes(class, FlattenSeq(w) \o end) = p
           /\ FlattenSeq(w) \in Octets
<1>0. /\ fields \in Fields /\ w \in Seq(Octets) /\ Len(w) = Len(fields)
      /\ \A i \in 1..Len(fields) : fields[i].tag \in Indexed(class)
      /\ \A i, j \in 1..Len(fields) : fields[i].tag = fields[j].tag => i = j
      /\ \A i \in 1..Len(w) : Tagged(w[i], fields[i].tag)
  BY DEF PiecesOfFields
<1>. DEFINE n == Len(w)
            whole == FlattenSeq(w)
<1>1. n \in Nat /\ \A i \in 1..n : w[i] \in Octets /\ fields[i].tag \in Nat
  <2>1. \A i \in 1..Len(fields) : fields[i].tag \in Nat
    BY <1>0, FieldsAre
  <2>2. n \in Nat /\ \A i \in 1..n : w[i] \in Octets
    BY <1>0
  <2>. QED BY <1>0, <2>1, <2>2
<1>2. whole \in Octets /\ \E front, behind : IsCut(whole, w, front, behind)
  BY <1>0, FlattenCuts
<1>3. PICK front, behind : IsCut(whole, w, front, behind)
  BY <1>2
<1>4. /\ \A k \in 0..n : behind[k] \in Octets /\ front[k] \in Octets
      /\ behind[0] = whole /\ front[n] = whole
      /\ \A k \in 1..n : behind[k - 1] = w[k] \o behind[k]
      /\ \A k \in 0..n : whole = front[k] \o behind[k]
  BY <1>3 DEF IsCut
<1>. HIDE DEF whole
<1>5. behind[n] = <<>>
  <2>1. n \in 0..n
    BY <1>1
  <2>2. whole = whole \o behind[n] /\ behind[n] \in Seq(Octet) /\ whole \in Seq(Octet)
    BY <1>2, <1>4, <2>1 DEF Octets
  <2>. QED BY <2>2, ConcatEqualIffEmpty
<1>. DEFINE tails == [k \in 0..n |-> behind[k] \o end]
<1>6. tails[0] = whole \o end /\ tails[n] = end
  <2>1. 0 \in 0..n /\ n \in 0..n /\ <<>> \o end = end
    BY <1>1, ConcatEmptySeq DEF Octets
  <2>. QED BY <1>4, <1>5, <2>1
<1>7. ASSUME NEW k \in 1..n
      PROVE  /\ tails[k - 1] = w[k] \o tails[k] /\ tails[k] \in Octets
             /\ Tagged(tails[k - 1], fields[k].tag)
  <2>1. k \in 0..n /\ k - 1 \in 0..n
    BY <1>1
  <2>. DEFINE a == w[k]
              b == behind[k]
  <2>2. a \in Octets /\ b \in Octets /\ behind[k - 1] = a \o b
    BY <1>1, <1>4, <2>1
  <2>3. tails[k - 1] = (a \o b) \o end /\ tails[k] = b \o end
    BY <2>1, <2>2
  <2>. HIDE DEF a, b, tails
  <2>4. (a \o b) \o end = a \o (b \o end) /\ b \o end \in Octets
    BY <2>2, OctetsAssociative, OctetsConcat
  <2>5. tails[k - 1] = w[k] \o tails[k] /\ tails[k] \in Octets
    BY <2>3, <2>4 DEF a
  <2>6. Tagged(w[k] \o tails[k], fields[k].tag)
    BY <1>0, <1>1, <2>5, TaggedMore
  <2>. QED BY <2>5, <2>6
<1>. HIDE DEF tails
<1>8. ASSUME NEW k \in 1..n
      PROVE  EntryOf(class, fields[k].tag).read[tails[k - 1]] = Parsed(fields[k].value, tails[k])
  <2>1. tails[k - 1] = w[k] \o tails[k] /\ tails[k] \in Octets
    BY <1>7
  <2>2. CASE k = n
    <3>1. n # 0
      BY <2>2
    <3>2. EntryOf(class, fields[n].tag).read[w[n] \o end] = Parsed(fields[n].value, end)
      BY <3>1 DEF PiecesOfFields
    <3>. QED BY <1>6, <2>1, <2>2, <3>2
  <2>3. CASE k # n
    <3>1. k < n /\ k + 1 \in 1..n /\ (k + 1) - 1 = k
      BY <1>1, <2>3
    <3>2. Tagged(tails[(k + 1) - 1], fields[k + 1].tag)
      BY <1>7, <3>1
    <3>3. EntryOf(class, fields[k].tag).read[w[k] \o tails[k]] = Parsed(fields[k].value, tails[k])
      BY <2>1, <3>1, <3>2 DEF PiecesOfFields
    <3>. QED BY <2>1, <3>3
  <2>. QED BY <2>2, <2>3
<1>9. FieldsFromBytes(class, tails[0]) = p
  <2>1. n = Len(fields)
    BY <1>0
  <2>2. EndsIn(class, fields, tails[Len(fields)], p)
    BY <1>6, <2>1
  <2>3. \A i \in 1..Len(fields) :
          /\ fields[i].tag \in Indexed(class) /\ Tagged(tails[i - 1], fields[i].tag)
          /\ EntryOf(class, fields[i].tag).read[tails[i - 1]] = Parsed(fields[i].value, tails[i])
    BY <1>0, <1>7, <1>8, <2>1
  <2>4. ReadOneByOne(class, fields, tails)
    BY <1>0, <2>3 DEF ReadOneByOne
  <2>. QED BY <1>0, <2>2, <2>4, FieldsRead
<1>. QED BY <1>2, <1>6, <1>9 DEF whole

\* What each field of a segment is written as, and the segment with the
\* separator behind it.
Texts(class, fields) ==
    [i \in 1..Len(fields) |-> EntryOf(class, fields[i].tag).write[fields[i].value]]
SegmentText(class, fields) == IF fields = <<>> THEN <<>> ELSE Ended(FieldsToBytes(class, fields))

\* A field behind the segment that ends it, and that no group in it takes.
Follows(class, fields, rest) ==
    \E tag \in Nat : /\ Tagged(rest, tag)
                     /\ \A i \in DOMAIN class : tag \notin class[i].inner
                     /\ tag \in Tags(fields) \/ tag \notin Indexed(class)

\* A segment without fields is written as nothing.
LEMMA NoFields == ASSUME NEW class PROVE FieldsToBytes(class, <<>>) = <<>>
<1>. DEFINE fields == <<>>
            w == [i \in DOMAIN fields |-> Writing(class, fields[i].tag).write[fields[i].value]]
<1>1. FieldsToBytes(class, fields) = Join(w, <<SOH>>)
  BY DEF FieldsToBytes
<1>2. w = <<>>
  <2>1. DOMAIN fields = {} /\ DOMAIN <<>> = {}
    OBVIOUS
  <2>2. w \in Seq(Octets) /\ Len(w) = 0
    BY <2>1
  <2>. HIDE DEF w
  <2>. QED BY <2>2, EmptySeq
<1>. QED BY <1>1, <1>2, JoinNone

\* A field of a segment that can be read back: its tag and its entry are those of
\* the class, and the entry reads what it is written as.
LEMMA ReadableField ==
    ASSUME NEW class, IsClass(class), NEW fields, NEW last \in BOOLEAN, Readable(class, fields, last),
           NEW i \in 1..Len(fields)
    PROVE  LET e == EntryOf(class, fields[i].tag)
               w == Texts(class, fields)[i]
           IN  /\ fields[i].tag \in Indexed(class) /\ fields[i].tag \in Nat /\ fields[i].value \in FieldValue
               /\ Tagged(w, fields[i].tag) /\ w \in Octets /\ w # <<>>
               /\ ~last \/ i < Len(fields) => Last(w) # SOH
               /\ e.inner \intersect Indexed(class) = {}
               /\ ReadsBehind(e, Ended(w), fields[i].value)
<1>. DEFINE e == EntryOf(class, fields[i].tag)
            v == fields[i].value
            w == Texts(class, fields)[i]
            end == last /\ i = Len(fields)
<1>1. fields \in Fields
  BY DEF Readable
<1>2. Len(fields) \in Nat /\ DOMAIN fields = 1..Len(fields) /\ v \in FieldValue
  BY <1>1, FieldsAre
<1>3. fields[i].tag \in Indexed(class) /\ v \in e.exact[end]
  BY <1>2 DEF Readable
<1>4. w = e.write[v]
  BY DEF Texts
<1>5. IsEntry(e) /\ e.tag = fields[i].tag /\ fields[i].tag \in Nat /\ e.inner \intersect Indexed(class) = {}
  BY <1>3, EntryOfClass
<1>6. end \in BOOLEAN /\ (~last \/ i < Len(fields) => ~end)
  <2>1. end \in BOOLEAN
    BY Zenon
  <2>2. i < Len(fields) => i # Len(fields)
    <3>. DEFINE n == Len(fields)
    <3>1. n \in Nat /\ i \in 1..n
      BY <1>2
    <3>. HIDE DEF n
    <3>2. i < n => i # n
      BY <3>1
    <3>. QED BY <3>2 DEF n
  <2>3. CASE last = TRUE
    BY <2>1, <2>2, <2>3
  <2>4. CASE last = FALSE
    BY <2>1, <2>4
  <2>. QED BY <2>3, <2>4
<1>. HIDE DEF e, v, w, end
<1>7. /\ Tagged(w, e.tag) /\ w \in Octets /\ w # <<>>
      /\ ~end => Last(w) # SOH
      /\ ReadsBehind(e, Ended(w), v)
  BY <1>3, <1>4, <1>5, <1>6, EntryReads
<1>. QED BY <1>2, <1>3, <1>5, <1>6, <1>7 DEF e, v, w

\* A segment is what its fields are written as.
LEMMA SegmentWrites ==
    ASSUME NEW class, IsClass(class), NEW fields, fields # <<>>, NEW last \in BOOLEAN,
           Readable(class, fields, last)
    PROVE  LET w == Texts(class, fields)
               whole == FieldsToBytes(class, fields)
           IN  /\ Parts(w) /\ Len(w) = Len(fields)
               /\ whole \in Octets /\ whole # <<>> /\ Ended(whole) = FlattenSeq(EndedParts(w))
               /\ ~last => Last(whole) # SOH
               /\ \A rest \in Octets : Tagged(Ended(whole) \o rest, fields[1].tag)
<1>. DEFINE n == Len(fields)
            w == Texts(class, fields)
            whole == FieldsToBytes(class, fields)
<1>1. fields \in Fields
  BY DEF Readable
<1>2. n \in Nat \ {0} /\ DOMAIN fields = 1..n
  <2>1. n \in Nat /\ DOMAIN fields = 1..n
    BY <1>1, FieldsAre
  <2>2. n # 0
    BY <1>1, EmptySeq DEF Fields
  <2>. QED BY <2>1, <2>2
<1>3. \A i \in 1..n : /\ fields[i].tag \in Indexed(class) /\ w[i] \in Octets /\ w[i] # <<>>
                      /\ ~last \/ i < n => Last(w[i]) # SOH
  BY ReadableField
<1>4. w \in Seq(Octets) /\ Len(w) = n
  <2>1. w = [i \in 1..n |-> w[i]]
    BY DEF Texts
  <2>. HIDE DEF w
  <2>. QED BY <1>2, <1>3, <2>1
<1>5. whole = Join(w, <<SOH>>)
  <2>1. [i \in DOMAIN fields |-> Writing(class, fields[i].tag).write[fields[i].value]] = w
    <3>1. \A i \in 1..n : Writing(class, fields[i].tag) = EntryOf(class, fields[i].tag)
      BY <1>3 DEF Writing
    <3>. QED BY <1>2, <3>1 DEF Texts
  <2>. QED BY <2>1 DEF FieldsToBytes
<1>. HIDE DEF w, whole
<1>6. Parts(w)
  <2>1. 1 \in 1..n /\ w # <<>>
    BY <1>2, <1>4
  <2>. QED BY <1>3, <1>4, <2>1 DEF Parts
<1>7. /\ Join(w, <<SOH>>) \in Octets /\ Join(w, <<SOH>>) # <<>>
      /\ Ended(Join(w, <<SOH>>)) = FlattenSeq(EndedParts(w))
      /\ w[Len(w)] # <<>> => Last(Join(w, <<SOH>>)) = Last(w[Len(w)])
      /\ BeginsWith(Join(w, <<SOH>>), w[1])
  BY <1>6, JoinEnds
<1>8. ~last => Last(whole) # SOH
  <2>1. n \in 1..n
    BY <1>2
  <2>. QED BY <1>3, <1>4, <1>5, <1>7, <2>1
<1>9. ASSUME NEW rest \in Octets PROVE Tagged(Ended(whole) \o rest, fields[1].tag)
  <2>1. 1 \in 1..n
    BY <1>2
  <2>2. Tagged(w[1], fields[1].tag) /\ fields[1].tag \in Nat
    BY <2>1, ReadableField DEF w
  <2>3. Tagged(whole, fields[1].tag)
    BY <1>5, <1>7, <2>2, TaggedMore DEF BeginsWith
  <2>. QED BY <2>2, <2>3, EndedTagged
<1>. QED BY <1>4, <1>5, <1>6, <1>7, <1>8, <1>9 DEF w, whole

\* ... of which each is read in front of the next.
LEMMA PiecesOf ==
    ASSUME NEW class, IsClass(class), NEW fields, fields # <<>>, NEW last \in BOOLEAN,
           Readable(class, fields, last)
    PROVE  LET p == EndedParts(Texts(class, fields))
               e(i) == EntryOf(class, fields[i].tag)
           IN  /\ p \in Seq(Octets) /\ Len(p) = Len(fields)
               /\ \A i \in 1..Len(fields) :
                    /\ Tagged(p[i], fields[i].tag)
                    /\ ReadsBehind(e(i), p[i], fields[i].value)
                    /\ \A rest \in Octets : \A tag \in Indexed(class) :
                         Tagged(rest, tag) => e(i).read[p[i] \o rest] = Parsed(fields[i].value, rest)
<1>. DEFINE n == Len(fields)
            w == Texts(class, fields)
            p == EndedParts(w)
            e(i) == EntryOf(class, fields[i].tag)
<1>1. Parts(w) /\ Len(w) = n
  BY SegmentWrites
<1>2. p \in Seq(Octets) /\ Len(p) = n
  BY <1>1, JoinEnds
<1>3. ASSUME NEW i \in 1..n
      PROVE  /\ Tagged(p[i], fields[i].tag)
             /\ ReadsBehind(e(i), p[i], fields[i].value)
             /\ \A rest \in Octets : \A tag \in Indexed(class) :
                  Tagged(rest, tag) => e(i).read[p[i] \o rest] = Parsed(fields[i].value, rest)
  <2>1. /\ fields[i].tag \in Nat /\ Tagged(w[i], fields[i].tag) /\ w[i] # <<>> /\ w[i] \in Octets
        /\ e(i).inner \intersect Indexed(class) = {}
        /\ ReadsBehind(e(i), Ended(w[i]), fields[i].value)
    BY ReadableField
  <2>2. p[i] = Ended(w[i])
    BY <1>1, <2>1 DEF EndedParts
  <2>. DEFINE x == w[i]
              f == fields[i]
              c == e(i)
  <2>. HIDE DEF w, p, e, x, f, c
  <2>3. Tagged(Ended(x), f.tag)
    <3>1. <<>> \in Octets /\ Ended(x) \in Octets /\ Ended(x) \o <<>> = Ended(x)
      BY <2>1, EndedIs, ConcatEmptySeq DEF Octets, x
    <3>2. Tagged(Ended(x) \o <<>>, f.tag)
      BY <2>1, <3>1, EndedTagged DEF x, f
    <3>. QED BY <3>1, <3>2
  <2>4. ASSUME NEW rest \in Octets, NEW tag \in Indexed(class), Tagged(rest, tag)
        PROVE  rest \in Behind(c.inner)
    <3>1. tag \in Nat
      BY EntryOfClass
    <3>2. tag \notin c.inner
      BY <2>1 DEF c
    <3>. QED BY <2>4, <3>1, <3>2 DEF Behind
  <2>. QED BY <2>1, <2>2, <2>3, <2>4 DEF x, f, c, ReadsBehind
<1>. QED BY <1>2, <1>3

\* The tags of a segment that can be read back are of the class, and differ.
LEMMA DistinctTags ==
    ASSUME NEW class, NEW fields, NEW last, Readable(class, fields, last)
    PROVE  /\ fields \in Fields
           /\ \A i \in 1..Len(fields) : fields[i].tag \in Indexed(class)
           /\ \A i, j \in 1..Len(fields) : fields[i].tag = fields[j].tag => i = j
<1>1. fields \in Fields /\ DOMAIN fields = 1..Len(fields)
  BY FieldsAre DEF Readable
<1>2. \A i \in DOMAIN fields : /\ fields[i].tag \in Indexed(class)
                               /\ \A j \in DOMAIN fields : fields[i].tag = fields[j].tag => i = j
  BY DEF Readable
<1>. QED BY <1>1, <1>2

\* A segment is read as it was written when another field stands behind it.
LEMMA SegmentReads ==
    ASSUME NEW class, IsClass(class), NEW fields, NEW last \in BOOLEAN, Readable(class, fields, last),
           NEW rest, Follows(class, fields, rest)
    PROVE  /\ FieldsFromBytes(class, SegmentText(class, fields) \o rest) = Parsed(fields, rest)
           /\ SegmentText(class, fields) \in Octets
<1>. DEFINE n == Len(fields)
            text == SegmentText(class, fields)
            e(i) == EntryOf(class, fields[i].tag)
<1>1. /\ fields \in Fields /\ n \in Nat
      /\ \A i \in 1..n : fields[i].tag \in Indexed(class)
      /\ \A i, j \in 1..n : fields[i].tag = fields[j].tag => i = j
  BY DistinctTags, FieldsAre
<1>2. PICK tag \in Nat : /\ Tagged(rest, tag)
                         /\ \A i \in DOMAIN class : tag \notin class[i].inner
                         /\ tag \in Tags(fields) \/ tag \notin Indexed(class)
  BY DEF Follows
<1>3. rest \in Octets /\ EndsIn(class, fields, rest, Parsed(fields, rest))
  <2>1. rest \in Octets
    BY <1>2, TaggedIs
  <2>2. Stops(class, fields, rest)
    BY <1>2 DEF Stops
  <2>. QED BY <2>1, <2>2, StopsThere
<1>4. Len(class) \in Nat /\ DOMAIN class = 1..Len(class)
  BY DEF IsClass
<1>5. CASE fields = <<>>
  <2>. DEFINE w == <<>>
  <2>1. w \in Seq(Octets) /\ Len(w) = Len(fields) /\ Len(w) = 0
    BY <1>5
  <2>. HIDE DEF w
  <2>2. \A i \in 1..Len(w) : Tagged(w[i], fields[i].tag)
    BY <2>1
  <2>3. \A i \in 1..Len(w) : \A r \in Octets :
              i < Len(w) /\ Tagged(r, fields[i + 1].tag) =>
                EntryOf(class, fields[i].tag).read[w[i] \o r] = Parsed(fields[i].value, r)
    BY <2>1
  <2>4. FieldsFromBytes(class, FlattenSeq(w) \o rest) = Parsed(fields, rest)
    <3>1. PiecesOfFields(class, fields, w, rest)
      BY <1>1, <2>1, <2>2, <2>3 DEF PiecesOfFields
    <3>. QED BY <1>3, <1>4, <3>1, PiecesRead
  <2>5. text = FlattenSeq(w) /\ FlattenSeq(w) \in Octets
    BY <1>5, <2>1, FlattenNone, FlattenCuts DEF SegmentText, w
  <2>. QED BY <1>5, <2>4, <2>5
<1>6. CASE fields # <<>>
  <2>. DEFINE p == EndedParts(Texts(class, fields))
  <2>1. /\ p \in Seq(Octets) /\ Len(p) = n
        /\ \A i \in 1..n : Tagged(p[i], fields[i].tag) /\ ReadsBehind(e(i), p[i], fields[i].value)
    BY <1>6, PiecesOf
  <2>2. \A i \in 1..n : \A r \in Octets : \A t \in Indexed(class) :
           Tagged(r, t) => e(i).read[p[i] \o r] = Parsed(fields[i].value, r)
    BY <1>6, PiecesOf
  <2>3. text = FlattenSeq(p)
    BY <1>6, SegmentWrites DEF SegmentText
  <2>4. n # 0
    BY <1>1, <1>6, EmptySeq DEF Fields
  <2>. HIDE DEF p, text
  <2>5. ASSUME NEW i \in 1..n, NEW r \in Octets, i < n, Tagged(r, fields[i + 1].tag)
        PROVE  e(i).read[p[i] \o r] = Parsed(fields[i].value, r)
    <3>1. i + 1 \in 1..n
      BY <1>1, <2>5
    <3>2. fields[i + 1].tag \in Indexed(class)
      BY <1>1, <3>1
    <3>. HIDE DEF e
    <3>. QED BY <2>2, <2>5, <3>2
  <2>6. e(n).read[p[n] \o rest] = Parsed(fields[n].value, rest)
    <3>1. n \in 1..n
      BY <1>1, <2>4
    <3>2. PICK j \in 1..Len(class) : e(n) = class[j]
      BY <1>1, <1>4, <3>1, EntryIs
    <3>3. tag \notin e(n).inner
      <4>1. tag \notin class[j].inner
        BY <1>2, <1>4
      <4>. QED BY <3>2, <4>1
    <3>4. rest \in Behind(e(n).inner)
      BY <1>2, <1>3, <3>3 DEF Behind
    <3>5. ReadsBehind(e(n), p[n], fields[n].value)
      BY <2>1, <3>1
    <3>. QED BY <3>4, <3>5 DEF ReadsBehind
  <2>7. /\ FieldsFromBytes(class, FlattenSeq(p) \o rest) = Parsed(fields, rest)
        /\ FlattenSeq(p) \in Octets
    <3>1. \A i \in 1..Len(p) : \A r \in Octets :
              i < Len(p) /\ Tagged(r, fields[i + 1].tag) =>
                EntryOf(class, fields[i].tag).read[p[i] \o r] = Parsed(fields[i].value, r)
      BY <2>1, <2>5
    <3>2. EntryOf(class, fields[Len(p)].tag).read[p[Len(p)] \o rest] = Parsed(fields[Len(p)].value, rest)
      BY <2>1, <2>6
    <3>3. \A i \in 1..Len(p) : Tagged(p[i], fields[i].tag)
      BY <2>1
    <3>4. Len(p) = Len(fields) /\ Len(p) # 0
      BY <2>1, <2>4
    <3>5. PiecesOfFields(class, fields, p, rest)
      BY <1>1, <2>1, <3>1, <3>2, <3>3, <3>4 DEF PiecesOfFields
    <3>. QED BY <1>3, <1>4, <3>4, <3>5, PiecesRead
  <2>. QED BY <2>3, <2>7 DEF text
<1>. QED BY <1>5, <1>6

-----------------------------------------------------------------------------
(* Repeating groups *)

\* tails[i] is what is left behind the first i instances.
ReadInstances(class, groups, tails) ==
    \A i \in 1..Len(groups) :
        /\ tails[i - 1] # <<>>
        /\ FieldsFromBytes(class, tails[i - 1]) = Parsed(groups[i], tails[i])

\* So the instances of a group are read one by one.
LEMMA GroupsRead ==
    ASSUME NEW class, NEW groups \in Seq(Fields), NEW tails, ReadInstances(class, groups, tails)
    PROVE  GroupsFromBytes(class, Len(groups), tails[0]) = Parsed(groups, tails[Len(groups)])
<1>. DEFINE n == Len(groups)
            p == [k \in 0..n |-> Parsed(SubSeq(groups, 1, k), tails[k])]
            at == CHOOSE h : h = [k \in 0..n |->
                      IF k = 0 THEN Parsed(<<>>, tails[0]) ELSE NextGroup(class, h[k - 1])]
<1>1. n \in Nat
  OBVIOUS
<1>2. /\ SubSeq(groups, 1, 0) = <<>> /\ SubSeq(groups, 1, n) = groups
      /\ \A k \in 1..n : SubSeq(groups, 1, k) = Append(SubSeq(groups, 1, k - 1), groups[k])
  BY FirstFields
<1>3. \A k \in 0..n : p[k] = Parsed(SubSeq(groups, 1, k), tails[k])
  OBVIOUS
<1>4. p = [k \in 0..n |-> p[k]]
  OBVIOUS
<1>. HIDE DEF p
<1>5. ASSUME NEW k \in 1..n PROVE p[k] = NextGroup(class, p[k - 1])
  <2>. DEFINE done == SubSeq(groups, 1, k - 1)
              g == groups[k]
              bytes == tails[k - 1]
              rest == tails[k]
  <2>1. p[k - 1] = Parsed(done, bytes) /\ p[k] = Parsed(Append(done, g), rest)
    <3>1. k \in 0..n /\ k - 1 \in 0..n
      BY <1>1
    <3>. QED BY <1>2, <1>3, <3>1
  <2>2. bytes # <<>> /\ FieldsFromBytes(class, bytes) = Parsed(g, rest)
    BY DEF ReadInstances
  <2>. HIDE DEF done, g, bytes, rest
  <2>3. /\ Parsed(done, bytes).value = done /\ Parsed(done, bytes).rest = bytes
        /\ Parsed(g, rest).ok = TRUE /\ Parsed(g, rest).value = g /\ Parsed(g, rest).rest = rest
    BY DEF Parsed
  <2>4. NextGroup(class, Parsed(done, bytes)) = Parsed(Append(done, g), rest)
    BY <2>2, <2>3 DEF NextGroup, Gathered
  <2>. QED BY <2>1, <2>4
<1>6. p[0] = Parsed(<<>>, tails[0]) /\ p[n] = Parsed(groups, tails[n])
  <2>1. 0 \in 0..n /\ n \in 0..n
    BY <1>1
  <2>. HIDE DEF n
  <2>. QED BY <1>2, <1>3, <2>1
<1>7. p = [k \in 0..n |-> IF k = 0 THEN Parsed(<<>>, tails[0]) ELSE NextGroup(class, p[k - 1])]
  <2>1. ASSUME NEW k \in 0..n
        PROVE  p[k] = IF k = 0 THEN Parsed(<<>>, tails[0]) ELSE NextGroup(class, p[k - 1])
    <3>1. k = 0 \/ k \in 1..n
      BY <1>1
    <3>. HIDE DEF n
    <3>. QED BY <1>5, <1>6, <3>1
  <2>. QED BY <1>4, <2>1, Zenon
<1>8. at = [k \in 0..n |-> IF k = 0 THEN Parsed(<<>>, tails[0]) ELSE NextGroup(class, at[k - 1])]
  BY <1>7, Zenon
<1>9. GroupsFromBytes(class, n, tails[0]) = at[n]
  <2>1. GroupsFromBytes(class, n, tails[0]) = IF n < 0 THEN ParseError ELSE at[n]
    BY DEF GroupsFromBytes
  <2>2. ~(n < 0)
    BY <1>1
  <2>. QED BY <2>1, <2>2
<1>. HIDE DEF at
<1>10. \A k \in Nat : k <= n => at[k] = p[k]
  <2>. DEFINE T == {k \in Nat : k <= n => at[k] = p[k]}
  <2>1. \A k \in 0..n : at[k] = IF k = 0 THEN Parsed(<<>>, tails[0]) ELSE NextGroup(class, at[k - 1])
    BY <1>8, Zenon
  <2>2. \A k \in 0..n : p[k] = IF k = 0 THEN Parsed(<<>>, tails[0]) ELSE NextGroup(class, p[k - 1])
    BY <1>7, Zenon
  <2>3. 0 \in T
    <3>1. 0 \in 0..n
      BY <1>1
    <3>. QED BY <2>1, <2>2, <3>1
  <2>4. ASSUME NEW k \in Nat, k \in T PROVE k + 1 \in T
    <3>. SUFFICES ASSUME k + 1 <= n PROVE at[k + 1] = p[k + 1]
      OBVIOUS
    <3>1. k + 1 \in 0..n /\ k + 1 # 0 /\ (k + 1) - 1 = k /\ at[k] = p[k]
      BY <1>1, <2>4
    <3>. QED BY <2>1, <2>2, <3>1
  <2>. HIDE DEF T
  <2>5. \A k \in Nat : k \in T
    BY <2>3, <2>4, SetInduction
  <2>. QED BY <2>5 DEF T
<1>. QED BY <1>1, <1>6, <1>9, <1>10

\* What can be read back in the middle of a message can be at its end.
LEMMA ReadableAtEnd ==
    ASSUME NEW class, IsClass(class), NEW fields, NEW last \in BOOLEAN, Readable(class, fields, last)
    PROVE  Readable(class, fields, TRUE)
<1>1. fields \in Fields /\ DOMAIN fields = 1..Len(fields) /\ Len(fields) \in Nat
  BY FieldsAre DEF Readable
<1>2. ASSUME NEW i \in DOMAIN fields
      PROVE  fields[i].value \in EntryOf(class, fields[i].tag).exact[TRUE /\ i = Len(fields)]
  <2>. DEFINE e == EntryOf(class, fields[i].tag)
  <2>1. fields[i].tag \in Indexed(class) /\ fields[i].value \in e.exact[last /\ i = Len(fields)]
    BY DEF Readable
  <2>2. e.exact[FALSE] \subseteq e.exact[TRUE]
    BY <2>1, EntryOfClass DEF IsEntry
  <2>3. CASE i = Len(fields)
    <3>1. (TRUE /\ i = Len(fields)) = TRUE
      BY <2>3
    <3>2. CASE last = TRUE
      <4>1. (last /\ i = Len(fields)) = TRUE
        BY <2>3, <3>2
      <4>. QED BY <2>1, <3>1, <4>1
    <3>3. CASE last = FALSE
      <4>1. (last /\ i = Len(fields)) = FALSE
        BY <3>3
      <4>. QED BY <2>1, <2>2, <3>1, <4>1
    <3>. QED BY <3>2, <3>3
  <2>4. CASE i # Len(fields)
    <3>1. (last /\ i = Len(fields)) = FALSE /\ (TRUE /\ i = Len(fields)) = FALSE
      BY <2>4
    <3>. QED BY <2>1, <3>1
  <2>. QED BY <2>3, <2>4
<1>. QED BY <1>1, <1>2 DEF Readable

\* The instances of a group that come back.
Instances(class, groups, last) ==
    /\ groups \in Seq(Fields)
    /\ \A i \in 1..Len(groups) :
         /\ groups[i] = AsDefined(class, groups[i])
         /\ Readable(class, groups[i], TRUE)
         /\ ~last \/ i < Len(groups) => Readable(class, groups[i], FALSE) /\ groups[i] # <<>>
         /\ i > 1 /\ groups[i] # <<>> => groups[i][1].tag \in Tags(groups[i - 1])

\* The values of a group that are exact are such instances.
LEMMA ReadableInstances ==
    ASSUME NEW class, IsClass(class), NEW groups, NEW last \in BOOLEAN, ReadableGroups(class, groups, last)
    PROVE  Instances(class, groups, last)
<1>. DEFINE n == Len(groups)
<1>1. groups \in Seq(Fields) /\ n \in Nat /\ DOMAIN groups = 1..n
  <2>1. groups \in Seq(Fields)
    BY DEF ReadableGroups
  <2>. QED BY <2>1
<1>2. ASSUME NEW i \in 1..n
      PROVE  /\ groups[i] = AsDefined(class, groups[i])
             /\ Readable(class, groups[i], TRUE)
             /\ ~last \/ i < n => Readable(class, groups[i], FALSE) /\ groups[i] # <<>>
             /\ i > 1 /\ groups[i] # <<>> => groups[i][1].tag \in Tags(groups[i - 1])
  <2>. DEFINE end == last /\ i = n
  <2>1. /\ Readable(class, groups[i], end)
        /\ groups[i] = AsDefined(class, groups[i])
        /\ groups[i] = <<>> => end
        /\ i > 1 /\ groups[i] # <<>> => groups[i][1].tag \in Tags(groups[i - 1])
    BY <1>1 DEF ReadableGroups
  <2>2. end \in BOOLEAN
    BY Zenon
  <2>3. Readable(class, groups[i], TRUE)
    <3>. HIDE DEF end
    <3>. QED BY <2>1, <2>2, ReadableAtEnd
  <2>4. ASSUME ~last \/ i < n PROVE Readable(class, groups[i], FALSE) /\ groups[i] # <<>>
    <3>1. i < n => i # n
      <4>. HIDE DEF n
      <4>. QED BY <1>1
    <3>2. ~end
      BY <2>4, <3>1
    <3>3. end = FALSE
      BY <3>2
    <3>. QED BY <2>1, <3>3
  <2>. HIDE DEF end, n
  <2>. QED BY <2>1, <2>3, <2>4
<1>. QED BY <1>1, <1>2 DEF Instances

\* What a group joins: its count and its instances.
GroupParts(tag, class, groups) ==
    [k \in 1..(Len(groups) + 1) |->
        IF k = 1 THEN TagValue(tag, Decimal(Len(groups))) ELSE FieldsToBytes(class, groups[k - 1])]

\* What is known of them.
GroupWritten(tag, class, groups, last) ==
    LET parts == GroupParts(tag, class, groups)
        n == Len(groups)
    IN  /\ GroupsToBytes(tag, class, groups) = Join(parts, <<SOH>>)
        /\ Parts(parts) /\ Len(parts) = n + 1 /\ n \in Nat
        /\ ~last => Last(parts[n + 1]) # SOH /\ parts[n + 1] # <<>>
        /\ EndedParts(parts)[1] = TagValue(tag, Decimal(n)) \o <<SOH>>
        /\ \A k \in 1..n : EndedParts(parts)[k + 1] = SegmentText(class, groups[k])

\* A group writes its count, then its instances, of which only the last may be
\* empty or end with the separator.
LEMMA GroupsWrite ==
    ASSUME NEW tag \in Nat, NEW class, IsClass(class), NEW groups, NEW last \in BOOLEAN,
           Instances(class, groups, last)
    PROVE  GroupWritten(tag, class, groups, last)
<1>. DEFINE n == Len(groups)
            parts == GroupParts(tag, class, groups)
            count == TagValue(tag, Decimal(n))
<1>1. groups \in Seq(Fields) /\ n \in Nat /\ DOMAIN groups = 1..n
  <2>1. groups \in Seq(Fields)
    BY DEF Instances
  <2>. QED BY <2>1
<1>2. /\ \A i \in 1..n : groups[i] = AsDefined(class, groups[i]) /\ Readable(class, groups[i], TRUE)
      /\ \A i \in 1..n : ~last \/ i < n => Readable(class, groups[i], FALSE) /\ groups[i] # <<>>
  BY DEF Instances
<1>3. /\ count \in Octets /\ count # <<>> /\ Last(count) # SOH /\ Ended(count) = count \o <<SOH>>
  <2>1. Decimal(n) \in Octets /\ \A i \in 1..Len(Decimal(n)) : Decimal(n)[i] # SOH
    <3>1. Decimal(n) \in Octets /\ \A i \in 1..Len(Decimal(n)) : Decimal(n)[i] \in 48..57
      BY <1>1, DecimalInteger
    <3>. QED BY <3>1 DEF SOH
  <2>. HIDE DEF n
  <2>. QED BY <2>1, TextField
<1>4. ASSUME NEW i \in 1..n
      PROVE  /\ FieldsToBytes(class, groups[i]) \in Octets
             /\ groups[i] # <<>> => FieldsToBytes(class, groups[i]) # <<>>
             /\ groups[i] = <<>> => FieldsToBytes(class, groups[i]) = <<>>
             /\ ~last \/ i < n => FieldsToBytes(class, groups[i]) # <<>> /\ Last(FieldsToBytes(class, groups[i])) # SOH
  <2>1. CASE groups[i] = <<>>
    <3>1. FieldsToBytes(class, groups[i]) = <<>>
      BY <2>1, NoFields
    <3>2. ~(~last \/ i < n)
      BY <1>2, <2>1
    <3>3. <<>> \in Octets
      BY DEF Octets
    <3>. HIDE DEF n
    <3>. QED BY <2>1, <3>1, <3>2, <3>3
  <2>2. CASE groups[i] # <<>>
    <3>1. FieldsToBytes(class, groups[i]) \in Octets /\ FieldsToBytes(class, groups[i]) # <<>>
      BY <1>2, <2>2, SegmentWrites
    <3>2. ASSUME ~last \/ i < n PROVE Last(FieldsToBytes(class, groups[i])) # SOH
      BY <1>2, <2>2, <3>2, SegmentWrites
    <3>. QED BY <2>2, <3>1, <3>2
  <2>. QED BY <2>1, <2>2
<1>5. /\ parts \in Seq(Octets) /\ Len(parts) = n + 1 /\ parts[1] = count
      /\ \A k \in 1..n : parts[k + 1] = FieldsToBytes(class, groups[k])
  <2>1. \A k \in 1..(n + 1) :
           (IF k = 1 THEN count ELSE FieldsToBytes(class, groups[k - 1])) \in Octets
    <3>1. \A k \in 1..(n + 1) : k # 1 => k - 1 \in 1..n
      BY <1>1
    <3>. QED BY <1>3, <1>4, <3>1
  <2>2. parts = [k \in 1..(n + 1) |-> IF k = 1 THEN count ELSE FieldsToBytes(class, groups[k - 1])]
    BY DEF GroupParts
  <2>. HIDE DEF parts, count, n
  <2>3. parts \in Seq(Octets) /\ Len(parts) = n + 1
    BY <1>1, <2>1, <2>2
  <2>4. parts[1] = count
    BY <1>1, <2>2
  <2>5. \A k \in 1..n : parts[k + 1] = FieldsToBytes(class, groups[k])
    <3>1. \A k \in 1..n : k + 1 \in 1..(n + 1) /\ k + 1 # 1 /\ (k + 1) - 1 = k
      BY <1>1
    <3>. QED BY <2>2, <3>1
  <2>. QED BY <2>3, <2>4, <2>5
<1>6. GroupsToBytes(tag, class, groups) = Join(parts, <<SOH>>)
  <2>. DEFINE a == <<count>>
              b == [i \in DOMAIN groups |-> FieldsToBytes(class, AsDefined(class, groups[i]))]
  <2>1. GroupsToBytes(tag, class, groups) = Join(a \o b, <<SOH>>)
    BY DEF GroupsToBytes
  <2>2. b = [i \in 1..n |-> FieldsToBytes(class, groups[i])]
    BY <1>1, <1>2
  <2>3. a \in Seq(Octets) /\ Len(a) = 1 /\ a[1] = count
    BY <1>3
  <2>. HIDE DEF a, b
  <2>4. b \in Seq(Octets) /\ Len(b) = n /\ \A i \in 1..n : b[i] = FieldsToBytes(class, groups[i])
    BY <1>1, <1>4, <2>2
  <2>. HIDE DEF parts, count, n
  <2>5. /\ a \o b \in Seq(Octets) /\ Len(a \o b) = n + 1
        /\ \A i \in 1..(n + 1) : (a \o b)[i] = IF i <= 1 THEN a[i] ELSE b[i - 1]
    <3>1. 1 + n = n + 1
      BY <1>1
    <3>. QED BY <2>3, <2>4, <3>1, ConcatProperties
  <2>6. ASSUME NEW i \in 1..(n + 1) PROVE (a \o b)[i] = parts[i]
    <3>1. i = 1 \/ (i - 1 \in 1..n /\ (i - 1) + 1 = i /\ ~(i <= 1))
      BY <1>1
    <3>2. CASE i = 1
      BY <1>5, <2>3, <2>5, <3>2
    <3>3. CASE i - 1 \in 1..n /\ (i - 1) + 1 = i /\ ~(i <= 1)
      <4>1. (a \o b)[i] = b[i - 1] /\ b[i - 1] = FieldsToBytes(class, groups[i - 1])
        BY <2>4, <2>5, <3>3
      <4>2. parts[(i - 1) + 1] = FieldsToBytes(class, groups[i - 1])
        BY <1>5, <3>3
      <4>. QED BY <3>3, <4>1, <4>2
    <3>. QED BY <3>1, <3>2, <3>3
  <2>7. a \o b = parts
    BY <1>5, <2>5, <2>6, SeqEqual
  <2>. QED BY <2>1, <2>7
<1>. HIDE DEF parts, count, n
<1>7. \A k \in 1..(n + 1) : k = 1 \/ (k - 1 \in 1..n /\ (k - 1) + 1 = k)
  BY <1>1
<1>8. Parts(parts)
  <2>1. parts # <<>> /\ parts[1] # <<>>
    BY <1>1, <1>3, <1>5
  <2>2. ASSUME NEW k \in 1..(n + 1), k < n + 1 PROVE parts[k] # <<>> /\ Last(parts[k]) # SOH
    <3>1. CASE k = 1
      BY <1>3, <1>5, <3>1
    <3>2. CASE k - 1 \in 1..n /\ (k - 1) + 1 = k
      <4>1. k - 1 < n
        BY <1>1, <2>2
      <4>2. parts[(k - 1) + 1] = FieldsToBytes(class, groups[k - 1])
        BY <1>5, <3>2
      <4>3. FieldsToBytes(class, groups[k - 1]) # <<>> /\ Last(FieldsToBytes(class, groups[k - 1])) # SOH
        BY <1>4, <3>2, <4>1
      <4>. QED BY <3>2, <4>2, <4>3
    <3>. QED BY <1>7, <3>1, <3>2
  <2>. QED BY <1>5, <2>1, <2>2 DEF Parts
<1>9. ASSUME ~last PROVE Last(parts[n + 1]) # SOH /\ parts[n + 1] # <<>>
  <2>1. CASE n = 0
    <3>1. n + 1 = 1
      BY <2>1
    <3>. QED BY <1>3, <1>5, <3>1
  <2>2. CASE n # 0
    <3>1. n \in 1..n
      BY <1>1, <2>2
    <3>2. parts[n + 1] = FieldsToBytes(class, groups[n])
      BY <1>5, <3>1
    <3>. QED BY <1>4, <1>9, <3>1, <3>2
  <2>. QED BY <2>1, <2>2
<1>10. EndedParts(parts) = [i \in 1..(n + 1) |-> IF parts[i] = <<>> THEN <<>> ELSE Ended(parts[i])]
  BY <1>5 DEF EndedParts
<1>11. EndedParts(parts)[1] = count \o <<SOH>>
  <2>1. 1 \in 1..(n + 1)
    BY <1>1
  <2>. QED BY <1>3, <1>5, <1>10, <2>1
<1>12. ASSUME NEW k \in 1..n PROVE EndedParts(parts)[k + 1] = SegmentText(class, groups[k])
  <2>1. k + 1 \in 1..(n + 1)
    BY <1>1
  <2>. QED BY <1>4, <1>5, <1>10, <2>1 DEF SegmentText
<1>. QED BY <1>1, <1>5, <1>6, <1>8, <1>9, <1>11, <1>12 DEF parts, count, n, GroupWritten

\* The text of an instance begins with its first tag.
LEMMA SegmentTextTagged ==
    ASSUME NEW class, IsClass(class), NEW fields, fields # <<>>, NEW last \in BOOLEAN,
           Readable(class, fields, last), NEW rest \in Octets
    PROVE  /\ Tagged(SegmentText(class, fields) \o rest, fields[1].tag)
           /\ fields[1].tag \in Indexed(class) /\ fields[1].tag \in Nat
<1>1. Tagged(Ended(FieldsToBytes(class, fields)) \o rest, fields[1].tag)
  BY SegmentWrites
<1>2. 1 \in 1..Len(fields)
  <2>1. fields \in Fields
    BY DEF Readable
  <2>2. Len(fields) \in Nat /\ Len(fields) # 0
    BY <2>1, EmptySeq DEF Fields
  <2>. QED BY <2>2
<1>. QED BY <1>1, <1>2, ReadableField DEF SegmentText

\* What stands behind an instance ends it: the next instance, or what none of
\* the group's instances knows.
LEMMA InstancesFollow ==
    ASSUME NEW class, IsClass(class), NEW groups, Instances(class, groups, TRUE),
           NEW tails, NEW rest \in Behind(AllTags(class)), tails[Len(groups)] = rest,
           \A k \in 1..Len(groups) : tails[k] \in Octets,
           \A k \in 1..Len(groups) : tails[k - 1] = SegmentText(class, groups[k]) \o tails[k],
           NEW k \in 1..Len(groups)
    PROVE  Follows(class, groups[k], tails[k])
<1>. DEFINE n == Len(groups)
<1>1. n \in Nat
  BY DEF Instances
<1>2. ASSUME NEW g PROVE Follows(class, g, rest)
  <2>1. PICK tag \in Nat \ AllTags(class) : Tagged(rest, tag)
    BY DEF Behind
  <2>2. tag \notin Indexed(class) /\ \A i \in DOMAIN class : tag \notin class[i].inner
    BY <2>1 DEF AllTags
  <2>. QED BY <2>1, <2>2 DEF Follows
<1>3. CASE k = n
  BY <1>2, <1>3
<1>4. CASE k # n
  <2>1. k + 1 \in 1..n /\ (k + 1) - 1 = k /\ k + 1 > 1 /\ k < n
    BY <1>1, <1>4
  <2>2. tails[k] = SegmentText(class, groups[k + 1]) \o tails[k + 1] /\ tails[k + 1] \in Octets
    BY <2>1
  <2>3. Readable(class, groups[k + 1], TRUE)
    BY <2>1 DEF Instances
  <2>4. CASE groups[k + 1] = <<>>
    <3>1. k + 1 = n
      <4>1. ~(k + 1 < n)
        BY <2>1, <2>4 DEF Instances
      <4>. QED BY <1>1, <2>1, <4>1
    <3>2. SegmentText(class, groups[k + 1]) = <<>> /\ tails[k + 1] = rest
      BY <2>4, <3>1 DEF SegmentText
    <3>3. <<>> \o rest = rest
      BY BehindIsOctets, ConcatEmptySeq DEF Octets
    <3>. QED BY <1>2, <2>2, <3>2, <3>3
  <2>5. CASE groups[k + 1] # <<>>
    <3>. DEFINE tag == groups[k + 1][1].tag
    <3>1. Tagged(tails[k], tag) /\ tag \in Indexed(class) /\ tag \in Nat
      BY <2>2, <2>3, <2>5, SegmentTextTagged
    <3>2. tag \in Tags(groups[k])
      <4>1. groups[k + 1][1].tag \in Tags(groups[(k + 1) - 1])
        BY <2>1, <2>5 DEF Instances
      <4>. QED BY <2>1, <4>1
    <3>3. \A i \in DOMAIN class : tag \notin class[i].inner
      BY <3>1 DEF IsClass, Unambiguous
    <3>. QED BY <3>1, <3>2, <3>3 DEF Follows
  <2>. QED BY <2>4, <2>5
<1>. QED BY <1>3, <1>4

\* A group's instances are read as they were written in front of what none of
\* them knows.
LEMMA GroupReads ==
    ASSUME NEW tag \in Nat, NEW class, IsClass(class), NEW groups, Instances(class, groups, TRUE),
           groups \in FieldValue, NEW rest \in Behind(AllTags(class))
    PROVE  Group(tag, class).read[Ended(GroupsToBytes(tag, class, groups)) \o rest] = Parsed(groups, rest)
<1>. DEFINE n == Len(groups)
            parts == GroupParts(tag, class, groups)
            ep == EndedParts(parts)
            whole == FlattenSeq(ep)
            count == TagValue(tag, Decimal(n))
            written == GroupsToBytes(tag, class, groups)
<1>1. /\ written = Join(parts, <<SOH>>)
      /\ Parts(parts) /\ Len(parts) = n + 1 /\ n \in Nat
      /\ ep[1] = count \o <<SOH>>
      /\ \A k \in 1..n : ep[k + 1] = SegmentText(class, groups[k])
  <2>1. GroupWritten(tag, class, groups, TRUE)
    BY GroupsWrite
  <2>. QED BY <2>1 DEF GroupWritten
<1>2. ep \in Seq(Octets) /\ Len(ep) = n + 1 /\ Ended(written) = whole
  BY <1>1, JoinEnds
<1>. HIDE DEF written, parts, ep, whole, count, n
<1>3. PICK front, behind : IsCut(whole, ep, front, behind)
  BY <1>2, FlattenCuts DEF whole
<1>4. /\ \A k \in 0..(n + 1) : behind[k] \in Octets
      /\ behind[0] = whole /\ front[n + 1] = whole
      /\ \A k \in 1..(n + 1) : behind[k - 1] = ep[k] \o behind[k]
      /\ whole = front[n + 1] \o behind[n + 1]
      /\ whole \in Octets
  <2>1. n + 1 \in 0..(n + 1)
    BY <1>1
  <2>. QED BY <1>2, <1>3, <2>1, FlattenCuts DEF IsCut, whole
<1>5. behind[n + 1] = <<>>
  <2>1. n + 1 \in 0..(n + 1)
    BY <1>1
  <2>2. whole = whole \o behind[n + 1] /\ behind[n + 1] \in Seq(Octet) /\ whole \in Seq(Octet)
    BY <1>4, <2>1 DEF Octets
  <2>. QED BY <2>2, ConcatEqualIffEmpty
<1>6. rest \in Octets /\ rest # <<>>
  BY BehindIsOctets
<1>. DEFINE tails == [k \in 0..n |-> behind[k + 1] \o rest]
<1>7. ASSUME NEW k \in 0..n
      PROVE  tails[k] = behind[k + 1] \o rest /\ tails[k] \in Octets /\ behind[k + 1] \in Octets
             /\ tails[k] # <<>>
  <2>1. k + 1 \in 0..(n + 1)
    BY <1>1
  <2>2. behind[k + 1] \in Octets
    BY <1>4, <2>1
  <2>. DEFINE b == behind[k + 1]
  <2>3. tails[k] = b \o rest
    OBVIOUS
  <2>. HIDE DEF b, tails
  <2>4. b \o rest \in Octets /\ b \o rest # <<>>
    <3>1. b \o rest \in Octets /\ Len(b \o rest) = Len(b) + Len(rest) /\ Len(b) \in Nat /\ Len(rest) \in Nat
      BY <1>6, <2>2, OctetsConcat DEF b
    <3>2. Len(rest) # 0
      BY <1>6, EmptySeq DEF Octets
    <3>3. Len(b \o rest) # 0
      BY <3>1, <3>2
    <3>. QED BY <3>1, <3>3
  <2>. QED BY <2>2, <2>3, <2>4 DEF b
<1>8. tails[n] = rest
  <2>1. n \in 0..n /\ <<>> \o rest = rest
    BY <1>1, <1>6, ConcatEmptySeq DEF Octets
  <2>. QED BY <1>5, <2>1
<1>. HIDE DEF tails
<1>9. ASSUME NEW k \in 1..n PROVE tails[k - 1] = SegmentText(class, groups[k]) \o tails[k]
  <2>. DEFINE s == SegmentText(class, groups[k])
              b == behind[k + 1]
  <2>1. k \in 0..n /\ k - 1 \in 0..n /\ (k - 1) + 1 = k /\ k + 1 \in 1..(n + 1) /\ (k + 1) - 1 = k
    BY <1>1
  <2>2. behind[k] = s \o b
    <3>1. behind[(k + 1) - 1] = ep[k + 1] \o behind[k + 1]
      BY <1>4, <2>1
    <3>. QED BY <1>1, <2>1, <3>1
  <2>3. tails[k - 1] = behind[k] \o rest /\ tails[k] = b \o rest /\ b \in Octets
    BY <1>7, <2>1
  <2>4. s \in Octets
    <3>1. ep[k + 1] \in Octets
      BY <1>2, <2>1
    <3>. QED BY <1>1, <3>1
  <2>. HIDE DEF s, b
  <2>5. (s \o b) \o rest = s \o (b \o rest)
    BY <1>6, <2>3, <2>4, OctetsAssociative
  <2>. QED BY <2>2, <2>3, <2>5 DEF s
<1>10. ReadInstances(class, groups, tails)
  <2>1. ASSUME NEW k \in 1..n
        PROVE  /\ tails[k - 1] # <<>>
               /\ FieldsFromBytes(class, tails[k - 1]) = Parsed(groups[k], tails[k])
    <3>1. k - 1 \in 0..n
      BY <1>1
    <3>2. Follows(class, groups[k], tails[k])
      <4>1. \A j \in 1..n : tails[j] \in Octets
        <5>1. \A j \in 1..n : j \in 0..n
          OBVIOUS
        <5>. QED BY <1>7, <5>1
      <4>. QED BY <1>8, <1>9, <4>1, InstancesFollow DEF n
    <3>3. Readable(class, groups[k], TRUE)
      BY DEF Instances, n
    <3>4. FieldsFromBytes(class, SegmentText(class, groups[k]) \o tails[k]) = Parsed(groups[k], tails[k])
      BY <3>2, <3>3, SegmentReads
    <3>. QED BY <1>7, <1>9, <3>1, <3>4
  <2>. QED BY <2>1 DEF ReadInstances, n
<1>11. GroupsFromBytes(class, n, tails[0]) = Parsed(groups, rest)
  <2>1. groups \in Seq(Fields)
    BY DEF Instances
  <2>. QED BY <1>8, <1>10, <2>1, GroupsRead DEF n
<1>12. whole \o rest = (count \o <<SOH>>) \o tails[0] /\ tails[0] \in Octets
  <2>. DEFINE c == count \o <<SOH>>
              b == behind[1]
  <2>1. 0 \in 0..n /\ 1 \in 1..(n + 1) /\ 1 - 1 = 0 /\ 0 + 1 = 1
    BY <1>1
  <2>2. behind[1 - 1] = ep[1] \o behind[1]
    BY <1>4, <2>1
  <2>3. whole = c \o b /\ tails[0] = b \o rest /\ b \in Octets /\ tails[0] \in Octets
    <3>1. tails[0] = behind[0 + 1] \o rest /\ tails[0] \in Octets /\ behind[0 + 1] \in Octets
      BY <1>7, <2>1
    <3>. QED BY <1>1, <1>4, <2>1, <2>2, <3>1
  <2>4. c \in Octets
    <3>1. ep[1] \in Octets
      BY <1>2, <2>1
    <3>. QED BY <1>1, <3>1
  <2>. HIDE DEF c, b
  <2>5. (c \o b) \o rest = c \o (b \o rest)
    BY <1>6, <2>3, <2>4, OctetsAssociative
  <2>. QED BY <2>3, <2>5 DEF c
<1>13. /\ whole \o rest \in Octets
       /\ ValueOf(whole \o rest) = [text |-> Decimal(n), rest |-> tails[0]]
  <2>1. Decimal(n) \in Octets /\ \A i \in 1..Len(Decimal(n)) : Decimal(n)[i] # SOH
    <3>1. Decimal(n) \in Octets /\ \A i \in 1..Len(Decimal(n)) : Decimal(n)[i] \in 48..57
      BY <1>1, DecimalInteger
    <3>. QED BY <3>1 DEF SOH
  <2>. QED BY <1>12, <2>1, ValueFound DEF count
<1>14. IsInteger(Decimal(n)) /\ Integer(Decimal(n)) = n
  BY <1>1, DecimalInteger
<1>. DEFINE b == whole \o rest
<1>15. Group(tag, class).read[b] =
         LET c == ValueOf(b).text
         IN  IF IsInteger(c) THEN GroupsFromBytes(class, Integer(c), ValueOf(b).rest) ELSE ParseError
  BY <1>13 DEF Group
<1>. HIDE DEF b
<1>16. Group(tag, class).read[b] = GroupsFromBytes(class, n, tails[0])
  BY <1>13, <1>14, <1>15 DEF b
<1>. QED BY <1>2, <1>11, <1>16 DEF b, written

\* A group of entries is an entry.
LEMMA GroupIsEntry ==
    ASSUME NEW tag \in Nat, NEW class, IsClass(class)
    PROVE  IsEntry(Group(tag, class))
<1>. DEFINE e == Group(tag, class)
<1>1. /\ e.tag = tag /\ e.inner = AllTags(class)
      /\ e.write = [v \in FieldValue |-> GroupsToBytes(tag, class, v)]
      /\ e.exact[TRUE] = {v \in FieldValue : ReadableGroups(class, v, TRUE)}
      /\ e.exact[FALSE] = {v \in FieldValue : ReadableGroups(class, v, FALSE)}
  BY DEF Group
<1>2. ASSUME NEW last \in BOOLEAN, NEW v \in FieldValue, ReadableGroups(class, v, last)
      PROVE  /\ Instances(class, v, last)
             /\ Tagged(e.write[v], tag)
             /\ ~last => Last(e.write[v]) # SOH
  <2>. DEFINE n == Len(v)
              parts == GroupParts(tag, class, v)
              w == GroupsToBytes(tag, class, v)
  <2>1. Instances(class, v, last)
    BY <1>2, ReadableInstances
  <2>2. /\ w = Join(parts, <<SOH>>) /\ Parts(parts) /\ Len(parts) = n + 1 /\ n \in Nat
        /\ ~last => Last(parts[n + 1]) # SOH /\ parts[n + 1] # <<>>
    <3>1. GroupWritten(tag, class, v, last)
      BY <2>1, GroupsWrite
    <3>. QED BY <3>1 DEF GroupWritten
  <2>3. parts[1] = TagValue(tag, Decimal(n))
    <3>1. 1 \in 1..(n + 1)
      BY <2>2
    <3>. QED BY <3>1 DEF GroupParts
  <2>4. e.write[v] = w
    BY <1>1
  <2>. HIDE DEF parts, w, e, n
  <2>5. BeginsWith(w, parts[1]) /\ (parts[n + 1] # <<>> => Last(w) = Last(parts[n + 1]))
    BY <2>2, JoinEnds
  <2>6. Tagged(w, tag)
    <3>1. Decimal(n) \in Octets
      BY <2>2, DecimalInteger
    <3>2. Tagged(parts[1], tag)
      BY <2>3, <3>1 DEF Tagged
    <3>. QED BY <2>5, <3>2, TaggedMore DEF BeginsWith
  <2>. QED BY <2>1, <2>2, <2>4, <2>5, <2>6
<1>3. ASSUME NEW v \in FieldValue, ReadableGroups(class, v, FALSE)
      PROVE  ReadableGroups(class, v, TRUE)
  <2>1. /\ v \in Seq(Fields)
        /\ \A i \in DOMAIN v :
             /\ Readable(class, v[i], FALSE)
             /\ v[i] = AsDefined(class, v[i])
             /\ v[i] # <<>>
             /\ i > 1 /\ v[i] # <<>> => v[i][1].tag \in Tags(v[i - 1])
    <3>1. ASSUME NEW i \in DOMAIN v
          PROVE  /\ Readable(class, v[i], FALSE)
                 /\ v[i] = AsDefined(class, v[i])
                 /\ v[i] # <<>>
                 /\ i > 1 /\ v[i] # <<>> => v[i][1].tag \in Tags(v[i - 1])
      <4>1. (FALSE /\ i = Len(v)) = FALSE
        OBVIOUS
      <4>. QED BY <1>3, <4>1 DEF ReadableGroups
    <3>. QED BY <1>3, <3>1 DEF ReadableGroups
  <2>2. ASSUME NEW i \in DOMAIN v PROVE Readable(class, v[i], TRUE /\ i = Len(v))
    <3>1. Readable(class, v[i], TRUE) /\ Readable(class, v[i], FALSE)
      BY <2>1, ReadableAtEnd
    <3>2. CASE i = Len(v)
      <4>1. (TRUE /\ i = Len(v)) = TRUE
        BY <3>2
      <4>. QED BY <3>1, <4>1
    <3>3. CASE i # Len(v)
      <4>1. (TRUE /\ i = Len(v)) = FALSE
        BY <3>3
      <4>. QED BY <3>1, <4>1
    <3>. QED BY <3>2, <3>3
  <2>. QED BY <2>1, <2>2 DEF ReadableGroups
<1>4. ASSUME NEW v \in FieldValue, ReadableGroups(class, v, TRUE), NEW rest \in Behind(AllTags(class))
      PROVE  e.read[Ended(e.write[v]) \o rest] = Parsed(v, rest)
  <2>1. Instances(class, v, TRUE)
    BY <1>2, <1>4
  <2>2. e.write[v] = GroupsToBytes(tag, class, v)
    BY <1>1
  <2>3. e.read[Ended(GroupsToBytes(tag, class, v)) \o rest] = Parsed(v, rest)
    BY <2>1, GroupReads
  <2>. HIDE DEF e
  <2>. QED BY <2>2, <2>3
<1>. HIDE DEF e
<1>5. e.exact[FALSE] \subseteq e.exact[TRUE] /\ e.exact[TRUE] \subseteq FieldValue
  BY <1>1, <1>3
<1>6. \A v \in e.exact[TRUE] : Tagged(e.write[v], e.tag)
  BY <1>1, <1>2
<1>7. \A v \in e.exact[FALSE] : Last(e.write[v]) # SOH
  BY <1>1, <1>2
<1>8. \A v \in e.exact[TRUE] : \A rest \in Behind(e.inner) : e.read[Ended(e.write[v]) \o rest] = Parsed(v, rest)
  BY <1>1, <1>4
<1>9. IsEntry(e)
  BY <1>1, <1>5, <1>6, <1>7, <1>8 DEF IsEntry
<1>. QED BY <1>9 DEF e

-----------------------------------------------------------------------------
(* The entries of any dictionary *)

\* Some entries, mandatory or not.
OrMandatory(entries) == entries \union {Mandatory(e) : e \in entries}

FieldEntries == OrMandatory({Field(tag, type) : tag \in Nat, type \in {FixBool, FixInt, FixString}})

\* The groups of some entries, and those entries.
Grouped(entries) ==
    entries \union
    OrMandatory({Group(tag, class) : tag \in Nat, class \in {c \in Seq(entries) : Unambiguous(c)}})

\* Groups nested at most n deep.
EntriesOfDepth(n) ==
    LET nest[k \in 0..n] == IF k = 0 THEN FieldEntries ELSE Grouped(nest[k - 1]) IN nest[n]

IsFixNest(f, n) == f = [k \in 0..n |-> IF k = 0 THEN FieldEntries ELSE Grouped(f[k - 1])]

\* The recursion has a solution,
LEMMA FixNestExists == \A n \in Nat : \E f : IsFixNest(f, n)
<1>. DEFINE T == {n \in Nat : \E f : IsFixNest(f, n)}
<1>1. 0 \in T
  <2>1. IsFixNest([k \in 0..0 |-> FieldEntries], 0)
    BY DEF IsFixNest
  <2>. QED BY <2>1
<1>2. ASSUME NEW n \in Nat, n \in T PROVE n + 1 \in T
  <2>1. PICK f : IsFixNest(f, n)
    BY <1>2
  <2>. DEFINE g == [k \in 0..(n + 1) |-> IF k = n + 1 THEN Grouped(f[n]) ELSE f[k]]
  <2>2. ASSUME NEW k \in 0..(n + 1)
        PROVE  g[k] = IF k = 0 THEN FieldEntries ELSE Grouped(g[k - 1])
    <3>1. CASE k = n + 1
      <4>1. k # 0 /\ k - 1 = n /\ n \in 0..(n + 1) /\ n # n + 1
        BY <3>1
      <4>2. g[k] = Grouped(f[n]) /\ g[n] = f[n]
        BY <3>1, <4>1
      <4>. HIDE DEF g
      <4>. QED BY <4>1, <4>2
    <3>2. CASE k # n + 1
      <4>1. k \in 0..n /\ g[k] = f[k]
        BY <3>2
      <4>2. f[k] = IF k = 0 THEN FieldEntries ELSE Grouped(f[k - 1])
        BY <2>1, <4>1 DEF IsFixNest
      <4>3. k # 0 => k - 1 \in 0..n /\ g[k - 1] = f[k - 1]
        BY <4>1
      <4>. HIDE DEF g
      <4>. QED BY <4>1, <4>2, <4>3
    <3>. QED BY <3>1, <3>2
  <2>3. g = [k \in 0..(n + 1) |-> g[k]]
    OBVIOUS
  <2>. HIDE DEF g
  <2>4. IsFixNest(g, n + 1)
    BY <2>2, <2>3 DEF IsFixNest
  <2>. QED BY <2>4
<1>. HIDE DEF T
<1>3. \A n \in Nat : n \in T
  BY <1>1, <1>2, SetInduction
<1>. QED BY <1>3 DEF T

\* which the entries of a depth are taken from.
LEMMA EntriesOfDepthIs ==
    ASSUME NEW n \in Nat
    PROVE  \E f : IsFixNest(f, n) /\ EntriesOfDepth(n) = f[n]
<1>. DEFINE f == CHOOSE h : h = [k \in 0..n |-> IF k = 0 THEN FieldEntries ELSE Grouped(h[k - 1])]
<1>1. EntriesOfDepth(n) = f[n]
  BY DEF EntriesOfDepth
<1>2. \E h : IsFixNest(h, n)
  BY FixNestExists
<1>3. f = [k \in 0..n |-> IF k = 0 THEN FieldEntries ELSE Grouped(f[k - 1])]
  BY <1>2, Zenon DEF IsFixNest
<1>. HIDE DEF f
<1>4. IsFixNest(f, n)
  BY <1>3 DEF IsFixNest
<1>. QED BY <1>1, <1>4

\* Mandatory entries read what they wrote,
LEMMA OrMandatoryRead ==
    ASSUME NEW entries,
           \A e \in entries : IsEntry(e) /\ e = [tag |-> e.tag, required |-> e.required, inner |-> e.inner,
                                                 write |-> e.write, read |-> e.read, exact |-> e.exact]
    PROVE  \A e \in OrMandatory(entries) : IsEntry(e)
BY MandatoryIsEntry DEF OrMandatory

\* fields do,
LEMMA FieldEntriesRead == \A e \in FieldEntries : IsEntry(e)
<1>. DEFINE F == {Field(tag, type) : tag \in Nat, type \in {FixBool, FixInt, FixString}}
<1>1. ASSUME NEW tag \in Nat, NEW type \in {FixBool, FixInt, FixString}
      PROVE  LET e == Field(tag, type)
             IN  IsEntry(e) /\ e = [tag |-> e.tag, required |-> e.required, inner |-> e.inner,
                                    write |-> e.write, read |-> e.read, exact |-> e.exact]
  <2>1. IsEntry(Field(tag, type))
    BY TypesRead, FieldIsEntry
  <2>2. LET e == Field(tag, type)
        IN  e = [tag |-> e.tag, required |-> e.required, inner |-> e.inner,
                 write |-> e.write, read |-> e.read, exact |-> e.exact]
    BY DEF Field
  <2>. QED BY <2>1, <2>2
<1>2. \A e \in F : IsEntry(e) /\ e = [tag |-> e.tag, required |-> e.required, inner |-> e.inner,
                                      write |-> e.write, read |-> e.read, exact |-> e.exact]
  BY <1>1
<1>. HIDE DEF F
<1>3. \A e \in OrMandatory(F) : IsEntry(e)
  BY <1>2, OrMandatoryRead
<1>. QED BY <1>3 DEF FieldEntries, F

\* a class of such entries that is unambiguous is a class,
LEMMA ClassIs ==
    ASSUME NEW entries, \A e \in entries : IsEntry(e), NEW class \in Seq(entries), Unambiguous(class)
    PROVE  IsClass(class)
<1>1. Len(class) \in Nat /\ DOMAIN class = 1..Len(class) /\ \A i \in 1..Len(class) : class[i] \in entries
  BY LenProperties, ElementOfSeq
<1>. QED BY <1>1 DEF IsClass

\* and groups of them read what they wrote.
LEMMA GroupedRead ==
    ASSUME NEW entries, \A e \in entries : IsEntry(e)
    PROVE  \A e \in Grouped(entries) : IsEntry(e)
<1>. DEFINE C == {c \in Seq(entries) : Unambiguous(c)}
            G == {Group(tag, class) : tag \in Nat, class \in C}
<1>1. ASSUME NEW tag \in Nat, NEW class \in C
      PROVE  LET e == Group(tag, class)
             IN  IsEntry(e) /\ e = [tag |-> e.tag, required |-> e.required, inner |-> e.inner,
                                    write |-> e.write, read |-> e.read, exact |-> e.exact]
  <2>1. IsEntry(Group(tag, class))
    <3>1. class \in Seq(entries) /\ Unambiguous(class)
      OBVIOUS
    <3>. QED BY <3>1, ClassIs, GroupIsEntry
  <2>2. LET e == Group(tag, class)
        IN  e = [tag |-> e.tag, required |-> e.required, inner |-> e.inner,
                 write |-> e.write, read |-> e.read, exact |-> e.exact]
    BY DEF Group
  <2>. QED BY <2>1, <2>2
<1>2. \A e \in G : IsEntry(e) /\ e = [tag |-> e.tag, required |-> e.required, inner |-> e.inner,
                                      write |-> e.write, read |-> e.read, exact |-> e.exact]
  BY <1>1
<1>3. Grouped(entries) = entries \union OrMandatory(G)
  BY DEF Grouped
<1>. HIDE DEF G
<1>4. \A e \in OrMandatory(G) : IsEntry(e)
  BY <1>2, OrMandatoryRead
<1>. QED BY <1>3, <1>4

\* Every entry of a dictionary's classes, a field of a known type or a group of
\* entries, at any depth, reads what it wrote and stops before what none of its
\* instances knows.  (fix/core.py, fix/types.py)
THEOREM EveryEntryReadsBack ==
    \A n \in Nat : \A e \in EntriesOfDepth(n) : IsEntry(e)
<1>. SUFFICES ASSUME NEW n \in Nat PROVE \A e \in EntriesOfDepth(n) : IsEntry(e)
  OBVIOUS
<1>1. PICK f : IsFixNest(f, n) /\ EntriesOfDepth(n) = f[n]
  BY EntriesOfDepthIs
<1>. DEFINE Read(entries) == \A e \in entries : IsEntry(e)
            T == {k \in Nat : k <= n => Read(f[k])}
<1>2. 0 \in T
  <2>1. f[0] = FieldEntries
    BY <1>1 DEF IsFixNest
  <2>2. Read(f[0])
    BY <2>1, FieldEntriesRead
  <2>. QED BY <2>2
<1>3. ASSUME NEW k \in Nat, k \in T PROVE k + 1 \in T
  <2>. SUFFICES ASSUME k + 1 <= n PROVE Read(f[k + 1])
    <3>. HIDE DEF Read
    <3>. QED OBVIOUS
  <2>1. k + 1 \in 0..n /\ k + 1 # 0 /\ (k + 1) - 1 = k /\ k <= n
    OBVIOUS
  <2>2. f[k + 1] = Grouped(f[k])
    BY <1>1, <2>1 DEF IsFixNest
  <2>3. Read(f[k])
    BY <1>3, <2>1
  <2>4. Read(Grouped(f[k]))
    BY <2>3, GroupedRead
  <2>. HIDE DEF Read
  <2>. QED BY <2>2, <2>4
<1>. HIDE DEF T
<1>4. n \in T
  BY <1>2, <1>3, SetInduction
<1>5. Read(f[n])
  <2>. HIDE DEF Read
  <2>. QED BY <1>4 DEF T
<1>. QED BY <1>1, <1>5

-----------------------------------------------------------------------------
(* Segments behind one another *)

\* The segments so far that are not empty, and what has been written of them.
SoFar(p) == IF p = <<>> THEN <<>> ELSE Ended(Join(p, <<SOH>>))
IsWritten(p) ==
    p \in Seq(Octets) /\ (p # <<>> => Join(p, <<SOH>>) \in Octets /\ Join(p, <<SOH>>) # <<>>)
IsOpen(p) == p # <<>> => Last(Join(p, <<SOH>>)) # SOH
More(p, w) == IF w # <<>> THEN Append(p, w) ELSE p

\* The segment adds its text to what is written.
SegmentAdded(p, w, text, q, fields, last) ==
    /\ IsWritten(q) /\ SoFar(q) = SoFar(p) \o text
    /\ w \in Octets /\ text \in Octets
    /\ IsOpen(p) /\ ~last => IsOpen(q)
    /\ q = <<>> <=> p = <<>> /\ fields = <<>>

\* One segment more, behind those that do not end with the separator.
LEMMA OneSegmentMore ==
    ASSUME NEW p, IsWritten(p), NEW class, IsClass(class), NEW fields, NEW last \in BOOLEAN,
           Readable(class, fields, last), fields # <<>> => IsOpen(p)
    PROVE  LET w == FieldsToBytes(class, fields)
           IN  SegmentAdded(p, w, SegmentText(class, fields), More(p, w), fields, last)
<1>. DEFINE w == FieldsToBytes(class, fields)
            t == SegmentText(class, fields)
            q == More(p, w)
            x == Join(p, <<SOH>>)
<1>1. <<>> \in Octets /\ \A y \in Octets : y \o <<>> = y /\ <<>> \o y = y
  BY ConcatEmptySeq DEF Octets
<1>2. p \in Seq(Octets) /\ (p # <<>> => x \in Octets /\ x # <<>>)
  BY DEF IsWritten
<1>3. SoFar(p) \in Octets
  BY <1>1, <1>2, EndedIs DEF SoFar
<1>4. CASE fields = <<>>
  <2>1. w = <<>> /\ t = <<>> /\ q = p
    BY <1>4, NoFields DEF SegmentText, More
  <2>. HIDE DEF w, t, q, SegmentAdded
  <2>. QED BY <1>1, <1>3, <1>4, <2>1 DEF w, t, q, SegmentAdded
<1>5. CASE fields # <<>>
  <2>1. w \in Octets /\ w # <<>> /\ (~last => Last(w) # SOH)
    BY <1>5, SegmentWrites
  <2>2. q = Append(p, w) /\ t = Ended(w) /\ t \in Octets
    BY <1>5, <2>1, EndedIs DEF More, SegmentText
  <2>. HIDE DEF w, t, q, SegmentAdded
  <2>3. q \in Seq(Octets) /\ q # <<>>
    BY <1>2, <2>1, <2>2, AppendProperties
  <2>4. Join(q, <<SOH>>) = IF p = <<>> THEN w ELSE x \o (<<SOH>> \o w)
    BY <1>2, <2>1, <2>2, JoinAppend
  <2>5. CASE p = <<>>
    <3>1. SoFar(p) = <<>> /\ SoFar(q) = Ended(w)
      BY <2>3, <2>4, <2>5 DEF SoFar
    <3>2. IsWritten(q) /\ (~last => IsOpen(q))
      BY <2>1, <2>3, <2>4, <2>5 DEF IsWritten, IsOpen
    <3>. QED BY <1>1, <1>5, <2>1, <2>2, <2>3, <3>1, <3>2 DEF w, t, q, SegmentAdded
  <2>6. CASE p # <<>>
    <3>. DEFINE y == x \o (<<SOH>> \o w)
    <3>1. x \in Octets /\ x # <<>> /\ Last(x) # SOH
      BY <1>2, <1>5, <2>6 DEF IsOpen
    <3>. HIDE DEF x
    <3>2. /\ Ended(y) = Ended(x) \o (IF w = <<>> THEN <<>> ELSE Ended(w))
          /\ y \in Octets /\ y # <<>>
          /\ w # <<>> => Last(y) = Last(w)
      BY <2>1, <3>1, EndedMore
    <3>. HIDE DEF y
    <3>3. Join(q, <<SOH>>) = y
      BY <2>4, <2>6 DEF y
    <3>4. SoFar(p) = Ended(x) /\ SoFar(q) = Ended(y)
      BY <2>3, <2>6, <3>3 DEF SoFar, x
    <3>5. IsWritten(q) /\ (~last => IsOpen(q))
      BY <2>1, <2>3, <3>2, <3>3 DEF IsWritten, IsOpen
    <3>. QED BY <1>5, <2>1, <2>2, <2>3, <2>6, <3>2, <3>4, <3>5 DEF w, t, q, SegmentAdded
  <2>. QED BY <2>5, <2>6
<1>. QED BY <1>4, <1>5

\* The three segments, each with the separator behind it.
LEMMA SelectedThree ==
    ASSUME NEW w, w = [i \in 1..3 |-> w[i]], \A i \in 1..3 : w[i] \in Octets
    PROVE  Selected(w, Range(w) \ {<<>>}) = More(More(More(<<>>, w[1]), w[2]), w[3])
<1>. DEFINE S == Range(w) \ {<<>>}
            w1 == Append(<<>>, w[1])
            w2 == Append(w1, w[2])
            w3 == Append(w2, w[3])
<1>1. w[1] \in Octets /\ w[2] \in Octets /\ w[3] \in Octets /\ DOMAIN w = 1..3
  OBVIOUS
<1>2. \A i \in 1..3 : w[i] \in S <=> w[i] # <<>>
  BY <1>1 DEF Range
<1>. HIDE DEF S
<1>3. <<>> \in Seq(Octets)
  OBVIOUS
<1>4. w1 \in Seq(Octets) /\ Selected(w1, S) = More(<<>>, w[1])
  <2>. DEFINE none == <<>>
  <2>. HIDE DEF none
  <2>1. Selected(Append(none, w[1]), S) = IF w[1] \in S THEN Append(Selected(none, S), w[1]) ELSE Selected(none, S)
    <3>1. none \in Seq(Octets)
      BY <1>3 DEF none
    <3>. QED BY <1>1, <3>1, SelectedAppend
  <2>2. Selected(<<>>, S) = <<>> /\ (w[1] \in S <=> w[1] # <<>>)
    BY <1>2, SelectedEmpty
  <2>3. w1 \in Seq(Octets)
    BY <1>1, <1>3, AppendProperties
  <2>. QED BY <2>1, <2>2, <2>3 DEF More, none
<1>5. Len(w1) = 1 /\ w1[1] = w[1]
  BY <1>1, <1>3
<1>. HIDE DEF w1
<1>6. w2 \in Seq(Octets) /\ Selected(w2, S) = More(Selected(w1, S), w[2])
  <2>1. Selected(w2, S) = IF w[2] \in S THEN Append(Selected(w1, S), w[2]) ELSE Selected(w1, S)
    BY <1>1, <1>4, SelectedAppend
  <2>. QED BY <1>1, <1>2, <1>4, <2>1, AppendProperties DEF More
<1>7. Len(w2) = 2 /\ w2[1] = w[1] /\ w2[2] = w[2]
  <2>1. Len(w2) = Len(w1) + 1 /\ w2[Len(w1) + 1] = w[2] /\ \A i \in 1..Len(w1) : w2[i] = w1[i]
    BY <1>1, <1>4, AppendProperties
  <2>. QED BY <1>5, <2>1
<1>. HIDE DEF w2
<1>8. w3 \in Seq(Octets) /\ Selected(w3, S) = More(Selected(w2, S), w[3])
  <2>1. Selected(w3, S) = IF w[3] \in S THEN Append(Selected(w2, S), w[3]) ELSE Selected(w2, S)
    BY <1>1, <1>6, SelectedAppend
  <2>. QED BY <1>1, <1>2, <1>6, <2>1, AppendProperties DEF More
<1>9. Len(w3) = 3 /\ w3[1] = w[1] /\ w3[2] = w[2] /\ w3[3] = w[3]
  <2>1. Len(w3) = Len(w2) + 1 /\ w3[Len(w2) + 1] = w[3] /\ \A i \in 1..Len(w2) : w3[i] = w2[i]
    BY <1>1, <1>6, AppendProperties
  <2>. QED BY <1>7, <2>1
<1>. HIDE DEF w3
<1>10. w = w3
  <2>1. w \in Seq(Octets) /\ Len(w) = 3
    OBVIOUS
  <2>2. \A i \in 1..3 : i = 1 \/ i = 2 \/ i = 3
    OBVIOUS
  <2>3. \A i \in 1..Len(w) : w[i] = w3[i]
    BY <1>9, <2>1, <2>2
  <2>. QED BY <1>8, <1>9, <2>1, <2>3, SeqEqual
<1>. QED BY <1>4, <1>6, <1>8, <1>10 DEF S

\* The segments of a message that can be read back.
ReadableMessage(classes, segments) ==
    /\ \A i \in 1..3 : IsClass(classes[i])
    /\ \E i \in 1..3 : segments[i] # <<>>
    /\ \A i \in 1..3 : Readable(classes[i], segments[i], \A k \in (i + 1)..3 : segments[k] = <<>>)

\* A message is written as its segments, each with the separator behind it.
LEMMA MessageWrites ==
    ASSUME NEW m, ReadableMessage(Classes(Dictionary, m.type), m.segments)
    PROVE  LET text(i) == SegmentText(Classes(Dictionary, m.type)[i], m.segments[i])
           IN  /\ \A i \in 1..3 : text(i) \in Octets
               /\ FixToBytes(m) = (text(1) \o text(2)) \o text(3)
<1>. DEFINE classes == Classes(Dictionary, m.type)
            s == m.segments
            w == [i \in 1..3 |-> FieldsToBytes(classes[i], s[i])]
            text(i) == SegmentText(classes[i], s[i])
            last(i) == \A k \in (i + 1)..3 : s[k] = <<>>
            p1 == More(<<>>, w[1])
            p2 == More(p1, w[2])
            p3 == More(p2, w[3])
<1>1. /\ \A i \in 1..3 : IsClass(classes[i]) /\ Readable(classes[i], s[i], last(i))
      /\ \E i \in 1..3 : s[i] # <<>>
  BY DEF ReadableMessage
<1>2. FixToBytes(m) = Ended(Join(Selected(w, Range(w) \ {<<>>}), <<SOH>>))
  BY DEF FixToBytes, JoinedSegments
<1>. HIDE DEF classes, s
<1>3. /\ w[1] = FieldsToBytes(classes[1], s[1]) /\ w[2] = FieldsToBytes(classes[2], s[2])
      /\ w[3] = FieldsToBytes(classes[3], s[3])
      /\ w = [i \in 1..3 |-> w[i]]
  OBVIOUS
<1>. HIDE DEF w
<1>4. /\ \A i \in 1..3 : last(i) \in BOOLEAN
      /\ 1 \in 1..3 /\ 2 \in 1..3 /\ 3 \in 1..3
      /\ s[2] # <<>> => ~last(1)
      /\ s[3] # <<>> => ~last(1) /\ ~last(2)
  <2>1. \A i \in 1..3 : last(i) \in BOOLEAN
    BY Zenon
  <2>2. 2 \in (1 + 1)..3 /\ 3 \in (1 + 1)..3 /\ 3 \in (2 + 1)..3
    OBVIOUS
  <2>. QED BY <2>1, <2>2
<1>. HIDE DEF last
<1>5. IsWritten(<<>>) /\ IsOpen(<<>>) /\ SoFar(<<>>) = <<>>
  BY DEF IsWritten, IsOpen, SoFar
<1>6. /\ IsWritten(p1) /\ SoFar(p1) = SoFar(<<>>) \o text(1) /\ w[1] \in Octets /\ text(1) \in Octets
      /\ ~last(1) => IsOpen(p1)
      /\ p1 = <<>> <=> s[1] = <<>>
  <2>1. SegmentAdded(<<>>, w[1], text(1), More(<<>>, w[1]), s[1], last(1))
    BY <1>1, <1>3, <1>4, <1>5, OneSegmentMore
  <2>. HIDE DEF text
  <2>. QED BY <1>4, <1>5, <2>1 DEF SegmentAdded, p1
<1>. HIDE DEF p1
<1>7. /\ IsWritten(p2) /\ SoFar(p2) = SoFar(p1) \o text(2) /\ w[2] \in Octets /\ text(2) \in Octets
      /\ ~last(1) /\ ~last(2) => IsOpen(p2)
      /\ p2 = <<>> <=> p1 = <<>> /\ s[2] = <<>>
  <2>1. SegmentAdded(p1, w[2], text(2), More(p1, w[2]), s[2], last(2))
    BY <1>1, <1>3, <1>4, <1>6, OneSegmentMore
  <2>. HIDE DEF text
  <2>. QED BY <1>4, <1>6, <2>1 DEF SegmentAdded, p2
<1>. HIDE DEF p2
<1>8. /\ IsWritten(p3) /\ SoFar(p3) = SoFar(p2) \o text(3) /\ w[3] \in Octets /\ text(3) \in Octets
      /\ p3 = <<>> <=> p2 = <<>> /\ s[3] = <<>>
  <2>1. SegmentAdded(p2, w[3], text(3), More(p2, w[3]), s[3], last(3))
    BY <1>1, <1>3, <1>4, <1>7, OneSegmentMore
  <2>. HIDE DEF text
  <2>. QED BY <1>4, <1>7, <2>1 DEF SegmentAdded, p3
<1>9. p3 # <<>>
  <2>1. PICK i \in 1..3 : s[i] # <<>>
    BY <1>1
  <2>2. i = 1 \/ i = 2 \/ i = 3
    OBVIOUS
  <2>. HIDE DEF p3
  <2>. QED BY <1>6, <1>7, <1>8, <2>1, <2>2
<1>10. Selected(w, Range(w) \ {<<>>}) = p3
  <2>1. \A i \in 1..3 : i = 1 \/ i = 2 \/ i = 3
    OBVIOUS
  <2>2. \A i \in 1..3 : w[i] \in Octets
    BY <1>6, <1>7, <1>8, <2>1
  <2>. QED BY <1>3, <2>2, SelectedThree DEF p1, p2, p3
<1>. HIDE DEF p3
<1>11. FixToBytes(m) = SoFar(p3)
  BY <1>2, <1>9, <1>10 DEF SoFar
<1>. HIDE DEF text
<1>12. <<>> \o text(1) = text(1)
  BY <1>6, ConcatEmptySeq DEF Octets
<1>13. \A i \in 1..3 : text(i) \in Octets
  <2>1. \A i \in 1..3 : i = 1 \/ i = 2 \/ i = 3
    OBVIOUS
  <2>. QED BY <1>6, <1>7, <1>8, <2>1
<1>14. FixToBytes(m) = (text(1) \o text(2)) \o text(3)
  BY <1>5, <1>6, <1>7, <1>8, <1>11, <1>12
<1>. QED BY <1>13, <1>14 DEF text, classes, s

-----------------------------------------------------------------------------
(* Frames *)

\* The first "35=" is where no other is in front.
LEMMA TypeFirst ==
    ASSUME NEW w \in Octets, NEW n \in 1..(Len(w) - 2),
           w[n] = 51, w[n + 1] = 53, w[n + 2] = EQ,
           \A i \in 1..(n - 1) : w[i] = 51 /\ w[i + 1] = 53 => w[i + 2] # EQ
    PROVE  TypePosition(w) = n
<1>. DEFINE at == {i \in 1..(Len(w) - 2) : SubSeq(w, i, i + 2) = <<51, 53, EQ>>}
            type3 == <<51, 53, EQ>>
<1>1. w \in Seq(Octet) /\ Len(w) \in Nat /\ \A i \in 1..Len(w) : w[i] \in Octet
  BY DEF Octets
<1>2. type3 \in Seq(Octet) /\ Len(type3) = 3 /\ type3[1] = 51 /\ type3[2] = 53 /\ type3[3] = EQ
  BY DEF EQ, Octet
<1>3. ASSUME NEW i \in 1..(Len(w) - 2)
      PROVE  /\ SubSeq(w, i, i + 2) \in Seq(Octet) /\ Len(SubSeq(w, i, i + 2)) = 3
             /\ SubSeq(w, i, i + 2)[1] = w[i] /\ SubSeq(w, i, i + 2)[2] = w[i + 1]
             /\ SubSeq(w, i, i + 2)[3] = w[i + 2]
  <2>. DEFINE s == SubSeq(w, i, i + 2)
  <2>1. i \in Nat /\ i + 2 \in Nat /\ \A k \in i..(i + 2) : w[k] \in Octet
    BY <1>1
  <2>2. /\ s \in Seq(Octet) /\ Len(s) = IF i <= i + 2 THEN (i + 2) - i + 1 ELSE 0
        /\ \A k \in 1..((i + 2) - i + 1) : s[k] = w[i + k - 1]
    BY <2>1, SubSeqProperties
  <2>. HIDE DEF s
  <2>3. /\ 1 \in 1..((i + 2) - i + 1) /\ 2 \in 1..((i + 2) - i + 1) /\ 3 \in 1..((i + 2) - i + 1)
        /\ i + 1 - 1 = i /\ i + 2 - 1 = i + 1 /\ i + 3 - 1 = i + 2 /\ (i + 2) - i + 1 = 3 /\ i <= i + 2
    BY <2>1
  <2>4. Len(s) = 3 /\ s[1] = w[i] /\ s[2] = w[i + 1] /\ s[3] = w[i + 2]
    BY <2>2, <2>3
  <2>. QED BY <2>2, <2>4 DEF s
<1>. HIDE DEF type3
<1>4. n \in at
  <2>1. SubSeq(w, n, n + 2) = type3
    <3>1. \A k \in 1..3 : k = 1 \/ k = 2 \/ k = 3
      OBVIOUS
    <3>. DEFINE s == SubSeq(w, n, n + 2)
    <3>2. s \in Seq(Octet) /\ Len(s) = 3 /\ s[1] = 51 /\ s[2] = 53 /\ s[3] = EQ
      BY <1>3
    <3>. HIDE DEF s
    <3>3. \A k \in 1..Len(s) : s[k] = type3[k]
      BY <1>2, <3>1, <3>2
    <3>4. s = type3
      BY <1>2, <3>2, <3>3, SeqEqual
    <3>. QED BY <3>4 DEF s
  <2>. QED BY <2>1 DEF type3
<1>5. ASSUME NEW i \in at PROVE n <= i
  <2>. SUFFICES ASSUME ~(n <= i) PROVE FALSE
    OBVIOUS
  <2>1. i \in 1..(Len(w) - 2) /\ i \in 1..(n - 1)
    BY <1>1
  <2>2. SubSeq(w, i, i + 2) = type3
    BY DEF type3
  <2>3. w[i] = 51 /\ w[i + 1] = 53 /\ w[i + 2] = EQ
    BY <1>2, <1>3, <2>1, <2>2
  <2>. QED BY <2>1, <2>3
<1>6. at \in SUBSET Int
  OBVIOUS
<1>7. TypePosition(w) = Min(at)
  <2>1. TypePosition(w) = IF at = {} THEN 0 ELSE Min(at)
    BY Zenon DEF TypePosition
  <2>. HIDE DEF at
  <2>. QED BY <1>4, <2>1
<1>. HIDE DEF at
<1>8. Min(at) = n
  <2>1. n \in Int /\ \A x \in at : x \in Int
    BY <1>1, <1>6
  <2>2. \A x \in at : (\A y \in at : x <= y) => x = n
    BY <1>4, <1>5, <2>1
  <2>. QED BY <1>4, <1>5, <2>2 DEF Min
<1>. QED BY <1>7, <1>8

\* A field of the framing, with its separator.
Framed(tag, text) == TagValue(tag, text) \o <<SOH>>

\* A frame: the fields in front, what the message is encoded to, the checksum.
FramedParts(bs, type, message) ==
    LET body == Body(type, message)
        sum == Checksum(Heading(body, bs) \o body)
        p8 == Framed(BEGIN_STRING_FIELD, bs)
        p9 == Framed(BODY_LEN_FIELD, Decimal(Len(body)))
        p35 == Framed(MSG_TYPE_FIELD, type)
        p10 == Framed(CHECKSUM_FIELD, sum)
    IN  /\ body \in Octets /\ Len(body) \in Nat /\ sum \in Octets
        /\ p8 \in Octets /\ p9 \in Octets /\ p35 \in Octets /\ p10 \in Octets
        /\ Heading(body, bs) = p8 \o p9 /\ Heading(body, bs) \in Octets /\ body = p35 \o message
        /\ CompleteMsg(body, bs) = Heading(body, bs) \o (p35 \o (message \o p10))

\* What the session writes is such a frame.
LEMMA FrameIs ==
    ASSUME NEW bs \in Octets, NEW type \in Octets, NEW message \in Octets
    PROVE  FramedParts(bs, type, message)
<1>. DEFINE body == Body(type, message)
            d == Decimal(Len(body))
            h == Heading(body, bs)
            sum == Checksum(h \o body)
            sep == <<SOH>>
            a == TagValue(BEGIN_STRING_FIELD, bs)
            b == TagValue(BODY_LEN_FIELD, d)
            c == TagValue(MSG_TYPE_FIELD, type)
            e == TagValue(CHECKSUM_FIELD, sum)
            p8 == a \o sep
            p9 == b \o sep
            p35 == c \o sep
            p10 == e \o sep
<1>1. sep \in Octets
  BY Separators, OneByte DEF Octets
<1>2. body \in Octets /\ Len(body) \in Nat
  BY BodyIs DEF Octets
<1>3. body = (c \o sep) \o message
  BY DEF Body
<1>4. c \in Octets /\ c \o sep \in Octets
  <2>1. c \in Octets
    BY TagFound DEF MSG_TYPE_FIELD
  <2>. HIDE DEF c, sep
  <2>. QED BY <1>1, <2>1, OctetsConcat
<1>5. h = ((a \o sep) \o b) \o sep
  BY DEF Heading
<1>6. CompleteMsg(body, bs) = ((h \o body) \o e) \o sep
  BY DEF CompleteMsg
<1>. HIDE DEF body
<1>7. d \in Octets
  BY <1>2, DecimalInteger
<1>. HIDE DEF d, h
<1>8. a \in Octets /\ b \in Octets
  BY <1>7, TagFound DEF BEGIN_STRING_FIELD, BODY_LEN_FIELD
<1>. HIDE DEF a, b, sep
<1>9. p8 \in Octets /\ p9 \in Octets
  BY <1>1, <1>8, OctetsConcat
<1>10. h = p8 \o p9 /\ h \in Octets
  <2>1. h = (p8 \o b) \o sep
    BY <1>5
  <2>2. p8 \in Octets
    BY <1>9
  <2>. HIDE DEF p8
  <2>3. (p8 \o b) \o sep = p8 \o (b \o sep)
    BY <1>1, <1>8, <2>2, OctetsAssociative
  <2>4. p9 \in Octets
    BY <1>9
  <2>5. (p8 \o b) \o sep = p8 \o p9
    BY <2>3
  <2>. HIDE DEF p9
  <2>. QED BY <2>1, <2>2, <2>4, <2>5, OctetsConcat
<1>11. sum \in Octets
  <2>1. h \o body \in Octets
    BY <1>2, <1>10, OctetsConcat
  <2>. QED BY <2>1, ChecksumType DEF Octets
<1>. HIDE DEF sum
<1>12. e \in Octets
  BY <1>11, TagFound DEF CHECKSUM_FIELD
<1>. HIDE DEF e, c
<1>13. p10 \in Octets /\ p35 \in Octets
  BY <1>1, <1>4, <1>12, OctetsConcat
<1>14. CompleteMsg(body, bs) = h \o (p35 \o (message \o p10))
  <2>. DEFINE x == h \o body
  <2>1. x \in Octets
    BY <1>2, <1>10, OctetsConcat
  <2>2. CompleteMsg(body, bs) = (x \o e) \o sep
    BY <1>6
  <2>. HIDE DEF x
  <2>3. (x \o e) \o sep = x \o p10
    BY <1>1, <1>12, <2>1, OctetsAssociative
  <2>. HIDE DEF p10
  <2>4. (h \o body) \o p10 = h \o (body \o p10)
    BY <1>2, <1>10, <1>13, OctetsAssociative
  <2>5. body = p35 \o message
    BY <1>3
  <2>. HIDE DEF p35
  <2>6. (p35 \o message) \o p10 = p35 \o (message \o p10)
    BY <1>13, OctetsAssociative
  <2>. QED BY <2>2, <2>3, <2>4, <2>5, <2>6 DEF x
<1>15. body = p35 \o message
  BY <1>3
<1>16. /\ p8 = Framed(BEGIN_STRING_FIELD, bs) /\ p9 = Framed(BODY_LEN_FIELD, d)
       /\ p35 = Framed(MSG_TYPE_FIELD, type) /\ p10 = Framed(CHECKSUM_FIELD, sum)
  BY DEF Framed, a, b, c, e, sep
<1>. HIDE DEF p8, p9, p35, p10
<1>. QED BY <1>2, <1>9, <1>10, <1>11, <1>13, <1>14, <1>15, <1>16 DEF FramedParts, d, h, sum, body

\* The type of a frame is that of its body.
LEMMA TypeFound ==
    ASSUME NEW bs \in Octets, \A i \in 1..Len(bs) : bs[i] # EQ,
           NEW type \in Octets, \A i \in 1..Len(type) : type[i] # SOH, NEW message \in Octets
    PROVE  TypeOf(CompleteMsg(Body(type, message), bs)) = type
<1>. DEFINE body == Body(type, message)
            h == Heading(body, bs)
            p35 == Framed(MSG_TYPE_FIELD, type)
            p10 == Framed(CHECKSUM_FIELD, Checksum(h \o body))
            frame == CompleteMsg(body, bs)
            rest == p35 \o (message \o p10)
<1>1. /\ body \in Octets /\ Len(body) \in Nat /\ p35 \in Octets /\ p10 \in Octets
      /\ body = p35 \o message /\ frame = h \o rest
  <2>1. FramedParts(bs, type, message)
    BY FrameIs
  <2>. QED BY <2>1 DEF FramedParts
<1>2. Len(body) >= 3 /\ body[1] = 51 /\ body[2] = 53 /\ body[3] = EQ
  BY BodyIs DEF Octets
<1>. DEFINE d == Decimal(Len(body))
            n == Len(h) + 1
<1>3. /\ h \in Octets /\ Len(h) = 6 + Len(bs) + Len(d)
      /\ d \in Octets /\ Len(d) \in Nat /\ Len(bs) \in Nat
      /\ \A i \in 1..Len(d) : h[5 + Len(bs) + i] = d[i]
      /\ h[4 + Len(bs)] = 57 /\ h[Len(h)] = SOH
      /\ \A i \in 3..(4 + Len(bs)) : h[i] # EQ
      /\ \A i \in 1..Len(d) : d[i] \in 48..57
  <2>1. d \in Octets /\ \A i \in 1..Len(d) : d[i] \in 48..57
    BY <1>1, DecimalInteger
  <2>2. bs \in Seq(Octet) /\ body \in Seq(Octet) /\ Len(bs) \in Nat
    BY <1>1 DEF Octets
  <2>. HIDE DEF body
  <2>3. /\ h \in Seq(Octet) /\ Len(h) = 6 + Len(bs) + Len(d) /\ Len(d) \in Nat
        /\ \A i \in 1..Len(d) : h[5 + Len(bs) + i] = d[i]
        /\ h[4 + Len(bs)] = 57 /\ h[Len(h)] = SOH
        /\ \A i \in 3..(4 + Len(bs)) : h[i] # EQ
    <3>1. HeadingParts(bs, body)
      BY <1>1, <2>2, HeadingIs
    <3>. QED BY <3>1, Zenon DEF HeadingParts
  <2>. QED BY <2>1, <2>2, <2>3 DEF Octets
<1>. HIDE DEF body, h, p35, p10, frame, d
<1>4. /\ message \o p10 \in Octets /\ rest \in Octets /\ rest = body \o p10
      /\ frame \in Octets
  <2>1. message \o p10 \in Octets
    BY <1>1, OctetsConcat
  <2>2. (p35 \o message) \o p10 = p35 \o (message \o p10)
    BY <1>1, OctetsAssociative
  <2>3. rest \in Octets
    BY <1>1, <2>1, OctetsConcat
  <2>. HIDE DEF rest
  <2>4. h \in Octets
    BY <1>3
  <2>. QED BY <1>1, <2>1, <2>2, <2>3, <2>4, OctetsConcat DEF rest
<1>. HIDE DEF rest
<1>5. /\ Len(rest) \in Nat /\ Len(rest) >= 3 /\ rest[1] = 51 /\ rest[2] = 53 /\ rest[3] = EQ
  <2>1. /\ Len(rest) = Len(body) + Len(p10) /\ Len(p10) \in Nat
        /\ \A i \in 1..Len(body) : rest[i] = body[i]
    BY <1>1, <1>4, Joined DEF Octets
  <2>2. 1 \in 1..Len(body) /\ 2 \in 1..Len(body) /\ 3 \in 1..Len(body)
    BY <1>1, <1>2
  <2>. QED BY <1>1, <1>2, <2>1, <2>2
<1>6. /\ Len(frame) = Len(h) + Len(rest) /\ Len(h) \in Nat
      /\ \A i \in 1..Len(h) : frame[i] = h[i]
      /\ \A i \in 1..Len(rest) : frame[Len(h) + i] = rest[i]
  <2>1. h \in Seq(Octet) /\ rest \in Seq(Octet) /\ Len(h) \in Nat
    BY <1>3, <1>4 DEF Octets
  <2>2. /\ Len(h \o rest) = Len(h) + Len(rest)
        /\ \A i \in 1..Len(h) : (h \o rest)[i] = h[i]
        /\ \A i \in 1..Len(rest) : (h \o rest)[Len(h) + i] = rest[i]
    BY <2>1, Joined
  <2>3. frame = h \o rest
    BY <1>1 DEF rest
  <2>. QED BY <2>1, <2>2, <2>3
<1>7. /\ n \in 1..(Len(frame) - 2)
      /\ frame[n] = 51 /\ frame[n + 1] = 53 /\ frame[n + 2] = EQ
  <2>1. 1 \in 1..Len(rest) /\ 2 \in 1..Len(rest) /\ 3 \in 1..Len(rest)
    BY <1>5
  <2>2. frame[Len(h) + 1] = 51 /\ frame[Len(h) + 2] = 53 /\ frame[Len(h) + 3] = EQ
    BY <1>5, <1>6, <2>1
  <2>3. n + 1 = Len(h) + 2 /\ n + 2 = Len(h) + 3
    BY <1>6
  <2>. QED BY <1>5, <1>6, <2>2, <2>3
<1>8. ASSUME NEW i \in 1..(n - 1), frame[i] = 51, frame[i + 1] = 53 PROVE frame[i + 2] # EQ
  <2>1. i \in 1..Len(h) /\ Len(h) = 6 + Len(bs) + Len(d) /\ Len(d) \in Nat /\ Len(bs) \in Nat
    BY <1>3, <1>6
  <2>2. CASE i + 2 <= 4 + Len(bs)
    <3>1. i + 2 \in 3..(4 + Len(bs)) /\ i + 2 \in 1..Len(h)
      BY <2>1, <2>2
    <3>. QED BY <1>3, <1>6, <3>1
  <2>3. CASE i + 2 = 5 + Len(bs)
    <3>1. i + 1 = 4 + Len(bs) /\ i + 1 \in 1..Len(h)
      BY <2>1, <2>3
    <3>. QED BY <1>3, <1>6, <1>8, <3>1
  <2>4. CASE i + 2 > 5 + Len(bs) /\ i + 2 < Len(h)
    <3>. DEFINE k == (i + 2) - (5 + Len(bs))
    <3>1. k \in 1..Len(d) /\ i + 2 \in 1..Len(h) /\ 5 + Len(bs) + k = i + 2
      BY <2>1, <2>4
    <3>. HIDE DEF k
    <3>2. h[5 + Len(bs) + k] = d[k] /\ d[k] \in 48..57
      BY <1>3, <3>1
    <3>3. frame[i + 2] \in 48..57
      BY <1>6, <3>1, <3>2
    <3>. QED BY <3>3 DEF EQ
  <2>5. CASE i + 2 = Len(h)
    <3>1. i + 2 \in 1..Len(h)
      BY <2>1, <2>5
    <3>. QED BY <1>3, <1>6, <2>5, <3>1, Separators
  <2>6. CASE i + 2 = Len(h) + 1
    BY <1>7, <2>6 DEF EQ
  <2>7. CASE i + 2 = Len(h) + 2
    <3>1. i + 2 = n + 1
      BY <2>1, <2>7
    <3>. HIDE DEF n
    <3>. QED BY <1>7, <3>1 DEF EQ
  <2>8. \/ i + 2 <= 4 + Len(bs) \/ i + 2 = 5 + Len(bs)
        \/ (i + 2 > 5 + Len(bs) /\ i + 2 < Len(h))
        \/ i + 2 = Len(h) \/ i + 2 = Len(h) + 1 \/ i + 2 = Len(h) + 2
    <3>. DEFINE p == Len(bs)
                q == Len(h)
                r == Len(d)
    <3>1. i \in 1..q /\ q = 6 + p + r /\ r \in Nat /\ p \in Nat
      BY <2>1
    <3>. HIDE DEF p, q, r
    <3>2. \/ i + 2 <= 4 + p \/ i + 2 = 5 + p \/ (i + 2 > 5 + p /\ i + 2 < q)
          \/ i + 2 = q \/ i + 2 = q + 1 \/ i + 2 = q + 2
      BY <3>1
    <3>. QED BY <3>2 DEF p, q
  <2>. QED BY <2>2, <2>3, <2>4, <2>5, <2>6, <2>7, <2>8
<1>9. TypePosition(frame) = n
  <2>. HIDE DEF n
  <2>. QED BY <1>4, <1>7, <1>8, TypeFirst
<1>10. From(frame, n - 1) = rest
  <2>1. n - 1 = Len(h)
    BY <1>6
  <2>2. From(h \o rest, Len(h)) = rest /\ frame = h \o rest
    <3>1. h \in Octets /\ rest \in Octets
      BY <1>3, <1>4
    <3>2. frame = h \o rest
      BY <1>1 DEF rest
    <3>. QED BY <3>1, <3>2, OctetsConcat
  <2>. QED BY <2>1, <2>2
<1>11. ValueOf(rest).text = type
  <2>. DEFINE r == message \o p10
  <2>1. r \in Octets /\ rest = (TagValue(MSG_TYPE_FIELD, type) \o <<SOH>>) \o r
    BY <1>4 DEF rest, p35, Framed
  <2>. HIDE DEF r
  <2>3. MSG_TYPE_FIELD \in Nat
    BY DEF MSG_TYPE_FIELD
  <2>4. ValueOf((TagValue(MSG_TYPE_FIELD, type) \o <<SOH>>) \o r) = [text |-> type, rest |-> r]
    BY <2>1, <2>3, ValueFound
  <2>. QED BY <2>1, <2>4
<1>12. TypeOf(frame) = type
  BY <1>9, <1>10, <1>11 DEF TypeOf
<1>. QED BY <1>12 DEF frame, body

-----------------------------------------------------------------------------
(* Fields of several makes behind one another *)

\* What the fields are written as, piece by piece.
Pieces(class, fields, w) ==
    /\ fields \in Fields /\ w \in Seq(Octets) /\ Len(w) = Len(fields)
    /\ \A i \in 1..Len(fields) :
          /\ fields[i].tag \in Indexed(class) /\ Tagged(w[i], fields[i].tag)
          /\ ReadsBehind(EntryOf(class, fields[i].tag), w[i], fields[i].value)
    /\ \A i, j \in 1..Len(fields) : fields[i].tag = fields[j].tag => i = j

\* The last of them in front of what stands behind.
LastReads(class, fields, w, end) ==
    LET n == Len(fields)
    IN  n # 0 => EntryOf(class, fields[n].tag).read[w[n] \o end] = Parsed(fields[n].value, end)

\* They are read back up to what ends the segment.
LEMMA PiecesReadBehind ==
    ASSUME NEW class, IsClass(class), NEW fields, NEW w, Pieces(class, fields, w),
           NEW end \in Octets, LastReads(class, fields, w, end), NEW p, EndsIn(class, fields, end, p)
    PROVE  /\ FieldsFromBytes(class, FlattenSeq(w) \o end) = p
           /\ FlattenSeq(w) \in Octets
<1>. DEFINE n == Len(fields)
            e(i) == EntryOf(class, fields[i].tag)
<1>1. Len(class) \in Nat /\ DOMAIN class = 1..Len(class)
  BY DEF IsClass
<1>2. /\ fields \in Fields /\ w \in Seq(Octets) /\ Len(w) = n
      /\ \A i \in 1..n : fields[i].tag \in Indexed(class) /\ Tagged(w[i], fields[i].tag)
      /\ \A i \in 1..n : ReadsBehind(e(i), w[i], fields[i].value)
      /\ \A i, j \in 1..n : fields[i].tag = fields[j].tag => i = j
  BY DEF Pieces
<1>3. n \in Nat
  BY <1>2, FieldsAre
<1>4. ASSUME NEW i \in 1..n, NEW r \in Octets, i < n, Tagged(r, fields[i + 1].tag)
      PROVE  e(i).read[w[i] \o r] = Parsed(fields[i].value, r)
  <2>1. i + 1 \in 1..n
    BY <1>3, <1>4
  <2>2. fields[i + 1].tag \in Indexed(class) /\ fields[i].tag \in Indexed(class)
    BY <1>2, <2>1
  <2>3. fields[i + 1].tag \in Nat /\ e(i).inner \intersect Indexed(class) = {}
    BY <2>2, EntryOfClass
  <2>4. r \in Behind(e(i).inner)
    BY <1>4, <2>2, <2>3 DEF Behind
  <2>. HIDE DEF e
  <2>. QED BY <1>2, <2>4 DEF ReadsBehind
<1>5. PiecesOfFields(class, fields, w, end)
  <2>1. \A i \in 1..Len(w) : \A r \in Octets :
            i < Len(w) /\ Tagged(r, fields[i + 1].tag) =>
              EntryOf(class, fields[i].tag).read[w[i] \o r] = Parsed(fields[i].value, r)
    BY <1>2, <1>4
  <2>2. Len(w) # 0 => EntryOf(class, fields[Len(w)].tag).read[w[Len(w)] \o end] = Parsed(fields[Len(w)].value, end)
    BY <1>2 DEF LastReads
  <2>. QED BY <1>2, <2>1, <2>2 DEF PiecesOfFields
<1>. QED BY <1>1, <1>5, PiecesRead

\* A field behind the pieces, that no group in them takes.
LEMMA PiecesFollowed ==
    ASSUME NEW class, IsClass(class), NEW fields, NEW w, Pieces(class, fields, w),
           NEW rest, Follows(class, fields, rest)
    PROVE  /\ FieldsFromBytes(class, FlattenSeq(w) \o rest) = Parsed(fields, rest)
           /\ FlattenSeq(w) \in Octets
<1>1. PICK tag \in Nat : /\ Tagged(rest, tag)
                         /\ \A i \in DOMAIN class : tag \notin class[i].inner
                         /\ tag \in Tags(fields) \/ tag \notin Indexed(class)
  BY DEF Follows
<1>2. rest \in Octets
  BY <1>1, TaggedIs
<1>3. EndsIn(class, fields, rest, Parsed(fields, rest))
  BY <1>1, StopsThere DEF Stops
<1>4. LastReads(class, fields, w, rest)
  <2>. DEFINE n == Len(fields)
              e == EntryOf(class, fields[n].tag)
  <2>. SUFFICES ASSUME n # 0 PROVE e.read[w[n] \o rest] = Parsed(fields[n].value, rest)
    BY DEF LastReads
  <2>1. n \in 1..n
    <3>1. n \in Nat
      BY FieldsAre DEF Pieces
    <3>. QED BY <3>1
  <2>2. fields[n].tag \in Indexed(class) /\ ReadsBehind(e, w[n], fields[n].value)
    BY <2>1 DEF Pieces
  <2>3. PICK j \in 1..Len(class) : e = class[j] /\ j \in DOMAIN class
    BY <2>2, EntryIs DEF IsClass
  <2>4. rest \in Behind(e.inner)
    BY <1>1, <1>2, <2>3 DEF Behind
  <2>. HIDE DEF e
  <2>. QED BY <2>2, <2>4 DEF ReadsBehind
<1>. QED BY <1>2, <1>3, <1>4, PiecesReadBehind

\* The elements of two sequences behind one another.
Consists(u, s, t) ==
    /\ Len(u) = Len(s) + Len(t)
    /\ \A i \in 1..Len(s) : u[i] = s[i]
    /\ \A i \in 1..Len(t) : u[Len(s) + i] = t[i]

\* Two sequences are concatenated to that.
LEMMA Concatenated ==
    ASSUME NEW S, NEW s \in Seq(S), NEW t \in Seq(S)
    PROVE  s \o t \in Seq(S) /\ Consists(s \o t, s, t)
<1>. DEFINE u == s \o t
            m == Len(s)
            n == Len(t)
<1>1. u \in Seq(S) /\ Len(u) = m + n
  BY ConcatProperties
<1>2. \A i \in 1..(m + n) : u[i] = IF i <= m THEN s[i] ELSE t[i - m]
  BY ConcatProperties
<1>3. m \in Nat /\ n \in Nat
  OBVIOUS
<1>. HIDE DEF u, m, n
<1>4. \A i \in 1..m : u[i] = s[i]
  <2>1. \A i \in 1..m : i \in 1..(m + n) /\ i <= m
    BY <1>3
  <2>. QED BY <1>2, <2>1
<1>5. ASSUME NEW i \in 1..n PROVE u[m + i] = t[i]
  <2>1. m + i \in 1..(m + n) /\ ~(m + i <= m) /\ (m + i) - m = i
    BY <1>3
  <2>. QED BY <1>2, <2>1
<1>6. Consists(u, s, t)
  BY <1>1, <1>4, <1>5 DEF Consists, m, n
<1>. QED BY <1>1, <1>6 DEF u

\* Fields of different tags.
NoCommonTag(fs, gs) == Tags(fs) \intersect Tags(gs) = {}

\* The pieces of some fields, and behind them those of others.
PiecesOfBoth(class, fs, v, gs, w) ==
    Pieces(class, fs \o gs, v \o w) /\ FlattenSeq(v \o w) = FlattenSeq(v) \o FlattenSeq(w)

\* They can be joined where no tag repeats.
LEMMA PiecesJoined ==
    ASSUME NEW class, NEW fs, NEW v, Pieces(class, fs, v), NEW gs, NEW w, Pieces(class, gs, w),
           NoCommonTag(fs, gs)
    PROVE  PiecesOfBoth(class, fs, v, gs, w)
<1>. DEFINE m == Len(fs)
            n == Len(gs)
            hs == fs \o gs
            x == v \o w
            F == [tag : Nat, value : FieldValue]
<1>1. /\ fs \in Fields /\ v \in Seq(Octets) /\ Len(v) = m
      /\ \A i \in 1..m : /\ fs[i].tag \in Indexed(class) /\ Tagged(v[i], fs[i].tag)
                         /\ ReadsBehind(EntryOf(class, fs[i].tag), v[i], fs[i].value)
      /\ \A i, j \in 1..m : fs[i].tag = fs[j].tag => i = j
  BY DEF Pieces
<1>2. /\ gs \in Fields /\ w \in Seq(Octets) /\ Len(w) = n
      /\ \A i \in 1..n : /\ gs[i].tag \in Indexed(class) /\ Tagged(w[i], gs[i].tag)
                         /\ ReadsBehind(EntryOf(class, gs[i].tag), w[i], gs[i].value)
      /\ \A i, j \in 1..n : gs[i].tag = gs[j].tag => i = j
  BY DEF Pieces
<1>3. m \in Nat /\ n \in Nat /\ DOMAIN fs = 1..m /\ DOMAIN gs = 1..n
  BY <1>1, <1>2, FieldsAre
<1>4. /\ hs \in Fields /\ Len(hs) = m + n
      /\ \A i \in 1..m : hs[i] = fs[i]
      /\ \A i \in 1..n : hs[m + i] = gs[i]
  <2>. HIDE DEF F
  <2>1. fs \in Seq(F) /\ gs \in Seq(F)
    BY <1>1, <1>2 DEF Fields, F
  <2>2. hs \in Seq(F)
    BY <2>1, ConcatProperties
  <2>3. Len(hs) = m + n /\ (\A i \in 1..m : hs[i] = fs[i]) /\ (\A i \in 1..n : hs[m + i] = gs[i])
    <3>1. Consists(hs, fs, gs)
      BY <2>1, Concatenated
    <3>. QED BY <1>3, <3>1 DEF Consists
  <2>. QED BY <2>2, <2>3 DEF Fields, F
<1>5. /\ x \in Seq(Octets) /\ Len(x) = m + n
      /\ \A i \in 1..m : x[i] = v[i]
      /\ \A i \in 1..n : x[m + i] = w[i]
  <2>0. v \in Seq(Octets) /\ w \in Seq(Octets)
    BY <1>1, <1>2
  <2>1. x \in Seq(Octets)
    BY <2>0, ConcatProperties
  <2>2. /\ Len(x) = Len(v) + Len(w)
        /\ \A i \in 1..Len(v) : x[i] = v[i]
        /\ \A i \in 1..Len(w) : x[Len(v) + i] = w[i]
    <3>1. Consists(x, v, w)
      BY <2>0, Concatenated
    <3>. HIDE DEF x
    <3>. QED BY <3>1 DEF Consists
  <2>. HIDE DEF m, n, x
  <2>. QED BY <1>1, <1>2, <2>1, <2>2
<1>. HIDE DEF hs, x
<1>6. ASSUME NEW i \in 1..(m + n)
      PROVE  i \in 1..m \/ (i - m \in 1..n /\ m + (i - m) = i)
  BY <1>3
<1>7. ASSUME NEW i \in 1..(m + n)
      PROVE  /\ hs[i].tag \in Indexed(class) /\ Tagged(x[i], hs[i].tag)
             /\ ReadsBehind(EntryOf(class, hs[i].tag), x[i], hs[i].value)
  <2>1. CASE i \in 1..m
    <3>1. hs[i] = fs[i] /\ x[i] = v[i]
      BY <1>4, <1>5, <2>1
    <3>. QED BY <1>1, <2>1, <3>1
  <2>2. CASE i - m \in 1..n /\ m + (i - m) = i
    <3>. DEFINE k == i - m
    <3>1. k \in 1..n /\ m + k = i
      BY <2>2
    <3>. HIDE DEF k
    <3>2. hs[i] = gs[k] /\ x[i] = w[k]
      BY <1>4, <1>5, <3>1
    <3>. QED BY <1>2, <3>1, <3>2
  <2>. QED BY <1>6, <2>1, <2>2
<1>8. \A i \in 1..m, j \in 1..n : fs[i].tag # gs[j].tag
  <2>1. \A i \in 1..m : fs[i].tag \in Tags(fs)
    BY <1>3 DEF Tags
  <2>2. \A i \in 1..n : gs[i].tag \in Tags(gs)
    BY <1>3 DEF Tags
  <2>. QED BY <2>1, <2>2 DEF NoCommonTag
<1>9. ASSUME NEW i \in 1..(m + n), NEW j \in 1..(m + n), hs[i].tag = hs[j].tag PROVE i = j
  <2>1. CASE i \in 1..m /\ j \in 1..m
    BY <1>1, <1>4, <1>9, <2>1
  <2>2. CASE i \in 1..m /\ (j - m \in 1..n /\ m + (j - m) = j)
    <3>. DEFINE k == j - m
    <3>1. k \in 1..n /\ m + k = j
      BY <2>2
    <3>. HIDE DEF k
    <3>. QED BY <1>4, <1>8, <1>9, <2>2, <3>1
  <2>3. CASE (i - m \in 1..n /\ m + (i - m) = i) /\ j \in 1..m
    <3>. DEFINE k == i - m
    <3>1. k \in 1..n /\ m + k = i
      BY <2>3
    <3>. HIDE DEF k
    <3>. QED BY <1>4, <1>8, <1>9, <2>3, <3>1
  <2>4. CASE (i - m \in 1..n /\ m + (i - m) = i) /\ (j - m \in 1..n /\ m + (j - m) = j)
    <3>. DEFINE k == i - m
                l == j - m
    <3>1. k \in 1..n /\ m + k = i /\ l \in 1..n /\ m + l = j
      BY <2>4
    <3>. HIDE DEF k, l
    <3>2. k = l
      BY <1>2, <1>4, <1>9, <3>1
    <3>. QED BY <3>1, <3>2
  <2>. QED BY <1>6, <2>1, <2>2, <2>3, <2>4
<1>10. Pieces(class, hs, x)
  BY <1>4, <1>5, <1>7, <1>9 DEF Pieces
<1>11. FlattenSeq(x) = FlattenSeq(v) \o FlattenSeq(w)
  BY <1>1, <1>2, FlattenConcat DEF x
<1>. QED BY <1>10, <1>11 DEF PiecesOfBoth, hs, x

\* A segment in pieces.
LEMMA SegmentPieces ==
    ASSUME NEW class, IsClass(class), NEW fields, NEW last \in BOOLEAN, Readable(class, fields, last)
    PROVE  \E w : Pieces(class, fields, w) /\ FlattenSeq(w) = SegmentText(class, fields)
<1>. DEFINE n == Len(fields)
            p == EndedParts(Texts(class, fields))
            e(i) == EntryOf(class, fields[i].tag)
<1>1. /\ fields \in Fields /\ n \in Nat
      /\ \A i \in 1..n : fields[i].tag \in Indexed(class)
      /\ \A i, j \in 1..n : fields[i].tag = fields[j].tag => i = j
  BY DistinctTags, FieldsAre
<1>2. CASE fields = <<>>
  <2>. DEFINE w == <<>>
  <2>1. w \in Seq(Octets) /\ Len(w) = n /\ n = 0
    BY <1>2
  <2>2. FlattenSeq(w) = SegmentText(class, fields)
    BY <1>2, FlattenNone DEF SegmentText
  <2>. HIDE DEF w
  <2>3. Pieces(class, fields, w)
    BY <1>1, <2>1 DEF Pieces
  <2>. QED BY <2>2, <2>3
<1>3. CASE fields # <<>>
  <2>1. p \in Seq(Octets) /\ Len(p) = n
    BY <1>3, PiecesOf
  <2>2. \A i \in 1..n : Tagged(p[i], fields[i].tag) /\ ReadsBehind(e(i), p[i], fields[i].value)
    BY <1>3, PiecesOf
  <2>3. FlattenSeq(p) = SegmentText(class, fields)
    BY <1>3, SegmentWrites DEF SegmentText
  <2>. HIDE DEF p
  <2>4. Pieces(class, fields, p)
    BY <1>1, <2>1, <2>2 DEF Pieces
  <2>. QED BY <2>3, <2>4
<1>. QED BY <1>2, <1>3

\* A class has the tag, as a field of the type.
HasField(class, tag, type) ==
    tag \in Indexed(class) /\ EntryOf(class, tag) \in OrMandatory({Field(tag, type)})

\* The last of some fields is the last of them behind others.
LEMMA LastBehind ==
    ASSUME NEW class, NEW fs \in Fields, NEW gs \in Fields, Len(gs) = 1, NEW v \in Seq(Octets),
           Len(v) = Len(fs), NEW w \in Seq(Octets), Len(w) = 1, NEW end, LastReads(class, gs, w, end)
    PROVE  LastReads(class, fs \o gs, v \o w, end)
<1>. DEFINE m == Len(fs)
            h == fs \o gs
            y == v \o w
<1>1. m \in Nat
  BY FieldsAre
<1>2. Consists(h, fs, gs) /\ Consists(y, v, w)
  <2>1. Consists(h, fs, gs)
    BY Concatenated DEF Fields
  <2>2. Consists(y, v, w)
    BY Concatenated
  <2>. QED BY <2>1, <2>2
<1>3. 1 \in 1..1
  OBVIOUS
<1>. HIDE DEF h, y
<1>4. Len(h) = m + 1 /\ h[m + 1] = gs[1]
  BY <1>2, <1>3 DEF Consists
<1>5. y[m + 1] = w[1]
  BY <1>2, <1>3 DEF Consists
<1>. HIDE DEF m
<1>6. EntryOf(class, gs[1].tag).read[w[1] \o end] = Parsed(gs[1].value, end)
  BY DEF LastReads
<1>7. LastReads(class, h, y, end)
  BY <1>4, <1>5, <1>6 DEF LastReads
<1>. QED BY <1>7 DEF h, y

\* A field of the framing is a piece, and read wherever it stands.
LEMMA FramingPiece ==
    ASSUME NEW class, NEW tag \in Nat, NEW type \in {FixBool, FixInt, FixString},
           HasField(class, tag, type), NEW v \in type.exact
    PROVE  LET fields == <<[tag |-> tag, value |-> v]>>
               w == <<Framed(tag, type.write[v])>>
           IN  /\ Pieces(class, fields, w) /\ FlattenSeq(w) = Framed(tag, type.write[v])
               /\ Tags(fields) = {tag}
               /\ \A end \in Octets : LastReads(class, fields, w, end)
<1>. DEFINE f == [tag |-> tag, value |-> v]
            fields == <<f>>
            e == EntryOf(class, tag)
            p == Framed(tag, type.write[v])
            w == <<p>>
<1>1. IsType(type) /\ v \in FieldValue
  BY TypesRead DEF IsType
<1>2. e.read = Field(tag, type).read
  <2>. DEFINE g == Field(tag, type)
  <2>1. Mandatory(g).read = g.read
    BY DEF Mandatory, Field
  <2>2. e = g \/ e = Mandatory(g)
    BY DEF HasField, OrMandatory
  <2>. HIDE DEF g, e
  <2>. QED BY <2>1, <2>2 DEF g
<1>3. ASSUME NEW rest \in Octets PROVE e.read[p \o rest] = Parsed(v, rest)
  <2>. DEFINE g == Field(tag, type)
              x == g.write[v]
  <2>1. x = TagValue(tag, type.write[v]) /\ Ended(x) = x \o <<SOH>> /\ g.read[Ended(x) \o rest] = Parsed(v, rest)
    BY <1>1, FieldReads
  <2>2. p = x \o <<SOH>>
    BY <2>1 DEF Framed
  <2>. HIDE DEF x, p, e
  <2>. QED BY <1>2, <2>1, <2>2
<1>4. p \in Octets /\ Tagged(p, tag)
  <2>1. type.write[v] \in Octets
    BY <1>1 DEF IsType
  <2>2. Tagged(TagValue(tag, type.write[v]), tag)
    BY <2>1 DEF Tagged
  <2>3. Tagged(p, tag)
    BY <2>2, TaggedMore, Separators, OneByte DEF Framed, Octets
  <2>. QED BY <2>3, TaggedIs
<1>5. ReadsBehind(e, p, v)
  BY <1>3, BehindIsOctets DEF ReadsBehind
<1>6. f \in [tag : Nat, value : FieldValue] /\ f.tag = tag /\ f.value = v
  BY <1>1
<1>. HIDE DEF f, p, e
<1>7. /\ fields \in Fields /\ Len(fields) = 1 /\ fields[1] = f /\ DOMAIN fields = 1..1
      /\ w \in Seq(Octets) /\ Len(w) = 1 /\ w[1] = p
  BY <1>4, <1>6 DEF Fields
<1>8. FlattenSeq(w) = p
  BY <1>4, FlattenOne
<1>. HIDE DEF fields, w
<1>9. Pieces(class, fields, w)
  <2>1. \A i \in 1..1 : i = 1
    OBVIOUS
  <2>2. tag \in Indexed(class)
    BY DEF HasField
  <2>. QED BY <1>4, <1>5, <1>6, <1>7, <2>1, <2>2 DEF Pieces, e
<1>10. Tags(fields) = {tag}
  <2>1. \A i \in 1..1 : i = 1
    OBVIOUS
  <2>2. 1 \in 1..1
    OBVIOUS
  <2>. QED BY <1>6, <1>7, <2>1, <2>2 DEF Tags
<1>11. \A end \in Octets : LastReads(class, fields, w, end)
  BY <1>3, <1>6, <1>7 DEF LastReads, e
<1>. QED BY <1>8, <1>9, <1>10, <1>11 DEF fields, w, f, p

\* Three texts behind one another, however they are put together.
SameGrouping(s, t, u) == (s \o t) \o u = s \o (t \o u)

\* They come to the same.
LEMMA OctetsGrouped == \A s, t, u \in Octets : SameGrouping(s, t, u)
BY OctetsAssociative DEF SameGrouping

\* The order of the bytes does not depend on how they are grouped.
RegroupedIs(a, b, c, d, e, f) ==
    a \o (b \o (((c \o d) \o e) \o f)) = ((a \o b) \o c) \o (d \o (e \o f))

\* The parts of a frame, from the way they are written to the way they are read.
LEMMA Regrouped ==
    ASSUME NEW a \in Octets, NEW b \in Octets, NEW c \in Octets, NEW d \in Octets,
           NEW e \in Octets, NEW f \in Octets
    PROVE  RegroupedIs(a, b, c, d, e, f)
<1>. DEFINE ef == e \o f
            def == d \o ef
            cd == c \o d
            bc == b \o c
<1>1. ef \in Octets /\ cd \in Octets /\ bc \in Octets
  BY OctetsConcat
<1>2. def \in Octets
  <2>. HIDE DEF ef
  <2>. QED BY <1>1, OctetsConcat
<1>. HIDE DEF ef, def, cd, bc
<1>3. SameGrouping(cd, e, f) /\ SameGrouping(c, d, ef) /\ SameGrouping(b, c, def) /\ SameGrouping(a, bc, def)
      /\ SameGrouping(a, b, c)
  BY <1>1, <1>2, OctetsGrouped
<1>4. ((c \o d) \o e) \o f = c \o def
  <2>1. (cd \o e) \o f = cd \o ef
    BY <1>3 DEF SameGrouping, ef
  <2>2. (c \o d) \o ef = c \o (d \o ef)
    BY <1>3 DEF SameGrouping
  <2>. QED BY <2>1, <2>2 DEF def, cd
<1>5. b \o (c \o def) = bc \o def
  BY <1>3 DEF SameGrouping, bc
<1>6. a \o (bc \o def) = (a \o bc) \o def
  BY <1>3 DEF SameGrouping
<1>7. a \o bc = (a \o b) \o c
  BY <1>3 DEF SameGrouping, bc
<1>8. a \o (b \o (((c \o d) \o e) \o f)) = ((a \o b) \o c) \o def
  BY <1>4, <1>5, <1>6, <1>7
<1>. QED BY <1>8 DEF def, ef, RegroupedIs

\* The bytes begin with a field of one of the tags.
Ahead(bytes, tags) == \E tag \in tags : tag \in Nat /\ Tagged(bytes, tag)

\* A segment in front of such bytes begins with a field of its own, or is empty.
LEMMA SegmentAhead ==
    ASSUME NEW class, IsClass(class), NEW fields, NEW last \in BOOLEAN, Readable(class, fields, last),
           NEW rest, NEW tags, Ahead(rest, tags)
    PROVE  /\ Ahead(SegmentText(class, fields) \o rest, tags \union Indexed(class))
           /\ rest \in Octets
<1>1. PICK tag \in tags : tag \in Nat /\ Tagged(rest, tag)
  BY DEF Ahead
<1>2. rest \in Octets
  BY <1>1, TaggedIs
<1>3. CASE fields = <<>>
  <2>1. SegmentText(class, fields) \o rest = rest
    BY <1>2, <1>3, ConcatEmptySeq DEF SegmentText, Octets
  <2>. QED BY <1>1, <1>2, <2>1 DEF Ahead
<1>4. CASE fields # <<>>
  <2>1. /\ Tagged(SegmentText(class, fields) \o rest, fields[1].tag)
        /\ fields[1].tag \in Indexed(class) /\ fields[1].tag \in Nat
    BY <1>2, <1>4, SegmentTextTagged
  <2>. QED BY <1>2, <2>1 DEF Ahead
<1>. QED BY <1>3, <1>4

\* Bytes that begin with a tag the segment does not know come behind it.
LEMMA FollowsApart ==
    ASSUME NEW class, NEW fields, NEW rest, NEW tags, Ahead(rest, tags), AllTags(class) \intersect tags = {}
    PROVE  Follows(class, fields, rest)
<1>1. PICK tag \in tags : tag \in Nat /\ Tagged(rest, tag)
  BY DEF Ahead
<1>2. tag \notin AllTags(class)
  BY <1>1
<1>3. tag \notin Indexed(class) /\ \A i \in DOMAIN class : tag \notin class[i].inner
  BY <1>2 DEF AllTags
<1>. QED BY <1>1, <1>3 DEF Follows

\* The three segments, with what is in front and behind.
SegmentsRead(classes, s, front, p, back, q) ==
    LET t(i) == SegmentText(classes[i], s[i])
    IN  /\ FieldsFromBytes(classes[1], (p \o t(1)) \o (t(2) \o (t(3) \o q)))
             = Parsed(front \o s[1], t(2) \o (t(3) \o q))
        /\ FieldsFromBytes(classes[2], t(2) \o (t(3) \o q)) = Parsed(s[2], t(3) \o q)
        /\ FieldsFromBytes(classes[3], t(3) \o q) = Parsed(s[3] \o back, <<>>)

\* Each of the three segments is read from what the one before it left, the
\* fields of the framing with the first and the last.
LEMMA SegmentsReadBack ==
    ASSUME NEW classes, \A i \in 1..3 : IsClass(classes[i]),
           AllTags(classes[1]) \intersect (Indexed(classes[2]) \union Indexed(classes[3])) = {},
           AllTags(classes[2]) \intersect Indexed(classes[3]) = {},
           NEW segs, \A i \in 1..3 : \E last \in BOOLEAN : Readable(classes[i], segs[i], last),
           NEW front, NEW fp, Pieces(classes[1], front, fp), NoCommonTag(front, segs[1]),
           NEW back, NEW bp, Pieces(classes[3], back, bp), NoCommonTag(segs[3], back),
           Len(back) = 1, LastReads(classes[3], back, bp, <<>>), Ahead(FlattenSeq(bp), Indexed(classes[3]))
    PROVE  SegmentsRead(classes, segs, front, FlattenSeq(fp), back, FlattenSeq(bp))
<1>. DEFINE t(i) == SegmentText(classes[i], segs[i])
            p == FlattenSeq(fp)
            q == FlattenSeq(bp)
            r3 == t(3) \o q
            r2 == t(2) \o r3
            tags3 == Indexed(classes[3])
            tags2 == Indexed(classes[2]) \union tags3
<1>0. 1 \in 1..3 /\ 2 \in 1..3 /\ 3 \in 1..3
  OBVIOUS
<1>1. PICK last1 \in BOOLEAN : Readable(classes[1], segs[1], last1)
  BY <1>0
<1>2. PICK last2 \in BOOLEAN : Readable(classes[2], segs[2], last2)
  BY <1>0
<1>3. PICK last3 \in BOOLEAN : Readable(classes[3], segs[3], last3)
  BY <1>0
<1>4. IsClass(classes[1]) /\ IsClass(classes[2]) /\ IsClass(classes[3])
  BY <1>0
<1>5. Ahead(q, tags3)
  OBVIOUS
<1>. HIDE DEF q, p
<1>6. Ahead(r3, tags3) /\ q \in Octets
  <2>1. Ahead(SegmentText(classes[3], segs[3]) \o q, tags3 \union Indexed(classes[3])) /\ q \in Octets
    BY <1>3, <1>4, <1>5, SegmentAhead
  <2>. QED BY <2>1 DEF Ahead
<1>. HIDE DEF r3
<1>7. Ahead(r2, tags2) /\ r3 \in Octets
  <2>1. Ahead(SegmentText(classes[2], segs[2]) \o r3, tags3 \union Indexed(classes[2])) /\ r3 \in Octets
    BY <1>2, <1>4, <1>6, SegmentAhead
  <2>. QED BY <2>1 DEF Ahead
<1>. HIDE DEF r2
<1>8. FieldsFromBytes(classes[1], (p \o t(1)) \o r2) = Parsed(front \o segs[1], r2)
  <2>. DEFINE c == classes[1]
              g == segs[1]
  <2>1. PICK x : Pieces(c, g, x) /\ FlattenSeq(x) = t(1)
    BY <1>1, <1>4, SegmentPieces
  <2>0. Pieces(c, front, fp) /\ NoCommonTag(front, g) /\ IsClass(c)
    BY <1>4
  <2>3. Follows(c, front \o g, r2)
    BY <1>7, FollowsApart
  <2>. HIDE DEF c, g, t
  <2>2. /\ Pieces(c, front \o g, fp \o x)
        /\ FlattenSeq(fp \o x) = FlattenSeq(fp) \o FlattenSeq(x)
    <3>1. PiecesOfBoth(c, front, fp, g, x)
      BY <2>0, <2>1, PiecesJoined
    <3>. QED BY <3>1 DEF PiecesOfBoth
  <2>. DEFINE h == front \o g
              y == fp \o x
  <2>4. Pieces(c, h, y) /\ Follows(c, h, r2)
    BY <2>2, <2>3
  <2>. HIDE DEF h, y
  <2>5. FieldsFromBytes(c, FlattenSeq(y) \o r2) = Parsed(h, r2)
    BY <2>0, <2>4, PiecesFollowed
  <2>6. FlattenSeq(y) = p \o t(1)
    BY <2>1, <2>2 DEF y, p
  <2>. QED BY <2>5, <2>6 DEF c, g, h
<1>9. FieldsFromBytes(classes[2], t(2) \o r3) = Parsed(segs[2], r3)
  <2>1. Follows(classes[2], segs[2], r3)
    BY <1>6, FollowsApart
  <2>. QED BY <1>2, <1>4, <2>1, SegmentReads
<1>10. FieldsFromBytes(classes[3], t(3) \o q) = Parsed(segs[3] \o back, <<>>)
  <2>. DEFINE c == classes[3]
              g == segs[3]
              m == Len(g)
              none == <<>>
  <2>1. PICK x : Pieces(c, g, x) /\ FlattenSeq(x) = t(3)
    BY <1>3, <1>4, SegmentPieces
  <2>2. /\ Pieces(c, back, bp) /\ NoCommonTag(g, back) /\ IsClass(c)
        /\ Len(back) = 1 /\ LastReads(c, back, bp, none)
    BY <1>4
  <2>3. none \in Octets /\ \A h : EndsIn(c, h, none, Parsed(h, none))
    BY StopsThere DEF Stops, Octets
  <2>. HIDE DEF c, g, t
  <2>4. g \in Fields /\ back \in Fields /\ x \in Seq(Octets) /\ Len(x) = m /\ bp \in Seq(Octets) /\ Len(bp) = 1
    BY <2>1, <2>2 DEF Pieces
  <2>. DEFINE h == g \o back
              y == x \o bp
  <2>5. Pieces(c, h, y) /\ FlattenSeq(y) = FlattenSeq(x) \o FlattenSeq(bp)
    <3>1. PiecesOfBoth(c, g, x, back, bp)
      <4>1. Pieces(c, g, x) /\ Pieces(c, back, bp) /\ NoCommonTag(g, back)
        BY <2>1, <2>2
      <4>. QED BY <4>1, PiecesJoined
    <3>. QED BY <3>1 DEF PiecesOfBoth
  <2>. HIDE DEF none
  <2>7. LastReads(c, h, y, none)
    BY <2>2, <2>4, LastBehind DEF m
  <2>. HIDE DEF h, y, m
  <2>8. FieldsFromBytes(c, FlattenSeq(y) \o none) = Parsed(h, none) /\ FlattenSeq(y) \in Octets
    BY <2>2, <2>3, <2>5, <2>7, PiecesReadBehind
  <2>9. FlattenSeq(y) \o none = FlattenSeq(y)
    BY <2>8, ConcatEmptySeq DEF none, Octets
  <2>. QED BY <2>1, <2>5, <2>8, <2>9 DEF none, h, c, g, q
<1>. HIDE DEF t
<1>11. /\ FieldsFromBytes(classes[1], (p \o t(1)) \o (t(2) \o (t(3) \o q))) = Parsed(front \o segs[1], t(2) \o (t(3) \o q))
       /\ FieldsFromBytes(classes[2], t(2) \o (t(3) \o q)) = Parsed(segs[2], t(3) \o q)
  BY <1>8, <1>9 DEF r2, r3
<1>. QED BY <1>10, <1>11 DEF SegmentsRead, t, p, q

\* A checksum consists of digits.
LEMMA ChecksumDigits ==
    ASSUME NEW bytes \in Octets
    PROVE  Checksum(bytes) \in Octets /\ \A i \in 1..Len(Checksum(bytes)) : Checksum(bytes)[i] \in 48..57
<1>. DEFINE n == Total(bytes) % 256
            digits == Decimal(n)
            k == 3 - Len(digits)
            zeros == [i \in 1..k |-> 48]
<1>1. Checksum(bytes) \in Octets
  BY ChecksumType DEF Octets
<1>2. n \in Nat /\ n < 1000
  <2>1. Len(bytes) \in Nat /\ \A i \in 1..Len(bytes) : bytes[i] \in Nat /\ bytes[i] >= 0
    <3>1. \A o \in Octet : o \in Nat /\ o >= 0
      BY DEF Octet
    <3>2. Len(bytes) \in Nat /\ \A i \in 1..Len(bytes) : bytes[i] \in Octet
      BY DEF Octets
    <3>. QED BY <3>1, <3>2, Zenon
  <2>2. Total(bytes) \in Nat
    BY <2>1, PositionalType DEF Total
  <2>. QED BY <2>2
<1>. HIDE DEF n
<1>3. digits \in Seq(48..57) /\ Len(digits) \in 1..3
  BY <1>2, DecimalType, DecimalShort
<1>4. Checksum(bytes) = zeros \o digits
  BY DEF Checksum, n
<1>. HIDE DEF digits
<1>5. k \in Nat
  <2>1. \A j \in 1..3 : 3 - j \in Nat
    OBVIOUS
  <2>. QED BY <1>3, <2>1
<1>. HIDE DEF k
<1>6. zeros \in Seq(48..57)
  <2>1. 48 \in 48..57
    OBVIOUS
  <2>. QED BY <1>5, <2>1
<1>. HIDE DEF zeros
<1>7. zeros \o digits \in Seq(48..57)
  BY <1>3, <1>6, ConcatProperties
<1>. QED BY <1>1, <1>4, <1>7

\* Digits are a text that comes back.
LEMMA DigitsAreText ==
    ASSUME NEW v \in FieldValue, v \in Octets, \A i \in 1..Len(v) : v[i] \in 48..57
    PROVE  v \in FixString.exact
<1>1. Ascii(v)
  <2>1. DOMAIN v = 1..Len(v) /\ 48..57 \subseteq 0..127
    BY DEF Octets
  <2>. QED BY <2>1 DEF Ascii
<1>2. SOH \notin Range(v)
  BY DEF Range, Octets, SOH
<1>. QED BY <1>1, <1>2 DEF FixString

\* The classes of a message's segments: fields of the known types and groups of
\* them, that can be told apart, and among them the fields of the framing.
FixClasses(classes) ==
    /\ \E n \in Nat : \A i \in 1..3 : classes[i] \in Seq(EntriesOfDepth(n))
    /\ \A i \in 1..3 : Unambiguous(classes[i])
    /\ Apart(classes)
    /\ HasField(classes[1], BEGIN_STRING_FIELD, FixString) /\ HasField(classes[1], BODY_LEN_FIELD, FixInt)
    /\ HasField(classes[1], MSG_TYPE_FIELD, FixString) /\ HasField(classes[3], CHECKSUM_FIELD, FixString)

\* They are classes whose entries read what they wrote, and no segment takes a
\* field of one behind it.
LEMMA FixClassesAre ==
    ASSUME NEW dictionary, NEW type, FixClasses(Classes(dictionary, type))
    PROVE  LET classes == Classes(dictionary, type)
           IN  /\ \A i \in 1..3 : IsClass(classes[i])
               /\ AllTags(classes[1]) \intersect (Indexed(classes[2]) \union Indexed(classes[3])) = {}
               /\ AllTags(classes[2]) \intersect Indexed(classes[3]) = {}
<1>. DEFINE classes == Classes(dictionary, type)
<1>1. PICK n \in Nat : \A i \in 1..3 : classes[i] \in Seq(EntriesOfDepth(n))
  BY DEF FixClasses
<1>2. DOMAIN classes = 1..3
  BY DEF Classes
<1>3. (\A i \in 1..3 : Unambiguous(classes[i])) /\ Apart(classes)
  BY DEF FixClasses
<1>. HIDE DEF classes
<1>4. \A i \in 1..3 : IsClass(classes[i])
  <2>1. \A e \in EntriesOfDepth(n) : IsEntry(e)
    BY EveryEntryReadsBack
  <2>. QED BY <1>1, <1>3, <2>1, ClassIs
<1>5. \A i, j \in 1..3 : i < j => AllTags(classes[i]) \intersect Indexed(classes[j]) = {}
  BY <1>2, <1>3 DEF Apart
<1>6. /\ AllTags(classes[1]) \intersect Indexed(classes[2]) = {}
      /\ AllTags(classes[1]) \intersect Indexed(classes[3]) = {}
      /\ AllTags(classes[2]) \intersect Indexed(classes[3]) = {}
  <2>1. 1 \in 1..3 /\ 2 \in 1..3 /\ 3 \in 1..3 /\ 1 < 2 /\ 1 < 3 /\ 2 < 3
    OBVIOUS
  <2>. QED BY <1>5, <2>1
<1>7. AllTags(classes[1]) \intersect (Indexed(classes[2]) \union Indexed(classes[3])) = {}
  BY <1>6
<1>. QED BY <1>4, <1>6, <1>7 DEF classes

\* The fields of the framing, in front and behind, have values that come back.
FramingFits(m, bs) ==
    /\ bs \in FixString.exact /\ EQ \notin Range(bs)
    /\ m.type \in FixString.exact
    /\ <<Len(FixBody(m))>> \in FieldValue
    /\ Checksum(Heading(FixBody(m), bs) \o FixBody(m)) \in FieldValue

FramingField(tag, value) == [tag |-> tag, value |-> value]
FramingFront(bs, body, type) ==
    <<FramingField(BEGIN_STRING_FIELD, bs), FramingField(BODY_LEN_FIELD, <<Len(body)>>),
      FramingField(MSG_TYPE_FIELD, type)>>

\* The fields in front, piece by piece.
LEMMA FrontPieces ==
    ASSUME NEW class, HasField(class, BEGIN_STRING_FIELD, FixString), HasField(class, BODY_LEN_FIELD, FixInt),
           HasField(class, MSG_TYPE_FIELD, FixString),
           NEW bs \in FixString.exact, NEW type \in FixString.exact,
           NEW body \in Octets, <<Len(body)>> \in FieldValue
    PROVE  /\ Tags(FramingFront(bs, body, type)) = {BEGIN_STRING_FIELD, BODY_LEN_FIELD, MSG_TYPE_FIELD}
           /\ \E v : /\ Pieces(class, FramingFront(bs, body, type), v)
                    /\ FlattenSeq(v) = (Framed(BEGIN_STRING_FIELD, bs) \o Framed(BODY_LEN_FIELD, Decimal(Len(body))))
                                         \o Framed(MSG_TYPE_FIELD, type)
                    /\ \A end \in Octets : LastReads(class, FramingFront(bs, body, type), v, end)
<1>. DEFINE len == <<Len(body)>>
            f8 == <<FramingField(BEGIN_STRING_FIELD, bs)>>
            f9 == <<FramingField(BODY_LEN_FIELD, len)>>
            f35 == <<FramingField(MSG_TYPE_FIELD, type)>>
            p8 == Framed(BEGIN_STRING_FIELD, bs)
            p9 == Framed(BODY_LEN_FIELD, Decimal(Len(body)))
            p35 == Framed(MSG_TYPE_FIELD, type)
<1>1. BEGIN_STRING_FIELD \in Nat /\ BODY_LEN_FIELD \in Nat /\ MSG_TYPE_FIELD \in Nat
      /\ BEGIN_STRING_FIELD # BODY_LEN_FIELD /\ BEGIN_STRING_FIELD # MSG_TYPE_FIELD
      /\ BODY_LEN_FIELD # MSG_TYPE_FIELD
  BY DEF BEGIN_STRING_FIELD, BODY_LEN_FIELD, MSG_TYPE_FIELD
<1>2. FixString.write[bs] = bs /\ FixString.write[type] = type
  BY DEF FixString
<1>3. len \in FixInt.exact /\ FixInt.write[len] = Decimal(Len(body))
  <2>1. Len(body) \in Nat
    BY DEF Octets
  <2>2. len \in Seq(Int) /\ Len(len) = 1 /\ len[1] = Len(body) /\ len \in FieldValue
    BY <2>1
  <2>. HIDE DEF len
  <2>3. len \in FixInt.exact
    BY <2>2 DEF FixInt
  <2>4. FixInt.write[len] = Signed(len[1])
    BY <2>2 DEF FixInt
  <2>. QED BY <2>1, <2>2, <2>3, <2>4 DEF Signed
<1>4. Pieces(class, f8, <<p8>>) /\ FlattenSeq(<<p8>>) = p8 /\ Tags(f8) = {BEGIN_STRING_FIELD}
  BY <1>1, <1>2, FramingPiece DEF FramingField
<1>5. /\ Pieces(class, f35, <<p35>>) /\ FlattenSeq(<<p35>>) = p35 /\ Tags(f35) = {MSG_TYPE_FIELD}
      /\ \A end \in Octets : LastReads(class, f35, <<p35>>, end)
  BY <1>1, <1>2, FramingPiece DEF FramingField
<1>6. Pieces(class, f9, <<p9>>) /\ FlattenSeq(<<p9>>) = p9 /\ Tags(f9) = {BODY_LEN_FIELD}
  <2>. HIDE DEF len
  <2>. QED BY <1>1, <1>3, FramingPiece DEF FramingField
<1>7. FramingFront(bs, body, type) = (f8 \o f9) \o f35
  BY DEF FramingFront
<1>8. /\ Tags(f8 \o f9) = {BEGIN_STRING_FIELD, BODY_LEN_FIELD}
      /\ Tags((f8 \o f9) \o f35) = {BEGIN_STRING_FIELD, BODY_LEN_FIELD, MSG_TYPE_FIELD}
  BY DEF Tags, FramingField
<1>. DEFINE v8 == <<p8>>
            v9 == <<p9>>
            v35 == <<p35>>
<1>. HIDE DEF f8, f9, f35, v8, v9, v35
<1>9. PiecesOfBoth(class, f8, v8, f9, v9)
  BY <1>1, <1>4, <1>6, PiecesJoined DEF NoCommonTag, v8, v9
<1>. DEFINE fs == f8 \o f9
            vs == v8 \o v9
<1>10. Pieces(class, fs, vs) /\ FlattenSeq(vs) = p8 \o p9 /\ Tags(fs) = {BEGIN_STRING_FIELD, BODY_LEN_FIELD}
  BY <1>4, <1>6, <1>8, <1>9 DEF PiecesOfBoth, v8, v9
<1>. HIDE DEF fs, vs
<1>11. PiecesOfBoth(class, fs, vs, f35, v35)
  BY <1>1, <1>5, <1>10, PiecesJoined DEF NoCommonTag, v35
<1>12. Pieces(class, fs \o f35, vs \o v35) /\ FlattenSeq(vs \o v35) = (p8 \o p9) \o p35
  BY <1>5, <1>10, <1>11 DEF PiecesOfBoth, v35
<1>13. \A end \in Octets : LastReads(class, fs \o f35, vs \o v35, end)
  <2>1. /\ fs \in Fields /\ f35 \in Fields /\ vs \in Seq(Octets) /\ v35 \in Seq(Octets)
        /\ Len(vs) = Len(fs) /\ Len(v35) = Len(f35) /\ Len(v35) = 1
    BY <1>5, <1>10 DEF Pieces, v35
  <2>. QED BY <1>5, <2>1, LastBehind DEF v35
<1>. QED BY <1>7, <1>8, <1>12, <1>13 DEF fs

-----------------------------------------------------------------------------
(* What can be read at all *)

\* Whatever an entry reads, it leaves bytes; and what some bytes are read as.
LeavesBytes(e) == \A b \in Octets : e.read[b].ok => e.read[b].rest \in Octets
CanBeRead(e, v) == \E b \in Octets : e.read[b].ok /\ e.read[b].value = v

\* The fields that some bytes can be read as: of the class, each set once, and
\* with values that can be read.
CanBeFields(class, fields) ==
    /\ \A i \in DOMAIN fields :
         fields[i].tag \in Indexed(class) /\ CanBeRead(EntryOf(class, fields[i].tag), fields[i].value)
    /\ \A i, j \in DOMAIN fields : fields[i].tag = fields[j].tag => i = j

\* A part of some bytes is bytes, and consists of theirs.
LEMMA PartOfOctets ==
    ASSUME NEW s \in Octets, NEW from \in Nat \ {0}, NEW to \in Nat, to <= Len(s)
    PROVE  LET t == SubSeq(s, from, to)
           IN  t \in Octets /\ \A i \in DOMAIN t : \E j \in from..to : t[i] = s[j]
<1>. DEFINE t == SubSeq(s, from, to)
<1>1. \A i \in from..to : s[i] \in Octet
  BY DEF Octets
<1>2. /\ t \in Seq(Octet) /\ Len(t) = (IF from <= to THEN to - from + 1 ELSE 0)
      /\ \A i \in 1..(to - from + 1) : t[i] = s[from + i - 1]
  BY <1>1, SubSeqProperties
<1>. HIDE DEF t
<1>3. ASSUME NEW i \in DOMAIN t PROVE \E j \in from..to : t[i] = s[j]
  <2>1. i \in 1..Len(t) /\ i \in 1..(to - from + 1)
    BY <1>2
  <2>2. from + i - 1 \in from..to
    BY <2>1
  <2>. QED BY <1>2, <2>1, <2>2
<1>. QED BY <1>2, <1>3 DEF t, Octets

\* The text of a value has no separator, whatever the bytes are.
LEMMA ValueOfBytes ==
    ASSUME NEW b \in Octets
    PROVE  /\ ValueOf(b).text \in Octets /\ ValueOf(b).rest \in Octets
           /\ SOH \notin Range(ValueOf(b).text)
<1>. DEFINE soh == Find(b, SOH, 1)
            end == IF soh = 0 THEN Len(b) + 1 ELSE soh
            from == Find(b, EQ, 1) + 1
<1>1. Len(b) \in Nat /\ 1 \in Nat
  BY DEF Octets
<1>2. \/ soh = 0 /\ \A i \in 1..Len(b) : b[i] # SOH
      \/ soh \in 1..Len(b) /\ \A i \in 1..(soh - 1) : b[i] # SOH
  BY <1>1, FindFirst
<1>3. Find(b, EQ, 1) = 0 \/ Find(b, EQ, 1) \in 1..Len(b)
  BY <1>1, FindFirst
<1>. HIDE DEF soh
<1>4. end \in 1..(Len(b) + 1) /\ end - 1 \in Nat /\ end - 1 <= Len(b) /\ \A i \in 1..(end - 1) : b[i] # SOH
  BY <1>1, <1>2
<1>5. from \in Nat \ {0} /\ end + 1 \in Nat \ {0}
  BY <1>1, <1>3, <1>4
<1>6. ValueOf(b) = [text |-> SubSeq(b, from, end - 1), rest |-> SubSeq(b, end + 1, Len(b))]
  BY DEF ValueOf, From, soh
<1>. HIDE DEF end, from
<1>. DEFINE text == SubSeq(b, from, end - 1)
            rest == SubSeq(b, end + 1, Len(b))
<1>7. text \in Octets /\ \A i \in DOMAIN text : \E j \in from..(end - 1) : text[i] = b[j]
  BY <1>4, <1>5, PartOfOctets
<1>8. rest \in Octets
  BY <1>1, <1>5, PartOfOctets
<1>. HIDE DEF text, rest
<1>9. \A i \in DOMAIN text : text[i] # SOH
  <2>1. \A j \in from..(end - 1) : j \in 1..(end - 1)
    BY <1>4, <1>5
  <2>. QED BY <1>4, <1>7, <2>1
<1>10. ValueOf(b) = [text |-> text, rest |-> rest]
  BY <1>6 DEF text, rest
<1>. QED BY <1>7, <1>8, <1>9, <1>10 DEF Range

\* What is taken for a number is one.
LEMMA IntegerType ==
    ASSUME NEW s \in Octets, IsInteger(s)
    PROVE  Integer(s) \in Int
<1>1. CASE s[1] = MINUS
  <2>1. ~IsNumber(s)
    <3>. SUFFICES ASSUME IsNumber(s) PROVE FALSE
      OBVIOUS
    <3>1. 1 \in DOMAIN s
      BY DEF IsNumber, Octets
    <3>. QED BY <1>1, <3>1 DEF IsNumber, MINUS
  <2>2. IsNumber(Tail(s)) /\ s # <<>>
    BY <2>1 DEF IsInteger
  <2>3. Tail(s) \in Seq(Octet)
    BY <2>2 DEF Octets
  <2>4. Number(Tail(s)) \in Nat
    BY <2>2, <2>3, NumberType
  <2>. QED BY <1>1, <2>4 DEF Integer
<1>2. CASE s[1] # MINUS
  <2>1. Number(s) \in Nat
    BY <1>2, NumberType DEF IsInteger, Octets
  <2>. QED BY <1>2, <2>1 DEF Integer
<1>. QED BY <1>1, <1>2

\* Only values that come back are read from any bytes at all.
LEMMA TypeReadsExact ==
    ASSUME NEW type \in {FixBool, FixInt, FixString}, NEW v \in FieldValue,
           NEW text \in Octets, SOH \notin Range(text), type.read[text].ok, type.read[text].value = v
    PROVE  v \in type.exact
<1>. DEFINE p == type.read[text]
<1>1. \A x, r : Parsed(x, r).value = x
  BY DEF Parsed
<1>2. CASE type = FixBool
  <2>1. p = Parsed(IF text = <<89>> THEN TrueValue ELSE FalseValue, <<>>)
    BY <1>2 DEF FixBool
  <2>2. v = TrueValue \/ v = FalseValue
    BY <1>1, <2>1
  <2>. QED BY <1>2, <2>2 DEF FixBool
<1>3. CASE type = FixInt
  <2>1. p = IF IsInteger(text) THEN Parsed(<<Integer(text)>>, <<>>) ELSE ParseError
    BY <1>3 DEF FixInt
  <2>2. IsInteger(text)
    BY <2>1 DEF ParseError
  <2>3. v = <<Integer(text)>> /\ Integer(text) \in Int
    BY <1>1, <2>1, <2>2, IntegerType
  <2>4. v \in Seq(Int) /\ Len(v) = 1
    BY <2>3
  <2>. QED BY <1>3, <2>4 DEF FixInt
<1>4. CASE type = FixString
  <2>1. p = IF Ascii(text) THEN Parsed(text, <<>>) ELSE ParseError
    BY <1>4 DEF FixString
  <2>2. Ascii(text)
    BY <2>1 DEF ParseError
  <2>3. v = text
    BY <1>1, <2>1, <2>2
  <2>. QED BY <1>4, <2>2, <2>3 DEF FixString
<1>. QED BY <1>2, <1>3, <1>4

\* A field leaves bytes, and what it reads are values that come back.
LEMMA FieldCanRead ==
    ASSUME NEW tag, NEW type \in {FixBool, FixInt, FixString}
    PROVE  /\ LeavesBytes(Field(tag, type))
           /\ \A v \in FieldValue : CanBeRead(Field(tag, type), v) => v \in type.exact
<1>. DEFINE e == Field(tag, type)
<1>1. ASSUME NEW b \in Octets, e.read[b].ok
      PROVE  /\ e.read[b].rest \in Octets
             /\ e.read[b].value \in FieldValue => e.read[b].value \in type.exact
  <2>. DEFINE r == type.read[ValueOf(b).text]
  <2>1. e.read[b] = IF r.ok THEN Parsed(r.value, ValueOf(b).rest) ELSE ParseError
    BY DEF Field
  <2>2. ValueOf(b).text \in Octets /\ ValueOf(b).rest \in Octets /\ SOH \notin Range(ValueOf(b).text)
    BY ValueOfBytes
  <2>. HIDE DEF e
  <2>3. r.ok
    BY <1>1, <2>1 DEF ParseError
  <2>4. e.read[b].rest = ValueOf(b).rest /\ e.read[b].value = r.value
    BY <2>1, <2>3 DEF Parsed
  <2>. QED BY <2>2, <2>3, <2>4, TypeReadsExact
<1>. HIDE DEF e
<1>. QED BY <1>1 DEF LeavesBytes, CanBeRead, e

\* Classes of which every entry leaves bytes.
LeavingBytes(class) ==
    Len(class) \in Nat /\ DOMAIN class = 1..Len(class) /\ \A i \in 1..Len(class) : LeavesBytes(class[i])

\* What has been read of a segment is such fields.
ReadFields(class) ==
    [tag : Indexed(class), value : {class[i].read[b].value : i \in DOMAIN class, b \in Octets}]
FieldsOf(class) == {fields \in Seq(ReadFields(class)) : CanBeFields(class, fields)}
WellRead(class, p) == p.ok => p.rest \in Octets /\ p.value \in FieldsOf(class)

\* Field by field,
LEMMA NextFieldWell ==
    ASSUME NEW class, LeavingBytes(class), NEW p, WellRead(class, p)
    PROVE  WellRead(class, NextField(class, p))
<1>. DEFINE tag == Integer(TagText(p.rest))
            e == EntryOf(class, tag)
            v == e.read[p.rest]
            f == [tag |-> tag, value |-> v.value]
            s == p.value
            S == ReadFields(class)
            q == NextField(class, p)
<1>1. \/ q = p \/ q = ParseError
      \/ /\ p.ok /\ ~Repeats(tag, s) /\ tag \in Indexed(class) /\ v.ok
         /\ q = Parsed(Append(s, f), v.rest)
  BY DEF NextField
<1>2. ~ParseError.ok
  BY DEF ParseError
<1>3. ASSUME p.ok, ~Repeats(tag, s), tag \in Indexed(class), v.ok, q = Parsed(Append(s, f), v.rest)
      PROVE  WellRead(class, q)
  <2>1. p.rest \in Octets /\ s \in Seq(S) /\ CanBeFields(class, s)
    BY <1>3 DEF WellRead, FieldsOf
  <2>2. PICK i \in 1..Len(class) : e = class[i]
    <3>. HIDE DEF tag
    <3>. QED BY <1>3, EntryIs DEF LeavingBytes
  <2>3. v.rest \in Octets /\ CanBeRead(e, v.value)
    <3>1. LeavesBytes(e)
      BY <2>2 DEF LeavingBytes
    <3>. HIDE DEF e
    <3>. QED BY <1>3, <2>1, <3>1 DEF LeavesBytes, CanBeRead
  <2>4. f \in S
    <3>1. i \in DOMAIN class
      BY DEF LeavingBytes
    <3>2. v.value = class[i].read[p.rest].value
      BY <2>2
    <3>. HIDE DEF v, tag
    <3>. QED BY <1>3, <2>1, <3>1, <3>2 DEF ReadFields
  <2>5. f.tag = tag /\ f.value = v.value
    OBVIOUS
  <2>6. f.tag \notin Tags(s) /\ f.tag \in Indexed(class) /\ CanBeRead(EntryOf(class, f.tag), f.value)
    <3>. HIDE DEF v, f
    <3>. QED BY <1>3, <2>3, <2>5 DEF Repeats
  <2>. DEFINE t == Append(s, f)
              n == Len(s)
  <2>. HIDE DEF f, v, e, tag, S
  <2>7. /\ t \in Seq(S) /\ Len(t) = n + 1 /\ n \in Nat /\ t[n + 1] = f
        /\ \A k \in 1..n : t[k] = s[k]
    BY <2>1, <2>4, AppendProperties
  <2>8. DOMAIN s = 1..n /\ DOMAIN t = 1..(n + 1)
    BY <2>1, <2>7
  <2>. HIDE DEF t, s
  <2>9. CanBeFields(class, t)
    <3>1. ASSUME NEW k \in 1..(n + 1)
          PROVE  t[k].tag \in Indexed(class) /\ CanBeRead(EntryOf(class, t[k].tag), t[k].value)
      <4>1. CASE k = n + 1
        BY <2>6, <2>7, <4>1
      <4>2. CASE k # n + 1
        <5>1. k \in 1..n
          BY <2>7, <4>2
        <5>. QED BY <2>1, <2>7, <2>8, <5>1 DEF CanBeFields
      <4>. QED BY <4>1, <4>2
    <3>2. \A k \in 1..n : t[k].tag # f.tag
      BY <2>6, <2>7, <2>8 DEF Tags
    <3>3. ASSUME NEW k \in 1..(n + 1), NEW l \in 1..(n + 1), t[k].tag = t[l].tag PROVE k = l
      <4>1. CASE k \in 1..n /\ l \in 1..n
        BY <2>1, <2>7, <2>8, <3>3, <4>1 DEF CanBeFields
      <4>2. CASE k = n + 1 /\ l # n + 1
        <5>1. l \in 1..n
          BY <2>7, <4>2
        <5>. QED BY <2>7, <3>2, <3>3, <4>2, <5>1
      <4>3. CASE l = n + 1 /\ k # n + 1
        <5>1. k \in 1..n
          BY <2>7, <4>3
        <5>. QED BY <2>7, <3>2, <3>3, <4>3, <5>1
      <4>. QED BY <2>7, <4>1, <4>2, <4>3
    <3>. QED BY <2>8, <3>1, <3>3 DEF CanBeFields
  <2>10. q.rest = v.rest /\ q.value = t
    <3>. HIDE DEF q
    <3>. QED BY <1>3 DEF Parsed, t, s
  <2>. QED BY <2>3, <2>7, <2>9, <2>10 DEF WellRead, FieldsOf, S
<1>4. WellRead(class, ParseError)
  BY <1>2 DEF WellRead
<1>. HIDE DEF q, v, f
<1>5. WellRead(class, q)
  BY <1>1, <1>3, <1>4
<1>. QED BY <1>5 DEF q

IsReading(at, class, bytes, n) ==
    at = [k \in 0..n |-> IF k = 0 THEN Parsed(<<>>, bytes) ELSE NextField(class, at[k - 1])]

\* to the last,
LEMMA FieldsWell ==
    ASSUME NEW class, LeavingBytes(class), NEW bytes \in Octets
    PROVE  WellRead(class, FieldsFromBytes(class, bytes))
<1>. DEFINE N == Len(class) + 1
            T == {n \in Nat : \E at : IsReading(at, class, bytes, n)}
<1>1. 0 \in T
  <2>1. IsReading([k \in 0..0 |-> Parsed(<<>>, bytes)], class, bytes, 0)
    BY DEF IsReading
  <2>. QED BY <2>1
<1>2. ASSUME NEW n \in Nat, n \in T PROVE n + 1 \in T
  <2>1. PICK f : IsReading(f, class, bytes, n)
    BY <1>2
  <2>. DEFINE g == [k \in 0..(n + 1) |-> IF k = n + 1 THEN NextField(class, f[n]) ELSE f[k]]
  <2>2. ASSUME NEW k \in 0..(n + 1)
        PROVE  g[k] = IF k = 0 THEN Parsed(<<>>, bytes) ELSE NextField(class, g[k - 1])
    <3>1. CASE k = n + 1
      <4>1. k # 0 /\ k - 1 = n /\ n \in 0..(n + 1) /\ n # n + 1
        BY <3>1
      <4>2. g[k] = NextField(class, f[n]) /\ g[n] = f[n]
        BY <3>1, <4>1
      <4>. HIDE DEF g
      <4>. QED BY <4>1, <4>2
    <3>2. CASE k # n + 1
      <4>1. k \in 0..n /\ g[k] = f[k]
        BY <3>2
      <4>2. f[k] = IF k = 0 THEN Parsed(<<>>, bytes) ELSE NextField(class, f[k - 1])
        BY <2>1, <4>1 DEF IsReading
      <4>3. k # 0 => k - 1 \in 0..n /\ g[k - 1] = f[k - 1]
        BY <4>1
      <4>. HIDE DEF g
      <4>. QED BY <4>1, <4>2, <4>3
    <3>. QED BY <3>1, <3>2
  <2>3. g = [k \in 0..(n + 1) |-> g[k]]
    OBVIOUS
  <2>. HIDE DEF g
  <2>4. IsReading(g, class, bytes, n + 1)
    BY <2>2, <2>3 DEF IsReading
  <2>. QED BY <2>4
<1>. HIDE DEF T
<1>3. \A n \in Nat : n \in T
  BY <1>1, <1>2, SetInduction
<1>4. N \in Nat
  BY DEF LeavingBytes
<1>. DEFINE at == CHOOSE h : h = [k \in 0..N |-> IF k = 0 THEN Parsed(<<>>, bytes) ELSE NextField(class, h[k - 1])]
<1>5. FieldsFromBytes(class, bytes) = at[N]
  BY DEF FieldsFromBytes
<1>6. \E h : IsReading(h, class, bytes, N)
  BY <1>3, <1>4 DEF T
<1>. HIDE DEF N
<1>7. at = [k \in 0..N |-> IF k = 0 THEN Parsed(<<>>, bytes) ELSE NextField(class, at[k - 1])]
  BY <1>6, Zenon DEF IsReading
<1>. HIDE DEF at
<1>. DEFINE W == {k \in Nat : k <= N => WellRead(class, at[k])}
<1>8. 0 \in W
  <2>1. at[0] = Parsed(<<>>, bytes)
    BY <1>4, <1>7
  <2>2. <<>> \in FieldsOf(class)
    <3>. DEFINE none == <<>>
    <3>1. none \in Seq(ReadFields(class)) /\ DOMAIN none = {}
      OBVIOUS
    <3>. HIDE DEF none
    <3>2. none \in FieldsOf(class)
      BY <3>1 DEF FieldsOf, CanBeFields
    <3>. QED BY <3>2 DEF none
  <2>3. WellRead(class, Parsed(<<>>, bytes))
    BY <2>2 DEF WellRead, Parsed
  <2>. QED BY <2>1, <2>3
<1>9. ASSUME NEW k \in Nat, k \in W PROVE k + 1 \in W
  <2>. SUFFICES ASSUME k + 1 <= N PROVE WellRead(class, at[k + 1])
    OBVIOUS
  <2>1. k + 1 \in 0..N /\ k + 1 # 0 /\ (k + 1) - 1 = k /\ k <= N
    BY <1>4
  <2>2. at[k + 1] = NextField(class, at[k])
    BY <1>7, <2>1
  <2>. QED BY <1>9, <2>1, <2>2, NextFieldWell
<1>. HIDE DEF W
<1>10. N \in W
  BY <1>4, <1>8, <1>9, SetInduction
<1>. QED BY <1>4, <1>5, <1>10 DEF W

\* and what has been read of a group is instances of such fields.
WellGathered(class, p) == p = ParseError \/ (p.rest \in Octets /\ p.value \in Seq(FieldsOf(class)))

LEMMA NextGroupWell ==
    ASSUME NEW class, LeavingBytes(class), NEW p, WellGathered(class, p)
    PROVE  WellGathered(class, NextGroup(class, p))
<1>. DEFINE group == FieldsFromBytes(class, p.rest)
<1>1. CASE p.rest = <<>> \/ ~group.ok
  <2>1. NextGroup(class, p) = ParseError
    BY <1>1 DEF NextGroup, Gathered
  <2>. QED BY <2>1 DEF WellGathered
<1>2. CASE p.rest # <<>> /\ group.ok
  <2>1. p.rest \in Octets /\ p.value \in Seq(FieldsOf(class))
    BY <1>2 DEF WellGathered, ParseError
  <2>2. group.rest \in Octets /\ group.value \in FieldsOf(class)
    <3>1. WellRead(class, group)
      BY <2>1, FieldsWell
    <3>. HIDE DEF group
    <3>. QED BY <1>2, <3>1 DEF WellRead
  <2>. DEFINE q == NextGroup(class, p)
  <2>3. q = Parsed(Append(p.value, group.value), group.rest)
    BY <1>2 DEF NextGroup, Gathered
  <2>. HIDE DEF q, group
  <2>4. q.value = Append(p.value, group.value) /\ q.rest = group.rest
    BY <2>3 DEF Parsed
  <2>5. Append(p.value, group.value) \in Seq(FieldsOf(class))
    BY <2>1, <2>2, AppendProperties
  <2>6. WellGathered(class, q)
    BY <2>2, <2>4, <2>5 DEF WellGathered
  <2>. QED BY <2>6 DEF q
<1>. QED BY <1>1, <1>2

IsGathering(at, class, bytes, n) ==
    at = [k \in 0..n |-> IF k = 0 THEN Parsed(<<>>, bytes) ELSE NextGroup(class, at[k - 1])]

LEMMA GroupsWell ==
    ASSUME NEW class, LeavingBytes(class), NEW bytes \in Octets, NEW count \in Int
    PROVE  WellGathered(class, GroupsFromBytes(class, count, bytes))
<1>. DEFINE T == {n \in Nat : \E at : IsGathering(at, class, bytes, n)}
<1>1. 0 \in T
  <2>1. IsGathering([k \in 0..0 |-> Parsed(<<>>, bytes)], class, bytes, 0)
    BY DEF IsGathering
  <2>. QED BY <2>1
<1>2. ASSUME NEW n \in Nat, n \in T PROVE n + 1 \in T
  <2>1. PICK f : IsGathering(f, class, bytes, n)
    BY <1>2
  <2>. DEFINE g == [k \in 0..(n + 1) |-> IF k = n + 1 THEN NextGroup(class, f[n]) ELSE f[k]]
  <2>2. ASSUME NEW k \in 0..(n + 1)
        PROVE  g[k] = IF k = 0 THEN Parsed(<<>>, bytes) ELSE NextGroup(class, g[k - 1])
    <3>1. CASE k = n + 1
      <4>1. k # 0 /\ k - 1 = n /\ n \in 0..(n + 1) /\ n # n + 1
        BY <3>1
      <4>2. g[k] = NextGroup(class, f[n]) /\ g[n] = f[n]
        BY <3>1, <4>1
      <4>. HIDE DEF g
      <4>. QED BY <4>1, <4>2
    <3>2. CASE k # n + 1
      <4>1. k \in 0..n /\ g[k] = f[k]
        BY <3>2
      <4>2. f[k] = IF k = 0 THEN Parsed(<<>>, bytes) ELSE NextGroup(class, f[k - 1])
        BY <2>1, <4>1 DEF IsGathering
      <4>3. k # 0 => k - 1 \in 0..n /\ g[k - 1] = f[k - 1]
        BY <4>1
      <4>. HIDE DEF g
      <4>. QED BY <4>1, <4>2, <4>3
    <3>. QED BY <3>1, <3>2
  <2>3. g = [k \in 0..(n + 1) |-> g[k]]
    OBVIOUS
  <2>. HIDE DEF g
  <2>4. IsGathering(g, class, bytes, n + 1)
    BY <2>2, <2>3 DEF IsGathering
  <2>. QED BY <2>4
<1>. HIDE DEF T
<1>3. \A n \in Nat : n \in T
  BY <1>1, <1>2, SetInduction
<1>4. CASE count < 0
  <2>1. GroupsFromBytes(class, count, bytes) = ParseError
    BY <1>4 DEF GroupsFromBytes
  <2>. QED BY <2>1 DEF WellGathered
<1>5. CASE ~(count < 0)
  <2>1. count \in Nat
    BY <1>5
  <2>. DEFINE at == CHOOSE h : h = [k \in 0..count |->
                        IF k = 0 THEN Parsed(<<>>, bytes) ELSE NextGroup(class, h[k - 1])]
  <2>2. GroupsFromBytes(class, count, bytes) = at[count]
    BY <1>5 DEF GroupsFromBytes
  <2>3. \E h : IsGathering(h, class, bytes, count)
    BY <1>3, <2>1 DEF T
  <2>4. at = [k \in 0..count |-> IF k = 0 THEN Parsed(<<>>, bytes) ELSE NextGroup(class, at[k - 1])]
    BY <2>3, Zenon DEF IsGathering
  <2>. HIDE DEF at
  <2>. DEFINE W == {k \in Nat : k <= count => WellGathered(class, at[k])}
  <2>5. 0 \in W
    <3>1. at[0] = Parsed(<<>>, bytes)
      BY <2>1, <2>4
    <3>2. WellGathered(class, Parsed(<<>>, bytes))
      BY DEF WellGathered, Parsed
    <3>. QED BY <3>1, <3>2
  <2>6. ASSUME NEW k \in Nat, k \in W PROVE k + 1 \in W
    <3>. SUFFICES ASSUME k + 1 <= count PROVE WellGathered(class, at[k + 1])
      OBVIOUS
    <3>1. k + 1 \in 0..count /\ k + 1 # 0 /\ (k + 1) - 1 = k /\ k <= count
      BY <2>1
    <3>2. at[k + 1] = NextGroup(class, at[k])
      BY <2>4, <3>1
    <3>. QED BY <2>6, <3>1, <3>2, NextGroupWell
  <2>. HIDE DEF W
  <2>7. count \in W
    BY <2>1, <2>5, <2>6, SetInduction
  <2>. QED BY <2>1, <2>2, <2>7 DEF W
<1>. QED BY <1>4, <1>5

\* A group leaves bytes, and each instance that it reads is such fields.
LEMMA GroupCanRead ==
    ASSUME NEW tag, NEW class, LeavingBytes(class)
    PROVE  /\ LeavesBytes(Group(tag, class))
           /\ \A v : CanBeRead(Group(tag, class), v) => v \in Seq(FieldsOf(class))
<1>. DEFINE e == Group(tag, class)
<1>1. ASSUME NEW b \in Octets, e.read[b].ok
      PROVE  e.read[b].rest \in Octets /\ e.read[b].value \in Seq(FieldsOf(class))
  <2>. DEFINE count == ValueOf(b).text
              rest == ValueOf(b).rest
              p == GroupsFromBytes(class, Integer(count), rest)
  <2>1. e.read[b] = IF IsInteger(count) THEN p ELSE ParseError
    BY DEF Group
  <2>2. count \in Octets /\ rest \in Octets
    BY ValueOfBytes
  <2>. HIDE DEF e
  <2>3. IsInteger(count) /\ e.read[b] = p /\ p.ok
    BY <1>1, <2>1 DEF ParseError
  <2>4. WellGathered(class, p)
    <3>. HIDE DEF count, rest
    <3>. QED BY <2>2, <2>3, IntegerType, GroupsWell
  <2>. HIDE DEF p
  <2>. QED BY <2>3, <2>4 DEF WellGathered, ParseError
<1>. HIDE DEF e
<1>. QED BY <1>1 DEF LeavesBytes, CanBeRead, e

\* Mandatory entries read as others do.
LEMMA OrMandatoryLeave ==
    ASSUME NEW entries, \A e \in entries : LeavesBytes(e) /\ Mandatory(e).read = e.read
    PROVE  \A e \in OrMandatory(entries) : LeavesBytes(e)
BY DEF OrMandatory, LeavesBytes

\* Every entry of a dictionary, at any depth, leaves bytes.
LEMMA EveryEntryLeavesBytes ==
    ASSUME NEW n \in Nat
    PROVE  \A e \in EntriesOfDepth(n) : LeavesBytes(e)
<1>1. PICK f : IsFixNest(f, n) /\ EntriesOfDepth(n) = f[n]
  BY EntriesOfDepthIs
<1>. DEFINE Leave(entries) == \A e \in entries : LeavesBytes(e)
            T == {k \in Nat : k <= n => Leave(f[k])}
<1>2. 0 \in T
  <2>. DEFINE F == {Field(tag, type) : tag \in Nat, type \in {FixBool, FixInt, FixString}}
  <2>1. \A e \in F : LeavesBytes(e) /\ Mandatory(e).read = e.read
    <3>1. ASSUME NEW tag \in Nat, NEW type \in {FixBool, FixInt, FixString}
          PROVE  LeavesBytes(Field(tag, type)) /\ Mandatory(Field(tag, type)).read = Field(tag, type).read
      <4>1. Mandatory(Field(tag, type)).read = Field(tag, type).read
        BY DEF Mandatory, Field
      <4>. QED BY <4>1, FieldCanRead
    <3>. QED BY <3>1
  <2>2. f[0] = OrMandatory(F)
    BY <1>1 DEF IsFixNest, FieldEntries
  <2>. HIDE DEF F
  <2>3. Leave(f[0])
    BY <2>1, <2>2, OrMandatoryLeave
  <2>. QED BY <2>3
<1>3. ASSUME NEW k \in Nat, k \in T PROVE k + 1 \in T
  <2>. SUFFICES ASSUME k + 1 <= n PROVE Leave(f[k + 1])
    <3>. HIDE DEF Leave
    <3>. QED OBVIOUS
  <2>1. k + 1 \in 0..n /\ k + 1 # 0 /\ (k + 1) - 1 = k /\ k <= n
    OBVIOUS
  <2>2. Leave(f[k])
    BY <1>3, <2>1
  <2>. DEFINE C == {c \in Seq(f[k]) : Unambiguous(c)}
              G == {Group(tag, class) : tag \in Nat, class \in C}
  <2>3. \A e \in G : LeavesBytes(e) /\ Mandatory(e).read = e.read
    <3>1. ASSUME NEW tag \in Nat, NEW class \in C
          PROVE  LeavesBytes(Group(tag, class)) /\ Mandatory(Group(tag, class)).read = Group(tag, class).read
      <4>1. Mandatory(Group(tag, class)).read = Group(tag, class).read
        BY DEF Mandatory, Group
      <4>2. Len(class) \in Nat /\ DOMAIN class = 1..Len(class) /\ \A i \in 1..Len(class) : class[i] \in f[k]
        BY LenProperties, ElementOfSeq
      <4>3. LeavingBytes(class)
        BY <2>2, <4>2 DEF LeavingBytes
      <4>. QED BY <4>1, <4>3, GroupCanRead
    <3>. QED BY <3>1
  <2>4. f[k + 1] = f[k] \union OrMandatory(G)
    <3>1. f[k + 1] = Grouped(f[k])
      BY <1>1, <2>1 DEF IsFixNest
    <3>2. Grouped(f[k]) = f[k] \union OrMandatory(G)
      BY DEF Grouped
    <3>. QED BY <3>1, <3>2
  <2>. HIDE DEF G
  <2>5. \A e \in OrMandatory(G) : LeavesBytes(e)
    BY <2>3, OrMandatoryLeave
  <2>. QED BY <2>2, <2>4, <2>5
<1>. HIDE DEF T
<1>4. n \in T
  BY <1>2, <1>3, SetInduction
<1>5. Leave(f[n])
  <2>. HIDE DEF Leave
  <2>. QED BY <1>4 DEF T
<1>. QED BY <1>1, <1>5

\* Of fields behind one another each part can be read, and no tag is in both.
LEMMA PartsCanBeFields ==
    ASSUME NEW class, NEW S, NEW fs \in Seq(S), NEW gs \in Seq(S), CanBeFields(class, fs \o gs)
    PROVE  CanBeFields(class, fs) /\ CanBeFields(class, gs) /\ NoCommonTag(fs, gs)
<1>. DEFINE t == fs \o gs
            m == Len(fs)
            n == Len(gs)
<1>1. t \in Seq(S) /\ Consists(t, fs, gs)
  BY Concatenated
<1>2. m \in Nat /\ n \in Nat /\ DOMAIN fs = 1..m /\ DOMAIN gs = 1..n /\ DOMAIN t = 1..Len(t)
  BY <1>1
<1>3. /\ Len(t) = m + n /\ (\A i \in 1..m : t[i] = fs[i]) /\ (\A i \in 1..n : t[m + i] = gs[i])
  BY <1>1 DEF Consists
<1>. HIDE DEF t, m, n
<1>4. /\ \A i \in 1..(m + n) : /\ t[i].tag \in Indexed(class)
                               /\ CanBeRead(EntryOf(class, t[i].tag), t[i].value)
      /\ \A i, j \in 1..(m + n) : t[i].tag = t[j].tag => i = j
  BY <1>2, <1>3 DEF CanBeFields, t
<1>5. /\ \A i \in 1..m : i \in 1..(m + n)
      /\ \A i \in 1..n : m + i \in 1..(m + n)
  BY <1>2
<1>6. CanBeFields(class, fs)
  BY <1>2, <1>3, <1>4, <1>5 DEF CanBeFields
<1>7. CanBeFields(class, gs)
  <2>1. \A i \in 1..n : gs[i].tag \in Indexed(class) /\ CanBeRead(EntryOf(class, gs[i].tag), gs[i].value)
    BY <1>3, <1>4, <1>5
  <2>2. ASSUME NEW i \in 1..n, NEW j \in 1..n, gs[i].tag = gs[j].tag PROVE i = j
    <3>1. m + i = m + j
      BY <1>3, <1>4, <1>5, <2>2
    <3>. QED BY <1>2, <3>1
  <2>. QED BY <1>2, <2>1, <2>2 DEF CanBeFields
<1>8. NoCommonTag(fs, gs)
  <2>. SUFFICES ASSUME NEW i \in 1..m, NEW j \in 1..n, fs[i].tag = gs[j].tag PROVE FALSE
    BY <1>2 DEF NoCommonTag, Tags
  <2>1. i = m + j
    BY <1>3, <1>4, <1>5
  <2>. QED BY <1>2, <2>1
<1>. QED BY <1>6, <1>7, <1>8

-----------------------------------------------------------------------------
(* The round trip *)

\* The messages of a dictionary.
FixMessage == [type : DOMAIN Dictionary.bodies, segments : Fields \X Fields \X Fields]

\* What the framing adds, and what is read of it all.
LEMMA CompletedIs ==
    ASSUME NEW m \in FixMessage, NEW bs
    PROVE  LET body == FixBody(m)
               sum == Checksum(Heading(body, bs) \o body)
               s == m.segments
           IN  /\ Completed(m, bs) = [type |-> m.type,
                                      segments |-> <<FramingFront(bs, body, m.type) \o s[1], s[2],
                                                     s[3] \o <<FramingField(CHECKSUM_FIELD, sum)>> >>]
               /\ Completed(m, bs) # FixInvalid
<1>. DEFINE body == FixBody(m)
            sum == Checksum(Heading(body, bs) \o body)
            s == m.segments
            last == FramingField(CHECKSUM_FIELD, sum)
            front == FramingFront(bs, body, m.type)
            whole == [type |-> m.type, segments |-> <<front \o s[1], s[2], s[3] \o <<last>> >>]
<1>1. m = [type |-> m.type, segments |-> s] /\ s \in Fields \X Fields \X Fields
  BY DEF FixMessage
<1>2. s[3] \in Fields
  BY <1>1
<1>3. Completed(m, bs) = [m EXCEPT !.segments = <<front \o @[1], @[2], Append(@[3], last)>>]
  BY DEF Completed, FramingFront, FramingField
<1>. HIDE DEF last, front, s
<1>4. Append(s[3], last) = s[3] \o <<last>>
  <2>1. FramingField(CHECKSUM_FIELD, sum) \in [tag : {CHECKSUM_FIELD}, value : {sum}]
    BY DEF FramingField
  <2>2. \A f \in Seq({s[3][i] : i \in DOMAIN s[3]} \union {last}) : Append(f, last) = f \o <<last>>
    <3>1. last \in {s[3][i] : i \in DOMAIN s[3]} \union {last}
      OBVIOUS
    <3>. QED BY <3>1, AppendIsConcat
  <2>3. s[3] \in Seq({s[3][i] : i \in DOMAIN s[3]} \union {last})
    BY <1>2 DEF Fields
  <2>. QED BY <2>2, <2>3
<1>5. Completed(m, bs) = whole
  <2>. DEFINE x == <<front \o s[1], s[2], Append(s[3], last)>>
  <2>1. Completed(m, bs) = [m EXCEPT !.segments = x]
    BY <1>3 DEF s
  <2>2. x = <<front \o s[1], s[2], s[3] \o <<last>> >>
    BY <1>4
  <2>. HIDE DEF x
  <2>3. [m EXCEPT !.segments = x] = [type |-> m.type, segments |-> x]
    BY <1>1
  <2>. QED BY <2>1, <2>2, <2>3
<1>6. whole # FixInvalid
  <2>. DEFINE x == <<front \o s[1], s[2], s[3] \o <<last>> >>
  <2>1. x # <<>>
    OBVIOUS
  <2>. HIDE DEF x
  <2>2. [type |-> m.type, segments |-> x] # FixInvalid
    BY <2>1 DEF FixInvalid
  <2>. QED BY <2>2 DEF x
<1>. HIDE DEF whole
<1>. QED BY <1>5, <1>6 DEF whole, last, front, s

\* A peer takes these bytes for one frame, whatever was sent after them.
LEMMA FrameTaken ==
    ASSUME NEW bs \in Octets, \A i \in 1..Len(bs) : bs[i] # EQ,
           NEW type \in Octets, NEW message \in Octets, NEW more \in Octets
    PROVE  LET frame == CompleteMsg(Body(type, message), bs)
               view == frame \o more
           IN  /\ frame \in Octets /\ HasFixFrame(view)
               /\ FrameLength(view) = Len(frame) /\ Prefix(view, FrameLength(view)) = frame
<1>. DEFINE frame == CompleteMsg(Body(type, message), bs)
            view == frame \o more
<1>1. frame \in Seq(Octet) /\ HasFixFrame(frame) /\ FrameLength(frame) = Len(frame)
  BY FixWritesFrames DEF Octets
<1>. HIDE DEF frame
<1>2. view \in Seq(Octet) /\ Begins(frame, view)
  BY <1>1, Joined DEF Octets
<1>3. Prefix(view, Len(frame)) = frame
  BY <1>1, OctetsConcat DEF Octets
<1>. HIDE DEF view
<1>4. HasFixFrame(view) /\ FrameLength(view) = Len(frame)
  BY <1>1, <1>2, FixFrameStands
<1>. QED BY <1>1, <1>3, <1>4 DEF view, frame, Octets

\* What the message is decoded to.
LEMMA FixDecodes ==
    ASSUME NEW m \in FixMessage, NEW bs, FramingFits(m, bs),
           Classes(Dictionary, m.type) = Classes(Specified, m.type),
           FixClasses(Classes(Dictionary, m.type)), FixFaithful(m)
    PROVE  /\ FixDecode(FixEncode(m, bs)) = Completed(m, bs)
           /\ FixToBytes(m) \in Octets
<1>. DEFINE type == m.type
            classes == Classes(Dictionary, type)
            s == m.segments
            t(i) == SegmentText(classes[i], s[i])
            message == FixToBytes(m)
            body == FixBody(m)
            h == Heading(body, bs)
            sum == Checksum(h \o body)
            front == FramingFront(bs, body, type)
            back == <<FramingField(CHECKSUM_FIELD, sum)>>
            p8 == Framed(BEGIN_STRING_FIELD, bs)
            p9 == Framed(BODY_LEN_FIELD, Decimal(Len(body)))
            p35 == Framed(MSG_TYPE_FIELD, type)
            p10 == Framed(CHECKSUM_FIELD, sum)
            frame == CompleteMsg(body, bs)
<1>1. /\ bs \in Octets /\ type \in Octets
      /\ \A i \in 1..Len(bs) : bs[i] # EQ
      /\ \A i \in 1..Len(type) : type[i] # SOH
      /\ bs \in FixString.exact /\ type \in FixString.exact
      /\ <<Len(body)>> \in FieldValue /\ sum \in FieldValue
  <2>1. bs \in FixString.exact /\ type \in FixString.exact /\ EQ \notin Range(bs)
        /\ <<Len(body)>> \in FieldValue /\ sum \in FieldValue
    BY DEF FramingFits
  <2>2. bs \in Octets /\ type \in Octets /\ SOH \notin Range(type)
    BY <2>1 DEF FixString
  <2>. QED BY <2>1, <2>2 DEF Range, Octets
<1>2. /\ \A i \in 1..3 : IsClass(classes[i])
      /\ AllTags(classes[1]) \intersect (Indexed(classes[2]) \union Indexed(classes[3])) = {}
      /\ AllTags(classes[2]) \intersect Indexed(classes[3]) = {}
  BY FixClassesAre
<1>3. /\ HasField(classes[1], BEGIN_STRING_FIELD, FixString) /\ HasField(classes[1], BODY_LEN_FIELD, FixInt)
      /\ HasField(classes[1], MSG_TYPE_FIELD, FixString) /\ HasField(classes[3], CHECKSUM_FIELD, FixString)
  BY DEF FixClasses
<1>4. /\ \E i \in 1..3 : s[i] # <<>>
      /\ {BEGIN_STRING_FIELD, BODY_LEN_FIELD, MSG_TYPE_FIELD} \intersect Tags(s[1]) = {}
      /\ CHECKSUM_FIELD \notin Tags(s[3])
      /\ \A i \in 1..3 : Readable(classes[i], s[i], \A k \in (i + 1)..3 : s[k] = <<>>)
  BY DEF FixFaithful
<1>. HIDE DEF classes, s
<1>5. message \in Octets /\ message = (t(1) \o t(2)) \o t(3) /\ t(1) \in Octets /\ t(2) \in Octets /\ t(3) \in Octets
  <2>1. ReadableMessage(classes, s)
    BY <1>2, <1>4 DEF ReadableMessage
  <2>2. (\A i \in 1..3 : t(i) \in Octets) /\ message = (t(1) \o t(2)) \o t(3)
    BY <2>1, MessageWrites DEF classes, s
  <2>3. t(1) \in Octets /\ t(2) \in Octets /\ t(3) \in Octets
    <3>1. 1 \in 1..3 /\ 2 \in 1..3 /\ 3 \in 1..3
      OBVIOUS
    <3>. HIDE DEF t
    <3>. QED BY <2>2, <3>1
  <2>. HIDE DEF t, message
  <2>. QED BY <2>2, <2>3, OctetsConcat
<1>6. body = Body(type, message) /\ FixEncode(m, bs) = frame
  BY DEF FixBody, FixEncode
<1>. HIDE DEF message
<1>7. /\ body \in Octets /\ h \in Octets /\ sum \in Octets /\ h = p8 \o p9
      /\ p35 \in Octets /\ p10 \in Octets
      /\ frame = h \o (p35 \o (message \o p10))
  <2>1. FramedParts(bs, type, message)
    BY <1>1, <1>5, FrameIs
  <2>. QED BY <1>6, <2>1 DEF FramedParts
<1>8. TypeOf(frame) = type
  BY <1>1, <1>5, <1>6, TypeFound
<1>. HIDE DEF body, frame, type
<1>9. /\ Tags(front) = {BEGIN_STRING_FIELD, BODY_LEN_FIELD, MSG_TYPE_FIELD}
      /\ \E v : /\ Pieces(classes[1], front, v)
               /\ FlattenSeq(v) = (p8 \o p9) \o p35
               /\ \A end \in Octets : LastReads(classes[1], front, v, end)
  BY <1>1, <1>3, <1>7, FrontPieces
<1>10. PICK v : Pieces(classes[1], front, v) /\ FlattenSeq(v) = (p8 \o p9) \o p35
  BY <1>9
<1>11. sum \in FixString.exact /\ FixString.write[sum] = sum
  <2>1. h \o body \in Octets
    BY <1>7, OctetsConcat
  <2>2. \A i \in 1..Len(sum) : sum[i] \in 48..57
    BY <2>1, ChecksumDigits
  <2>. HIDE DEF sum
  <2>3. sum \in FixString.exact
    BY <1>1, <1>7, <2>2, DigitsAreText
  <2>. QED BY <2>3 DEF FixString
<1>. HIDE DEF sum
<1>12. /\ Pieces(classes[3], back, <<p10>>) /\ FlattenSeq(<<p10>>) = p10
       /\ Tags(back) = {CHECKSUM_FIELD} /\ Len(back) = 1
       /\ LastReads(classes[3], back, <<p10>>, <<>>)
       /\ Ahead(p10, Indexed(classes[3]))
  <2>1. CHECKSUM_FIELD \in Nat /\ <<>> \in Octets
    BY DEF CHECKSUM_FIELD, Octets
  <2>2. /\ Pieces(classes[3], back, <<p10>>) /\ FlattenSeq(<<p10>>) = p10
        /\ Tags(back) = {CHECKSUM_FIELD}
        /\ \A end \in Octets : LastReads(classes[3], back, <<p10>>, end)
    BY <1>3, <1>11, <2>1, FramingPiece DEF FramingField
  <2>3. Len(back) = 1 /\ back[1].tag = CHECKSUM_FIELD /\ <<p10>>[1] = p10
    BY DEF FramingField
  <2>4. Ahead(p10, Indexed(classes[3]))
    <3>. DEFINE w == <<p10>>
    <3>1. \A i \in 1..Len(back) : back[i].tag \in Indexed(classes[3]) /\ Tagged(w[i], back[i].tag)
      BY <2>2 DEF Pieces
    <3>2. 1 \in 1..Len(back) /\ w[1] = p10
      BY <2>3
    <3>. HIDE DEF back, w, p10
    <3>. QED BY <2>1, <2>3, <3>1, <3>2 DEF Ahead
  <2>. HIDE DEF back, p10
  <2>. QED BY <2>1, <2>2, <2>3, <2>4
<1>. HIDE DEF p8, p9, p35, p10, front, back, h, t
<1>13. frame = ((h \o p35) \o t(1)) \o (t(2) \o (t(3) \o p10))
  <2>. DEFINE a == t(1)
              b == t(2)
              c == t(3)
  <2>1. a \in Octets /\ b \in Octets /\ c \in Octets /\ frame = h \o (p35 \o (((a \o b) \o c) \o p10))
    BY <1>5, <1>7
  <2>. HIDE DEF a, b, c
  <2>2. h \o (p35 \o (((a \o b) \o c) \o p10)) = ((h \o p35) \o a) \o (b \o (c \o p10))
    <3>1. h \in Octets /\ p35 \in Octets /\ p10 \in Octets
      BY <1>7
    <3>2. RegroupedIs(h, p35, a, b, c, p10)
      BY <2>1, <3>1, Regrouped
    <3>. QED BY <3>2 DEF RegroupedIs
  <2>. QED BY <2>1, <2>2 DEF a, b, c
<1>14. SegmentsRead(classes, s, front, (p8 \o p9) \o p35, back, p10)
  <2>. DEFINE w == <<p10>>
              isLast(i) == \A k \in (i + 1)..3 : s[k] = <<>>
  <2>1. NoCommonTag(front, s[1]) /\ NoCommonTag(s[3], back)
    BY <1>4, <1>9, <1>12 DEF NoCommonTag
  <2>2. Pieces(classes[3], back, w) /\ LastReads(classes[3], back, w, <<>>) /\ FlattenSeq(w) = p10
    BY <1>12
  <2>3. \A i \in 1..3 : \E last \in BOOLEAN : Readable(classes[i], s[i], last)
    <3>1. \A i \in 1..3 : isLast(i) \in BOOLEAN /\ Readable(classes[i], s[i], isLast(i))
      BY <1>4, Zenon
    <3>. HIDE DEF isLast
    <3>. QED BY <3>1
  <2>. HIDE DEF w
  <2>4. Ahead(FlattenSeq(w), Indexed(classes[3])) /\ Len(back) = 1
    BY <1>12, <2>2
  <2>5. SegmentsRead(classes, s, front, FlattenSeq(v), back, FlattenSeq(w))
    BY <1>2, <1>10, <2>1, <2>2, <2>3, <2>4, SegmentsReadBack
  <2>. QED BY <1>10, <2>2, <2>5
<1>15. FixDecode(frame) = [type |-> type, segments |-> <<front \o s[1], s[2], s[3] \o back>>]
  <2>. DEFINE r3 == t(3) \o p10
              r2 == t(2) \o r3
              c1 == classes[1]
              c2 == classes[2]
              c3 == classes[3]
  <2>1. /\ FieldsFromBytes(c1, frame) = Parsed(front \o s[1], r2)
        /\ FieldsFromBytes(c2, r2) = Parsed(s[2], r3)
        /\ FieldsFromBytes(c3, r3) = Parsed(s[3] \o back, <<>>)
    BY <1>7, <1>13, <1>14 DEF SegmentsRead, t
  <2>2. type \in DOMAIN Dictionary.bodies
    BY DEF FixMessage, type
  <2>3. FixDecode(frame) =
          LET header == FieldsFromBytes(c1, frame)
              b == FieldsFromBytes(c2, header.rest)
              trailer == FieldsFromBytes(c3, b.rest)
          IN  IF type \in DOMAIN Dictionary.bodies /\ header.ok /\ b.ok /\ trailer.ok
              THEN [type |-> type, segments |-> <<header.value, b.value, trailer.value>>]
              ELSE FixInvalid
    BY <1>8 DEF FixDecode, FixDecoded, classes
  <2>. HIDE DEF c1, c2, c3, r2, r3
  <2>4. ASSUME NEW x, NEW r
        PROVE  Parsed(x, r).ok /\ Parsed(x, r).value = x /\ Parsed(x, r).rest = r
    <3>1. Parsed(x, r).ok = TRUE
      BY DEF Parsed
    <3>. QED BY <3>1 DEF Parsed
  <2>. DEFINE x1 == front \o s[1]
              x3 == s[3] \o back
  <2>5. /\ FieldsFromBytes(c1, frame) = Parsed(x1, r2)
        /\ FieldsFromBytes(c3, r3) = Parsed(x3, <<>>)
    BY <2>1
  <2>. HIDE DEF x1, x3
  <2>6. /\ FieldsFromBytes(c1, frame).ok /\ FieldsFromBytes(c1, frame).value = x1
        /\ FieldsFromBytes(c1, frame).rest = r2
    BY <2>4, <2>5
  <2>7. /\ FieldsFromBytes(c2, r2).ok /\ FieldsFromBytes(c2, r2).value = s[2]
        /\ FieldsFromBytes(c2, r2).rest = r3
    <3>1. FieldsFromBytes(c2, r2) = Parsed(s[2], r3)
      BY <2>1
    <3>. QED BY <2>4, <3>1
  <2>9. FieldsFromBytes(c3, r3).ok /\ FieldsFromBytes(c3, r3).value = x3
    BY <2>4, <2>5
  <2>8. FixDecode(frame) = [type |-> type, segments |-> <<x1, s[2], x3>>]
    BY <2>2, <2>3, <2>6, <2>7, <2>9
  <2>. QED BY <2>8 DEF x1, x3
<1>16. Completed(m, bs) = [type |-> type, segments |-> <<front \o s[1], s[2], s[3] \o back>>]
  BY CompletedIs DEF type, s, front, back, body, sum, h
<1>. QED BY <1>5, <1>6, <1>15, <1>16 DEF message

\* Messages that can be put into bytes and of which some field cannot be read
\* from any: its tag is not one of the segment's, it is set twice, even if once
\* by the framing, or its value does not fit; those of the instances of groups
\* too.  And messages without any field.
FixMisread(m) ==
    LET classes == Classes(Dictionary, m.type)
    IN  /\ FixToBytes(m) \in Octets
        /\ \/ \A i \in 1..3 : m.segments[i] = <<>>
           \/ {BEGIN_STRING_FIELD, BODY_LEN_FIELD, MSG_TYPE_FIELD} \intersect Tags(m.segments[1]) # {}
           \/ CHECKSUM_FIELD \in Tags(m.segments[3])
           \/ \E i \in 1..3 : ~CanBeFields(classes[i], m.segments[i])

\* Without any field a message is a separator,
LEMMA NothingWritten ==
    ASSUME NEW m \in FixMessage, \A i \in 1..3 : m.segments[i] = <<>>
    PROVE  FixToBytes(m) = <<SOH>>
<1>. DEFINE w == [i \in 1..3 |-> FieldsToBytes(Classes(Dictionary, m.type)[i], m.segments[i])]
            none == <<>>
<1>1. \A i \in 1..3 : w[i] = none
  BY NoFields
<1>2. w = [i \in 1..3 |-> w[i]]
  OBVIOUS
<1>3. none \in Octets
  BY DEF Octets
<1>4. FixToBytes(m) = Ended(JoinedSegments(w))
  BY DEF FixToBytes
<1>. HIDE DEF w
<1>5. Selected(w, Range(w) \ {<<>>}) = More(More(More(<<>>, w[1]), w[2]), w[3])
  BY <1>1, <1>2, <1>3, SelectedThree
<1>6. \A p : More(p, none) = p
  BY DEF More
<1>7. w[1] = none /\ w[2] = none /\ w[3] = none
  BY <1>1
<1>8. Selected(w, Range(w) \ {<<>>}) = <<>>
  BY <1>5, <1>6, <1>7
<1>9. JoinedSegments(w) = none
  BY <1>8, JoinNone DEF JoinedSegments
<1>10. Ended(none) = <<SOH>>
  BY DEF Ended
<1>. QED BY <1>4, <1>9, <1>10

\* behind which no tag is found.
LEMMA NoTagBehind ==
    ASSUME NEW class, NEW fields, NEW rest \in Octets, rest # <<>>
    PROVE  EndsIn(class, fields, <<SOH>> \o rest, ParseError)
<1>. DEFINE b == <<SOH>> \o rest
            sep == Find(b, EQ, 1)
            to == (IF sep = 0 THEN Len(b) ELSE sep) - 1
            t == SubSeq(b, 1, to)
<1>1. <<SOH>> \in Octets /\ Len(<<SOH>>) = 1 /\ <<SOH>>[1] = SOH
  BY OneByte, Separators DEF Octets
<1>2. b \in Octets /\ Len(b) = 1 + Len(rest) /\ b[1] = SOH /\ Len(rest) \in Nat
  BY <1>1, Joined DEF Octets
<1>3. Len(b) >= 2 /\ b # <<>>
  BY <1>2, EmptySeq DEF Octets
<1>. HIDE DEF b
<1>4. sep = 0 \/ (sep \in 1..Len(b) /\ b[sep] = EQ)
  BY <1>2, <1>3, FindFirst
<1>5. sep # 1
  BY <1>2, <1>4 DEF SOH, EQ
<1>. HIDE DEF sep
<1>6. to \in 1..Len(b)
  BY <1>2, <1>3, <1>4, <1>5
<1>7. TagText(b) = t
  BY DEF TagText, sep
<1>. HIDE DEF to
<1>8. Len(t) = to /\ t[1] = b[1]
  <2>1. \A i \in 1..to : b[i] \in Octet
    BY <1>2, <1>6 DEF Octets
  <2>2. /\ Len(t) = (IF 1 <= to THEN to - 1 + 1 ELSE 0)
        /\ \A i \in 1..(to - 1 + 1) : t[i] = b[1 + i - 1]
    BY <1>6, <2>1, SubSeqProperties
  <2>3. 1 \in 1..(to - 1 + 1)
    BY <1>6
  <2>4. t[1] = b[1 + 1 - 1]
    BY <2>2, <2>3
  <2>. HIDE DEF t
  <2>. QED BY <1>6, <2>2, <2>4
<1>. HIDE DEF t
<1>9. ~IsInteger(TagText(b))
  <2>1. t[1] = SOH /\ SOH \notin 48..57 /\ SOH # MINUS
    BY <1>2, <1>8 DEF SOH, MINUS
  <2>2. ~IsNumber(t)
    <3>. SUFFICES ASSUME IsNumber(t) PROVE FALSE
      OBVIOUS
    <3>1. 1 \in DOMAIN t
      BY <1>6, <1>7, <1>8 DEF t
    <3>. QED BY <2>1, <3>1 DEF IsNumber
  <2>. QED BY <1>7, <2>1, <2>2 DEF IsInteger
<1>10. NextField(class, Parsed(fields, b)) = ParseError
  <2>1. Parsed(fields, b).ok /\ Parsed(fields, b).rest = b
    BY DEF Parsed
  <2>. QED BY <1>3, <1>9, <2>1 DEF NextField
<1>11. NextField(class, ParseError) = ParseError
  BY DEF NextField, ParseError
<1>. QED BY <1>10, <1>11 DEF EndsIn, b

\* The frame of any message: its type, and the fields in front.
FrameConsists(m, bs) ==
    LET body == FixBody(m)
        sum == Checksum(Heading(body, bs) \o body)
        front == FramingFront(bs, body, m.type)
        last == <<FramingField(CHECKSUM_FIELD, sum)>>
        class == Classes(Dictionary, m.type)[1]
    IN  /\ FixEncode(m, bs) \in Octets /\ TypeOf(FixEncode(m, bs)) = m.type
        /\ front \in Fields /\ Tags(front) = {BEGIN_STRING_FIELD, BODY_LEN_FIELD, MSG_TYPE_FIELD}
        /\ last \in Fields /\ Tags(last) = {CHECKSUM_FIELD}
        /\ \E v : \E p10 \in Octets :
             /\ p10 # <<>> /\ Pieces(class, front, v)
             /\ \A end \in Octets : LastReads(class, front, v, end)
             /\ FixEncode(m, bs) = FlattenSeq(v) \o (FixToBytes(m) \o p10)

LEMMA FrameOfMessage ==
    ASSUME NEW m \in FixMessage, NEW bs, FramingFits(m, bs), FixToBytes(m) \in Octets,
           FixClasses(Classes(Dictionary, m.type))
    PROVE  FrameConsists(m, bs)
<1>. DEFINE type == m.type
            class == Classes(Dictionary, type)[1]
            message == FixToBytes(m)
            body == FixBody(m)
            h == Heading(body, bs)
            sum == Checksum(h \o body)
            front == FramingFront(bs, body, type)
            field == FramingField(CHECKSUM_FIELD, sum)
            last == <<field>>
            p8 == Framed(BEGIN_STRING_FIELD, bs)
            p9 == Framed(BODY_LEN_FIELD, Decimal(Len(body)))
            p35 == Framed(MSG_TYPE_FIELD, type)
            p10 == Framed(CHECKSUM_FIELD, sum)
            frame == CompleteMsg(body, bs)
<1>1. /\ bs \in Octets /\ type \in Octets
      /\ \A i \in 1..Len(bs) : bs[i] # EQ
      /\ \A i \in 1..Len(type) : type[i] # SOH
      /\ bs \in FixString.exact /\ type \in FixString.exact
      /\ <<Len(body)>> \in FieldValue /\ sum \in FieldValue
  <2>1. bs \in FixString.exact /\ type \in FixString.exact /\ EQ \notin Range(bs)
        /\ <<Len(body)>> \in FieldValue /\ sum \in FieldValue
    BY DEF FramingFits
  <2>2. bs \in Octets /\ type \in Octets /\ SOH \notin Range(type)
    BY <2>1 DEF FixString
  <2>. QED BY <2>1, <2>2 DEF Range, Octets
<1>2. /\ HasField(class, BEGIN_STRING_FIELD, FixString) /\ HasField(class, BODY_LEN_FIELD, FixInt)
      /\ HasField(class, MSG_TYPE_FIELD, FixString)
  BY DEF FixClasses
<1>3. body = Body(type, message) /\ FixEncode(m, bs) = frame /\ message \in Octets
  BY DEF FixBody, FixEncode
<1>. HIDE DEF message, class
<1>4. /\ body \in Octets /\ h \in Octets /\ sum \in Octets /\ h = p8 \o p9
      /\ p8 \in Octets /\ p9 \in Octets /\ p35 \in Octets /\ p10 \in Octets
      /\ frame = h \o (p35 \o (message \o p10))
  <2>1. FramedParts(bs, type, message)
    BY <1>1, <1>3, FrameIs
  <2>. QED BY <1>3, <2>1 DEF FramedParts
<1>5. TypeOf(frame) = type
  BY <1>1, <1>3, TypeFound
<1>. HIDE DEF body, frame, type
<1>6. /\ Tags(front) = {BEGIN_STRING_FIELD, BODY_LEN_FIELD, MSG_TYPE_FIELD}
      /\ \E v : /\ Pieces(class, front, v) /\ FlattenSeq(v) = (p8 \o p9) \o p35
                /\ \A end \in Octets : LastReads(class, front, v, end)
  BY <1>1, <1>2, <1>4, FrontPieces
<1>7. PICK v : /\ Pieces(class, front, v) /\ FlattenSeq(v) = (p8 \o p9) \o p35
               /\ \A end \in Octets : LastReads(class, front, v, end)
  BY <1>6
<1>8. front \in Fields
  BY <1>7 DEF Pieces
<1>9. last \in Fields /\ Tags(last) = {CHECKSUM_FIELD}
  <2>1. field \in [tag : Nat, value : FieldValue] /\ field.tag = CHECKSUM_FIELD
    BY <1>1 DEF FramingField, CHECKSUM_FIELD
  <2>. HIDE DEF field
  <2>2. last \in Fields /\ DOMAIN last = 1..1 /\ last[1] = field
    BY <2>1 DEF Fields
  <2>. HIDE DEF last
  <2>3. \A i \in 1..1 : i = 1
    OBVIOUS
  <2>4. 1 \in 1..1
    OBVIOUS
  <2>. QED BY <2>1, <2>2, <2>3, <2>4 DEF Tags
<1>10. p10 # <<>>
  <2>1. Len(p10) # 0
    <3>. DEFINE t == TagValue(CHECKSUM_FIELD, sum)
    <3>1. CHECKSUM_FIELD \in Nat
      BY DEF CHECKSUM_FIELD
    <3>2. t \in Octets /\ <<SOH>> \in Octets /\ Len(<<SOH>>) = 1
      <4>1. t \in Octets
        BY <1>4, <3>1, TagFound
      <4>. QED BY <4>1, OneByte, Separators DEF Octets
    <3>3. p10 = t \o <<SOH>>
      BY DEF Framed
    <3>. HIDE DEF t, p10
    <3>4. Len(t \o <<SOH>>) = Len(t) + Len(<<SOH>>) /\ Len(t) \in Nat
      BY <3>2, OctetsConcat
    <3>. QED BY <3>2, <3>3, <3>4
  <2>. HIDE DEF p10
  <2>. QED BY <1>4, <2>1, EmptySeq DEF Octets
<1>. HIDE DEF p8, p9, p35, p10, front, last, h, sum
<1>11. frame \in Octets /\ frame = FlattenSeq(v) \o (message \o p10)
  <2>. DEFINE x == message \o p10
  <2>1. x \in Octets
    BY <1>3, <1>4, OctetsConcat
  <2>2. frame = h \o (p35 \o x) /\ FlattenSeq(v) = h \o p35
    BY <1>4, <1>7
  <2>. HIDE DEF x
  <2>3. (h \o p35) \o x = h \o (p35 \o x)
    <3>1. SameGrouping(h, p35, x)
      BY <1>4, <2>1, OctetsGrouped
    <3>. QED BY <3>1 DEF SameGrouping
  <2>4. h \o p35 \in Octets
    BY <1>4, OctetsConcat
  <2>5. (h \o p35) \o x \in Octets
    BY <2>1, <2>4, OctetsConcat
  <2>. QED BY <2>2, <2>3, <2>5 DEF x
<1>12. FrameConsists(m, bs)
  <2>1. \E w : \E q \in Octets :
             /\ q # <<>> /\ Pieces(class, front, w)
             /\ \A end \in Octets : LastReads(class, front, w, end)
             /\ frame = FlattenSeq(w) \o (message \o q)
    BY <1>4, <1>7, <1>10, <1>11
  <2>2. /\ frame \in Octets /\ TypeOf(frame) = type
        /\ front \in Fields /\ Tags(front) = {BEGIN_STRING_FIELD, BODY_LEN_FIELD, MSG_TYPE_FIELD}
        /\ last \in Fields /\ Tags(last) = {CHECKSUM_FIELD}
    BY <1>5, <1>6, <1>8, <1>9, <1>11
  <2>3. FixEncode(m, bs) = frame
    BY <1>3
  <2>. QED BY <2>1, <2>2, <2>3 DEF FrameConsists, front, last, class, type, message, body, h, sum
<1>. QED BY <1>12

\* A message that does is not read as it was sent.
LEMMA FixDecodesNot ==
    ASSUME NEW m \in FixMessage, NEW bs, FramingFits(m, bs),
           FixClasses(Classes(Dictionary, m.type)), FixMisread(m)
    PROVE  FixDecode(FixEncode(m, bs)) # Completed(m, bs)
<1>. DEFINE type == m.type
            classes == Classes(Dictionary, type)
            c1 == classes[1]
            c2 == classes[2]
            c3 == classes[3]
            s1 == m.segments[1]
            s2 == m.segments[2]
            s3 == m.segments[3]
            body == FixBody(m)
            front == FramingFront(bs, body, type)
            last == <<FramingField(CHECKSUM_FIELD, Checksum(Heading(body, bs) \o body))>>
            frame == FixEncode(m, bs)
            header == FieldsFromBytes(c1, frame)
            middle == FieldsFromBytes(c2, header.rest)
            trailer == FieldsFromBytes(c3, middle.rest)
<1>1. FixToBytes(m) \in Octets
  BY DEF FixMisread
<1>2. FrameConsists(m, bs)
  BY <1>1, FrameOfMessage
<1>3. /\ frame \in Octets /\ TypeOf(frame) = type
      /\ front \in Fields /\ Tags(front) = {BEGIN_STRING_FIELD, BODY_LEN_FIELD, MSG_TYPE_FIELD}
      /\ last \in Fields /\ Tags(last) = {CHECKSUM_FIELD}
  BY <1>2 DEF FrameConsists
<1>4. PICK v : \E p10 \in Octets :
         /\ p10 # <<>> /\ Pieces(c1, front, v)
         /\ \A end \in Octets : LastReads(c1, front, v, end)
         /\ frame = FlattenSeq(v) \o (FixToBytes(m) \o p10)
  BY <1>2 DEF FrameConsists
<1>5. /\ Completed(m, bs) = [type |-> type, segments |-> <<front \o s1, s2, s3 \o last>>]
      /\ Completed(m, bs) # FixInvalid
  BY CompletedIs
<1>6. s1 \in Fields /\ s2 \in Fields /\ s3 \in Fields
  BY DEF FixMessage
<1>7. IsClass(c1) /\ LeavingBytes(c1) /\ LeavingBytes(c2) /\ LeavingBytes(c3)
  <2>1. \A i \in 1..3 : IsClass(classes[i])
    BY FixClassesAre
  <2>2. PICK n \in Nat : \A i \in 1..3 : classes[i] \in Seq(EntriesOfDepth(n))
    BY DEF FixClasses
  <2>3. \A e \in EntriesOfDepth(n) : LeavesBytes(e)
    BY EveryEntryLeavesBytes
  <2>. HIDE DEF classes
  <2>4. \A i \in 1..3 : LeavingBytes(classes[i])
    BY <2>1, <2>2, <2>3, ElementOfSeq DEF LeavingBytes, IsClass
  <2>. QED BY <2>1, <2>4
<1>8. FixDecode(frame) =
         IF type \in DOMAIN Dictionary.bodies /\ header.ok /\ middle.ok /\ trailer.ok
         THEN [type |-> type, segments |-> <<header.value, middle.value, trailer.value>>] ELSE FixInvalid
  BY <1>3 DEF FixDecode, FixDecoded
<1>9. \/ s1 = <<>> /\ s2 = <<>> /\ s3 = <<>>
      \/ Tags(front) \intersect Tags(s1) # {} \/ CHECKSUM_FIELD \in Tags(s3)
      \/ ~CanBeFields(c1, s1) \/ ~CanBeFields(c2, s2) \/ ~CanBeFields(c3, s3)
  <2>1. \A i \in 1..3 : i = 1 \/ i = 2 \/ i = 3
    OBVIOUS
  <2>2. 1 \in 1..3 /\ 2 \in 1..3 /\ 3 \in 1..3
    OBVIOUS
  <2>3. \/ \A i \in 1..3 : m.segments[i] = <<>>
        \/ {BEGIN_STRING_FIELD, BODY_LEN_FIELD, MSG_TYPE_FIELD} \intersect Tags(s1) # {}
        \/ CHECKSUM_FIELD \in Tags(s3)
        \/ \E i \in 1..3 : ~CanBeFields(classes[i], m.segments[i])
    BY DEF FixMisread
  <2>. HIDE DEF classes, front
  <2>. QED BY <1>3, <2>1, <2>2, <2>3
<1>. HIDE DEF c1, c2, c3, front, last, frame
<1>10. CASE s1 = <<>> /\ s2 = <<>> /\ s3 = <<>>
  <2>0. PICK p10 \in Octets :
          /\ p10 # <<>> /\ Pieces(c1, front, v)
          /\ \A end \in Octets : LastReads(c1, front, v, end)
          /\ frame = FlattenSeq(v) \o (FixToBytes(m) \o p10)
    BY <1>4
  <2>. DEFINE end == <<SOH>> \o p10
  <2>1. FixToBytes(m) = <<SOH>>
    <3>1. \A i \in 1..3 : i = 1 \/ i = 2 \/ i = 3
      OBVIOUS
    <3>2. \A i \in 1..3 : m.segments[i] = <<>>
      BY <1>10, <3>1
    <3>. QED BY <3>2, NothingWritten
  <2>2. end \in Octets /\ frame = FlattenSeq(v) \o end
    <3>1. <<SOH>> \in Octets
      BY <1>1, <2>1
    <3>. QED BY <2>0, <2>1, <3>1, OctetsConcat
  <2>3. EndsIn(c1, front, end, ParseError)
    BY <2>0, NoTagBehind
  <2>. HIDE DEF end
  <2>4. header = ParseError
    BY <1>7, <2>0, <2>2, <2>3, PiecesReadBehind
  <2>. HIDE DEF header
  <2>5. FixDecode(frame) = FixInvalid
    BY <1>8, <2>4 DEF ParseError
  <2>. QED BY <1>5, <2>5 DEF frame
<1>11. CASE ~(s1 = <<>> /\ s2 = <<>> /\ s3 = <<>>)
  <2>. SUFFICES ASSUME FixDecode(frame) = Completed(m, bs) PROVE FALSE
    BY DEF frame
  <2>. DEFINE x1 == front \o s1
              x3 == s3 \o last
  <2>1. WellRead(c1, header)
    BY <1>3, <1>7, FieldsWell
  <2>2. /\ header.ok /\ middle.ok /\ trailer.ok
        /\ header.value = x1 /\ middle.value = s2 /\ trailer.value = x3
    <3>. HIDE DEF header, middle, trailer, x1, x3
    <3>1. Completed(m, bs) = [type |-> type, segments |-> <<x1, s2, x3>>]
      BY <1>5 DEF x1, x3
    <3>2. header.ok /\ middle.ok /\ trailer.ok
      BY <1>5, <1>8
    <3>3. [type |-> type, segments |-> <<header.value, middle.value, trailer.value>>]
            = [type |-> type, segments |-> <<x1, s2, x3>>]
      BY <1>5, <1>8, <3>1
    <3>4. <<header.value, middle.value, trailer.value>> = <<x1, s2, x3>>
      BY <3>3
    <3>. QED BY <3>2, <3>4
  <2>3. header.rest \in Octets /\ CanBeFields(c1, x1)
    <3>. HIDE DEF header, x1
    <3>. QED BY <2>1, <2>2 DEF WellRead, FieldsOf
  <2>4. WellRead(c2, middle)
    <3>. HIDE DEF header
    <3>. QED BY <1>7, <2>3, FieldsWell
  <2>5. middle.rest \in Octets /\ CanBeFields(c2, s2)
    <3>. HIDE DEF middle
    <3>. QED BY <2>2, <2>4 DEF WellRead, FieldsOf
  <2>6. WellRead(c3, trailer)
    <3>. HIDE DEF middle
    <3>. QED BY <1>7, <2>5, FieldsWell
  <2>7. CanBeFields(c3, x3)
    <3>. HIDE DEF trailer, x3
    <3>. QED BY <2>2, <2>6 DEF WellRead, FieldsOf
  <2>8. CanBeFields(c1, s1) /\ NoCommonTag(front, s1)
    BY <1>3, <1>6, <2>3, PartsCanBeFields DEF Fields
  <2>9. CanBeFields(c3, s3) /\ NoCommonTag(s3, last)
    BY <1>3, <1>6, <2>7, PartsCanBeFields DEF Fields
  <2>10. CHECKSUM_FIELD \notin Tags(s3) /\ Tags(front) \intersect Tags(s1) = {}
    BY <1>3, <2>8, <2>9 DEF NoCommonTag
  <2>. HIDE DEF s1, s2, s3
  <2>. QED BY <1>9, <1>11, <2>5, <2>8, <2>9, <2>10
<1>. QED BY <1>10, <1>11

\* A field without a group in it can be read only as a value that comes back.
LEMMA FieldEntryCanRead ==
    ASSUME NEW e \in FieldEntries, NEW v \in FieldValue, CanBeRead(e, v), NEW last \in BOOLEAN
    PROVE  v \in e.exact[last]
<1>1. PICK tag \in Nat, type \in {FixBool, FixInt, FixString} : e = Field(tag, type) \/ e = Mandatory(Field(tag, type))
  BY DEF FieldEntries, OrMandatory
<1>2. e.read = Field(tag, type).read /\ e.exact = Field(tag, type).exact
  BY <1>1 DEF Mandatory, Field
<1>3. Field(tag, type).exact[last] = type.exact
  BY DEF Field
<1>4. CanBeRead(Field(tag, type), v)
  BY <1>2 DEF CanBeRead
<1>. QED BY <1>2, <1>3, <1>4, FieldCanRead

\* Messages of which no field is a group.
WithoutGroups(m) ==
    \A i \in 1..3 : \A tag \in Tags(m.segments[i]) :
        LET class == Classes(Dictionary, m.type)[i] IN tag \in Indexed(class) => EntryOf(class, tag) \in FieldEntries

\* One with its mandatory fields either fits or cannot be read.
LEMMA FlatIsDecided ==
    ASSUME NEW m \in FixMessage, Classes(Dictionary, m.type) = Classes(Specified, m.type),
           FixToBytes(m) \in Octets, WithoutGroups(m), Valid(m), ~FixMisread(m)
    PROVE  FixFaithful(m)
<1>. DEFINE classes == Classes(Dictionary, m.type)
            isLast(i) == \A k \in (i + 1)..3 : m.segments[k] = <<>>
<1>1. /\ \E i \in 1..3 : m.segments[i] # <<>>
      /\ {BEGIN_STRING_FIELD, BODY_LEN_FIELD, MSG_TYPE_FIELD} \intersect Tags(m.segments[1]) = {}
      /\ CHECKSUM_FIELD \notin Tags(m.segments[3])
      /\ \A i \in 1..3 : CanBeFields(classes[i], m.segments[i])
  BY DEF FixMisread
<1>2. Complete(classes[2], m.segments[2])
  BY DEF Valid, Classes
<1>3. ASSUME NEW i \in 1..3 PROVE Readable(classes[i], m.segments[i], isLast(i))
  <2>. DEFINE class == classes[i]
              fields == m.segments[i]
              last == isLast(i)
  <2>1. fields \in Fields
    <3>1. i = 1 \/ i = 2 \/ i = 3
      OBVIOUS
    <3>. QED BY <3>1 DEF FixMessage
  <2>2. CanBeFields(class, fields) /\ last \in BOOLEAN
    BY <1>1
  <2>3. \A tag \in Tags(fields) : tag \in Indexed(class) => EntryOf(class, tag) \in FieldEntries
    BY DEF WithoutGroups
  <2>. HIDE DEF class, fields, last
  <2>4. ASSUME NEW j \in DOMAIN fields
        PROVE  /\ fields[j].tag \in Indexed(class)
               /\ \A k \in DOMAIN fields : fields[j].tag = fields[k].tag => j = k
               /\ fields[j].value \in EntryOf(class, fields[j].tag).exact[last /\ j = Len(fields)]
    <3>1. fields[j].tag \in Indexed(class) /\ CanBeRead(EntryOf(class, fields[j].tag), fields[j].value)
      BY <2>2 DEF CanBeFields
    <3>2. \A k \in DOMAIN fields : fields[j].tag = fields[k].tag => j = k
      BY <2>2 DEF CanBeFields
    <3>3. EntryOf(class, fields[j].tag) \in FieldEntries
      BY <2>3, <3>1 DEF Tags
    <3>4. fields[j].value \in FieldValue
      BY <2>1, FieldsAre
    <3>5. (last /\ j = Len(fields)) \in BOOLEAN
      BY Zenon
    <3>. QED BY <3>1, <3>2, <3>3, <3>4, <3>5, FieldEntryCanRead
  <2>5. Readable(class, fields, last)
    BY <2>1, <2>4 DEF Readable
  <2>. QED BY <2>5 DEF class, fields, last
<1>. QED BY <1>1, <1>2, <1>3 DEF FixFaithful

\* Back is what a peer takes, and takes for the message that was completed.
ReadsBack(m, bs, more) ==
    LET outcome == FixDeserialize(FixEncode(m, bs) \o more)
    IN  outcome.kind # "raise" /\ outcome.msg = Completed(m, bs)

\* What send_msg() writes of a message that fits the format is read by the peer
\* as that message, with the fields of the framing, whatever was sent after it;
\* and one of which some field cannot be read is not: for every dictionary of
\* fields and groups, nested to any depth, whose classes can be told apart.
\* (fix/core.py, fix/session.py, fix/_reader.py)
THEOREM FixRoundTrip ==
    ASSUME NEW m \in FixMessage, NEW bs, FramingFits(m, bs),
           Classes(Dictionary, m.type) = Classes(Specified, m.type),
           FixClasses(Classes(Dictionary, m.type)), NEW more \in Octets
    PROVE  /\ FixFaithful(m) => /\ ReadsBack(m, bs, more)
                               /\ FixDeserialize(FixEncode(m, bs) \o more).n = Len(FixEncode(m, bs))
           /\ FixMisread(m) => ~ReadsBack(m, bs, more)
<1>. DEFINE frame == FixEncode(m, bs)
            view == frame \o more
            read == FixDecode(frame)
<1>1. FixFaithful(m) => read = Completed(m, bs) /\ FixToBytes(m) \in Octets
  BY FixDecodes
<1>2. FixMisread(m) => read # Completed(m, bs) /\ FixToBytes(m) \in Octets
  BY FixDecodesNot DEF FixMisread
<1>3. bs \in Octets /\ m.type \in Octets /\ \A i \in 1..Len(bs) : bs[i] # EQ
  <2>1. bs \in FixString.exact /\ m.type \in FixString.exact /\ EQ \notin Range(bs)
    BY DEF FramingFits
  <2>2. bs \in Octets /\ m.type \in Octets
    BY <2>1 DEF FixString
  <2>. QED BY <2>1, <2>2 DEF Range, Octets
<1>4. frame = CompleteMsg(Body(m.type, FixToBytes(m)), bs)
  BY DEF FixEncode, FixBody
<1>5. FixToBytes(m) \in Octets => /\ HasFixFrame(view) /\ FrameLength(view) = Len(frame)
                                  /\ Prefix(view, FrameLength(view)) = frame
  BY <1>3, <1>4, FrameTaken
<1>6. Completed(m, bs) # FixInvalid
  BY CompletedIs
<1>. HIDE DEF read, frame, view
<1>7. FixToBytes(m) \in Octets => FixDeserialize(view) = Received(read, Len(frame))
  BY <1>5 DEF FixDeserialize, FixRead, read
<1>8. /\ Received(FixInvalid, Len(frame)).kind = "raise"
      /\ read # FixInvalid => /\ Received(read, Len(frame)).kind # "raise"
                              /\ Received(read, Len(frame)).msg = read
                              /\ Received(read, Len(frame)).n = Len(frame)
  BY DEF Received, Nothing
<1>9. FixFaithful(m) => ReadsBack(m, bs, more) /\ FixDeserialize(view).n = Len(frame)
  BY <1>1, <1>6, <1>7, <1>8 DEF ReadsBack, frame, view
<1>10. FixMisread(m) => ~ReadsBack(m, bs, more)
  BY <1>2, <1>7, <1>8 DEF ReadsBack, frame, view
<1>. QED BY <1>9, <1>10 DEF frame, view

\* Of messages without groups, exactly those that fit come back.
\* (fix/core.py, fix/types.py)
THEOREM FlatRoundTrip ==
    ASSUME NEW m \in FixMessage, NEW bs, FramingFits(m, bs),
           Classes(Dictionary, m.type) = Classes(Specified, m.type),
           FixClasses(Classes(Dictionary, m.type)), FixToBytes(m) \in Octets,
           WithoutGroups(m), Valid(m), NEW more \in Octets
    PROVE  ReadsBack(m, bs, more) <=> FixFaithful(m)
BY FixRoundTrip, FlatIsDecided

-----------------------------------------------------------------------------
(* From one end of the wire to the other: the readers of                   *)
(* ReaderFramingProofs in front of the codecs.                             *)

\* The messages, for each protocol, of which the round trip is proved: for
\* SoupBinTCP whatever its encoder or one of another make can send; for FIX the
\* messages that fit a dictionary which was generated as its file means it, and
\* those of which some field cannot be read; and the binary messages that fit
\* their layout, that have an id of the other direction, or of which a field
\* that does not fit leaves its mark.  (One that leaves none may come back all
\* the same where nothing is behind it: an empty Char at a payload's end.)
FixFits(m) ==
    /\ FramingFits(m, BeginString)
    /\ FixFaithful(m) \/ FixMisread(m)
    /\ Classes(Dictionary, m.type) = Classes(Specified, m.type)
    /\ FixClasses(Classes(Dictionary, m.type))
BinaryFits(m) ==
    /\ Len(MessageToBytes(m)) < MaxLength
    /\ RecordFaithful(m) \/ m.id[2] # "outgoing" \/ Misread(m)

WireMessages(proto) ==
    CASE proto = "soup" -> TextMessages \union PayloadMessages
      [] proto = "fix"  -> {m \in FixMessage : FixFits(m)}
      [] proto = "app"  -> {m \in BinaryMessages : BinaryFits(m)}

Protocols == {"soup", "fix", "app"}

\* What a feed promises of each message: a frame that the reader takes as a
\* whole, of which the application makes the message exactly if it fits.
IsWhole(proto, frame) ==
    /\ frame \in Octets
    /\ IF proto = "fix" THEN HasFixFrame(frame) /\ FrameLength(frame) = Len(frame)
       ELSE HasSoupFrame(frame) /\ Len(frame) = 2 + SizeOf(frame)
ComesBack(proto, m) ==
    LET outcome == Deserialized([proto |-> proto], Frame(proto, m))
    IN  Faithful(proto, m)
          <=> outcome.kind # "raise" /\ Understood(proto, outcome.msg) = Expected(proto, m)

\* The reader raises only where there is no message.
LEMMA SoupRaises ==
    ASSUME NEW frame \in Octets, HasSoupFrame(frame)
    PROVE  SoupDeserialize(frame).kind = "raise" <=> SoupDeserialize(frame).msg = SoupInvalid
<1>. DEFINE m == SoupDecode(Prefix(frame, 2 + SizeOf(frame)))
            kind == CASE m = SoupInvalid         -> "raise"
                      [] m.class \in IsLogout    -> "stop"
                      [] m.class \in IsHeartbeat -> "skip"
                      [] OTHER                   -> "msg"
<1>1. SoupDeserialize(frame).msg = m /\ SoupDeserialize(frame).kind = kind
  BY DEF SoupDeserialize
<1>2. kind = "raise" <=> m = SoupInvalid
  <2>1. SoupInvalid.class = "invalid" /\ "invalid" \notin IsLogout /\ "invalid" \notin IsHeartbeat
    BY DEF SoupInvalid, IsLogout, IsHeartbeat
  <2>. HIDE DEF m
  <2>. QED BY <2>1
<1>. HIDE DEF m, kind
<1>. QED BY <1>1, <1>2

LEMMA SoupComesBack ==
    ASSUME NEW m \in WireMessages("soup")
    PROVE  IsWhole("soup", Frame("soup", m)) /\ ComesBack("soup", m)
<1>. DEFINE frame == SoupEncode(m)
<1>1. m \in TextMessages \union PayloadMessages
  BY DEF WireMessages
<1>2. Frame("soup", m) = frame
  BY DEF Frame
<1>3. frame \in Octets /\ HasSoupFrame(frame) /\ Len(frame) = 2 + SizeOf(frame) /\ m.class \in DOMAIN Indicator
  <2>1. CASE m \in TextMessages
    <3>1. m.class \in DOMAIN Indicator
      BY <2>1 DEF TextMessages, TextClasses
    <3>2. SoupBody(m) \in Seq(Octet) /\ Len(SoupBody(m)) < 65535 /\ frame \in Seq(Octet)
      BY <2>1, TextFrame
    <3>. QED BY <3>1, <3>2, WholeFrame DEF Octets
  <2>2. CASE m \in PayloadMessages
    <3>. DEFINE data == m.fields[1]
    <3>1. /\ m.class \in CarriesData /\ m.fields \in Seq(Seq(Octet)) /\ Len(m.fields) = 1
          /\ Len(data) < 65535 /\ m = [class |-> m.class, fields |-> m.fields]
      BY <2>2 DEF PayloadMessages
    <3>2. data \in Seq(Octet) /\ m.fields = <<data>>
      BY <3>1
    <3>3. m = [class |-> m.class, fields |-> <<data>>]
      BY <3>1, <3>2
    <3>4. SoupBody(m) = data /\ m.class \in DOMAIN Indicator
      BY <3>1 DEF SoupBody, CarriesData, Indicator
    <3>5. frame \in Seq(Octet)
      BY <3>1, <3>2, <3>4, FrameOf
    <3>. QED BY <3>1, <3>2, <3>4, <3>5, WholeFrame DEF Octets
  <2>. QED BY <1>1, <2>1, <2>2
<1>4. SoupDeserialize(frame).msg = m <=> SoupFaithful(m)
  BY <1>1, SoupRoundTrip
<1>5. m # SoupInvalid
  BY <1>3 DEF SoupInvalid, Indicator
<1>6. SoupDeserialize(frame).kind = "raise" <=> SoupDeserialize(frame).msg = SoupInvalid
  BY <1>3, SoupRaises
<1>7. Deserialized([proto |-> "soup"], frame) = SoupDeserialize(frame)
  BY DEF Deserialized
<1>8. /\ Faithful("soup", m) = SoupFaithful(m) /\ Expected("soup", m) = m
      /\ \A msg : Understood("soup", msg) = msg
  BY DEF Faithful, Expected, Understood
<1>. HIDE DEF frame
<1>9. ComesBack("soup", m)
  BY <1>2, <1>4, <1>5, <1>6, <1>7, <1>8 DEF ComesBack
<1>. QED BY <1>2, <1>3, <1>9 DEF IsWhole

LEMMA FixComesBack ==
    ASSUME NEW m \in WireMessages("fix")
    PROVE  IsWhole("fix", Frame("fix", m)) /\ ComesBack("fix", m)
<1>. DEFINE bs == BeginString
            frame == FixEncode(m, bs)
            none == <<>>
<1>1. /\ m \in FixMessage /\ FramingFits(m, bs)
      /\ FixFaithful(m) \/ FixMisread(m)
      /\ Classes(Dictionary, m.type) = Classes(Specified, m.type)
      /\ FixClasses(Classes(Dictionary, m.type))
  BY DEF WireMessages, FixFits
<1>2. FixToBytes(m) \in Octets
  BY <1>1, FixDecodes DEF FixMisread
<1>3. bs \in Octets /\ m.type \in Octets /\ \A i \in 1..Len(bs) : bs[i] # EQ
  <2>1. bs \in FixString.exact /\ m.type \in FixString.exact /\ EQ \notin Range(bs)
    BY <1>1 DEF FramingFits
  <2>2. bs \in Octets /\ m.type \in Octets
    BY <2>1 DEF FixString
  <2>. QED BY <2>1, <2>2 DEF Range, Octets
<1>4. frame = CompleteMsg(Body(m.type, FixToBytes(m)), bs)
  BY DEF FixEncode, FixBody
<1>5. frame \in Octets /\ HasFixFrame(frame) /\ FrameLength(frame) = Len(frame)
  BY <1>2, <1>3, <1>4, FixWritesFrames DEF Octets
<1>6. none \in Octets /\ frame \o none = frame
  BY <1>5, EmptySeq, ConcatEmptySeq DEF Octets
<1>. HIDE DEF none
<1>7. FixFaithful(m)
        <=> FixDeserialize(frame).kind # "raise" /\ FixDeserialize(frame).msg = Completed(m, bs)
  <2>1. FixFaithful(m) <=> ReadsBack(m, bs, none)
    BY <1>1, <1>6, FixRoundTrip
  <2>. QED BY <1>6, <2>1 DEF ReadsBack
<1>8. /\ Frame("fix", m) = frame /\ Deserialized([proto |-> "fix"], frame) = FixDeserialize(frame)
      /\ Faithful("fix", m) = FixFaithful(m) /\ Expected("fix", m) = Completed(m, bs)
      /\ \A msg : Understood("fix", msg) = msg
  BY DEF Frame, Deserialized, Faithful, Expected, Understood
<1>. HIDE DEF frame
<1>9. ComesBack("fix", m)
  BY <1>7, <1>8 DEF ComesBack
<1>. QED BY <1>5, <1>8, <1>9 DEF IsWhole

LEMMA BinaryComesBack ==
    ASSUME NEW m \in WireMessages("app")
    PROVE  IsWhole("app", Frame("app", m)) /\ ComesBack("app", m)
<1>. DEFINE data == MessageToBytes(m)
            Payload(b) == [class |-> "SequencedData", fields |-> <<b>>]
            frame == SoupEncode(Payload(data))
            none == <<>>
<1>1. /\ m \in BinaryMessages /\ Len(data) < MaxLength
      /\ RecordFaithful(m) \/ m.id[2] # "outgoing" \/ Misread(m)
  BY DEF WireMessages, BinaryFits
<1>2. none \in Octets
  BY EmptySeq DEF Octets
<1>. HIDE DEF none
<1>3. data \in Octets
  BY <1>1, <1>2, MessageRoundTrip
<1>4. data \o none = data
  BY <1>3, ConcatEmptySeq DEF Octets, none
<1>5. /\ RecordFaithful(m) => MessageFromBytes(data \o none) = m
      /\ m.id[2] # "outgoing" \/ Misread(m) => MessageFromBytes(data \o none) # m
  BY <1>1, <1>2, MessageRoundTrip
<1>. HIDE DEF data
<1>6. MessageFromBytes(data) = m <=> RecordFaithful(m)
  BY <1>1, <1>4, <1>5
<1>7. /\ frame \in Octets /\ HasSoupFrame(frame) /\ Len(frame) = 2 + SizeOf(frame)
      /\ SoupDeserialize(frame) = [msg |-> Payload(data), n |-> Len(data) + 3, kind |-> "msg"]
  <2>1. data \in Seq(Octet) /\ Len(data) \in Nat /\ Len(data) < 65535
    BY <1>1, <1>3 DEF Octets, MaxLength
  <2>2. "SequencedData" \in CarriesData /\ "SequencedData" # "Debug"
    BY DEF CarriesData
  <2>3. /\ frame \in Seq(Octet) /\ Len(frame) = Len(data) + 3 /\ SizeOf(frame) = Len(data) + 1
        /\ HasSoupFrame(frame)
    BY <2>1, <2>2, PayloadFrame
  <2>4. SoupDeserialize(frame)
          = [msg |-> Payload(IF Len(data) < MaxLength THEN data ELSE <<>>), n |-> Len(data) + 3, kind |-> "msg"]
    BY <2>1, <2>2, PayloadRoundTrip
  <2>5. (IF Len(data) < MaxLength THEN data ELSE <<>>) = data
    BY <1>1
  <2>. HIDE DEF frame
  <2>. QED BY <2>1, <2>3, <2>4, <2>5 DEF Octets
<1>8. Payload(data).fields[1] = data
  OBVIOUS
<1>9. /\ Frame("app", m) = frame /\ Deserialized([proto |-> "app"], frame) = SoupDeserialize(frame)
      /\ Faithful("app", m) = RecordFaithful(m) /\ Expected("app", m) = m
      /\ \A msg : Understood("app", msg) = MessageFromBytes(msg.fields[1])
  BY DEF Frame, Deserialized, Faithful, Expected, Understood, data
<1>. HIDE DEF frame, Payload
<1>10. ComesBack("app", m)
  <2>1. SoupDeserialize(frame).kind # "raise" /\ SoupDeserialize(frame).msg = Payload(data)
    BY <1>7
  <2>. QED BY <1>6, <1>8, <1>9, <2>1 DEF ComesBack
<1>. QED BY <1>7, <1>9, <1>10 DEF IsWhole

LEMMA MessageComesBack ==
    ASSUME NEW proto \in Protocols, NEW m \in WireMessages(proto)
    PROVE  IsWhole(proto, Frame(proto, m)) /\ ComesBack(proto, m)
BY SoupComesBack, FixComesBack, BinaryComesBack DEF Protocols

-----------------------------------------------------------------------------
(* The frames of a feed *)

\* What is in the middle of three pieces.
LEMMA MiddlePiece ==
    ASSUME NEW a \in Octets, NEW b \in Octets, NEW c \in Octets
    PROVE  SubSeq((a \o b) \o c, Len(a) + 1, Len(a \o b)) = b
<1>. DEFINE ab == a \o b
            s == ab \o c
            t == SubSeq(s, Len(a) + 1, Len(ab))
<1>1. /\ ab \in Seq(Octet) /\ Len(ab) = Len(a) + Len(b) /\ Len(a) \in Nat /\ Len(b) \in Nat
      /\ b \in Seq(Octet) /\ c \in Seq(Octet) /\ \A i \in 1..Len(b) : ab[Len(a) + i] = b[i]
  BY Joined DEF Octets
<1>. HIDE DEF ab
<1>2. s \in Seq(Octet) /\ Len(s) = Len(ab) + Len(c) /\ Len(c) \in Nat /\ \A i \in 1..Len(ab) : s[i] = ab[i]
  <2>1. /\ s \in Seq(Octet) /\ Len(s) = Len(ab) + Len(c)
        /\ \A i \in 1..Len(ab) : s[i] = ab[i]
    BY <1>1, Joined
  <2>2. Len(c) \in Nat
    BY <1>1
  <2>. HIDE DEF s
  <2>. QED BY <2>1, <2>2
<1>. HIDE DEF s
<1>3. t \in Seq(Octet) /\ Len(t) = Len(b) /\ \A i \in 1..Len(b) : t[i] = s[Len(a) + i]
  <2>1. \A i \in (Len(a) + 1)..Len(ab) : s[i] \in Octet
    BY <1>1, <1>2
  <2>2. Len(a) + 1 \in Int /\ Len(ab) \in Int /\ Len(ab) - (Len(a) + 1) + 1 = Len(b)
    BY <1>1
  <2>3. /\ t \in Seq(Octet) /\ Len(t) = IF Len(a) + 1 <= Len(ab) THEN Len(ab) - (Len(a) + 1) + 1 ELSE 0
        /\ \A i \in 1..(Len(ab) - (Len(a) + 1) + 1) : t[i] = s[(Len(a) + 1) + i - 1]
    BY <2>1, <2>2, SubSeqProperties
  <2>. HIDE DEF t
  <2>. QED BY <1>1, <2>2, <2>3
<1>. HIDE DEF t
<1>4. \A i \in 1..Len(b) : t[i] = b[i]
  BY <1>1, <1>2, <1>3
<1>5. t = b
  BY <1>1, <1>3, <1>4, SeqEqual
<1>. QED BY <1>5 DEF t, s, ab

\* Where the k-th frame ends.
EndAt(frames, k) == Len(FlattenSeq(SubSeq(frames, 1, k)))

\* The bytes of the frames, cut where the frames end, are the frames.
CutAgain(frames) ==
    LET bytes == FlattenSeq(frames)
        n == Len(frames)
    IN  /\ bytes \in Octets /\ EndAt(frames, 0) = 0 /\ EndAt(frames, n) = Len(bytes)
        /\ \A k \in 0..n : EndAt(frames, k) \in Nat /\ EndAt(frames, k) <= Len(bytes)
        /\ \A k \in 1..n : SubSeq(bytes, EndAt(frames, k - 1) + 1, EndAt(frames, k)) = frames[k]

LEMMA FramesCutAgain == ASSUME NEW frames \in Seq(Octets) PROVE CutAgain(frames)
<1>. DEFINE n == Len(frames)
            bytes == FlattenSeq(frames)
            upTo(k) == FlattenSeq(SubSeq(frames, 1, k))
<1>1. n \in Nat /\ \A k \in 1..n : frames[k] \in Octets
  OBVIOUS
<1>2. bytes \in Octets
  BY FlattenCuts
<1>3. PICK front, behind : IsCut(bytes, frames, front, behind)
  BY FlattenCuts
<1>. HIDE DEF bytes
<1>4. /\ \A k \in 0..n : front[k] \in Octets /\ behind[k] \in Octets /\ bytes = front[k] \o behind[k]
      /\ front[0] = <<>> /\ front[n] = bytes
      /\ \A k \in 1..n : front[k] = front[k - 1] \o frames[k]
  BY <1>3 DEF IsCut
<1>5. \A k \in 0..n : front[k] = upTo(k)
  <2>. DEFINE T == {k \in Nat : k <= n => front[k] = upTo(k)}
  <2>1. 0 \in T
    <3>1. upTo(0) = FlattenSeq(<<>>)
      BY FirstFields
    <3>. QED BY <1>4, <3>1, FlattenNone
  <2>2. ASSUME NEW k \in Nat, k \in T PROVE k + 1 \in T
    <3>. SUFFICES ASSUME k + 1 <= n PROVE front[k + 1] = upTo(k + 1)
      OBVIOUS
    <3>1. k + 1 \in 1..n /\ (k + 1) - 1 = k /\ front[k] = upTo(k)
      BY <1>1, <2>2
    <3>2. /\ SubSeq(frames, 1, k + 1) = Append(SubSeq(frames, 1, k), frames[k + 1])
          /\ SubSeq(frames, 1, k) \in Seq(Octets) /\ frames[k + 1] \in Octets
      BY <1>1, <3>1, FirstFields
    <3>3. upTo(k + 1) = upTo(k) \o frames[k + 1]
      BY <3>2, FlattenAppend
    <3>4. front[k + 1] = front[k] \o frames[k + 1]
      BY <1>4, <3>1
    <3>. QED BY <3>1, <3>3, <3>4
  <2>. HIDE DEF T
  <2>3. \A k \in Nat : k \in T
    BY <2>1, <2>2, SetInduction
  <2>. QED BY <1>1, <2>3 DEF T
<1>6. \A k \in 0..n : EndAt(frames, k) = Len(front[k])
  BY <1>5 DEF EndAt
<1>7. ASSUME NEW k \in 0..n PROVE EndAt(frames, k) \in Nat /\ EndAt(frames, k) <= Len(bytes)
  <2>. DEFINE a == Len(front[k])
              b == Len(behind[k])
  <2>1. Len(bytes) = a + b /\ a \in Nat /\ b \in Nat
    BY <1>4, OctetsConcat
  <2>2. EndAt(frames, k) = a
    BY <1>6
  <2>. HIDE DEF a, b
  <2>3. a <= a + b
    BY <2>1
  <2>. QED BY <2>1, <2>2, <2>3
<1>8. ASSUME NEW k \in 1..n PROVE SubSeq(bytes, EndAt(frames, k - 1) + 1, EndAt(frames, k)) = frames[k]
  <2>. DEFINE a == front[k - 1]
              b == frames[k]
              c == behind[k]
  <2>1. k - 1 \in 0..n /\ k \in 0..n
    BY <1>1
  <2>2. a \in Octets /\ b \in Octets /\ c \in Octets /\ front[k] = a \o b /\ bytes = (a \o b) \o c
    BY <1>1, <1>4, <2>1
  <2>3. EndAt(frames, k - 1) = Len(a) /\ EndAt(frames, k) = Len(a \o b)
    BY <1>6, <2>1, <2>2
  <2>. HIDE DEF a, b, c
  <2>4. SubSeq(bytes, EndAt(frames, k - 1) + 1, EndAt(frames, k)) = b
    BY <2>2, <2>3, MiddlePiece
  <2>. QED BY <2>4 DEF b
<1>9. EndAt(frames, 0) = 0 /\ EndAt(frames, n) = Len(bytes)
  <2>1. Len(front[0]) = 0
    BY <1>4
  <2>. QED BY <1>1, <1>4, <1>6, <2>1
<1>. QED BY <1>2, <1>7, <1>8, <1>9 DEF CutAgain, bytes

\* The parts of a feed.
FeedParts(f, proto, sent, frames) ==
    /\ f.proto = proto /\ f.bytes = FlattenSeq(frames)
    /\ f.ends = [k \in 1..Len(sent) |-> EndAt(frames, k)]
    /\ f.outcomes = [k \in 1..Len(sent) |-> Deserialized([proto |-> proto], frames[k])]
    /\ \A k \in 1..Len(sent) :
          /\ frames[k] = Frame(proto, sent[k]) /\ f.faithful[k] = Faithful(proto, sent[k])
          /\ f.expected[k] = Expected(proto, sent[k])
          /\ f.understood[k] = Understood(proto, f.outcomes[k].msg)
    /\ frames \in Seq(Octets) /\ Len(frames) = Len(sent)

LEMMA FeedHasParts ==
    ASSUME NEW proto \in Protocols, NEW sent \in Seq(WireMessages(proto)), NEW chunks
    PROVE  \E frames : FeedParts(Feed(proto, sent, chunks), proto, sent, frames)
<1>. DEFINE n == Len(sent)
            frames == [k \in DOMAIN sent |-> Frame(proto, sent[k])]
            outcomes == OutcomesAlone(proto, frames)
            f == Feed(proto, sent, chunks)
<1>1. n \in Nat /\ DOMAIN sent = 1..n /\ \A k \in 1..n : sent[k] \in WireMessages(proto)
  OBVIOUS
<1>2. frames = [k \in 1..n |-> Frame(proto, sent[k])] /\ DOMAIN frames = 1..n
  BY <1>1
<1>3. \A k \in 1..n : Frame(proto, sent[k]) \in Octets
  BY <1>1, MessageComesBack DEF IsWhole
<1>4. frames \in Seq(Octets) /\ Len(frames) = n
  BY <1>1, <1>2, <1>3
<1>5. \A k \in 1..n : frames[k] = Frame(proto, sent[k])
  BY <1>2
<1>6. f = FeedOf(proto, sent, chunks, frames, outcomes)
  BY DEF Feed, FeedSent
<1>. HIDE DEF frames
<1>7. outcomes = [k \in 1..n |-> Deserialized([proto |-> proto], frames[k])]
  BY <1>2 DEF OutcomesAlone
<1>. HIDE DEF outcomes, f
<1>8. /\ f.proto = proto /\ f.bytes = FlattenSeq(frames) /\ f.outcomes = outcomes
      /\ f.ends = [k \in 1..n |-> Len(FlattenSeq(SubSeq(frames, 1, k)))]
      /\ f.faithful = [k \in 1..n |-> Faithful(proto, sent[k])]
      /\ f.expected = [k \in 1..n |-> Expected(proto, sent[k])]
      /\ f.understood = [k \in 1..n |-> Understood(proto, outcomes[k].msg)]
  BY <1>1, <1>6 DEF FeedOf
<1>9. f.ends = [k \in 1..n |-> EndAt(frames, k)]
  BY <1>8 DEF EndAt
<1>10. FeedParts(f, proto, sent, frames)
  BY <1>4, <1>5, <1>7, <1>8, <1>9 DEF FeedParts
<1>. QED BY <1>10 DEF f

\* A feed of messages like these.
IsWireFeed(f) ==
    \E proto \in Protocols : \E sent \in Seq(WireMessages(proto)) : \E chunks : f = Feed(proto, sent, chunks)

\* Each of its messages comes back exactly if it fits.
FeedRoundTrips(f) ==
    \A k \in 1..Len(f.ends) :
        f.faithful[k] <=> f.outcomes[k].kind # "raise" /\ f.understood[k] = f.expected[k]

\* Its reader is that of its protocol.
ReadsWire(f) == \A view \in Seq(Octet) : Deserialize(f, view) = Deserialized(f, view)

FramedAs(f) == IF f.proto = "fix" THEN FixFramed(f.bytes, f.ends) ELSE SoupFramed(f.bytes, f.ends)

LEMMA NoFrameLeft ==
    /\ ~HasSoupFrame(<<>>)
    /\ FixRead(<<>>, FixInvalid).kind = "wait"
<1>1. Len(<<>>) = 0
  OBVIOUS
<1>2. ~HasSoupFrame(<<>>)
  BY <1>1 DEF HasSoupFrame
<1>3. TypePosition(<<>>) = 0
  <2>1. {i \in 1..(Len(<<>>) - 2) : SubSeq(<<>>, i, i + 2) = <<51, 53, EQ>>} = {}
    BY <1>1
  <2>. QED BY <2>1 DEF TypePosition
<1>4. ~HasHeading(<<>>)
  BY <1>3 DEF HasHeading
<1>5. FixRead(<<>>, FixInvalid) = Nothing("wait")
  BY <1>4 DEF FixRead, HasFixFrame
<1>. QED BY <1>2, <1>5 DEF Nothing

\* What FixFramed and SoupFramed say of the ends of the frames.
CutByEnds(f, frames) ==
    LET n == Len(f.ends)
    IN  /\ f.bytes \in Seq(Octet) /\ f.ends \in Seq(Nat) /\ n = Len(frames) /\ n \in Nat
        /\ \A k \in 0..n : EndOf(f, k) <= Len(f.bytes)
        /\ \A k \in 1..n : SubSeq(f.bytes, EndOf(f, k - 1) + 1, f.ends[k]) = frames[k]
        /\ SubSeq(f.bytes, EndOf(f, n) + 1, Len(f.bytes)) = <<>>

LEMMA PartsAreCut ==
    ASSUME NEW f, NEW proto, NEW sent, NEW frames, FeedParts(f, proto, sent, frames)
    PROVE  CutByEnds(f, frames)
<1>. DEFINE n == Len(frames)
<1>1. frames \in Seq(Octets) /\ Len(sent) = n /\ f.bytes = FlattenSeq(frames)
      /\ f.ends = [k \in 1..n |-> EndAt(frames, k)]
  BY DEF FeedParts
<1>2. /\ f.bytes \in Octets /\ EndAt(frames, 0) = 0 /\ EndAt(frames, n) = Len(f.bytes)
      /\ \A k \in 0..n : EndAt(frames, k) \in Nat /\ EndAt(frames, k) <= Len(f.bytes)
      /\ \A k \in 1..n : SubSeq(f.bytes, EndAt(frames, k - 1) + 1, EndAt(frames, k)) = frames[k]
  BY <1>1, FramesCutAgain DEF CutAgain
<1>3. n \in Nat
  BY <1>1
<1>. HIDE DEF n
<1>4. \A k \in 1..n : f.ends[k] = EndAt(frames, k) /\ EndAt(frames, k) \in Nat
  BY <1>1, <1>2, <1>3
<1>5. f.ends \in Seq(Nat) /\ Len(f.ends) = n
  BY <1>1, <1>3, <1>4
<1>6. ASSUME NEW k \in 0..n PROVE EndOf(f, k) = EndAt(frames, k)
  <2>1. CASE k = 0
    BY <1>2, <2>1 DEF EndOf
  <2>2. CASE k # 0
    <3>1. k \in 1..n
      BY <1>3, <2>2
    <3>. QED BY <1>4, <2>2, <3>1 DEF EndOf
  <2>. QED BY <2>1, <2>2
<1>7. \A k \in 0..n : EndOf(f, k) <= Len(f.bytes)
  BY <1>2, <1>6
<1>8. ASSUME NEW k \in 1..n PROVE SubSeq(f.bytes, EndOf(f, k - 1) + 1, f.ends[k]) = frames[k]
  <2>1. k - 1 \in 0..n
    BY <1>3
  <2>2. EndOf(f, k - 1) = EndAt(frames, k - 1) /\ f.ends[k] = EndAt(frames, k)
    BY <1>4, <1>6, <2>1
  <2>. QED BY <1>2, <2>2
<1>9. SubSeq(f.bytes, EndOf(f, n) + 1, Len(f.bytes)) = <<>>
  <2>1. n \in 0..n /\ f.bytes \in Seq(Octet) /\ Len(f.bytes) \in Nat
    BY <1>2, <1>3 DEF Octets
  <2>2. EndOf(f, n) = Len(f.bytes)
    BY <1>2, <1>6, <2>1
  <2>3. SubSeq(f.bytes, Len(f.bytes) + 1, Len(f.bytes)) = <<>>
    BY <2>1, SubSeqEmpty
  <2>. QED BY <2>2, <2>3
<1>. QED BY <1>2, <1>3, <1>5, <1>7, <1>8, <1>9 DEF CutByEnds, Octets, n

\* A feed of messages is cut into the frames of its messages, and each comes
\* back exactly if it fits.
LEMMA WireFeedIs ==
    ASSUME NEW f, IsWireFeed(f), ReadsWire(f)
    PROVE  /\ f.bytes \in Seq(Octet) /\ OutcomesOfFrames(f) /\ FramedAs(f)
           /\ FeedRoundTrips(f)
<1>0. PICK proto \in Protocols :
        \E sent \in Seq(WireMessages(proto)) : \E chunks : f = Feed(proto, sent, chunks)
  BY DEF IsWireFeed
<1>1. PICK sent \in Seq(WireMessages(proto)) : \E chunks : f = Feed(proto, sent, chunks)
  BY <1>0
<1>2. PICK frames : FeedParts(f, proto, sent, frames)
  BY <1>1, FeedHasParts
<1>. DEFINE n == Len(f.ends)
<1>3. CutByEnds(f, frames)
  BY <1>2, PartsAreCut
<1>4. /\ f.bytes \in Seq(Octet) /\ f.ends \in Seq(Nat) /\ n = Len(frames) /\ n \in Nat
      /\ \A k \in 0..n : EndOf(f, k) <= Len(f.bytes)
      /\ \A k \in 1..n : SubSeq(f.bytes, EndOf(f, k - 1) + 1, f.ends[k]) = frames[k]
      /\ SubSeq(f.bytes, EndOf(f, n) + 1, Len(f.bytes)) = <<>>
  BY <1>3 DEF CutByEnds
<1>. HIDE DEF n
<1>5. /\ f.proto = proto /\ Len(sent) = n
      /\ f.outcomes = [k \in 1..n |-> Deserialized([proto |-> proto], frames[k])]
      /\ \A k \in 1..n :
            /\ frames[k] = Frame(proto, sent[k]) /\ f.faithful[k] = Faithful(proto, sent[k])
            /\ f.expected[k] = Expected(proto, sent[k])
            /\ f.understood[k] = Understood(proto, f.outcomes[k].msg)
  BY <1>2, <1>4 DEF FeedParts
<1>6. \A k \in 1..n : IsWhole(proto, frames[k]) /\ ComesBack(proto, sent[k])
  <2>1. \A k \in 1..n : sent[k] \in WireMessages(proto)
    BY <1>1, <1>5
  <2>. QED BY <1>5, <2>1, MessageComesBack
<1>7. DOMAIN f.ends = 1..n
  BY <1>4 DEF n
<1>8. OutcomesOfFrames(f)
  <2>1. \A view : Deserialized(f, view) = Deserialized([proto |-> proto], view)
    BY <1>5 DEF Deserialized
  <2>2. ASSUME NEW k \in 1..n PROVE f.outcomes[k] = Deserialize(f, frames[k])
    <3>1. frames[k] \in Seq(Octet)
      BY <1>6 DEF IsWhole, Octets
    <3>2. Deserialize(f, frames[k]) = Deserialized(f, frames[k])
      BY <3>1 DEF ReadsWire
    <3>. QED BY <1>5, <2>1, <3>2
  <2>3. DOMAIN f.outcomes = 1..n
    BY <1>5
  <2>. QED BY <1>4, <1>7, <2>2, <2>3 DEF OutcomesOfFrames
<1>9. FramedAs(f)
  <2>1. CASE proto = "fix"
    <3>1. \A k \in 1..n : HasFixFrame(frames[k]) /\ FrameLength(frames[k]) = Len(frames[k])
      BY <1>6, <2>1 DEF IsWhole
    <3>2. FixFramed(f.bytes, f.ends)
      BY <1>4, <3>1, NoFrameLeft DEF FixFramed, EndOf, n
    <3>. QED BY <1>5, <2>1, <3>2 DEF FramedAs
  <2>2. CASE proto # "fix"
    <3>1. \A k \in 1..n : HasSoupFrame(frames[k]) /\ Len(frames[k]) = 2 + SizeOf(frames[k])
      BY <1>6, <2>2 DEF IsWhole
    <3>2. SoupFramed(f.bytes, f.ends)
      BY <1>4, <3>1, NoFrameLeft DEF SoupFramed, EndOf, n
    <3>. QED BY <1>5, <2>2, <3>2 DEF FramedAs
  <2>. QED BY <2>1, <2>2
<1>10. FeedRoundTrips(f)
  <2>. SUFFICES ASSUME NEW k \in 1..n
                PROVE  f.faithful[k] <=> f.outcomes[k].kind # "raise" /\ f.understood[k] = f.expected[k]
    BY DEF FeedRoundTrips, n
  <2>1. f.outcomes[k] = Deserialized([proto |-> proto], Frame(proto, sent[k]))
    BY <1>5
  <2>. QED BY <1>5, <1>6, <2>1 DEF ComesBack
<1>. QED BY <1>4, <1>8, <1>9, <1>10

\* The reader of such a feed takes its frames one by one.
LEMMA WireFeedIsTaken ==
    ASSUME NEW f, IsWireFeed(f), ReadsWire(f)
    PROVE  /\ FramesInOrder(f) /\ TakesWholeFrames(f)
           /\ \A view \in Seq(Octet) :
                 /\ Deserialize(f, view).n \in 0..Len(view)
                 /\ Deserialize(f, view).kind = "wait" => Deserialize(f, view).n = 0
<1>1. f.bytes \in Seq(Octet) /\ OutcomesOfFrames(f) /\ FramedAs(f)
  BY WireFeedIs
<1>. DEFINE Reads == \A view \in Seq(Octet) :
                       /\ Deserialize(f, view).n \in 0..Len(view)
                       /\ Deserialize(f, view).kind = "wait" => Deserialize(f, view).n = 0
<1>2. CASE f.proto # "fix"
  <2>1. \A view \in Seq(Octet) : Deserialize(f, view) = SoupDeserialize(view)
    BY <1>2 DEF ReadsWire, Deserialized
  <2>2. SoupFramed(f.bytes, f.ends)
    BY <1>1, <1>2 DEF FramedAs
  <2>3. IsCutInFrames(f) /\ DecidesInFront(f)
    BY <1>1, <2>1, <2>2, SoupCut, SoupDecidesInFront
  <2>4. Reads
    BY <2>1, SoupTakesWhatIsThere
  <2>. QED BY <1>1, <2>3, <2>4, CutInOrder, CutIsTaken
<1>3. CASE f.proto = "fix"
  <2>. DEFINE D == [b \in Octets |-> FixDecode(b)]
  <2>1. ASSUME NEW view \in Seq(Octet)
        PROVE  Deserialize(f, view) = FixRead(view, D[Prefix(view, FrameLength(view))])
    <3>1. Deserialize(f, view) = FixRead(view, FixDecode(Prefix(view, FrameLength(view))))
      BY <1>3 DEF ReadsWire, Deserialized, FixDeserialize
    <3>2. CASE HasFixFrame(view)
      <4>1. FrameLength(view) \in Nat
        BY <3>2, FrameLengthType DEF HasFixFrame
      <4>2. Prefix(view, FrameLength(view)) \in Octets
        BY <4>1 DEF Prefix, Octets
      <4>3. D[Prefix(view, FrameLength(view))] = FixDecode(Prefix(view, FrameLength(view)))
        BY <4>2
      <4>. QED BY <3>1, <4>3
    <3>3. CASE ~HasFixFrame(view)
      BY <3>1, <3>3, FixReadIs
    <3>. QED BY <3>2, <3>3
  <2>. HIDE DEF D
  <2>2. ReadsFix(f, D)
    BY <2>1 DEF ReadsFix
  <2>3. FixFramed(f.bytes, f.ends)
    BY <1>1, <1>3 DEF FramedAs
  <2>4. IsCutInFrames(f) /\ DecidesInFront(f)
    BY <1>1, <2>2, <2>3, FixCut, FixDecidesInFront
  <2>5. Reads
    BY <2>1, FixTakesWhatIsThere
  <2>. QED BY <1>1, <2>4, <2>5, CutInOrder, CutIsTaken
<1>. QED BY <1>2, <1>3

\* From one end of the wire to the other, however the bytes are cut and whatever
\* a drain holds back: the application gets the messages one by one and in
\* order, and each that fits its format as it was sent; one that does not fit
\* is changed, or stops the reader.
THEOREM WireRoundTrip ==
    ASSUME \A f \in Feeds : IsWireFeed(f) /\ ReadsWire(f)
    PROVE  RSpec => [](FramesMatch /\ RoundTrip)
<1>1. ASSUME NEW f \in Feeds PROVE FramesInOrder(f) /\ TakesWholeFrames(f) /\ FeedRoundTrips(f)
  BY WireFeedIs, WireFeedIsTaken
<1>2. TakesWhatIsThere
  BY WireFeedIsTaken DEF TakesWhatIsThere
<1>3. FullInv /\ MatchInv => RoundTrip
  <2>. SUFFICES ASSUME FullInv, MatchInv PROVE RoundTrip
    OBVIOUS
  <2>1. feed \in Feeds
    BY DEF FullInv, BufferTypes
  <2>2. PICK k \in 0..Len(feed.ends) :
          /\ eaten = EndOf(feed, k) /\ got = MessagesOf(feed, k)
          /\ state = "failed" => k < Len(feed.ends) /\ feed.outcomes[k + 1].kind = "raise"
    BY DEF MatchInv
  <2>3. FramesRead = k
    BY <1>1, <2>1, <2>2, FramesReadIs
  <2>4. Len(feed.ends) \in Nat
    BY <1>1, <2>1 DEF FramesInOrder
  <2>. DEFINE i == IF state = "failed" THEN FramesRead + 1 ELSE FramesRead
  <2>5. i > 0 => i \in 1..Len(feed.ends)
    BY <2>2, <2>3, <2>4
  <2>6. i > 0 => (feed.faithful[i] <=> feed.outcomes[i].kind # "raise" /\ feed.understood[i] = feed.expected[i])
    BY <1>1, <2>1, <2>5 DEF FeedRoundTrips
  <2>. QED BY <2>6 DEF RoundTrip
<1>4. RSpec => [](FullInv /\ MatchInv)
  BY <1>1, <1>2, ReaderMatches
<1>5. RSpec => []FramesMatch
  BY <1>1, <1>2, ReaderGivesFrames
<1>. QED BY <1>3, <1>4, <1>5, PTL

=============================================================================
