---------------------------- MODULE CodecProofs ----------------------------
(***************************************************************************)
(* to_bytes() and from_bytes(): which messages of SoupBinTCP come back     *)
(* from the wire as they were sent, and what becomes of a payload that is  *)
(* too long; and which binary messages of ITCH, OUCH and SQF do, whatever  *)
(* the types of their fields.                                              *)
(***************************************************************************)
EXTENDS SoupMessages, Records, SelectionProofs, SequenceTheorems, TLAPS

-----------------------------------------------------------------------------
(* Numbers as they are written.  Positional and Decimal are recursions that *)
(* have a solution.                                                        *)

\* f gives the values of the prefixes of s up to n.
IsPositional(f, base, zero, s, n) ==
    f = [i \in 0..n |-> IF i = 0 THEN 0 ELSE base * f[i - 1] + (s[i] - zero)]

LEMMA PositionalExists ==
    ASSUME NEW base, NEW zero, NEW s
    PROVE  \A n \in Nat : \E f : IsPositional(f, base, zero, s, n)
<1>. DEFINE T == {n \in Nat : \E f : IsPositional(f, base, zero, s, n)}
<1>1. 0 \in T
  <2>1. IsPositional([i \in 0..0 |-> 0], base, zero, s, 0)
    BY DEF IsPositional
  <2>. QED BY <2>1
<1>2. ASSUME NEW n \in Nat, n \in T PROVE n + 1 \in T
  <2>1. PICK f : IsPositional(f, base, zero, s, n)
    BY <1>2
  <2>. DEFINE last == base * f[n] + (s[n + 1] - zero)
              g == [i \in 0..(n + 1) |-> IF i = n + 1 THEN last ELSE f[i]]
  <2>2. ASSUME NEW i \in 0..(n + 1)
        PROVE  g[i] = IF i = 0 THEN 0 ELSE base * g[i - 1] + (s[i] - zero)
    <3>1. CASE i = n + 1
      <4>1. i # 0 /\ i - 1 = n /\ n \in 0..(n + 1) /\ n # n + 1
        BY <3>1
      <4>2. g[i] = last /\ g[n] = f[n]
        BY <3>1, <4>1
      <4>. HIDE DEF g
      <4>3. g[i] = base * g[i - 1] + (s[i] - zero)
        BY <3>1, <4>1, <4>2
      <4>. QED BY <4>1, <4>3
    <3>2. CASE i # n + 1
      <4>1. i \in 0..n /\ g[i] = f[i]
        BY <3>2
      <4>2. f[i] = IF i = 0 THEN 0 ELSE base * f[i - 1] + (s[i] - zero)
        BY <2>1, <4>1 DEF IsPositional
      <4>3. i # 0 => i - 1 \in 0..n /\ g[i - 1] = f[i - 1]
        BY <4>1
      <4>. HIDE DEF g
      <4>. QED BY <4>1, <4>2, <4>3
    <3>. QED BY <3>1, <3>2
  <2>3. g = [i \in 0..(n + 1) |-> g[i]]
    OBVIOUS
  <2>. HIDE DEF g
  <2>4. IsPositional(g, base, zero, s, n + 1)
    BY <2>2, <2>3 DEF IsPositional
  <2>. QED BY <2>4
<1>. HIDE DEF T
<1>3. \A n \in Nat : n \in T
  BY <1>1, <1>2, SetInduction
<1>. QED BY <1>3 DEF T

LEMMA PositionalIs ==
    ASSUME NEW base, NEW zero, NEW s, Len(s) \in Nat
    PROVE  \E f : IsPositional(f, base, zero, s, Len(s)) /\ Positional(base, zero, s) = f[Len(s)]
<1>. DEFINE f == CHOOSE h : h = [i \in 0..Len(s) |->
                     IF i = 0 THEN 0 ELSE base * h[i - 1] + (s[i] - zero)]
<1>1. Positional(base, zero, s) = f[Len(s)]
  BY DEF Positional
<1>2. PICK g : IsPositional(g, base, zero, s, Len(s))
  BY PositionalExists
<1>3. IsPositional(f, base, zero, s, Len(s))
  BY <1>2, Zenon DEF IsPositional
<1>. QED BY <1>1, <1>3

\* What digits mean is a natural number.
LEMMA PositionalType ==
    ASSUME NEW base \in Nat, NEW zero \in Nat, NEW s, Len(s) \in Nat,
           \A i \in 1..Len(s) : s[i] \in Nat /\ s[i] >= zero
    PROVE  Positional(base, zero, s) \in Nat
<1>1. PICK f : IsPositional(f, base, zero, s, Len(s)) /\ Positional(base, zero, s) = f[Len(s)]
  BY PositionalIs
<1>. DEFINE T == {i \in Nat : i <= Len(s) => f[i] \in Nat}
<1>2. 0 \in T
  BY <1>1 DEF IsPositional
<1>3. ASSUME NEW i \in Nat, i \in T PROVE i + 1 \in T
  <2>. SUFFICES ASSUME i + 1 <= Len(s) PROVE f[i + 1] \in Nat
    OBVIOUS
  <2>1. i + 1 \in 0..Len(s) /\ i + 1 # 0 /\ (i + 1) - 1 = i /\ i + 1 \in 1..Len(s) /\ f[i] \in Nat
    BY <1>3
  <2>2. f[i + 1] = base * f[i] + (s[i + 1] - zero)
    BY <1>1, <2>1 DEF IsPositional
  <2>3. base * f[i] \in Nat /\ s[i + 1] - zero \in Nat
    BY <2>1
  <2>. QED BY <2>2, <2>3
<1>. HIDE DEF T
<1>4. Len(s) \in T
  BY <1>2, <1>3, SetInduction
<1>. QED BY <1>1, <1>4 DEF T

\* One more digit.
LEMMA PositionalAppend ==
    ASSUME NEW base \in Nat, NEW zero \in Nat, NEW s \in Seq(Nat), NEW d \in Nat
    PROVE  Positional(base, zero, Append(s, d)) = base * Positional(base, zero, s) + (d - zero)
<1>. DEFINE t == Append(s, d)
            n == Len(s)
<1>1. n \in Nat /\ Len(t) = n + 1 /\ t[n + 1] = d /\ \A i \in 1..n : t[i] = s[i]
  OBVIOUS
<1>. HIDE DEF t, n
<1>2. PICK f : IsPositional(f, base, zero, s, n) /\ Positional(base, zero, s) = f[n]
  BY <1>1, PositionalIs DEF n
<1>3. PICK g : IsPositional(g, base, zero, t, n + 1) /\ Positional(base, zero, t) = g[n + 1]
  BY <1>1, PositionalIs
<1>. DEFINE T == {i \in Nat : i <= n => f[i] = g[i]}
<1>4. 0 \in T
  BY <1>1, <1>2, <1>3 DEF IsPositional
<1>5. ASSUME NEW i \in Nat, i \in T PROVE i + 1 \in T
  <2>. SUFFICES ASSUME i + 1 <= n PROVE f[i + 1] = g[i + 1]
    OBVIOUS
  <2>1. /\ i + 1 \in 0..n /\ i + 1 \in 0..(n + 1) /\ i + 1 # 0 /\ (i + 1) - 1 = i /\ i + 1 \in 1..n
        /\ f[i] = g[i]
    BY <1>1, <1>5
  <2>2. f[i + 1] = base * f[i] + (s[i + 1] - zero)
    BY <1>2, <2>1 DEF IsPositional
  <2>3. g[i + 1] = base * g[i] + (t[i + 1] - zero)
    BY <1>3, <2>1 DEF IsPositional
  <2>. QED BY <1>1, <2>1, <2>2, <2>3
<1>. HIDE DEF T
<1>6. n \in T
  BY <1>1, <1>4, <1>5, SetInduction
<1>7. f[n] = g[n]
  BY <1>1, <1>6 DEF T
<1>8. g[n + 1] = base * g[n] + (t[n + 1] - zero)
  <2>1. n + 1 \in 0..(n + 1) /\ n + 1 # 0 /\ (n + 1) - 1 = n
    BY <1>1
  <2>. QED BY <1>3, <2>1 DEF IsPositional
<1>9. Positional(base, zero, t) = base * Positional(base, zero, s) + (d - zero)
  BY <1>1, <1>2, <1>3, <1>7, <1>8
<1>. QED BY <1>9 DEF t

\* A single digit.
LEMMA PositionalOne ==
    ASSUME NEW base \in Nat, NEW zero \in Nat, NEW d \in Nat
    PROVE  Positional(base, zero, <<d>>) = d - zero
<1>1. PICK f : IsPositional(f, base, zero, <<d>>, 1) /\ Positional(base, zero, <<d>>) = f[1]
  <2>1. Len(<<d>>) = 1
    OBVIOUS
  <2>. QED BY <2>1, PositionalIs
<1>2. f[0] = 0
  BY <1>1 DEF IsPositional
<1>3. f[1] = base * f[0] + (<<d>>[1] - zero)
  <2>1. 1 \in 0..1 /\ 1 # 0 /\ 1 - 1 = 0
    OBVIOUS
  <2>. QED BY <1>1, <2>1 DEF IsPositional
<1>4. base * 0 = 0 /\ <<d>>[1] = d
  OBVIOUS
<1>. QED BY <1>1, <1>2, <1>3, <1>4

LEMMA NumberType ==
    ASSUME NEW s \in Seq(Octet), IsNumber(s)
    PROVE  Number(s) \in Nat
<1>1. Len(s) \in Nat /\ \A i \in 1..Len(s) : s[i] \in 48..57
  BY DEF IsNumber
<1>2. \A i \in 1..Len(s) : s[i] \in Nat /\ s[i] >= 48
  BY <1>1
<1>. QED BY <1>1, <1>2, PositionalType DEF Number

-----------------------------------------------------------------------------
(* Frames *)

\* The length is in the first two bytes.
LEMMA LengthBytes == ASSUME NEW s PROVE SizeOf(s) = 256 * s[1] + s[2]
BY DEF SizeOf

\* Where the elements are of a sequence behind three others.
LEMMA BehindThree ==
    ASSUME NEW S, NEW s \in Seq(S), NEW t \in Seq(S), Len(s) = 3
    PROVE  /\ s \o t \in Seq(S) /\ Len(s \o t) = 3 + Len(t)
           /\ \A i \in 1..(3 + Len(t)) : (s \o t)[i] = IF i <= 3 THEN s[i] ELSE t[i - 3]
<1>1. /\ s \o t \in Seq(S) /\ Len(s \o t) = Len(s) + Len(t)
      /\ \A i \in 1..(Len(s) + Len(t)) : (s \o t)[i] = IF i <= Len(s) THEN s[i] ELSE t[i - Len(s)]
  BY ConcatProperties
<1>. QED BY <1>1

\* A frame: two bytes of length and the indicator in front of the payload.
LEMMA FrameParts ==
    ASSUME NEW front \in Seq(Octet), Len(front) = 3, NEW data \in Seq(Octet)
    PROVE  LET frame == front \o data
           IN  /\ frame \in Seq(Octet) /\ Len(frame) = Len(data) + 3
               /\ frame[1] = front[1] /\ frame[2] = front[2] /\ frame[3] = front[3]
               /\ From(frame, 3) = data
<1>. DEFINE frame == front \o data
            d == SubSeq(frame, 3 + 1, Len(frame))
<1>1. Len(data) \in Nat /\ Len(data) + 3 = 3 + Len(data)
  OBVIOUS
<1>2. /\ frame \in Seq(Octet) /\ Len(frame) = 3 + Len(data)
      /\ \A i \in 1..(3 + Len(data)) : frame[i] = IF i <= 3 THEN front[i] ELSE data[i - 3]
  BY BehindThree
<1>. HIDE DEF frame
<1>3. frame[1] = front[1] /\ frame[2] = front[2] /\ frame[3] = front[3]
  BY <1>1, <1>2
<1>4. \A i \in 4..Len(frame) : frame[i] \in Octet
  BY <1>1, <1>2
<1>5. /\ d \in Seq(Octet) /\ Len(d) = IF 4 <= Len(frame) THEN Len(frame) - 4 + 1 ELSE 0
      /\ \A i \in 1..(Len(frame) - 4 + 1) : d[i] = frame[4 + i - 1]
  BY <1>1, <1>2, <1>4, SubSeqProperties
<1>6. From(frame, 3) = d
  BY DEF From
<1>. HIDE DEF d
<1>7. Len(d) = Len(data)
  BY <1>1, <1>2, <1>5
<1>8. ASSUME NEW i \in 1..Len(d) PROVE d[i] = data[i]
  <2>1. /\ i \in Nat /\ i >= 1 /\ i <= Len(data) /\ 4 + i - 1 = i + 3
        /\ i + 3 \in 1..(3 + Len(data)) /\ ~(i + 3 <= 3) /\ (i + 3) - 3 = i
        /\ i \in 1..(Len(frame) - 4 + 1)
    BY <1>1, <1>2, <1>7
  <2>2. d[i] = frame[i + 3]
    BY <1>5, <2>1
  <2>3. frame[i + 3] = data[i]
    BY <1>2, <2>1
  <2>. QED BY <2>2, <2>3
<1>9. d = data
  BY <1>5, <1>7, <1>8, SeqEqual
<1>10. Len(frame) = Len(data) + 3
  BY <1>1, <1>2
<1>11. frame \in Seq(Octet) /\ From(frame, 3) = data
  BY <1>2, <1>6, <1>9
<1>. QED BY <1>3, <1>10, <1>11, Zenon DEF frame

\* Every indicator is a byte, and that of one class.
LEMMA IndicatorIsByte == \A c \in DOMAIN Indicator : Indicator[c] \in Octet
BY DEF Indicator, Octet

LEMMA IndicatorIsOnes ==
    \A c \in DOMAIN Indicator : \A d \in DOMAIN Indicator : Indicator[c] = Indicator[d] => c = d
BY DEF Indicator

\* A frame: its length, its indicator, its body.
LEMMA FrameOf ==
    ASSUME NEW m, m.class \in DOMAIN Indicator,
           SoupBody(m) \in Seq(Octet), Len(SoupBody(m)) < 65535
    PROVE  LET frame == SoupEncode(m)
               body == SoupBody(m)
           IN  /\ frame \in Seq(Octet) /\ Len(frame) = Len(body) + 3
               /\ frame[3] = Indicator[m.class] /\ SizeOf(frame) = Len(body) + 1
               /\ From(frame, 3) = body
               /\ \A p \in 1..Len(body) : frame[3 + p] = body[p]
<1>. DEFINE frame == SoupEncode(m)
            body == SoupBody(m)
            l == Len(body) + 1
            front == <<l \div 256, l % 256, Indicator[m.class]>>
<1>1. frame = front \o body
  BY DEF SoupEncode
<1>. HIDE DEF frame, body
<1>2. body \in Seq(Octet) /\ l \in Nat /\ l <= 65535 /\ Len(body) \in Nat
  BY DEF body
<1>. HIDE DEF l
<1>3. l \div 256 \in Octet /\ l % 256 \in Octet /\ 256 * (l \div 256) + (l % 256) = l
  BY <1>2 DEF Octet
<1>4. Indicator[m.class] \in Octet
  BY IndicatorIsByte
<1>5. /\ front \in Seq(Octet) /\ Len(front) = 3 /\ front[3] = Indicator[m.class]
      /\ 256 * front[1] + front[2] = l
  BY <1>3, <1>4
<1>. HIDE DEF front
<1>6. /\ frame \in Seq(Octet) /\ Len(frame) = Len(body) + 3
      /\ frame[1] = front[1] /\ frame[2] = front[2] /\ frame[3] = front[3]
      /\ From(frame, 3) = body
  <2>. DEFINE joined == front \o body
  <2>1. /\ joined \in Seq(Octet) /\ Len(joined) = Len(body) + 3
        /\ joined[1] = front[1] /\ joined[2] = front[2] /\ joined[3] = front[3]
        /\ From(joined, 3) = body
    BY <1>2, <1>5, FrameParts
  <2>2. frame = joined
    BY <1>1
  <2>. HIDE DEF joined
  <2>. QED BY <2>1, <2>2
<1>7. \A i \in 1..(3 + Len(body)) : frame[i] = IF i <= 3 THEN front[i] ELSE body[i - 3]
  <2>. DEFINE joined == front \o body
  <2>1. \A i \in 1..(3 + Len(body)) : joined[i] = IF i <= 3 THEN front[i] ELSE body[i - 3]
    BY <1>2, <1>5, BehindThree
  <2>2. frame = joined
    BY <1>1
  <2>. HIDE DEF joined
  <2>. QED BY <2>1, <2>2
<1>8. ASSUME NEW p \in 1..Len(body) PROVE frame[3 + p] = body[p]
  <2>1. 3 + p \in 1..(3 + Len(body)) /\ ~(3 + p <= 3) /\ (3 + p) - 3 = p
    BY <1>2
  <2>. QED BY <1>7, <2>1
<1>9. SizeOf(frame) = l
  <2>1. SizeOf(frame) = 256 * frame[1] + frame[2]
    BY LengthBytes
  <2>. QED BY <1>5, <1>6, <2>1
<1>10. frame[3] = Indicator[m.class]
  BY <1>5, <1>6
<1>. QED BY <1>6, <1>8, <1>9, <1>10 DEF frame, body, l

\* What the class of a frame is found to be.
LEMMA ClassFound ==
    ASSUME NEW class \in DOMAIN Indicator, NEW frame \in Seq(Octet), Len(frame) >= 3,
           frame[3] = Indicator[class]
    PROVE  SoupDecode(frame) = IF class \in CarriesData THEN UnpackData(class, frame)
                               ELSE UnpackColumns(class, frame)
<1>. DEFINE classes == {c \in DOMAIN Indicator : Len(frame) > 2 /\ Indicator[c] = frame[3]}
<1>1. Len(frame) > 2
  OBVIOUS
<1>2. class \in classes /\ \A c \in classes : c = class
  BY <1>1, IndicatorIsOnes
<1>3. classes # {} /\ (CHOOSE c \in classes : TRUE) = class
  <2>. HIDE DEF classes
  <2>. QED BY <1>2
<1>. QED BY <1>3, Zenon DEF SoupDecode

\* A frame by itself is a whole one.
LEMMA WholeFrame ==
    ASSUME NEW m, m.class \in DOMAIN Indicator,
           SoupBody(m) \in Seq(Octet), Len(SoupBody(m)) < 65535
    PROVE  LET frame == SoupEncode(m)
           IN  /\ HasSoupFrame(frame) /\ 2 + SizeOf(frame) = Len(frame) /\ Len(frame) >= 3
               /\ Prefix(frame, 2 + SizeOf(frame)) = frame
<1>. DEFINE frame == SoupEncode(m)
<1>1. /\ frame \in Seq(Octet) /\ Len(frame) = Len(SoupBody(m)) + 3
      /\ SizeOf(frame) = Len(SoupBody(m)) + 1
  BY FrameOf
<1>2. Len(SoupBody(m)) \in Nat
  OBVIOUS
<1>. HIDE DEF frame
<1>3. HasSoupFrame(frame) /\ 2 + SizeOf(frame) = Len(frame) /\ Len(frame) >= 3
  BY <1>1, <1>2 DEF HasSoupFrame
<1>4. Prefix(frame, 2 + SizeOf(frame)) = SubSeq(frame, 1, Len(frame))
  BY <1>1, <1>2, <1>3 DEF Prefix
<1>5. Prefix(frame, 2 + SizeOf(frame)) = frame
  BY <1>1, <1>4, SubSeqFull
<1>. QED BY <1>3, <1>5 DEF frame

\* The messages with a payload, of any length that two bytes can say.
PayloadMessages ==
    {m \in [class : CarriesData, fields : Seq(Seq(Octet))] :
        /\ Len(m.fields) = 1 /\ Len(m.fields[1]) < 65535
        /\ m.class = "Debug" => Ascii(m.fields[1])}

\* The parts of the frame of one.
LEMMA PayloadFrame ==
    ASSUME NEW class \in CarriesData, NEW data \in Seq(Octet), Len(data) < 65535
    PROVE  LET m == [class |-> class, fields |-> <<data>>]
               frame == SoupEncode(m)
           IN  /\ class \in DOMAIN Indicator
               /\ frame \in Seq(Octet) /\ Len(frame) = Len(data) + 3
               /\ SizeOf(frame) = Len(data) + 1 /\ From(frame, 3) = data
               /\ HasSoupFrame(frame) /\ Prefix(frame, 2 + SizeOf(frame)) = frame
               /\ SoupDecode(frame) = UnpackData(class, frame)
<1>. DEFINE m == [class |-> class, fields |-> <<data>>]
            frame == SoupEncode(m)
<1>1. class \in DOMAIN Indicator
  BY DEF CarriesData, Indicator
<1>2. m.class = class /\ SoupBody(m) = data
  BY DEF SoupBody
<1>. HIDE DEF m
<1>3. /\ frame \in Seq(Octet) /\ Len(frame) = Len(data) + 3
      /\ frame[3] = Indicator[class] /\ SizeOf(frame) = Len(data) + 1
      /\ From(frame, 3) = data
  BY <1>1, <1>2, FrameOf
<1>4. HasSoupFrame(frame) /\ Len(frame) >= 3 /\ Prefix(frame, 2 + SizeOf(frame)) = frame
  BY <1>1, <1>2, WholeFrame
<1>. HIDE DEF frame
<1>5. SoupDecode(frame) = UnpackData(class, frame)
  BY <1>1, <1>3, <1>4, ClassFound
<1>. QED BY <1>1, <1>3, <1>4, <1>5 DEF frame, m

\* A payload that fits the signed length comes back as it was sent; one that
\* is longer, which only another implementation sends, is framed but emptied.
THEOREM PayloadRoundTrip ==
    ASSUME NEW class \in CarriesData, NEW data \in Seq(Octet), Len(data) < 65535,
           class = "Debug" => Ascii(data)
    PROVE  LET Message(payload) == [class |-> class, fields |-> <<payload>>]
               kept == IF Len(data) < MaxLength THEN data ELSE <<>>
           IN  SoupDeserialize(SoupEncode(Message(data)))
                 = [msg |-> Message(kept), n |-> Len(data) + 3, kind |-> "msg"]
<1>. DEFINE Message(payload) == [class |-> class, fields |-> <<payload>>]
            kept == IF Len(data) < MaxLength THEN data ELSE <<>>
            frame == SoupEncode(Message(data))
<1>1. /\ frame \in Seq(Octet) /\ Len(frame) = Len(data) + 3
      /\ SizeOf(frame) = Len(data) + 1 /\ From(frame, 3) = data
      /\ HasSoupFrame(frame) /\ Prefix(frame, 2 + SizeOf(frame)) = frame
      /\ SoupDecode(frame) = UnpackData(class, frame)
  BY PayloadFrame
<1>. HIDE DEF frame
<1>2. Len(data) \in Nat
  OBVIOUS
<1>5. (IF SignedSize(frame) > 1 THEN From(frame, 3) ELSE <<>>) = kept
  <2>1. CASE Len(data) < MaxLength
    <3>1. SignedSize(frame) = Len(data) + 1
      BY <1>1, <1>2, <2>1 DEF SignedSize, MaxLength
    <3>2. ~(SignedSize(frame) > 1) => data = <<>>
      BY <1>2, <3>1, EmptySeq
    <3>. QED BY <1>1, <2>1, <3>2
  <2>2. CASE ~(Len(data) < MaxLength)
    <3>1. ~(SignedSize(frame) > 1)
      BY <1>1, <1>2, <2>2 DEF SignedSize, MaxLength
    <3>. QED BY <2>2, <3>1
  <2>. QED BY <2>1, <2>2
<1>6. ~(class = "Debug" /\ ~Ascii(kept))
  <2>1. Ascii(<<>>)
    BY DEF Ascii
  <2>. QED BY <2>1
<1>7. UnpackData(class, frame) = Message(kept)
  <2>. HIDE DEF kept
  <2>. QED BY <1>5, <1>6 DEF UnpackData
<1>8. SoupDecode(frame) = Message(kept)
  BY <1>1, <1>7
<1>9. /\ Message(kept) # SoupInvalid /\ Message(kept).class = class
      /\ class \notin IsLogout /\ class \notin IsHeartbeat
  <2>1. class # "invalid" /\ class \notin IsLogout /\ class \notin IsHeartbeat
    BY DEF CarriesData, IsLogout, IsHeartbeat
  <2>2. Message(kept).class = class /\ SoupInvalid.class = "invalid"
    BY DEF SoupInvalid
  <2>. QED BY <2>1, <2>2
<1>. HIDE DEF kept, Message
<1>10. SoupDeserialize(frame) = [msg |-> Message(kept), n |-> 2 + SizeOf(frame), kind |-> "msg"]
  <2>. DEFINE m == Message(kept)
              size == 2 + SizeOf(frame)
  <2>1. SoupDecode(Prefix(frame, size)) = m
    BY <1>1, <1>8
  <2>. HIDE DEF size
  <2>2. m # SoupInvalid /\ m.class \notin IsLogout /\ m.class \notin IsHeartbeat
    BY <1>9
  <2>. HIDE DEF m
  <2>3. SoupDeserialize(frame) =
          [msg |-> m, n |-> IF m = SoupInvalid THEN 0 ELSE size,
           kind |-> CASE m = SoupInvalid         -> "raise"
                      [] m.class \in IsLogout    -> "stop"
                      [] m.class \in IsHeartbeat -> "skip"
                      [] OTHER                   -> "msg"]
    BY <1>1, <2>1 DEF SoupDeserialize, size
  <2>. QED BY <2>2, <2>3 DEF m, size
<1>11. 2 + SizeOf(frame) = Len(data) + 3
  BY <1>1, <1>2
<1>. QED BY <1>10, <1>11 DEF frame, kept, Message

-----------------------------------------------------------------------------
(* Texts in columns: what strip() leaves of a column that was filled or cut *)

Code == 0..127
AsciiText == Seq(Code)

\* The least and the greatest of a set of integers.
LEMMA MinIs ==
    ASSUME NEW S \in SUBSET Int, NEW a \in S, \A x \in S : a <= x
    PROVE  Min(S) = a
<1>1. \A x \in S : (\A y \in S : x =< y) => x = a
  <2>. SUFFICES ASSUME NEW x \in S, \A y \in S : x =< y PROVE x = a
    OBVIOUS
  <2>1. x <= a /\ a <= x /\ x \in Int /\ a \in Int
    OBVIOUS
  <2>. QED BY <2>1
<1>. QED BY <1>1 DEF Min

LEMMA MaxIs ==
    ASSUME NEW S \in SUBSET Int, NEW a \in S, \A x \in S : x <= a
    PROVE  Max(S) = a
<1>1. \A x \in S : (\A y \in S : x >= y) => x = a
  <2>. SUFFICES ASSUME NEW x \in S, \A y \in S : x >= y PROVE x = a
    OBVIOUS
  <2>1. x <= a /\ a <= x /\ x \in Int /\ a \in Int
    OBVIOUS
  <2>. QED BY <2>1
<1>. QED BY <1>1 DEF Max

\* Strip() of a sequence whose first and last element to keep are known.
LEMMA StripIs ==
    ASSUME NEW S, NEW s \in Seq(S), NEW B, NEW a \in DOMAIN s, NEW b \in DOMAIN s,
           s[a] \notin B, s[b] \notin B, \A i \in DOMAIN s : s[i] \notin B => a <= i /\ i <= b
    PROVE  Strip(s, B) = SubSeq(s, a, b)
<1>. DEFINE kept == {i \in DOMAIN s : s[i] \notin B}
<1>1. kept \in SUBSET Int /\ a \in kept /\ b \in kept
  OBVIOUS
<1>2. Min(kept) = a
  <2>1. \A i \in kept : a <= i
    OBVIOUS
  <2>. QED BY <1>1, <2>1, MinIs
<1>3. Max(kept) = b
  <2>1. \A i \in kept : i <= b
    OBVIOUS
  <2>. QED BY <1>1, <2>1, MaxIs
<1>4. kept # {}
  BY <1>1
<1>. HIDE DEF kept
<1>5. Strip(s, B) = IF kept = {} THEN <<>> ELSE SubSeq(s, Min(kept), Max(kept))
  BY DEF Strip, kept
<1>. QED BY <1>2, <1>3, <1>4, <1>5

\* A sequence that neither begins nor ends with a blank stays as it is.
LEMMA TrimmedStays ==
    ASSUME NEW S, NEW s \in Seq(S), NEW B, s # <<>> => s[1] \notin B /\ s[Len(s)] \notin B
    PROVE  Strip(s, B) = s
<1>1. CASE s = <<>>
  <2>1. {i \in DOMAIN s : s[i] \notin B} = {}
    BY <1>1
  <2>. QED BY <1>1, <2>1 DEF Strip
<1>2. CASE s # <<>>
  <2>1. Len(s) \in Nat /\ Len(s) >= 1 /\ DOMAIN s = 1..Len(s)
    BY <1>2, EmptySeq
  <2>2. /\ 1 \in DOMAIN s /\ Len(s) \in DOMAIN s
        /\ \A i \in DOMAIN s : 1 <= i /\ i <= Len(s)
    BY <2>1
  <2>3. Strip(s, B) = SubSeq(s, 1, Len(s))
    BY <1>2, <2>2, StripIs
  <2>. QED BY <2>3, SubSeqFull
<1>. QED BY <1>1, <1>2

\* What is left of a sequence: nothing, or a part with no blank at its ends.
LEMMA Stripped ==
    ASSUME NEW S, NEW s \in Seq(S), NEW B
    PROVE  LET t == Strip(s, B)
           IN  /\ t \in Seq(S) /\ Len(t) <= Len(s)
               /\ t # <<>> => t[1] \notin B /\ t[Len(t)] \notin B
<1>. DEFINE t == Strip(s, B)
            kept == {i \in DOMAIN s : s[i] \notin B}
<1>1. t = IF kept = {} THEN <<>> ELSE SubSeq(s, Min(kept), Max(kept))
  BY DEF Strip
<1>2. Len(s) \in Nat /\ DOMAIN s = 1..Len(s) /\ kept \subseteq 1..Len(s)
  OBVIOUS
<1>. HIDE DEF t
<1>. SUFFICES /\ t \in Seq(S) /\ Len(t) <= Len(s)
              /\ t # <<>> => t[1] \notin B /\ t[Len(t)] \notin B
  BY DEF t
<1>3. CASE kept = {}
  BY <1>1, <1>2, <1>3
<1>4. CASE kept # {}
  <2>1. PICK a \in kept : \A i \in kept : a <= i
    <3>1. kept \subseteq Nat
      BY <1>2
    <3>. HIDE DEF kept
    <3>. QED BY <1>4, <3>1, LeastNat
  <2>2. PICK b \in kept : \A i \in kept : i <= b
    <3>. DEFINE R == {Len(s) - i : i \in kept}
    <3>1. R \subseteq Nat /\ R # {}
      BY <1>2, <1>4
    <3>2. PICK r \in R : \A q \in R : r <= q
      <4>. HIDE DEF R
      <4>. QED BY <3>1, LeastNat
    <3>3. PICK b \in kept : r = Len(s) - b
      BY <3>2
    <3>4. ASSUME NEW i \in kept PROVE i <= b
      <4>1. r <= Len(s) - i /\ i \in Int /\ b \in Int
        BY <1>2, <3>2, <3>3
      <4>. QED BY <1>2, <3>3, <4>1
    <3>. QED BY <3>4
  <2>3. a \in DOMAIN s /\ b \in DOMAIN s /\ s[a] \notin B /\ s[b] \notin B /\ a <= b
    BY <2>1, <2>2
  <2>4. \A i \in DOMAIN s : s[i] \notin B => a <= i /\ i <= b
    BY <2>1, <2>2
  <2>. HIDE DEF kept
  <2>5. t = SubSeq(s, a, b)
    BY <2>3, <2>4, StripIs DEF t
  <2>6. /\ a \in Int /\ b \in Int /\ 1 <= a /\ a <= b /\ b <= Len(s) /\ Len(s) \in Nat
        /\ \A i \in a..b : s[i] \in S
    BY <1>2, <2>3
  <2>7. /\ t \in Seq(S) /\ Len(t) = b - a + 1
        /\ \A i \in 1..(b - a + 1) : t[i] = s[a + i - 1]
    BY <2>5, <2>6, SubSeqProperties
  <2>8. 1 \in 1..(b - a + 1) /\ b - a + 1 \in 1..(b - a + 1) /\ a + 1 - 1 = a /\ a + (b - a + 1) - 1 = b
    BY <2>6
  <2>9. t[1] = s[a] /\ t[Len(t)] = s[b]
    BY <2>7, <2>8
  <2>10. Len(t) <= Len(s)
    BY <2>6, <2>7
  <2>. QED BY <2>3, <2>7, <2>9, <2>10
<1>. QED BY <1>3, <1>4

\* A column is filled with spaces, or cut.
LEMMA PackedIs ==
    ASSUME NEW text \in AsciiText, NEW w \in Nat
    PROVE  /\ Packed(text, w) \in AsciiText /\ Len(Packed(text, w)) = w
           /\ \A p \in 1..w : Packed(text, w)[p] = IF p <= Len(text) THEN text[p] ELSE SPACE
<1>. DEFINE n == Len(text)
            fill == Spaces(w - n)
            k == IF w <= n THEN 0 ELSE w - n
            l == text \o fill
<1>1. n \in Nat /\ k \in Nat /\ w <= n + k /\ text \in Seq(Code)
  BY DEF AsciiText
<1>2. fill = IF w - n <= 0 THEN <<>> ELSE [i \in 1..(w - n) |-> SPACE]
  BY DEF Spaces
<1>3. fill \in Seq(Code) /\ Len(fill) = k /\ \A i \in 1..k : fill[i] = SPACE
  <2>. HIDE DEF n, fill
  <2>1. CASE w <= n
    BY <1>1, <1>2, <2>1
  <2>2. CASE ~(w <= n)
    BY <1>1, <1>2, <2>2 DEF SPACE, Code
  <2>. QED BY <2>1, <2>2
<1>4. Ljust(text, w) = l
  BY DEF Ljust
<1>. HIDE DEF fill, k, n
<1>5. /\ l \in Seq(Code) /\ Len(l) = n + k
      /\ \A i \in 1..(n + k) : l[i] = IF i <= n THEN text[i] ELSE fill[i - n]
  BY <1>1, <1>3, ConcatProperties DEF n
<1>. HIDE DEF l
<1>6. Packed(text, w) = SubSeq(l, 1, w)
  BY <1>4 DEF Packed
<1>7. 1 \in Int /\ w \in Int /\ \A i \in 1..w : l[i] \in Code
  BY <1>1, <1>5, ElementOfSeq
<1>8. /\ SubSeq(l, 1, w) \in Seq(Code)
      /\ Len(SubSeq(l, 1, w)) = IF 1 <= w THEN w - 1 + 1 ELSE 0
      /\ \A i \in 1..(w - 1 + 1) : SubSeq(l, 1, w)[i] = l[1 + i - 1]
  BY <1>7, SubSeqProperties
<1>9. Len(SubSeq(l, 1, w)) = w
  BY <1>8
<1>10. ASSUME NEW p \in 1..w
       PROVE  SubSeq(l, 1, w)[p] = IF p <= n THEN text[p] ELSE SPACE
  <2>1. p \in 1..(w - 1 + 1) /\ 1 + p - 1 = p /\ p \in 1..(n + k)
        /\ (~(p <= n) => p - n \in 1..k)
    BY <1>1
  <2>2. SubSeq(l, 1, w)[p] = l[p]
    BY <1>8, <2>1
  <2>. QED BY <1>3, <1>5, <2>1, <2>2
<1>. QED BY <1>6, <1>8, <1>9, <1>10 DEF AsciiText, n

\* A text that fits its column is what is left when the spaces are gone.
LEMMA PackedStripped ==
    ASSUME NEW text \in AsciiText, NEW w \in Nat, Len(text) <= w, NEW B, SPACE \in B,
           text # <<>> => text[1] \notin B /\ text[Len(text)] \notin B
    PROVE  Strip(Packed(text, w), B) = text
<1>. DEFINE c == Packed(text, w)
            n == Len(text)
<1>1. /\ c \in Seq(Code) /\ Len(c) = w
      /\ \A p \in 1..w : c[p] = IF p <= n THEN text[p] ELSE SPACE
  BY PackedIs DEF AsciiText
<1>2. n \in Nat /\ n <= w /\ DOMAIN c = 1..w /\ text \in Seq(Code) /\ DOMAIN text = 1..n
  BY <1>1 DEF AsciiText
<1>. HIDE DEF c
<1>3. CASE text = <<>>
  <2>1. n = 0
    BY <1>3
  <2>2. \A p \in DOMAIN c : c[p] = SPACE
    <3>. HIDE DEF n
    <3>. QED BY <1>1, <1>2, <2>1
  <2>3. {p \in DOMAIN c : c[p] \notin B} = {}
    BY <2>2
  <2>. QED BY <1>3, <2>3 DEF Strip, c
<1>4. CASE text # <<>>
  <2>1. n >= 1
    BY <1>2, <1>4, EmptySeq
  <2>. HIDE DEF n
  <2>2. 1 \in DOMAIN c /\ n \in DOMAIN c /\ c[1] = text[1] /\ c[n] = text[n]
    BY <1>1, <1>2, <2>1
  <2>3. \A p \in DOMAIN c : c[p] \notin B => 1 <= p /\ p <= n
    BY <1>1, <1>2
  <2>4. Strip(c, B) = SubSeq(c, 1, n)
    BY <1>1, <1>4, <2>2, <2>3, StripIs DEF n
  <2>5. /\ SubSeq(c, 1, n) \in Seq(Code) /\ Len(SubSeq(c, 1, n)) = n
        /\ \A i \in 1..n : SubSeq(c, 1, n)[i] = c[i]
    <3>1. 1 \in Int /\ n \in Int /\ \A i \in 1..n : c[i] \in Code
      BY <1>1, <1>2, ElementOfSeq
    <3>2. /\ SubSeq(c, 1, n) \in Seq(Code)
          /\ Len(SubSeq(c, 1, n)) = IF 1 <= n THEN n - 1 + 1 ELSE 0
          /\ \A i \in 1..(n - 1 + 1) : SubSeq(c, 1, n)[i] = c[1 + i - 1]
      BY <3>1, SubSeqProperties
    <3>3. n - 1 + 1 = n /\ \A i \in 1..n : 1 + i - 1 = i
      BY <1>2
    <3>. QED BY <1>2, <2>1, <3>2, <3>3
  <2>6. ASSUME NEW i \in 1..n PROVE SubSeq(c, 1, n)[i] = text[i]
    BY <1>1, <1>2, <2>5
  <2>7. SubSeq(c, 1, n) = text
    <3>1. Len(text) = n
      BY DEF n
    <3>. QED BY <1>2, <2>5, <2>6, <3>1, SeqEqual
  <2>. QED BY <2>4, <2>7 DEF c
<1>. QED BY <1>3, <1>4

\* A number has a digit at both its ends, and no other blanks.
LEMMA NumberTrimmed ==
    ASSUME NEW s \in AsciiText, IsNumber(s)
    PROVE  /\ Len(s) \in Nat /\ Len(s) >= 1
           /\ s[1] \notin Whitespace /\ s[Len(s)] \notin Whitespace
           /\ s[1] \notin {SPACE, NUL} /\ s[Len(s)] \notin {SPACE, NUL}
<1>1. Len(s) \in Nat /\ Len(s) >= 1 /\ DOMAIN s = 1..Len(s)
  BY EmptySeq DEF IsNumber, AsciiText
<1>2. s[1] \in 48..57 /\ s[Len(s)] \in 48..57
  BY <1>1 DEF IsNumber
<1>3. \A d \in 48..57 : d \notin Whitespace /\ d \notin {SPACE, NUL}
  BY DEF Whitespace, SPACE, NUL
<1>. QED BY <1>1, <1>2, <1>3

\* int() of a text, printed again: a number without leading zeros.
LEMMA CanonicalIs ==
    ASSUME NEW s \in AsciiText, IsNumber(s)
    PROVE  LET t == Canonical(s)
           IN  t \in AsciiText /\ Len(t) <= Len(s) /\ IsNumber(t) /\ Canonical(t) = t
<1>. DEFINE kept(u) == {i \in DOMAIN u : u[i] # 48 \/ i = Len(u)}
            t == Canonical(s)
            n == Len(s)
<1>1. n \in Nat /\ n >= 1 /\ DOMAIN s = 1..n /\ s \in Seq(Code)
  BY NumberTrimmed DEF AsciiText
<1>2. PICK a \in kept(s) : \A i \in kept(s) : a <= i
  <2>1. kept(s) \subseteq Nat /\ n \in kept(s)
    BY <1>1
  <2>. HIDE DEF kept
  <2>. QED BY <2>1, LeastNat
<1>3. a \in Nat /\ 1 <= a /\ a <= n /\ (s[a] # 48 \/ a = n)
  BY <1>1, <1>2
<1>4. Min(kept(s)) = a
  <2>1. kept(s) \in SUBSET Int
    BY <1>1
  <2>. HIDE DEF kept
  <2>. QED BY <1>2, <2>1, MinIs
<1>. HIDE DEF n
<1>5. t = SubSeq(s, (a - 1) + 1, Len(s))
  <2>1. Canonical(s) = From(s, Min(kept(s)) - 1)
    BY DEF Canonical
  <2>. QED BY <1>4, <2>1 DEF From
<1>. HIDE DEF t
<1>6. t = SubSeq(s, a, n)
  <2>1. (a - 1) + 1 = a
    BY <1>3
  <2>. QED BY <1>5, <2>1 DEF n
<1>7. a \in Int /\ n \in Int /\ \A i \in a..n : s[i] \in Code
  <2>1. a \in Nat /\ n \in Nat /\ 1 <= a
    BY <1>1, <1>3 DEF n
  <2>2. \A i \in a..n : i \in 1..n
    BY <2>1
  <2>3. \A i \in 1..n : s[i] \in Code
    BY <1>1, ElementOfSeq DEF n
  <2>. QED BY <2>1, <2>2, <2>3
<1>8. /\ t \in Seq(Code) /\ Len(t) = IF a <= n THEN n - a + 1 ELSE 0
      /\ \A i \in 1..(n - a + 1) : t[i] = s[a + i - 1]
  BY <1>6, <1>7, SubSeqProperties
<1>9. Len(t) = n - a + 1 /\ Len(t) \in Nat /\ Len(t) >= 1 /\ Len(t) <= n /\ DOMAIN t = 1..Len(t)
  BY <1>1, <1>3, <1>8
<1>10. IsNumber(t)
  <2>1. ASSUME NEW i \in DOMAIN t PROVE t[i] \in 48..57
    <3>1. i \in 1..(n - a + 1) /\ a + i - 1 \in 1..n
      <4>1. n \in Nat /\ a \in Nat /\ i \in 1..(n - a + 1)
        BY <1>1, <1>3, <1>9 DEF n
      <4>. QED BY <1>3, <4>1
    <3>2. t[i] = s[a + i - 1] /\ a + i - 1 \in DOMAIN s
      BY <1>1, <1>8, <3>1 DEF n
    <3>. QED BY <3>2 DEF IsNumber
  <2>2. t # <<>>
    BY <1>9
  <2>. QED BY <2>1, <2>2 DEF IsNumber
<1>11. Canonical(t) = t
  <2>1. 1 \in 1..(n - a + 1) /\ a + 1 - 1 = a
    <3>1. n \in Nat
      BY <1>1 DEF n
    <3>. QED BY <1>3, <3>1
  <2>2. t[1] = s[a]
    BY <1>8, <2>1
  <2>3. 1 \in kept(t) /\ kept(t) \in SUBSET Int /\ \A i \in kept(t) : 1 <= i
    BY <1>3, <1>9, <2>2
  <2>4. Min(kept(t)) = 1
    <3>. HIDE DEF kept
    <3>. QED BY <2>3, MinIs
  <2>5. Canonical(t) = From(t, 1 - 1)
    <3>1. Canonical(t) = From(t, Min(kept(t)) - 1)
      BY DEF Canonical
    <3>. QED BY <2>4, <3>1
  <2>6. From(t, 1 - 1) = SubSeq(t, 1, Len(t))
    BY DEF From
  <2>. QED BY <1>8, <2>5, <2>6, SubSeqFull
<1>. QED BY <1>8, <1>9, <1>10, <1>11 DEF t, AsciiText, n

-----------------------------------------------------------------------------
(* The messages that are columns of text *)

TextClasses == DOMAIN Indicator \ CarriesData

\* The messages whose fields are columns of text, as to_bytes() takes them: of
\* ASCII, a reason that exists, a number without a sign.
TextMessages ==
    {m \in [class : TextClasses, fields : Seq(AsciiText)] :
        /\ Len(m.fields) = Len(Columns(m.class))
        /\ m.class = "LoginRejected" => m.fields[1] \in RejectReasons
        /\ m.class \in CarriesNumber =>
             \A j \in DOMAIN m.fields[Len(m.fields)] : m.fields[Len(m.fields)][j] # MINUS}

LEMMA TextClass ==
    ASSUME NEW c \in TextClasses
    PROVE  c \in {"LoginRequest", "LoginAccepted", "LoginRejected", "ClientHeartbeat",
                  "ServerHeartbeat", "EndOfSession", "LogoutRequest"}
BY DEF TextClasses, Indicator, CarriesData

\* The columns of a format lie one behind the other and fill it.
LEMMA ColumnsFill ==
    ASSUME NEW c \in TextClasses
    PROVE  /\ Len(Columns(c)) \in Nat /\ DOMAIN Columns(c) = 1..Len(Columns(c))
           /\ BodyLength(c) \in Nat /\ BodyLength(c) <= 46
           /\ \A i \in DOMAIN Columns(c) :
                 /\ First(c, i) \in 1..Final(c, i) /\ Final(c, i) \in 1..BodyLength(c)
                 /\ \A j \in DOMAIN Columns(c) : i < j => Final(c, i) < First(c, j)
           /\ \A p \in 1..BodyLength(c) :
                 \E i \in DOMAIN Columns(c) : First(c, i) <= p /\ p <= Final(c, i)
<1>1. CASE c = "LoginRequest"
  <2>1. Columns(c) = <<<<1, 6>>, <<7, 16>>, <<17, 26>>, <<27, 46>>>>
    BY <1>1 DEF Columns
  <2>. QED BY <2>1 DEF First, Final, BodyLength
<1>2. CASE c = "LoginAccepted"
  <2>1. Columns(c) = <<<<1, 10>>, <<11, 30>>>>
    BY <1>2 DEF Columns
  <2>. QED BY <2>1 DEF First, Final, BodyLength
<1>3. CASE c = "LoginRejected"
  <2>1. Columns(c) = <<<<1, 1>>>>
    BY <1>3 DEF Columns
  <2>. QED BY <2>1 DEF First, Final, BodyLength
<1>4. CASE c \in {"ClientHeartbeat", "ServerHeartbeat", "EndOfSession", "LogoutRequest"}
  <2>1. Columns(c) = <<>>
    BY <1>4 DEF Columns
  <2>. QED BY <2>1 DEF First, Final, BodyLength
<1>. QED BY <1>1, <1>2, <1>3, <1>4, TextClass

\* to_bytes() puts each text into its column.
LEMMA BodyColumns ==
    ASSUME NEW m, m.class \in TextClasses,
           m.fields \in Seq(AsciiText), Len(m.fields) = Len(Columns(m.class))
    PROVE  LET c == m.class
               body == SoupBody(m)
           IN  /\ body \in Seq(Code) /\ Len(body) = BodyLength(c)
               /\ \A i \in DOMAIN Columns(c) : \A p \in First(c, i)..Final(c, i) :
                     body[p] = Packed(m.fields[i], Width(c, i))[p - First(c, i) + 1]
<1>. DEFINE c == m.class
            body == SoupBody(m)
            Holds(i, p) == i \in DOMAIN Columns(c) /\ First(c, i) <= p /\ p <= Final(c, i)
            At(p) == CHOOSE i \in DOMAIN Columns(c) : First(c, i) <= p /\ p <= Final(c, i)
            ByteAt(i, p) == Packed(m.fields[i], Width(c, i))[p - First(c, i) + 1]
<1>1. c \notin CarriesData
  BY DEF TextClasses
<1>0. /\ Len(Columns(c)) \in Nat /\ DOMAIN Columns(c) = 1..Len(Columns(c))
      /\ BodyLength(c) \in Nat
      /\ \A i \in DOMAIN Columns(c) :
            /\ First(c, i) \in 1..Final(c, i) /\ Final(c, i) \in 1..BodyLength(c)
            /\ \A j \in DOMAIN Columns(c) : i < j => Final(c, i) < First(c, j)
      /\ \A p \in 1..BodyLength(c) :
            \E i \in DOMAIN Columns(c) : First(c, i) <= p /\ p <= Final(c, i)
  <2>. HIDE DEF c
  <2>1. c \in TextClasses
    BY DEF c
  <2>. QED BY <2>1, ColumnsFill
<1>2. body = [p \in 1..BodyLength(c) |-> ByteAt(At(p), p)]
  BY <1>1 DEF SoupBody
<1>. HIDE DEF body
<1>3. ASSUME NEW i, NEW p \in Int, Holds(i, p)
      PROVE  p \in 1..BodyLength(c) /\ At(p) = i
  <2>. DEFINE cols == DOMAIN Columns(c)
  <2>1. cols = 1..Len(Columns(c)) /\ Len(Columns(c)) \in Nat
    BY <1>0
  <2>2. /\ First(c, i) \in 1..Final(c, i) /\ Final(c, i) \in 1..BodyLength(c)
        /\ BodyLength(c) \in Nat
    BY <1>3, <1>0
  <2>3. ASSUME NEW j \in cols, First(c, j) <= p, p <= Final(c, j) PROVE j = i
    <3>1. i \in Int /\ j \in Int
      BY <1>3, <2>1, <2>3
    <3>2. /\ i < j => Final(c, i) < First(c, j)
          /\ j < i => Final(c, j) < First(c, i)
      BY <1>3, <2>3, <1>0
    <3>3. /\ First(c, i) \in Int /\ Final(c, i) \in Int
          /\ First(c, j) \in Int /\ Final(c, j) \in Int
      BY <1>3, <2>3, <1>0
    <3>. QED BY <1>3, <2>3, <3>1, <3>2, <3>3
  <2>4. At(p) = i
    <3>1. i \in cols /\ First(c, i) <= p /\ p <= Final(c, i)
      BY <1>3
    <3>. HIDE DEF cols
    <3>2. (CHOOSE j \in cols : First(c, j) <= p /\ p <= Final(c, j)) = i
      BY <2>3, <3>1
    <3>. QED BY <3>2 DEF cols
  <2>. QED BY <1>3, <2>2, <2>4
<1>4. ASSUME NEW i, NEW p \in Int, Holds(i, p)
      PROVE  ByteAt(i, p) \in Code
  <2>1. /\ First(c, i) \in Int /\ Final(c, i) \in Int /\ First(c, i) <= Final(c, i)
    BY <1>4, <1>0
  <2>2. m.fields[i] \in AsciiText
    BY <1>4, <1>0, ElementOfSeq
  <2>3. Width(c, i) \in Nat /\ p - First(c, i) + 1 \in 1..Width(c, i)
    BY <1>4, <2>1 DEF Width
  <2>4. Packed(m.fields[i], Width(c, i)) \in Seq(Code) /\ Len(Packed(m.fields[i], Width(c, i))) = Width(c, i)
    BY <2>2, <2>3, PackedIs DEF AsciiText
  <2>. QED BY <2>3, <2>4, ElementOfSeq
<1>. HIDE DEF ByteAt, At
<1>5. body \in Seq(Code) /\ Len(body) = BodyLength(c)
  <2>1. BodyLength(c) \in Nat
    BY <1>0
  <2>2. ASSUME NEW p \in 1..BodyLength(c) PROVE ByteAt(At(p), p) \in Code
    <3>1. PICK i \in DOMAIN Columns(c) : First(c, i) <= p /\ p <= Final(c, i)
      BY <1>0
    <3>. QED BY <1>3, <1>4, <2>1, <3>1
  <2>3. body \in [1..BodyLength(c) -> Code]
    BY <1>2, <2>2
  <2>. QED BY <2>1, <2>3
<1>6. ASSUME NEW i \in DOMAIN Columns(c), NEW p \in First(c, i)..Final(c, i)
      PROVE  body[p] = ByteAt(i, p)
  <2>1. p \in Int /\ Holds(i, p)
    BY <1>6, <1>0
  <2>. QED BY <1>2, <1>3, <2>1
<1>. QED BY <1>5, <1>6 DEF body, ByteAt

\* The columns of the frame of such a message.
LEMMA TextFrame ==
    ASSUME NEW m \in TextMessages
    PROVE  LET frame == SoupEncode(m)
               c == m.class
           IN  /\ SoupBody(m) \in Seq(Octet) /\ Len(SoupBody(m)) < 65535
               /\ frame \in Seq(Octet) /\ Len(frame) = 3 + BodyLength(c)
               /\ frame[3] = Indicator[c]
               /\ \A i \in DOMAIN Columns(c) :
                     Column(c, frame, i) = Packed(m.fields[i], Width(c, i))
<1>. DEFINE frame == SoupEncode(m)
            c == m.class
            body == SoupBody(m)
<1>1. /\ c \in TextClasses /\ c \in DOMAIN Indicator /\ m.fields \in Seq(AsciiText)
      /\ Len(m.fields) = Len(Columns(c))
  BY DEF TextMessages, TextClasses
<1>2. /\ body \in Seq(Code) /\ Len(body) = BodyLength(c)
      /\ \A i \in DOMAIN Columns(c) : \A p \in First(c, i)..Final(c, i) :
            body[p] = Packed(m.fields[i], Width(c, i))[p - First(c, i) + 1]
  BY <1>1, BodyColumns
<1>. HIDE DEF c
<1>3. /\ BodyLength(c) \in Nat /\ BodyLength(c) <= 46
      /\ \A i \in DOMAIN Columns(c) :
            First(c, i) \in 1..Final(c, i) /\ Final(c, i) \in 1..BodyLength(c)
      /\ DOMAIN Columns(c) = 1..Len(Columns(c))
  BY <1>1, ColumnsFill
<1>4. body \in Seq(Octet) /\ Len(body) < 65535
  <2>1. Code \subseteq Octet
    BY DEF Code, Octet
  <2>. HIDE DEF body
  <2>2. body \in [1..Len(body) -> Octet] /\ Len(body) \in Nat
    BY <1>2, <2>1
  <2>. QED BY <1>2, <1>3, <2>2
<1>5. /\ frame \in Seq(Octet) /\ Len(frame) = Len(body) + 3
      /\ frame[3] = Indicator[c] /\ \A p \in 1..Len(body) : frame[3 + p] = body[p]
  BY <1>1, <1>4, FrameOf DEF c
<1>. HIDE DEF frame, body
<1>6. ASSUME NEW i \in DOMAIN Columns(c)
      PROVE  Column(c, frame, i) = Packed(m.fields[i], Width(c, i))
  <2>. DEFINE a == First(c, i)
              b == Final(c, i)
              w == Width(c, i)
              packed == Packed(m.fields[i], w)
              t == SubSeq(frame, 3 + a, 3 + b)
  <2>1. a \in Int /\ b \in Int /\ 1 <= a /\ a <= b /\ b <= BodyLength(c) /\ w = b - a + 1
    BY <1>3 DEF Width
  <2>2. m.fields[i] \in AsciiText
    BY <1>1, <1>3, ElementOfSeq
  <2>. HIDE DEF w
  <2>3. packed \in AsciiText /\ Len(packed) = w
    <3>1. w \in Nat
      <4>. HIDE DEF a, b
      <4>. QED BY <2>1
    <3>. QED BY <2>2, <3>1, PackedIs
  <2>4. \A p \in a..b : body[p] = packed[p - a + 1]
    BY <1>2 DEF w
  <2>. HIDE DEF a, b, packed
  <2>5. \A p \in (3 + a)..(3 + b) : frame[p] \in Octet
    <3>1. \A p \in 1..Len(frame) : frame[p] \in Octet
      BY <1>5, ElementOfSeq
    <3>. QED BY <1>2, <1>3, <1>5, <2>1, <3>1
  <2>6. /\ t \in Seq(Octet) /\ Len(t) = IF 3 + a <= 3 + b THEN (3 + b) - (3 + a) + 1 ELSE 0
        /\ \A q \in 1..((3 + b) - (3 + a) + 1) : t[q] = frame[(3 + a) + q - 1]
    <3>1. 3 + a \in Int /\ 3 + b \in Int
      BY <2>1
    <3>. QED BY <2>5, <3>1, SubSeqProperties
  <2>. HIDE DEF t
  <2>7. Len(t) = w
    BY <2>1, <2>6
  <2>8. ASSUME NEW q \in 1..w PROVE t[q] = packed[q]
    <3>1. /\ q \in 1..((3 + b) - (3 + a) + 1) /\ (3 + a) + q - 1 = 3 + (a + q - 1)
          /\ a + q - 1 \in a..b /\ a + q - 1 \in 1..BodyLength(c) /\ (a + q - 1) - a + 1 = q
      BY <1>3, <2>1
    <3>2. t[q] = frame[3 + (a + q - 1)]
      BY <2>6, <3>1
    <3>3. frame[3 + (a + q - 1)] = body[a + q - 1]
      BY <1>2, <1>5, <3>1
    <3>4. body[a + q - 1] = packed[q]
      BY <2>4, <3>1
    <3>. QED BY <3>2, <3>3, <3>4
  <2>9. t = packed
    <3>1. packed \in Seq(Code)
      BY <2>3 DEF AsciiText
    <3>. QED BY <2>3, <2>6, <2>7, <2>8, <3>1, SeqEqual
  <2>. QED BY <2>9 DEF Column, a, b, t, packed, w
<1>. QED BY <1>2, <1>3, <1>4, <1>5, <1>6 DEF frame, c, body

\* A text comes back exactly if it fits its column and has no blank at its ends.
LEMMA ColumnKept ==
    ASSUME NEW text \in AsciiText, NEW w \in Nat
    PROVE  Strip(Packed(text, w), Whitespace) = text
             <=> Len(text) <= w /\ Strip(text, Whitespace) = text
<1>1. text \in Seq(Code) /\ SPACE \in Whitespace
  BY DEF AsciiText, Whitespace
<1>2. /\ Packed(text, w) \in Seq(Code) /\ Len(Packed(text, w)) = w
  BY PackedIs DEF AsciiText
<1>3. ASSUME Strip(Packed(text, w), Whitespace) = text
      PROVE  Len(text) <= w /\ Strip(text, Whitespace) = text
  <2>. DEFINE t == Strip(Packed(text, w), Whitespace)
  <2>1. /\ Len(t) <= w
        /\ t # <<>> => t[1] \notin Whitespace /\ t[Len(t)] \notin Whitespace
    BY <1>2, Stripped
  <2>2. t = text
    BY <1>3
  <2>. HIDE DEF t
  <2>. QED BY <1>1, <2>1, <2>2, TrimmedStays
<1>4. ASSUME Len(text) <= w, Strip(text, Whitespace) = text
      PROVE  Strip(Packed(text, w), Whitespace) = text
  <2>. DEFINE t == Strip(text, Whitespace)
  <2>1. t # <<>> => t[1] \notin Whitespace /\ t[Len(t)] \notin Whitespace
    BY <1>1, Stripped
  <2>2. t = text
    BY <1>4
  <2>. HIDE DEF t
  <2>. QED BY <1>1, <1>4, <2>1, <2>2, PackedStripped
<1>. QED BY <1>3, <1>4

\* A number comes back exactly if it fits its column and is printed as int() prints it.
LEMMA NumberKept ==
    ASSUME NEW text \in AsciiText, NEW w \in Nat
    PROVE  LET digits == Strip(Packed(text, w), {SPACE, NUL})
           IN  IsNumber(digits) /\ Canonical(digits) = text
                 <=> /\ Len(text) <= w /\ Strip(text, Whitespace) = text
                     /\ IsNumber(text) /\ Canonical(text) = text
<1>. DEFINE digits == Strip(Packed(text, w), {SPACE, NUL})
<1>1. /\ Packed(text, w) \in Seq(Code) /\ Len(Packed(text, w)) = w
  BY PackedIs DEF AsciiText
<1>2. digits \in AsciiText /\ Len(digits) <= w
  BY <1>1, Stripped DEF AsciiText
<1>3. ASSUME IsNumber(text) PROVE Strip(text, Whitespace) = text
  <2>1. text \in Seq(Code)
    BY DEF AsciiText
  <2>. QED BY <1>3, <2>1, NumberTrimmed, TrimmedStays
<1>4. ASSUME IsNumber(text), Len(text) <= w PROVE digits = text
  <2>1. SPACE \in {SPACE, NUL}
    OBVIOUS
  <2>2. text[1] \notin {SPACE, NUL} /\ text[Len(text)] \notin {SPACE, NUL}
    BY <1>4, NumberTrimmed
  <2>. QED BY <1>4, <2>1, <2>2, PackedStripped
<1>. HIDE DEF digits
<1>5. ASSUME IsNumber(digits), Canonical(digits) = text
      PROVE  Len(text) <= w /\ IsNumber(text) /\ Canonical(text) = text
  <2>1. Len(text) <= Len(digits) /\ IsNumber(text) /\ Canonical(text) = text
    BY <1>2, <1>5, CanonicalIs
  <2>2. Len(text) \in Nat /\ Len(digits) \in Nat
    BY <1>2 DEF AsciiText
  <2>. QED BY <1>2, <2>1, <2>2
<1>6. IsNumber(digits) /\ Canonical(digits) = text
        <=> /\ Len(text) <= w /\ Strip(text, Whitespace) = text
            /\ IsNumber(text) /\ Canonical(text) = text
  BY <1>3, <1>4, <1>5
<1>. QED BY <1>6 DEF digits

LEMMA TextIsAscii == ASSUME NEW s \in Seq(Code) PROVE Ascii(s)
<1>1. ASSUME NEW i \in DOMAIN s PROVE s[i] \in 0..127
  <2>1. s[i] \in Code
    BY ElementOfSeq
  <2>. QED BY <2>1 DEF Code
<1>. QED BY <1>1 DEF Ascii

\* The reasons for which a login is rejected fill their column.
LEMMA ReasonPacked ==
    ASSUME NEW m \in TextMessages, m.class = "LoginRejected"
    PROVE  1 \in DOMAIN Columns(m.class) /\ Packed(m.fields[1], Width(m.class, 1)) = m.fields[1]
<1>. DEFINE t == m.fields[1]
<1>1. Columns(m.class) = <<<<1, 1>>>>
  BY DEF Columns
<1>2. 1 \in DOMAIN Columns(m.class) /\ Width(m.class, 1) = 1
  BY <1>1 DEF Width, First, Final
<1>3. t \in {<<65>>, <<83>>}
  BY DEF TextMessages, RejectReasons
<1>4. t \in AsciiText /\ Len(t) = 1
  <2>. HIDE DEF t
  <2>1. 65 \in Code /\ 83 \in Code
    BY DEF Code
  <2>2. CASE t = <<65>>
    BY <2>1, <2>2 DEF AsciiText
  <2>3. CASE t = <<83>>
    BY <2>1, <2>3 DEF AsciiText
  <2>. QED BY <1>3, <2>2, <2>3
<1>. HIDE DEF t
<1>5. /\ Packed(t, 1) \in Seq(Code) /\ Len(Packed(t, 1)) = 1
      /\ \A p \in 1..1 : Packed(t, 1)[p] = IF p <= Len(t) THEN t[p] ELSE SPACE
  BY <1>4, PackedIs DEF AsciiText
<1>6. \A p \in 1..1 : Packed(t, 1)[p] = t[p]
  BY <1>4, <1>5
<1>7. Packed(t, 1) = t
  BY <1>4, <1>5, <1>6, SeqEqual DEF AsciiText
<1>. QED BY <1>2, <1>7 DEF t

\* Logins and their answers, heartbeats, and what ends a session: to_bytes() and
\* from_bytes() give a message back exactly if its texts fit their columns,
\* have no blank at their ends, and numbers are written as int() prints them.
LEMMA TextRoundTrip ==
    ASSUME NEW m \in TextMessages
    PROVE  SoupDeserialize(SoupEncode(m)).msg = m <=> SoupFaithful(m)
<1>. DEFINE c == m.class
            frame == SoupEncode(m)
            cols == DOMAIN Columns(c)
            column == [i \in cols |-> Column(c, frame, i)]
            Numeric(i) == c \in CarriesNumber /\ i = Len(Columns(c))
            digits == [i \in cols |-> Strip(column[i], {SPACE, NUL})]
            Value(i) == IF Numeric(i) THEN Canonical(digits[i]) ELSE Strip(column[i], Whitespace)
            msg == SoupDecode(frame)
            Packs(i) == Packed(m.fields[i], Width(c, i))
            Keeps(i) == /\ Len(m.fields[i]) <= Width(c, i)
                        /\ Strip(m.fields[i], Whitespace) = m.fields[i]
                        /\ Numeric(i) => IsNumber(m.fields[i]) /\ Canonical(m.fields[i]) = m.fields[i]
<1>1. /\ c \in TextClasses /\ c \in DOMAIN Indicator /\ c \notin CarriesData
      /\ m.fields \in Seq(AsciiText) /\ Len(m.fields) = Len(Columns(c))
      /\ m = [class |-> c, fields |-> m.fields]
  BY DEF TextMessages, TextClasses
<1>2. /\ SoupBody(m) \in Seq(Octet) /\ Len(SoupBody(m)) < 65535
      /\ frame \in Seq(Octet) /\ Len(frame) = 3 + BodyLength(c)
      /\ frame[3] = Indicator[c]
      /\ \A i \in cols : Column(c, frame, i) = Packs(i)
  BY TextFrame
<1>3. /\ cols = 1..Len(Columns(c)) /\ BodyLength(c) \in Nat
      /\ \A i \in cols : Width(c, i) \in Nat
  <2>. HIDE DEF c
  <2>1. /\ cols = 1..Len(Columns(c)) /\ BodyLength(c) \in Nat
        /\ \A i \in cols : First(c, i) \in 1..Final(c, i) /\ Final(c, i) \in 1..BodyLength(c)
    BY <1>1, ColumnsFill
  <2>2. \A i \in cols : Width(c, i) \in Nat
    BY <2>1 DEF Width
  <2>. QED BY <2>1, <2>2
<1>4. ASSUME NEW i \in cols PROVE m.fields[i] \in AsciiText /\ Ascii(Packs(i))
  <2>1. m.fields[i] \in AsciiText
    BY <1>1, <1>3, ElementOfSeq
  <2>2. Packs(i) \in Seq(Code)
    BY <1>3, <2>1, PackedIs DEF AsciiText
  <2>3. Ascii(Packs(i))
    BY <2>2, TextIsAscii
  <2>. QED BY <2>1, <2>3
<1>5. msg = UnpackColumns(c, frame) /\ SoupDeserialize(frame).msg = msg
  <2>1. Len(frame) >= 3
    BY <1>2, <1>3
  <2>2. SoupDeserialize(frame).msg = msg
    BY <1>1, <1>2, WholeFrame DEF SoupDeserialize
  <2>3. msg = UnpackColumns(c, frame)
    BY <1>1, <1>2, <2>1, ClassFound
  <2>. QED BY <2>2, <2>3
<1>6. SoupFaithful(m) <=> \A i \in cols : Keeps(i)
  <2>1. DOMAIN m.fields = cols
    BY <1>1, <1>3
  <2>. QED BY <1>1, <2>1 DEF SoupFaithful
<1>. DEFINE bad == \/ Len(frame) # 3 + BodyLength(c)
                   \/ \E i \in cols : ~Ascii(column[i]) \/ (Numeric(i) /\ ~IsNumber(digits[i]))
                   \/ c = "LoginRejected" /\ column[1] \notin RejectReasons
            values == [i \in cols |-> Value(i)]
<1>7. msg = IF bad THEN SoupInvalid ELSE [class |-> c, fields |-> values]
  BY <1>5 DEF UnpackColumns
<1>. HIDE DEF msg
<1>8. \A i \in cols : /\ column[i] = Packs(i) /\ digits[i] = Strip(Packs(i), {SPACE, NUL})
                       /\ values[i] = Value(i)
  BY <1>2
<1>9. bad <=> \E i \in cols : Numeric(i) /\ ~IsNumber(digits[i])
  <2>1. ~(c = "LoginRejected" /\ column[1] \notin RejectReasons)
    <3>1. ASSUME c = "LoginRejected" PROVE column[1] \in RejectReasons
      <4>1. 1 \in cols /\ Packs(1) = m.fields[1]
        BY <3>1, ReasonPacked
      <4>2. m.fields[1] \in RejectReasons
        BY <3>1 DEF TextMessages
      <4>3. column[1] = Packs(1)
        BY <1>8, <4>1
      <4>. QED BY <4>1, <4>2, <4>3
    <3>. QED BY <3>1
  <2>2. \A i \in cols : Ascii(column[i])
    BY <1>4, <1>8
  <2>3. ~(Len(frame) # 3 + BodyLength(c))
    BY <1>2
  <2>. HIDE DEF column, digits, Numeric, cols, frame, c
  <2>. QED BY <2>1, <2>2, <2>3
<1>10. ASSUME NEW i \in cols
       PROVE  (Numeric(i) => IsNumber(digits[i])) /\ Value(i) = m.fields[i] <=> Keeps(i)
  <2>1. m.fields[i] \in AsciiText /\ Width(c, i) \in Nat
    BY <1>3, <1>4
  <2>2. CASE Numeric(i)
    <3>1. Value(i) = Canonical(Strip(Packs(i), {SPACE, NUL}))
      BY <1>8, <2>2
    <3>2. digits[i] = Strip(Packs(i), {SPACE, NUL})
      BY <1>8
    <3>. HIDE DEF Value, digits
    <3>. QED BY <2>1, <2>2, <3>1, <3>2, NumberKept
  <2>3. CASE ~Numeric(i)
    <3>1. Value(i) = Strip(Packs(i), Whitespace)
      BY <1>8, <2>3
    <3>. HIDE DEF Value, digits
    <3>. QED BY <2>1, <2>3, <3>1, ColumnKept
  <2>. QED BY <2>2, <2>3
<1>11. ASSUME bad PROVE msg # m
  <2>1. msg.class = "invalid"
    BY <1>7, <1>11 DEF SoupInvalid
  <2>2. "invalid" \notin DOMAIN Indicator
    BY DEF Indicator
  <2>. QED BY <1>1, <2>1, <2>2
<1>12. ASSUME ~bad PROVE msg = m <=> \A i \in cols : Value(i) = m.fields[i]
  <2>1. msg = [class |-> c, fields |-> values]
    BY <1>7, <1>12
  <2>2. msg = m <=> values = m.fields
    <3>. HIDE DEF values, c
    <3>. QED BY <1>1, <2>1
  <2>3. m.fields = [i \in cols |-> m.fields[i]]
    BY <1>1, <1>3
  <2>4. values = m.fields <=> \A i \in cols : Value(i) = m.fields[i]
    <3>. HIDE DEF Value, cols
    <3>. QED BY <2>3
  <2>. QED BY <2>2, <2>4
<1>. HIDE DEF bad, Value, Keeps, cols, Numeric, digits
<1>13. msg = m <=> \A i \in cols : Keeps(i)
  BY <1>9, <1>10, <1>11, <1>12
<1>. QED BY <1>5, <1>6, <1>13

\* A message of SoupBinTCP comes back from the wire as it was sent exactly if
\* it is one of those that its format can carry (to_bytes() and from_bytes() of
\* all ten messages).
THEOREM SoupRoundTrip ==
    ASSUME NEW m \in TextMessages \union PayloadMessages
    PROVE  SoupDeserialize(SoupEncode(m)).msg = m <=> SoupFaithful(m)
<1>1. CASE m \in PayloadMessages
  <2>. DEFINE data == m.fields[1]
              Message(payload) == [class |-> m.class, fields |-> <<payload>>]
              kept == IF Len(data) < MaxLength THEN data ELSE <<>>
  <2>1. /\ m.class \in CarriesData /\ m.fields \in Seq(Seq(Octet)) /\ Len(m.fields) = 1
        /\ Len(data) < 65535 /\ (m.class = "Debug" => Ascii(data))
        /\ m = [class |-> m.class, fields |-> m.fields]
    BY <1>1 DEF PayloadMessages
  <2>2. data \in Seq(Octet) /\ m.fields = <<data>>
    BY <2>1
  <2>3. m = Message(data)
    BY <2>1, <2>2
  <2>4. SoupDeserialize(SoupEncode(Message(data))).msg = Message(kept)
    <3>. DEFINE r == SoupDeserialize(SoupEncode(Message(data)))
    <3>1. r = [msg |-> Message(kept), n |-> Len(data) + 3, kind |-> "msg"]
      BY <2>1, <2>2, PayloadRoundTrip
    <3>. HIDE DEF r, Message, kept, data
    <3>2. r.msg = Message(kept)
      BY <3>1
    <3>. QED BY <3>2 DEF r
  <2>5. Message(kept) = Message(data) <=> kept = data
    <3>. HIDE DEF kept, data
    <3>. QED OBVIOUS
  <2>6. kept = data <=> Len(data) < MaxLength
    <3>1. data = <<>> => Len(data) < MaxLength
      BY DEF MaxLength
    <3>. QED BY <3>1
  <2>7. SoupFaithful(m) <=> Len(data) < MaxLength
    BY <2>1 DEF SoupFaithful
  <2>. HIDE DEF Message, kept, data
  <2>. QED BY <2>3, <2>4, <2>5, <2>6, <2>7
<1>. QED BY <1>1, TextRoundTrip

-----------------------------------------------------------------------------
(* Binary messages: integers.  Shifted is a recursion that has a solution.   *)

IsShift(f, v, n) == f = [i \in 0..n |-> IF i = 0 THEN v ELSE f[i - 1] \div 256]

LEMMA ShiftExists ==
    ASSUME NEW v
    PROVE  \A n \in Nat : \E f : IsShift(f, v, n)
<1>. DEFINE T == {n \in Nat : \E f : IsShift(f, v, n)}
<1>1. 0 \in T
  <2>1. IsShift([i \in 0..0 |-> v], v, 0)
    BY DEF IsShift
  <2>. QED BY <2>1
<1>2. ASSUME NEW n \in Nat, n \in T PROVE n + 1 \in T
  <2>1. PICK f : IsShift(f, v, n)
    BY <1>2
  <2>. DEFINE g == [i \in 0..(n + 1) |-> IF i = n + 1 THEN f[n] \div 256 ELSE f[i]]
  <2>2. ASSUME NEW i \in 0..(n + 1)
        PROVE  g[i] = IF i = 0 THEN v ELSE g[i - 1] \div 256
    <3>1. CASE i = n + 1
      <4>1. i # 0 /\ i - 1 = n /\ n \in 0..(n + 1) /\ n # n + 1
        BY <3>1
      <4>2. g[i] = f[n] \div 256 /\ g[n] = f[n]
        BY <3>1, <4>1
      <4>. HIDE DEF g
      <4>. QED BY <4>1, <4>2
    <3>2. CASE i # n + 1
      <4>1. i \in 0..n /\ g[i] = f[i]
        BY <3>2
      <4>2. f[i] = IF i = 0 THEN v ELSE f[i - 1] \div 256
        BY <2>1, <4>1 DEF IsShift
      <4>3. i # 0 => i - 1 \in 0..n /\ g[i - 1] = f[i - 1]
        BY <4>1
      <4>. HIDE DEF g
      <4>. QED BY <4>1, <4>2, <4>3
    <3>. QED BY <3>1, <3>2
  <2>3. g = [i \in 0..(n + 1) |-> g[i]]
    OBVIOUS
  <2>. HIDE DEF g
  <2>4. IsShift(g, v, n + 1)
    BY <2>2, <2>3 DEF IsShift
  <2>. QED BY <2>4
<1>. HIDE DEF T
<1>3. \A n \in Nat : n \in T
  BY <1>1, <1>2, SetInduction
<1>. QED BY <1>3 DEF T

LEMMA ShiftedIs ==
    ASSUME NEW v, NEW n \in Nat
    PROVE  \E f : IsShift(f, v, n) /\ Shifted(v, n) = f[n]
<1>. DEFINE f == CHOOSE h : h = [i \in 0..n |-> IF i = 0 THEN v ELSE h[i - 1] \div 256]
<1>1. Shifted(v, n) = f[n]
  BY DEF Shifted
<1>2. PICK g : IsShift(g, v, n)
  BY ShiftExists
<1>3. IsShift(f, v, n)
  BY <1>2, Zenon DEF IsShift
<1>. QED BY <1>1, <1>3

\* Byte by byte.
LEMMA ShiftedNone == ASSUME NEW v PROVE Shifted(v, 0) = v
<1>1. PICK f : IsShift(f, v, 0) /\ Shifted(v, 0) = f[0]
  BY ShiftedIs
<1>. QED BY <1>1 DEF IsShift

LEMMA ShiftedOnce ==
    ASSUME NEW v, NEW n \in Nat
    PROVE  Shifted(v, n + 1) = Shifted(v, n) \div 256
<1>1. PICK f : IsShift(f, v, n) /\ Shifted(v, n) = f[n]
  BY ShiftedIs
<1>2. PICK g : IsShift(g, v, n + 1) /\ Shifted(v, n + 1) = g[n + 1]
  BY ShiftedIs
<1>. DEFINE T == {i \in Nat : i <= n => f[i] = g[i]}
<1>3. 0 \in T
  BY <1>1, <1>2 DEF IsShift
<1>4. ASSUME NEW i \in Nat, i \in T PROVE i + 1 \in T
  <2>. SUFFICES ASSUME i + 1 <= n PROVE f[i + 1] = g[i + 1]
    OBVIOUS
  <2>1. i + 1 \in 0..n /\ i + 1 \in 0..(n + 1) /\ i + 1 # 0 /\ (i + 1) - 1 = i /\ f[i] = g[i]
    BY <1>4
  <2>2. f[i + 1] = f[i] \div 256 /\ g[i + 1] = g[i] \div 256
    BY <1>1, <1>2, <2>1 DEF IsShift
  <2>. QED BY <2>1, <2>2
<1>. HIDE DEF T
<1>5. n \in T
  BY <1>3, <1>4, SetInduction
<1>6. f[n] = g[n]
  BY <1>5 DEF T
<1>7. g[n + 1] = g[n] \div 256
  <2>1. n + 1 \in 0..(n + 1) /\ n + 1 # 0 /\ (n + 1) - 1 = n
    OBVIOUS
  <2>. QED BY <1>2, <2>1 DEF IsShift
<1>. QED BY <1>1, <1>2, <1>6, <1>7

LEMMA ShiftedType == ASSUME NEW v \in Int PROVE \A n \in Nat : Shifted(v, n) \in Int
<1>. DEFINE T == {n \in Nat : Shifted(v, n) \in Int}
<1>1. 0 \in T
  BY ShiftedNone
<1>2. ASSUME NEW n \in Nat, n \in T PROVE n + 1 \in T
  BY <1>2, ShiftedOnce
<1>. HIDE DEF T
<1>3. \A n \in Nat : n \in T
  BY <1>1, <1>2, SetInduction
<1>. QED BY <1>3 DEF T

-----------------------------------------------------------------------------
(* Slices of what is joined *)

LEMMA PrefixOfConcat ==
    ASSUME NEW S, NEW s \in Seq(S), NEW t \in Seq(S)
    PROVE  Prefix(s \o t, Len(s)) = s
<1>. DEFINE u == s \o t
<1>1. Len(u) = Len(s) + Len(t) /\ Len(s) \in Nat /\ Len(t) \in Nat
  OBVIOUS
<1>2. Prefix(u, Len(s)) = SubSeq(u, 1, Len(s))
  <2>. HIDE DEF u
  <2>. QED BY <1>1 DEF Prefix
<1>3. CASE s = <<>>
  <2>1. SubSeq(u, 1, Len(s)) = <<>>
    <3>1. Len(s) = 0
      BY <1>3
    <3>. HIDE DEF u
    <3>. QED BY <3>1, SubSeqEmpty
  <2>. QED BY <1>2, <1>3, <2>1
<1>4. CASE s # <<>>
  <2>1. 1 \in 1..Len(s) /\ Len(s) \in 1..Len(s)
    BY <1>1, <1>4, EmptySeq
  <2>2. SubSeq(u, 1, Len(s)) = SubSeq(s, 1, Len(s))
    BY <2>1, SubSeqOfConcat1
  <2>3. SubSeq(s, 1, Len(s)) = s
    BY SubSeqFull
  <2>4. Prefix(u, Len(s)) = s
    <3>. HIDE DEF u
    <3>. QED BY <1>2, <2>2, <2>3
  <2>. QED BY <2>4
<1>. QED BY <1>3, <1>4

LEMMA FromOfConcat ==
    ASSUME NEW S, NEW s \in Seq(S), NEW t \in Seq(S)
    PROVE  From(s \o t, Len(s)) = t
<1>. DEFINE u == s \o t
            l == Len(s)
            k == Len(t)
<1>. SUFFICES From(u, l) = t
  OBVIOUS
<1>1. Len(u) = l + k /\ l \in Nat /\ k \in Nat
  OBVIOUS
<1>2. From(u, l) = SubSeq(u, l + 1, l + k)
  <2>. HIDE DEF u, k, l
  <2>. QED BY <1>1 DEF From
<1>3. CASE t = <<>>
  <2>1. k = 0
    BY <1>3
  <2>2. l + k < l + 1 /\ l + 1 \in Int /\ l + k \in Int
    BY <1>1, <2>1
  <2>. HIDE DEF u, l, k
  <2>3. SubSeq(u, l + 1, l + k) = <<>>
    BY <2>2, SubSeqEmpty
  <2>. QED BY <1>2, <1>3, <2>3
<1>4. CASE t # <<>>
  <2>1. k >= 1
    BY <1>1, <1>4, EmptySeq
  <2>2. l + 1 \in (l + 1)..(l + k) /\ l + k \in (l + 1)..(l + k)
    BY <1>1, <2>1
  <2>3. SubSeq(u, l + 1, l + k) = SubSeq(t, l + 1 - l, l + k - l)
    BY <2>2, SubSeqOfConcat2
  <2>4. l + 1 - l = 1 /\ l + k - l = k
    BY <1>1
  <2>5. SubSeq(t, 1, k) = t
    BY SubSeqFull
  <2>. HIDE DEF u, l, k
  <2>. QED BY <1>2, <2>3, <2>4, <2>5
<1>. QED BY <1>3, <1>4

-----------------------------------------------------------------------------
(* What from_bytes() makes of an integer *)

Formats == [size : Nat \ {0}, signed : BOOLEAN, big : BOOLEAN]

\* The bytes of an integer, the least significant one last.
Digits(format, v) == [i \in 1..format.size |-> Shifted(v, format.size - i) % 256]

LEMMA DigitsType ==
    ASSUME NEW format \in Formats, NEW v \in Int
    PROVE  /\ Digits(format, v) \in Octets /\ Len(Digits(format, v)) = format.size
           /\ \A i \in 1..format.size : Digits(format, v)[i] = Shifted(v, format.size - i) % 256
<1>1. ASSUME NEW i \in 1..format.size PROVE Shifted(v, format.size - i) % 256 \in Octet
  <2>1. format.size - i \in Nat
    BY DEF Formats
  <2>2. Shifted(v, format.size - i) \in Int
    BY <2>1, ShiftedType
  <2>. QED BY <2>2 DEF Octet
<1>2. format.size \in Nat
  BY DEF Formats
<1>. QED BY <1>1, <1>2 DEF Digits, Octets

\* In the order of the format.
LEMMA WrittenDigits ==
    ASSUME NEW format \in Formats, NEW v \in Int
    PROVE  /\ IntToBytes(format, v) \in Octets /\ Len(IntToBytes(format, v)) = format.size
           /\ BigEndian(format, IntToBytes(format, v)) = Digits(format, v)
<1>. DEFINE n == format.size
            little == [i \in 1..n |-> Shifted(v, i - 1) % 256]
            digits == [i \in 1..n |-> Shifted(v, n - i) % 256]
<1>1. n \in Nat /\ format.big \in BOOLEAN
  BY DEF Formats
<1>2. ASSUME NEW i \in 0..n PROVE Shifted(v, i) % 256 \in Octet
  <2>1. Shifted(v, i) \in Int
    BY <1>1, ShiftedType
  <2>. QED BY <2>1 DEF Octet
<1>3. little \in Seq(Octet) /\ Len(little) = n /\ \A i \in 1..n : little[i] = Shifted(v, i - 1) % 256
  <2>1. \A i \in 1..n : i - 1 \in 0..n
    BY <1>1
  <2>. QED BY <1>1, <1>2, <2>1
<1>4. digits \in Seq(Octet) /\ Len(digits) = n /\ \A i \in 1..n : digits[i] = Shifted(v, n - i) % 256
  <2>1. \A i \in 1..n : n - i \in 0..n
    BY <1>1
  <2>. QED BY <1>1, <1>2, <2>1
<1>5. Digits(format, v) = digits
  BY DEF Digits
<1>6. IntToBytes(format, v) = IF format.big THEN Reverse(little) ELSE little
  BY DEF IntToBytes
<1>. HIDE DEF n, little, digits
<1>7. Reverse(little) = digits
  <2>1. Reverse(little) = [i \in 1..n |-> little[n - i + 1]]
    BY <1>3 DEF Reverse
  <2>2. ASSUME NEW i \in 1..n PROVE little[n - i + 1] = digits[i]
    <3>1. n - i + 1 \in 1..n /\ (n - i + 1) - 1 = n - i
      BY <1>1
    <3>. QED BY <1>3, <1>4, <3>1
  <2>3. digits = [i \in 1..n |-> digits[i]]
    BY <1>4
  <2>. QED BY <2>1, <2>2, <2>3
<1>8. Reverse(little) = digits /\ (~format.big => BigEndian(format, little) = digits)
  BY <1>7 DEF BigEndian
<1>9. format.big => BigEndian(format, digits) = digits
  BY DEF BigEndian
<1>. QED BY <1>1, <1>3, <1>4, <1>5, <1>6, <1>8, <1>9 DEF Octets, n

\* What fits a format is read as it was written, whatever follows it.
LEMMA IntReadsBack ==
    ASSUME NEW format \in Formats, NEW v \in Int, Fits(format, v), NEW rest \in Octets
    PROVE  /\ IntToBytes(format, v) \in Octets /\ Len(IntToBytes(format, v)) = format.size
           /\ IntFromBytes(format, IntToBytes(format, v) \o rest) = v
<1>. DEFINE w == IntToBytes(format, v)
            n == format.size
            digits == Digits(format, v)
            Digit(i) == IF i = 1 /\ format.signed /\ digits[i] > 127 THEN digits[i] - 256 ELSE digits[i]
            value == [i \in DOMAIN digits |-> Digit(i)]
<1>1. w \in Octets /\ Len(w) = n /\ BigEndian(format, w) = digits
  BY WrittenDigits
<1>2. n \in Nat /\ n >= 1 /\ format.signed \in BOOLEAN
  BY DEF Formats
<1>3. digits \in Octets /\ Len(digits) = n /\ \A i \in 1..n : digits[i] = Shifted(v, n - i) % 256
  BY DigitsType
<1>. HIDE DEF w, n, digits
<1>4. Prefix(w \o rest, n) = w
  BY <1>1, PrefixOfConcat DEF Octets
<1>5. IntFromBytes(format, w \o rest) = Positional(256, 0, value)
  BY <1>1, <1>4 DEF IntFromBytes, n
<1>6. DOMAIN digits = 1..n /\ Len(value) = n /\ \A i \in 1..n : value[i] = Digit(i)
  BY <1>2, <1>3 DEF Octets
<1>7. \A i \in 0..n : Shifted(v, i) \in Int
  BY <1>2, ShiftedType
<1>8. value[1] = Shifted(v, n - 1)
  <2>1. 1 \in 1..n /\ n - 1 \in 0..n
    BY <1>2
  <2>2. Shifted(v, n - 1) \in (IF format.signed THEN -128..127 ELSE 0..255)
    BY DEF Fits, n
  <2>3. digits[1] = Shifted(v, n - 1) % 256
    BY <1>3, <2>1
  <2>4. value[1] = IF format.signed /\ digits[1] > 127 THEN digits[1] - 256 ELSE digits[1]
    BY <1>6, <2>1
  <2>5. CASE format.signed
    <3>1. Shifted(v, n - 1) \in -128..127
      BY <2>2, <2>5
    <3>. QED BY <2>3, <2>4, <2>5, <3>1
  <2>6. CASE ~format.signed
    <3>1. Shifted(v, n - 1) \in 0..255
      BY <2>2, <2>6
    <3>. QED BY <2>3, <2>4, <2>6, <3>1
  <2>. QED BY <2>5, <2>6
<1>9. ASSUME NEW i \in 1..n, i # 1 PROVE value[i] = Shifted(v, n - i) % 256
  BY <1>3, <1>6, <1>9
<1>. HIDE DEF value, Digit
<1>10. PICK f : IsPositional(f, 256, 0, value, n) /\ Positional(256, 0, value) = f[n]
  BY <1>2, <1>6, PositionalIs
<1>. DEFINE T == {k \in Nat : k + 1 <= n => f[k + 1] = Shifted(v, n - (k + 1))}
<1>11. 0 \in T
  <2>1. f[0] = 0
    BY <1>2, <1>10 DEF IsPositional
  <2>2. 1 \in 0..n /\ 1 # 0 /\ 1 - 1 = 0
    BY <1>2
  <2>3. f[1] = 256 * f[0] + (value[1] - 0)
    BY <1>10, <2>2 DEF IsPositional
  <2>4. Shifted(v, n - 1) \in Int
    BY <1>2, <1>7
  <2>5. f[1] = Shifted(v, n - 1)
    BY <1>8, <2>1, <2>3, <2>4
  <2>. QED BY <2>5
<1>12. ASSUME NEW k \in Nat, k \in T PROVE k + 1 \in T
  <2>. DEFINE i == k + 2
  <2>. SUFFICES ASSUME i <= n PROVE f[i] = Shifted(v, n - i)
    <3>1. (k + 1) + 1 = k + 2
      OBVIOUS
    <3>. QED BY <3>1
  <2>1. /\ i \in 1..n /\ i \in 0..n /\ i # 0 /\ i # 1 /\ i - 1 = k + 1 /\ k + 1 <= n
        /\ n - i \in 0..n /\ n - i \in Nat /\ n - (k + 1) = (n - i) + 1
    BY <1>2
  <2>2. f[k + 1] = Shifted(v, (n - i) + 1)
    BY <1>12, <2>1
  <2>3. f[i] = 256 * f[i - 1] + (value[i] - 0)
    BY <1>10, <2>1 DEF IsPositional
  <2>4. value[i] = Shifted(v, n - i) % 256
    BY <1>9, <2>1
  <2>5. Shifted(v, (n - i) + 1) = Shifted(v, n - i) \div 256
    BY <2>1, ShiftedOnce
  <2>6. Shifted(v, n - i) \in Int
    BY <1>7, <2>1
  <2>. DEFINE x == Shifted(v, n - i)
  <2>7. x \in Int => 256 * (x \div 256) + ((x % 256) - 0) = x
    <3>. HIDE DEF x
    <3>. QED OBVIOUS
  <2>8. f[i] = 256 * (x \div 256) + ((x % 256) - 0)
    BY <2>1, <2>2, <2>3, <2>4, <2>5
  <2>. HIDE DEF i
  <2>. QED BY <2>6, <2>7, <2>8
<1>. HIDE DEF T
<1>13. n - 1 \in T
  BY <1>2, <1>11, <1>12, SetInduction
<1>14. f[n] = Shifted(v, 0)
  <2>1. (n - 1) + 1 = n /\ n - n = 0 /\ n <= n
    BY <1>2
  <2>. QED BY <1>13, <2>1 DEF T
<1>15. IntFromBytes(format, w \o rest) = v
  BY <1>5, <1>10, <1>14, ShiftedNone
<1>. QED BY <1>1, <1>15 DEF w, n

-----------------------------------------------------------------------------
(* Types that read what they write *)

\* Whatever follows, a value that fits is read as it was written, to its
\* last byte; another one is not, when something follows.
IsCodec(type) ==
    /\ type.write \in [type.values -> Octets]
    /\ \A v \in type.values, rest \in Octets :
          LET back == type.read[type.write[v] \o rest]
          IN  /\ v \in type.exact => back = [n |-> Len(type.write[v]), v |-> v]
              /\ v \notin type.exact /\ rest # <<>> => back.v # v

\* Of a value that does not fit, nothing need follow if it was written at all.
IsClosed(type) ==
    \A v \in type.values, rest \in Octets :
        v \notin type.exact /\ type.write[v] # <<>> => type.read[type.write[v] \o rest].v # v

\* To show it of a type.
LEMMA CodecIf ==
    ASSUME NEW type,
           type.write = [v \in type.values |-> type.write[v]],
           \A v \in type.values : type.write[v] \in Octets,
           \A v \in type.values : \A rest \in Octets : v \in type.exact =>
               type.read[type.write[v] \o rest] = [n |-> Len(type.write[v]), v |-> v],
           \A v \in type.values : \A rest \in Octets : v \notin type.exact /\ rest # <<>> =>
               type.read[type.write[v] \o rest].v # v
    PROVE  IsCodec(type)
BY Zenon DEF IsCodec

LEMMA OctetsConcat ==
    ASSUME NEW s \in Octets, NEW t \in Octets
    PROVE  /\ s \o t \in Octets /\ Len(s \o t) = Len(s) + Len(t)
           /\ Len(s) \in Nat /\ Len(t) \in Nat
           /\ Prefix(s \o t, Len(s)) = s /\ From(s \o t, Len(s)) = t
BY ConcatProperties, PrefixOfConcat, FromOfConcat DEF Octets

LEMMA OctetsAssociative ==
    ASSUME NEW s \in Octets, NEW t \in Octets, NEW u \in Octets
    PROVE  (s \o t) \o u = s \o (t \o u)
BY ConcatAssociative DEF Octets

LEMMA OctetsEmpty ==
    ASSUME NEW s \in Octets, NEW t \in Octets, s \o t = <<>>
    PROVE  s = <<>> /\ t = <<>>
<1>1. Len(s \o t) = Len(s) + Len(t) /\ Len(s) \in Nat /\ Len(t) \in Nat /\ Len(<<>>) = 0
  BY OctetsConcat
<1>2. Len(s) = 0 /\ Len(t) = 0
  BY <1>1
<1>. QED BY <1>2, EmptySeq DEF Octets

LEMMA Single == ASSUME NEW S, NEW s \in Seq(S), Len(s) = 1 PROVE s[1] \in S /\ s = <<s[1]>>
<1>1. s[1] \in S
  <2>1. 1 \in 1..Len(s)
    OBVIOUS
  <2>. QED BY <2>1
<1>. DEFINE t == <<s[1]>>
<1>2. t \in Seq(S) /\ Len(t) = 1 /\ t[1] = s[1]
  BY <1>1
<1>. HIDE DEF t
<1>3. \A i \in 1..1 : s[i] = t[i]
  BY <1>2
<1>4. s = t
  BY <1>2, <1>3, SeqEqual
<1>. QED BY <1>1, <1>4 DEF t

LEMMA IntIsCodec ==
    ASSUME NEW size \in Nat \ {0}, NEW signed \in BOOLEAN, NEW big \in BOOLEAN
    PROVE  IsCodec(IntType(size, signed, big)) /\ IsClosed(IntType(size, signed, big))
<1>. DEFINE format == [size |-> size, signed |-> signed, big |-> big]
            type == IntType(size, signed, big)
<1>1. format \in Formats /\ format.size = size
  BY DEF Formats
<1>. HIDE DEF format
<1>2. /\ type.values = {v \in FieldValue : v \in Seq(Int) /\ Len(v) = 1 /\ Fits(format, v[1])}
      /\ type.exact = type.values
      /\ type.write = [v \in type.values |-> IntToBytes(format, v[1])]
      /\ type.read = [b \in Octets |-> [n |-> size, v |-> <<IntFromBytes(format, b)>>]]
  BY DEF IntType, format
<1>. HIDE DEF type
<1>3. ASSUME NEW v \in type.values
      PROVE  /\ v[1] \in Int /\ Fits(format, v[1]) /\ v = <<v[1]>>
             /\ type.write[v] = IntToBytes(format, v[1])
  <2>1. v \in Seq(Int) /\ Len(v) = 1 /\ Fits(format, v[1])
    BY <1>2
  <2>2. v[1] \in Int /\ v = <<v[1]>>
    BY <2>1, Single
  <2>. QED BY <1>2, <2>1, <2>2
<1>4. ASSUME NEW v \in type.values PROVE type.write[v] \in Octets
  BY <1>1, <1>3, WrittenDigits
<1>5. ASSUME NEW v \in type.values, NEW rest \in Octets
      PROVE  type.read[type.write[v] \o rest] = [n |-> Len(type.write[v]), v |-> v]
  <2>1. type.write[v] \o rest \in Octets
    BY <1>4, OctetsConcat
  <2>2. /\ Len(type.write[v]) = size
        /\ IntFromBytes(format, type.write[v] \o rest) = v[1]
    BY <1>1, <1>3, IntReadsBack
  <2>3. v = <<v[1]>>
    BY <1>3
  <2>4. type.read[type.write[v] \o rest] = [n |-> size, v |-> <<IntFromBytes(format, type.write[v] \o rest)>>]
    BY <1>2, <2>1
  <2>. QED BY <2>2, <2>3, <2>4
<1>6. type.write = [v \in type.values |-> type.write[v]]
  BY <1>2
<1>7. IsCodec(type)
  BY <1>2, <1>4, <1>5, <1>6, CodecIf
<1>8. IsClosed(type)
  BY <1>2 DEF IsClosed
<1>. QED BY <1>7, <1>8 DEF type

LEMMA BooleanIsCodec == IsCodec(Boolean) /\ IsClosed(Boolean)
<1>. DEFINE type == Boolean
<1>1. /\ type.values = {v \in FieldValue : v \in {<<0>>, <<1>>}}
      /\ type.exact = type.values
      /\ type.write = [v \in type.values |-> v]
      /\ type.read = [b \in Octets |-> [n |-> 1, v |-> IF Prefix(b, 1) = <<1>> THEN <<1>> ELSE <<0>>]]
  BY DEF Boolean
<1>. HIDE DEF type
<1>2. ASSUME NEW v \in type.values
      PROVE  v \in {<<0>>, <<1>>} /\ type.write[v] = v /\ v \in Octets /\ Len(v) = 1
  <2>1. v \in {<<0>>, <<1>>} /\ type.write[v] = v
    BY <1>1
  <2>2. /\ <<0>> \in Octets /\ Len(<<0>>) = 1
        /\ <<1>> \in Octets /\ Len(<<1>>) = 1
    BY DEF Octets, Octet
  <2>. QED BY <2>1, <2>2
<1>3. ASSUME NEW v \in type.values, NEW rest \in Octets
      PROVE  type.read[type.write[v] \o rest] = [n |-> Len(type.write[v]), v |-> v]
  <2>1. v \o rest \in Octets /\ Prefix(v \o rest, 1) = v
    BY <1>2, OctetsConcat
  <2>2. type.read[v \o rest] = [n |-> 1, v |-> IF v = <<1>> THEN <<1>> ELSE <<0>>]
    BY <1>1, <2>1
  <2>3. v = IF v = <<1>> THEN <<1>> ELSE <<0>>
    BY <1>2
  <2>. QED BY <1>2, <2>2, <2>3
<1>4. type.write = [v \in type.values |-> type.write[v]]
  BY <1>1
<1>5. IsCodec(type)
  BY <1>1, <1>2, <1>3, <1>4, CodecIf
<1>6. IsClosed(type)
  BY <1>1 DEF IsClosed
<1>. QED BY <1>5, <1>6 DEF type

\* One character.
LEMMA CharIsCodec == IsCodec(Char) /\ IsClosed(Char)
<1>. DEFINE type == Char
<1>1. /\ type.values = {v \in FieldValue : v \in Octets}
      /\ type.exact = {v \in type.values : Len(v) = 1}
      /\ type.write = [v \in type.values |-> Prefix(v, 1)]
      /\ type.read = [b \in Octets |-> [n |-> 1, v |-> Prefix(b, 1)]]
  BY DEF Char
<1>. HIDE DEF type
<1>2. ASSUME NEW v \in type.values
      PROVE  /\ v \in Octets /\ type.write[v] = Prefix(v, 1)
             /\ Len(v) \in Nat /\ (Len(v) = 0 => v = <<>>)
  BY <1>1, EmptySeq DEF Octets
<1>3. ASSUME NEW v \in type.values
      PROVE  /\ type.write[v] \in Octets /\ Len(type.write[v]) <= 1
             /\ Len(v) = 1 => type.write[v] = v
             /\ Len(v) # 0 => Len(type.write[v]) = 1
  <2>1. CASE Len(v) = 0
    <3>1. type.write[v] = <<>>
      BY <1>2, <2>1, SubSeqEmpty DEF Prefix
    <3>. QED BY <2>1, <3>1 DEF Octets
  <2>2. CASE Len(v) # 0
    <3>1. Prefix(v, 1) = SubSeq(v, 1, 1)
      BY <1>2, <2>2 DEF Prefix
    <3>2. \A i \in 1..1 : v[i] \in Octet
      BY <1>2, <2>2 DEF Octets
    <3>3. SubSeq(v, 1, 1) \in Seq(Octet) /\ Len(SubSeq(v, 1, 1)) = IF 1 <= 1 THEN 1 - 1 + 1 ELSE 0
      BY <3>2, SubSeqProperties
    <3>4. SubSeq(v, 1, 1) \in Octets /\ Len(SubSeq(v, 1, 1)) = 1
      BY <3>3 DEF Octets
    <3>5. Len(v) = 1 => SubSeq(v, 1, 1) = v
      BY <1>2, SubSeqFull DEF Octets
    <3>6. type.write[v] = SubSeq(v, 1, 1)
      BY <1>2, <3>1
    <3>. QED BY <2>2, <3>4, <3>5, <3>6
  <2>. QED BY <2>1, <2>2
<1>4. ASSUME NEW v \in type.values, NEW rest \in Octets
      PROVE  /\ v \in type.exact => type.read[type.write[v] \o rest] = [n |-> Len(type.write[v]), v |-> v]
             /\ v \notin type.exact /\ (rest # <<>> \/ type.write[v] # <<>>) =>
                  type.read[type.write[v] \o rest].v # v
  <2>. DEFINE b == type.write[v] \o rest
  <2>1. b \in Octets /\ Prefix(b, Len(type.write[v])) = type.write[v]
    BY <1>3, OctetsConcat
  <2>2. type.read[b] = [n |-> 1, v |-> Prefix(b, 1)]
    BY <1>1, <2>1
  <2>3. v \in type.exact <=> Len(v) = 1
    BY <1>1
  <2>4. CASE Len(v) = 1
    BY <1>3, <2>1, <2>2, <2>3, <2>4
  <2>5. ASSUME Len(v) # 1, rest # <<>> \/ type.write[v] # <<>> PROVE Prefix(b, 1) # v
    <3>1. Len(b) = Len(type.write[v]) + Len(rest) /\ Len(type.write[v]) \in Nat /\ Len(rest) \in Nat
      BY <1>3 DEF Octets
    <3>2. Len(rest) # 0 \/ Len(type.write[v]) # 0
      BY <1>3, <2>5, EmptySeq DEF Octets
    <3>. HIDE DEF b
    <3>3. Len(b) >= 1
      BY <3>1, <3>2
    <3>4. Prefix(b, 1) = SubSeq(b, 1, 1)
      BY <2>1, <3>3 DEF Prefix, Octets
    <3>5. \A i \in 1..1 : b[i] \in Octet
      BY <2>1, <3>3 DEF Octets
    <3>6. Len(SubSeq(b, 1, 1)) = IF 1 <= 1 THEN 1 - 1 + 1 ELSE 0
      BY <3>5, SubSeqProperties
    <3>. QED BY <2>5, <3>4, <3>6
  <2>. QED BY <2>2, <2>3, <2>4, <2>5
<1>5. type.write = [v \in type.values |-> type.write[v]]
  BY <1>1
<1>6. IsCodec(type)
  BY <1>3, <1>4, <1>5, CodecIf
<1>7. IsClosed(type)
  BY <1>4 DEF IsClosed
<1>. QED BY <1>6, <1>7 DEF type

\* An offset that is not negative is the bound itself.
LEMMA BoundOfNat ==
    ASSUME NEW s, NEW i \in Nat PROVE Bound(s, i) = i
BY DEF Bound

\* A text behind its length.
LEMMA TextIsCodec == IsCodec(Text) /\ IsClosed(Text)
<1>. DEFINE type == Text
            format == [size |-> 2, signed |-> TRUE, big |-> FALSE]
            Size(b) == 2 + IntFromBytes(format, b)
<1>1. Short.format = format
  BY DEF Short, IntType
<1>2. /\ type.values = {v \in FieldValue : v \in Octets /\ Fits(format, Len(v))}
      /\ type.exact = type.values
      /\ type.write = [v \in type.values |-> IntToBytes(format, Len(v)) \o v]
      /\ type.read = [b \in Octets |-> [n |-> Size(b), v |-> From(Prefix(b, Bound(b, Size(b))), 2)]]
  <2>. HIDE DEF format
  <2>. QED BY <1>1 DEF Text
<1>3. format \in Formats /\ format.size = 2
  BY DEF Formats
<1>. HIDE DEF type, format
<1>4. ASSUME NEW v \in type.values
      PROVE  /\ v \in Octets /\ Len(v) \in Nat /\ Fits(format, Len(v))
             /\ type.write[v] = IntToBytes(format, Len(v)) \o v
  BY <1>2 DEF Octets
<1>5. ASSUME NEW v \in type.values
      PROVE  /\ type.write[v] \in Octets /\ Len(type.write[v]) = 2 + Len(v)
             /\ From(type.write[v], 2) = v
  <2>. DEFINE w == IntToBytes(format, Len(v))
  <2>1. Len(v) \in Int /\ v \in Octets
    BY <1>4
  <2>2. w \in Octets /\ Len(w) = 2
    BY <1>3, <2>1, WrittenDigits
  <2>. HIDE DEF w
  <2>3. w \o v \in Octets /\ Len(w \o v) = 2 + Len(v) /\ From(w \o v, 2) = v
    BY <2>1, <2>2, OctetsConcat
  <2>. QED BY <1>4, <2>3 DEF w
<1>6. ASSUME NEW v \in type.values, NEW rest \in Octets
      PROVE  type.read[type.write[v] \o rest] = [n |-> Len(type.write[v]), v |-> v]
  <2>. DEFINE b == type.write[v] \o rest
  <2>1. b \in Octets /\ Prefix(b, 2 + Len(v)) = type.write[v]
    BY <1>5, OctetsConcat
  <2>2. IntFromBytes(format, b) = Len(v)
    <3>. DEFINE w == IntToBytes(format, Len(v))
    <3>2. w \in Octets
      <4>1. Len(v) \in Int
        BY <1>4
      <4>. QED BY <1>3, <4>1, WrittenDigits
    <3>3. v \o rest \in Octets
      BY <1>4, OctetsConcat
    <3>4. IntFromBytes(format, w \o (v \o rest)) = Len(v)
      BY <1>3, <1>4, <3>3, IntReadsBack
    <3>. HIDE DEF w
    <3>5. (w \o v) \o rest = w \o (v \o rest)
      BY <1>4, <3>2, ConcatAssociative DEF Octets
    <3>6. b = (w \o v) \o rest
      BY <1>4 DEF w
    <3>. QED BY <3>4, <3>5, <3>6
  <2>. HIDE DEF b
  <2>3. Size(b) = 2 + Len(v)
    BY <2>2
  <2>4. type.read[b] = [n |-> Size(b), v |-> From(Prefix(b, Bound(b, Size(b))), 2)]
    BY <1>2, <2>1
  <2>5. Bound(b, Size(b)) = 2 + Len(v)
    BY <1>4, <2>3, BoundOfNat
  <2>6. type.read[b] = [n |-> Len(type.write[v]), v |-> v]
    BY <1>5, <2>1, <2>3, <2>4, <2>5
  <2>. QED BY <2>6 DEF b
<1>7. type.write = [v \in type.values |-> type.write[v]]
  BY <1>2
<1>8. IsCodec(type)
  BY <1>2, <1>5, <1>6, <1>7, CodecIf
<1>9. IsClosed(type)
  BY <1>2 DEF IsClosed
<1>. QED BY <1>8, <1>9 DEF type

-----------------------------------------------------------------------------
(* Fixed texts *)

LEMMA SpacesAre ==
    ASSUME NEW n \in Nat
    PROVE  /\ Spaces(n) \in Octets /\ Len(Spaces(n)) = n
           /\ \A i \in 1..n : Spaces(n)[i] = SPACE
<1>1. SPACE \in Octet
  BY DEF SPACE, Octet
<1>2. CASE n = 0
  BY <1>2 DEF Spaces, Octets
<1>3. CASE n # 0
  <2>1. Spaces(n) = [i \in 1..n |-> SPACE]
    BY <1>3 DEF Spaces
  <2>. QED BY <1>1, <2>1 DEF Octets
<1>. QED BY <1>2, <1>3

\* A text that fits is filled up to the length; one that does not is left.
LEMMA Justified ==
    ASSUME NEW v \in Octets, NEW length \in Nat, NEW right \in BOOLEAN
    PROVE  LET w == IF right THEN Rjust(v, length) ELSE Ljust(v, length)
               fill == length - Len(v)
               shift == IF right THEN fill ELSE 0
           IN  /\ w \in Octets
               /\ Len(v) > length => w = v
               /\ Len(v) <= length =>
                    /\ Len(w) = length /\ shift \in Nat
                    /\ \A i \in 1..Len(v) : w[shift + i] = v[i]
                    /\ \A i \in 1..length : i \in (shift + 1)..(shift + Len(v)) \/ w[i] = SPACE
<1>. DEFINE w == IF right THEN Rjust(v, length) ELSE Ljust(v, length)
            fill == length - Len(v)
            shift == IF right THEN fill ELSE 0
            sp == Spaces(fill)
<1>1. Len(v) \in Nat /\ v \in Seq(Octet)
  BY DEF Octets
<1>2. w = IF right THEN sp \o v ELSE v \o sp
  BY DEF Rjust, Ljust
<1>3. CASE Len(v) > length
  <2>1. sp = <<>>
    BY <1>1, <1>3 DEF Spaces
  <2>2. w = v
    <3>. HIDE DEF w, sp
    <3>. QED BY <1>1, <1>2, <2>1, ConcatEmptySeq
  <2>. QED BY <1>1, <1>3, <2>2
<1>4. CASE ~(Len(v) > length)
  <2>1. fill \in Nat /\ Len(v) <= length
    BY <1>1, <1>4
  <2>2. sp \in Seq(Octet) /\ Len(sp) = fill /\ \A i \in 1..fill : sp[i] = SPACE
    BY <2>1, SpacesAre DEF Octets
  <2>. HIDE DEF sp
  <2>3. CASE right
    <3>1. /\ sp \o v \in Seq(Octet) /\ Len(sp \o v) = fill + Len(v)
          /\ \A i \in 1..(fill + Len(v)) : (sp \o v)[i] = IF i <= fill THEN sp[i] ELSE v[i - fill]
      BY <1>1, <2>2, ConcatProperties
    <3>2. w = sp \o v /\ shift = fill /\ fill + Len(v) = length
      BY <1>1, <1>2, <2>3
    <3>. HIDE DEF w, shift
    <3>3. w \in Octets /\ Len(w) = length
      BY <3>1, <3>2 DEF Octets
    <3>4. ASSUME NEW i \in 1..Len(v) PROVE w[shift + i] = v[i]
      <4>1. fill + i \in 1..(fill + Len(v)) /\ ~(fill + i <= fill) /\ (fill + i) - fill = i
        BY <1>1, <2>1
      <4>. HIDE DEF fill
      <4>. QED BY <3>1, <3>2, <4>1
    <3>5. ASSUME NEW i \in 1..length PROVE i \in (shift + 1)..(shift + Len(v)) \/ w[i] = SPACE
      <4>1. i \in 1..(fill + Len(v)) /\ (i <= fill => i \in 1..fill) /\ (~(i <= fill) => i \in (fill + 1)..(fill + Len(v)))
        BY <1>1, <2>1
      <4>. HIDE DEF fill
      <4>. QED BY <2>2, <3>1, <3>2, <4>1
    <3>. QED BY <1>4, <2>1, <3>2, <3>3, <3>4, <3>5 DEF w, shift
  <2>4. CASE ~right
    <3>1. /\ v \o sp \in Seq(Octet) /\ Len(v \o sp) = Len(v) + fill
          /\ \A i \in 1..(Len(v) + fill) : (v \o sp)[i] = IF i <= Len(v) THEN v[i] ELSE sp[i - Len(v)]
      BY <1>1, <2>2, ConcatProperties
    <3>2. w = v \o sp /\ shift = 0 /\ Len(v) + fill = length
      BY <1>1, <1>2, <2>4
    <3>. HIDE DEF w, shift
    <3>3. w \in Octets /\ Len(w) = length
      BY <3>1, <3>2 DEF Octets
    <3>4. ASSUME NEW i \in 1..Len(v) PROVE w[shift + i] = v[i]
      <4>1. i \in 1..(Len(v) + fill) /\ i <= Len(v) /\ 0 + i = i
        BY <1>1, <2>1
      <4>. HIDE DEF fill
      <4>. QED BY <3>1, <3>2, <4>1
    <3>5. ASSUME NEW i \in 1..length PROVE i \in (shift + 1)..(shift + Len(v)) \/ w[i] = SPACE
      <4>1. /\ i \in 1..(Len(v) + fill) /\ (i <= Len(v) => i \in (0 + 1)..(0 + Len(v)))
            /\ (~(i <= Len(v)) => i - Len(v) \in 1..fill)
        BY <1>1, <2>1
      <4>. HIDE DEF fill
      <4>. QED BY <2>2, <3>1, <3>2, <4>1
    <3>. QED BY <1>4, <2>1, <3>2, <3>3, <3>4, <3>5 DEF w, shift
  <2>. QED BY <2>3, <2>4
<1>. QED BY <1>3, <1>4

\* Padding is taken off again.
LEMMA Unpadded ==
    ASSUME NEW v \in Octets, NEW length \in Nat, NEW right \in BOOLEAN,
           Len(v) <= length, Strip(v, Blank) = v
    PROVE  Strip(IF right THEN Rjust(v, length) ELSE Ljust(v, length), Blank) = v
<1>. DEFINE w == IF right THEN Rjust(v, length) ELSE Ljust(v, length)
            shift == IF right THEN length - Len(v) ELSE 0
<1>1. /\ w \in Octets /\ Len(w) = length /\ shift \in Nat
      /\ \A i \in 1..Len(v) : w[shift + i] = v[i]
      /\ \A i \in 1..length : i \in (shift + 1)..(shift + Len(v)) \/ w[i] = SPACE
  BY Justified
<1>2. Len(v) \in Nat /\ v \in Seq(Octet) /\ shift + Len(v) <= length
  BY DEF Octets
<1>. HIDE DEF w, shift
<1>3. w \in Seq(Octet) /\ DOMAIN w = 1..length
  BY <1>1 DEF Octets
<1>4. SPACE \in Blank
  BY DEF Blank, Whitespace
<1>5. CASE v = <<>>
  <2>1. \A i \in DOMAIN w : w[i] \in Blank
    <3>1. Len(v) = 0
      BY <1>5
    <3>2. \A i \in 1..length : w[i] = SPACE
      BY <1>1, <3>1
    <3>. QED BY <1>3, <1>4, <3>2
  <2>2. {i \in DOMAIN w : w[i] \notin Blank} = {}
    BY <2>1
  <2>3. Strip(w, Blank) = <<>>
    BY <2>2 DEF Strip
  <2>. QED BY <1>5, <2>3 DEF w
<1>6. CASE v # <<>>
  <2>. DEFINE a == shift + 1
              b == shift + Len(v)
              t == SubSeq(w, a, b)
  <2>1. Len(v) >= 1
    BY <1>2, <1>6, EmptySeq
  <2>2. v[1] \notin Blank /\ v[Len(v)] \notin Blank
    BY <1>2, <1>6, Stripped
  <2>3. /\ a \in Nat /\ b \in Nat /\ a \in 1..length /\ b \in 1..length
        /\ w[a] = v[1] /\ w[b] = v[Len(v)]
    BY <1>1, <1>2, <2>1
  <2>4. ASSUME NEW i \in DOMAIN w, w[i] \notin Blank PROVE a <= i /\ i <= b
    <3>1. i \in a..b
      BY <1>1, <1>3, <1>4, <2>4
    <3>. QED BY <2>3, <3>1
  <2>5. Strip(w, Blank) = t
    <3>1. a \in DOMAIN w /\ b \in DOMAIN w /\ w[a] \notin Blank /\ w[b] \notin Blank
      BY <1>3, <2>2, <2>3
    <3>2. \A i \in DOMAIN w : w[i] \notin Blank => a <= i /\ i <= b
      BY <2>4
    <3>. HIDE DEF a, b
    <3>. QED BY <1>3, <3>1, <3>2, StripIs
  <2>6. \A i \in a..b : w[i] \in Octet
    BY <1>3, <2>3
  <2>7. /\ t \in Seq(Octet) /\ Len(t) = IF a <= b THEN b - a + 1 ELSE 0
        /\ \A i \in 1..(b - a + 1) : t[i] = w[a + i - 1]
    <3>. HIDE DEF a, b
    <3>. QED BY <2>3, <2>6, SubSeqProperties
  <2>. HIDE DEF t
  <2>8. Len(t) = Len(v)
    BY <1>1, <1>2, <2>1, <2>7
  <2>9. \A i \in 1..Len(v) : t[i] = v[i]
    <3>1. \A i \in 1..Len(v) : i \in 1..(b - a + 1) /\ a + i - 1 = shift + i
      BY <1>1, <1>2
    <3>. HIDE DEF a, b
    <3>. QED BY <1>1, <2>7, <3>1
  <2>10. t = v
    BY <1>2, <2>7, <2>8, <2>9, SeqEqual
  <2>. QED BY <2>5, <2>10 DEF w
<1>. QED BY <1>5, <1>6

LEMMA FixedIsCodec ==
    ASSUME NEW length \in Nat, NEW right \in BOOLEAN
    PROVE  IsCodec(Fixed(length, right)) /\ IsClosed(Fixed(length, right))
<1>. DEFINE type == Fixed(length, right)
            Pad(v) == IF right THEN Rjust(v, length) ELSE Ljust(v, length)
<1>1. /\ type.values = {v \in FieldValue : v \in Octets}
      /\ type.exact = {v \in type.values : Len(v) <= length /\ Strip(v, Blank) = v}
      /\ type.write = [v \in type.values |-> Pad(v)]
      /\ type.read = [b \in Octets |-> [n |-> length, v |-> Strip(Prefix(b, length), Blank)]]
  BY DEF Fixed
<1>2. ASSUME NEW v \in Octets
      PROVE  /\ Pad(v) \in Octets /\ (Len(v) > length => Pad(v) = v)
             /\ (Len(v) <= length => Len(Pad(v)) = length)
  BY Justified
<1>3. ASSUME NEW v \in Octets, Len(v) <= length, Strip(v, Blank) = v PROVE Strip(Pad(v), Blank) = v
  BY <1>3, Unpadded
<1>. HIDE DEF type, Pad
<1>4. ASSUME NEW v \in type.values
      PROVE  v \in Octets /\ type.write[v] = Pad(v) /\ Pad(v) \in Octets
  BY <1>1, <1>2
<1>5. ASSUME NEW v \in type.values, NEW rest \in Octets
      PROVE  /\ v \in type.exact => type.read[type.write[v] \o rest] = [n |-> Len(type.write[v]), v |-> v]
             /\ v \notin type.exact => type.read[type.write[v] \o rest].v # v
  <2>. DEFINE w == Pad(v)
              b == w \o rest
              back == Strip(Prefix(b, length), Blank)
  <2>1. /\ v \in Octets /\ Len(v) \in Nat /\ type.write[v] = w
        /\ w \in Octets /\ b \in Octets
    <3>1. v \in Octets /\ type.write[v] = w /\ w \in Octets
      BY <1>4
    <3>2. b \in Octets
      BY <3>1, OctetsConcat
    <3>. QED BY <3>1, <3>2 DEF Octets
  <2>2. type.read[b] = [n |-> length, v |-> back]
    BY <1>1, <2>1
  <2>3. CASE Len(v) <= length
    <3>1. Len(w) = length /\ Prefix(b, length) = w
      BY <1>2, <2>1, <2>3, OctetsConcat
    <3>2. v \in type.exact => back = v
      BY <1>1, <1>3, <2>1, <2>3, <3>1
    <3>3. ASSUME back = v PROVE v \in type.exact
      <4>1. w \in Seq(Octet) /\ v \in Seq(Octet) /\ Strip(w, Blank) = v
        BY <2>1, <3>1, <3>3 DEF Octets
      <4>2. v # <<>> => v[1] \notin Blank /\ v[Len(v)] \notin Blank
        <5>. HIDE DEF w
        <5>. QED BY <4>1, Stripped
      <4>3. Strip(v, Blank) = v
        BY <4>1, <4>2, TrimmedStays
      <4>. QED BY <1>1, <2>3, <4>3
    <3>. HIDE DEF back, b, w
    <3>. QED BY <2>1, <2>2, <3>1, <3>2, <3>3 DEF b
  <2>4. CASE ~(Len(v) <= length)
    <3>1. v \notin type.exact
      BY <1>1, <2>4
    <3>2. Len(b) \in Nat /\ Len(b) >= length /\ b \in Seq(Octet)
      <4>1. w = v
        BY <1>2, <2>1, <2>4
      <4>2. Len(b) = Len(w) + Len(rest) /\ Len(rest) \in Nat
        BY <2>1, OctetsConcat
      <4>. HIDE DEF w, b
      <4>. QED BY <2>1, <2>4, <4>1, <4>2 DEF Octets
    <3>. HIDE DEF b, w
    <3>3. Prefix(b, length) = SubSeq(b, 1, length)
      BY <3>2 DEF Prefix
    <3>4. \A i \in 1..length : b[i] \in Octet
      BY <3>2
    <3>5. /\ SubSeq(b, 1, length) \in Seq(Octet)
          /\ Len(SubSeq(b, 1, length)) = IF 1 <= length THEN length - 1 + 1 ELSE 0
      BY <3>4, SubSeqProperties
    <3>6. Prefix(b, length) \in Seq(Octet) /\ Len(Prefix(b, length)) = length
      BY <3>3, <3>5
    <3>7. Len(back) <= length
      BY <3>6, Stripped
    <3>8. back # v
      <4>. HIDE DEF back
      <4>. QED BY <2>1, <2>4, <3>7
    <3>. HIDE DEF back
    <3>. QED BY <2>1, <2>2, <3>1, <3>8 DEF b
  <2>. QED BY <2>3, <2>4
<1>6. type.write = [v \in type.values |-> type.write[v]]
  BY <1>1
<1>7. IsCodec(type)
  BY <1>4, <1>5, <1>6, CodecIf
<1>8. IsClosed(type)
  BY <1>5 DEF IsClosed
<1>. QED BY <1>7, <1>8 DEF type

-----------------------------------------------------------------------------
(* Lists.  FlattenSeq and the offsets of ListFromBytes are recursions that  *)
(* have a solution.                                                        *)

\* What a codec does with a value.
LEMMA CodecOf ==
    ASSUME NEW type, IsCodec(type), NEW v \in type.values
    PROVE  /\ type.write[v] \in Octets
           /\ \A rest \in Octets :
                /\ v \in type.exact =>
                     type.read[type.write[v] \o rest] = [n |-> Len(type.write[v]), v |-> v]
                /\ v \notin type.exact /\ rest # <<>> => type.read[type.write[v] \o rest].v # v
<1>1. type.write[v] \in Octets
  BY DEF IsCodec
<1>2. \A rest \in Octets :
        /\ v \in type.exact =>
             type.read[type.write[v] \o rest] = [n |-> Len(type.write[v]), v |-> v]
        /\ v \notin type.exact /\ rest # <<>> => type.read[type.write[v] \o rest].v # v
  BY Zenon DEF IsCodec
<1>. QED BY <1>1, <1>2

\* f gives what the parts up to each of the first n are when joined.
IsJoin(f, parts, n) == f = [i \in 1..n |-> IF i = 1 THEN parts[i] ELSE f[i - 1] \o parts[i]]

LEMMA JoinExists ==
    ASSUME NEW parts
    PROVE  \A n \in Nat : \E f : IsJoin(f, parts, n)
<1>. DEFINE T == {n \in Nat : \E f : IsJoin(f, parts, n)}
<1>1. 0 \in T
  <2>1. IsJoin([i \in 1..0 |-> parts[i]], parts, 0)
    BY DEF IsJoin
  <2>. QED BY <2>1
<1>2. ASSUME NEW n \in Nat, n \in T PROVE n + 1 \in T
  <2>1. PICK f : IsJoin(f, parts, n)
    BY <1>2
  <2>. DEFINE last == IF n = 0 THEN parts[n + 1] ELSE f[n] \o parts[n + 1]
              g == [i \in 1..(n + 1) |-> IF i = n + 1 THEN last ELSE f[i]]
  <2>2. ASSUME NEW i \in 1..(n + 1)
        PROVE  g[i] = IF i = 1 THEN parts[i] ELSE g[i - 1] \o parts[i]
    <3>1. CASE i = n + 1
      <4>1. (i = 1 <=> n = 0) /\ i - 1 = n /\ (n # 0 => n \in 1..(n + 1) /\ n # n + 1)
        BY <3>1
      <4>2. g[i] = last /\ (n # 0 => g[n] = f[n])
        BY <3>1, <4>1
      <4>. HIDE DEF g
      <4>. QED BY <3>1, <4>1, <4>2
    <3>2. CASE i # n + 1
      <4>1. i \in 1..n /\ g[i] = f[i]
        BY <3>2
      <4>2. f[i] = IF i = 1 THEN parts[i] ELSE f[i - 1] \o parts[i]
        BY <2>1, <4>1 DEF IsJoin
      <4>3. i # 1 => i - 1 \in 1..n /\ g[i - 1] = f[i - 1]
        BY <4>1
      <4>. HIDE DEF g
      <4>. QED BY <4>1, <4>2, <4>3
    <3>. QED BY <3>1, <3>2
  <2>3. g = [i \in 1..(n + 1) |-> g[i]]
    OBVIOUS
  <2>. HIDE DEF g
  <2>4. IsJoin(g, parts, n + 1)
    BY <2>2, <2>3 DEF IsJoin
  <2>. QED BY <2>4
<1>. HIDE DEF T
<1>3. \A n \in Nat : n \in T
  BY <1>1, <1>2, SetInduction
<1>. QED BY <1>3 DEF T

LEMMA FlattenIs ==
    ASSUME NEW parts, Len(parts) \in Nat, Len(parts) # 0
    PROVE  \E f : IsJoin(f, parts, Len(parts)) /\ FlattenSeq(parts) = f[Len(parts)]
<1>. DEFINE f == CHOOSE h : h = [i \in 1..Len(parts) |->
                     IF i = 1 THEN parts[i] ELSE h[i - 1] \o parts[i]]
<1>1. FlattenSeq(parts) = f[Len(parts)]
  BY DEF FlattenSeq
<1>2. PICK g : IsJoin(g, parts, Len(parts))
  BY JoinExists
<1>3. IsJoin(f, parts, Len(parts))
  BY <1>2, Zenon DEF IsJoin
<1>. QED BY <1>1, <1>3

\* What is before each part of a whole and what is behind it.
IsCut(whole, parts, front, behind) ==
    LET n == Len(parts)
    IN  /\ front \in [0..n -> Octets] /\ behind \in [0..n -> Octets]
        /\ front[0] = <<>> /\ front[n] = whole /\ behind[0] = whole
        /\ \A k \in 1..n : front[k] = front[k - 1] \o parts[k] /\ behind[k - 1] = parts[k] \o behind[k]
        /\ \A k \in 0..n : whole = front[k] \o behind[k]

LEMMA FlattenCuts ==
    ASSUME NEW parts \in Seq(Octets)
    PROVE  /\ FlattenSeq(parts) \in Octets
           /\ \E front, behind : IsCut(FlattenSeq(parts), parts, front, behind)
<1>. DEFINE n == Len(parts)
            whole == FlattenSeq(parts)
<1>1. n \in Nat /\ \A k \in 1..n : parts[k] \in Octets
  OBVIOUS
<1>2. <<>> \in Octets /\ \A s \in Octets : s \o <<>> = s /\ <<>> \o s = s
  BY EmptySeq, ConcatEmptySeq DEF Octets
<1>. HIDE DEF whole, n
<1>3. \E front : /\ front \in [0..n -> Octets] /\ front[0] = <<>> /\ front[n] = whole
                 /\ \A k \in 1..n : front[k] = front[k - 1] \o parts[k]
  <2>1. CASE n = 0
    <3>. DEFINE front == [k \in 0..0 |-> <<>>]
    <3>1. whole = <<>>
      <4>1. parts = <<>>
        BY <2>1, EmptySeq DEF n
      <4>2. whole = parts
        BY <2>1 DEF whole, n, FlattenSeq
      <4>. QED BY <4>1, <4>2
    <3>2. front \in [0..n -> Octets] /\ front[0] = <<>> /\ front[n] = whole
      BY <1>2, <2>1, <3>1
    <3>3. \A k \in 1..n : front[k] = front[k - 1] \o parts[k]
      BY <2>1
    <3>. HIDE DEF front
    <3>. QED BY <3>2, <3>3
  <2>2. CASE n # 0
    <3>1. PICK f : IsJoin(f, parts, n) /\ whole = f[n]
      BY <1>1, <2>2, FlattenIs DEF whole, n
    <3>. DEFINE front == [k \in 0..n |-> IF k = 0 THEN <<>> ELSE f[k]]
                T == {k \in Nat : k <= n => front[k] \in Octets}
    <3>2. front[0] = <<>> /\ front[n] = whole
      BY <1>1, <2>2, <3>1
    <3>3. ASSUME NEW k \in 1..n PROVE front[k] = front[k - 1] \o parts[k]
      <4>1. front[k] = f[k] /\ k - 1 \in 0..n /\ parts[k] \in Octets
        BY <1>1
      <4>2. f[k] = IF k = 1 THEN parts[k] ELSE f[k - 1] \o parts[k]
        BY <3>1 DEF IsJoin
      <4>3. front[k - 1] = IF k = 1 THEN <<>> ELSE f[k - 1]
        BY <4>1
      <4>. HIDE DEF front
      <4>. QED BY <1>2, <4>1, <4>2, <4>3
    <3>4. front = [k \in 0..n |-> front[k]]
      OBVIOUS
    <3>. HIDE DEF front
    <3>5. 0 \in T
      BY <1>2, <3>2
    <3>6. ASSUME NEW k \in Nat, k \in T PROVE k + 1 \in T
      <4>. SUFFICES ASSUME k + 1 <= n PROVE front[k + 1] \in Octets
        OBVIOUS
      <4>1. k + 1 \in 1..n /\ (k + 1) - 1 = k /\ front[k] \in Octets
        BY <1>1, <3>6
      <4>2. front[k + 1] = front[k] \o parts[k + 1] /\ parts[k + 1] \in Octets
        BY <1>1, <3>3, <4>1
      <4>. QED BY <4>1, <4>2, OctetsConcat
    <3>. HIDE DEF T
    <3>7. \A k \in Nat : k \in T
      BY <3>5, <3>6, SetInduction
    <3>8. \A k \in 0..n : front[k] \in Octets
      BY <1>1, <3>7 DEF T
    <3>9. front \in [0..n -> Octets]
      BY <3>4, <3>8
    <3>. QED BY <3>2, <3>3, <3>9
  <2>. QED BY <2>1, <2>2
<1>4. PICK front : /\ front \in [0..n -> Octets] /\ front[0] = <<>> /\ front[n] = whole
                   /\ \A k \in 1..n : front[k] = front[k - 1] \o parts[k]
  BY <1>3
<1>. DEFINE behind == [k \in 0..n |-> From(whole, Len(front[k]))]
            Starts(k) == \E t \in Octets : whole = front[k] \o t
            T == {j \in Nat : j <= n => Starts(n - j)}
<1>5. 0 \in T
  <2>1. n - 0 = n /\ n \in 0..n
    BY <1>1
  <2>2. front[n] \in Octets /\ whole = front[n] \o <<>>
    BY <1>2, <1>4, <2>1
  <2>. QED BY <1>2, <2>1, <2>2
<1>6. ASSUME NEW j \in Nat, j \in T PROVE j + 1 \in T
  <2>. SUFFICES ASSUME j + 1 <= n PROVE Starts(n - (j + 1))
    <3>. HIDE DEF Starts
    <3>. QED OBVIOUS
  <2>1. /\ j <= n /\ n - j \in 1..n /\ (n - j) - 1 = n - (j + 1) /\ n - (j + 1) \in 0..n
    BY <1>1
  <2>2. PICK t \in Octets : whole = front[n - j] \o t
    BY <1>6, <2>1
  <2>. DEFINE a == front[n - (j + 1)]
              b == parts[n - j]
  <2>3. front[n - j] = a \o b /\ a \in Octets /\ b \in Octets
    BY <1>1, <1>4, <2>1
  <2>. HIDE DEF a, b
  <2>4. (a \o b) \o t = a \o (b \o t) /\ b \o t \in Octets
    BY <2>3, ConcatAssociative, OctetsConcat DEF Octets
  <2>5. whole = a \o (b \o t)
    BY <2>2, <2>3, <2>4
  <2>. QED BY <2>4, <2>5 DEF a
<1>. HIDE DEF T
<1>7. \A j \in Nat : j \in T
  BY <1>5, <1>6, SetInduction
<1>8. ASSUME NEW k \in 0..n
      PROVE  behind[k] \in Octets /\ whole = front[k] \o behind[k]
  <2>1. n - k \in Nat /\ n - k <= n /\ n - (n - k) = k
    BY <1>1
  <2>2. PICK t \in Octets : whole = front[k] \o t
    BY <1>7, <2>1 DEF T
  <2>3. front[k] \in Octets
    BY <1>4
  <2>4. From(whole, Len(front[k])) = t
    BY <2>2, <2>3, OctetsConcat
  <2>. QED BY <2>2, <2>4
<1>9. behind = [k \in 0..n |-> behind[k]] /\ \A k \in 0..n : behind[k] = From(whole, Len(front[k]))
  OBVIOUS
<1>. HIDE DEF behind
<1>10. ASSUME NEW k \in 1..n PROVE behind[k - 1] = parts[k] \o behind[k]
  <2>1. k \in 0..n /\ k - 1 \in 0..n
    BY <1>1
  <2>. DEFINE a == front[k - 1]
              b == parts[k]
              t == behind[k]
  <2>2. a \in Octets /\ b \in Octets /\ t \in Octets /\ whole = (a \o b) \o t
    BY <1>1, <1>4, <1>8, <2>1
  <2>3. behind[k - 1] = From(whole, Len(a))
    BY <1>9, <2>1
  <2>. HIDE DEF a, b, t
  <2>4. (a \o b) \o t = a \o (b \o t) /\ b \o t \in Octets
    BY <2>2, ConcatAssociative, OctetsConcat DEF Octets
  <2>5. From(a \o (b \o t), Len(a)) = b \o t
    BY <2>2, <2>4, OctetsConcat
  <2>. QED BY <2>2, <2>3, <2>4, <2>5 DEF b, t
<1>11. whole \in Octets /\ behind[0] = whole
  <2>1. 0 \in 0..n /\ n \in 0..n
    BY <1>1
  <2>2. whole \in Octets
    BY <1>4, <2>1
  <2>3. behind[0] \in Octets /\ whole = <<>> \o behind[0]
    BY <1>4, <1>8, <2>1
  <2>. QED BY <1>2, <2>2, <2>3
<1>12. behind \in [0..n -> Octets]
  BY <1>8, <1>9
<1>13. IsCut(whole, parts, front, behind)
  BY <1>4, <1>8, <1>10, <1>11, <1>12 DEF IsCut, n
<1>. QED BY <1>11, <1>13 DEF whole

\* at gives where each of the first n readers begins, and where the last ends.
IsOffsets(at, readers, bytes, offset, n) ==
    at = [k \in 0..n |-> IF k = 0 THEN offset
                         ELSE at[k - 1] + readers[k][FromOffset(bytes, at[k - 1])].n]

LEMMA OffsetsExist ==
    ASSUME NEW readers, NEW bytes, NEW offset
    PROVE  \A n \in Nat : \E at : IsOffsets(at, readers, bytes, offset, n)
<1>. DEFINE T == {n \in Nat : \E at : IsOffsets(at, readers, bytes, offset, n)}
<1>1. 0 \in T
  <2>1. IsOffsets([k \in 0..0 |-> offset], readers, bytes, offset, 0)
    BY DEF IsOffsets
  <2>. QED BY <2>1
<1>2. ASSUME NEW n \in Nat, n \in T PROVE n + 1 \in T
  <2>1. PICK f : IsOffsets(f, readers, bytes, offset, n)
    BY <1>2
  <2>. DEFINE last == f[n] + readers[n + 1][FromOffset(bytes, f[n])].n
              g == [k \in 0..(n + 1) |-> IF k = n + 1 THEN last ELSE f[k]]
  <2>2. ASSUME NEW k \in 0..(n + 1)
        PROVE  g[k] = IF k = 0 THEN offset ELSE g[k - 1] + readers[k][FromOffset(bytes, g[k - 1])].n
    <3>1. CASE k = n + 1
      <4>1. k # 0 /\ k - 1 = n /\ n \in 0..(n + 1) /\ n # n + 1
        BY <3>1
      <4>2. g[k] = last /\ g[n] = f[n]
        BY <3>1, <4>1
      <4>. HIDE DEF g
      <4>. QED BY <3>1, <4>1, <4>2
    <3>2. CASE k # n + 1
      <4>1. k \in 0..n /\ g[k] = f[k]
        BY <3>2
      <4>2. f[k] = IF k = 0 THEN offset ELSE f[k - 1] + readers[k][FromOffset(bytes, f[k - 1])].n
        BY <2>1, <4>1 DEF IsOffsets
      <4>3. k # 0 => k - 1 \in 0..n /\ g[k - 1] = f[k - 1]
        BY <4>1
      <4>. HIDE DEF g
      <4>. QED BY <4>1, <4>2, <4>3
    <3>. QED BY <3>1, <3>2
  <2>3. g = [k \in 0..(n + 1) |-> g[k]]
    OBVIOUS
  <2>. HIDE DEF g
  <2>4. IsOffsets(g, readers, bytes, offset, n + 1)
    BY <2>2, <2>3 DEF IsOffsets
  <2>. QED BY <2>4
<1>. HIDE DEF T
<1>3. \A n \in Nat : n \in T
  BY <1>1, <1>2, SetInduction
<1>. QED BY <1>3 DEF T

LEMMA ListIs ==
    ASSUME NEW readers, Len(readers) \in Nat, NEW bytes, NEW offset
    PROVE  \E at : /\ IsOffsets(at, readers, bytes, offset, Len(readers))
                   /\ ListFromBytes(readers, bytes, offset) =
                        [n |-> at[Len(readers)],
                         v |-> [k \in 1..Len(readers) |-> readers[k][FromOffset(bytes, at[k - 1])].v]]
<1>. DEFINE at == CHOOSE h : h = [k \in 0..Len(readers) |->
                      IF k = 0 THEN offset ELSE h[k - 1] + readers[k][FromOffset(bytes, h[k - 1])].n]
<1>1. ListFromBytes(readers, bytes, offset) =
        [n |-> at[Len(readers)],
         v |-> [k \in 1..Len(readers) |-> readers[k][FromOffset(bytes, at[k - 1])].v]]
  BY DEF ListFromBytes
<1>2. PICK g : IsOffsets(g, readers, bytes, offset, Len(readers))
  BY OffsetsExist
<1>3. IsOffsets(at, readers, bytes, offset, Len(readers))
  BY <1>2, Zenon DEF IsOffsets
<1>. HIDE DEF at
<1>. QED BY <1>1, <1>3

\* n values, each of its type, that are written and read one behind the other.
Written(n, types, values) == FlattenSeq([i \in 1..n |-> types[i].write[values[i]]])
Readers(n, types) == [i \in 1..n |-> types[i].read]
AllExact(n, types, values) == \A i \in 1..n : values[i] \in types[i].exact

AreValues(n, types, values) ==
    /\ values = [i \in 1..n |-> values[i]]
    /\ \A i \in 1..n : IsCodec(types[i]) /\ values[i] \in types[i].values

\* A value that does not fit spoils them if something is written behind it, or
\* of it where its type is closed.
Spoilt(n, types, values) ==
    \E i \in 1..n :
        /\ values[i] \notin types[i].exact
        /\ \/ IsClosed(types[i]) /\ types[i].write[values[i]] # <<>>
           \/ \E j \in (i + 1)..n : types[j].write[values[j]] # <<>>

\* They are read as they were written if each of them fits, whatever stands
\* before and behind them; another list is not, when something follows, or the
\* list itself is spoilt.
ReadBack(n, types, values, prefix, rest) ==
    LET whole == Written(n, types, values)
        back == ListFromBytes(Readers(n, types), prefix \o (whole \o rest), Len(prefix))
    IN  /\ whole \in Octets
        /\ AllExact(n, types, values) => back = [n |-> Len(prefix) + Len(whole), v |-> values]
        /\ ~AllExact(n, types, values) /\ rest # <<>> => back.v # values
        /\ Spoilt(n, types, values) => back.v # values

LEMMA ListReadsBack ==
    ASSUME NEW n \in Nat, NEW types, NEW values, NEW prefix \in Octets, NEW rest \in Octets,
           AreValues(n, types, values)
    PROVE  ReadBack(n, types, values, prefix, rest)
<1>. USE DEF AreValues
<1>. DEFINE parts == [i \in 1..n |-> types[i].write[values[i]]]
            readers == Readers(n, types)
            whole == FlattenSeq(parts)
            bytes == prefix \o (whole \o rest)
            back == ListFromBytes(readers, bytes, Len(prefix))
            Fits1(i) == values[i] \in types[i].exact
            Exact == \A i \in 1..n : Fits1(i)
<1>0. Written(n, types, values) = whole /\ (AllExact(n, types, values) <=> Exact)
  BY DEF Written, AllExact
<1>1. ASSUME NEW i \in 1..n PROVE types[i].write[values[i]] \in Octets
  BY CodecOf
<1>2. ASSUME NEW i \in 1..n, NEW tail \in Octets
      PROVE  LET r == types[i].read[types[i].write[values[i]] \o tail]
             IN  /\ Fits1(i) => r = [n |-> Len(types[i].write[values[i]]), v |-> values[i]]
                 /\ ~Fits1(i) /\ tail # <<>> => r.v # values[i]
  <2>1. IsCodec(types[i]) /\ values[i] \in types[i].values
    OBVIOUS
  <2>. QED BY <2>1, CodecOf
<1>. HIDE DEF Fits1
<1>3. /\ parts \in Seq(Octets) /\ Len(parts) = n
      /\ \A i \in 1..n : parts[i] = types[i].write[values[i]] /\ parts[i] \in Octets
  <2>. HIDE DEF Fits1
  <2>. QED BY <1>1
<1>4. Len(readers) = n /\ \A i \in 1..n : readers[i] = types[i].read
  BY DEF Readers
<1>. HIDE DEF parts, readers
<1>5. whole \in Octets
  BY <1>3, FlattenCuts
<1>6. PICK front, behind : IsCut(whole, parts, front, behind)
  BY <1>3, FlattenCuts
<1>. HIDE DEF whole
<1>7. /\ \A k \in 0..n : front[k] \in Octets /\ behind[k] \in Octets
      /\ front[0] = <<>> /\ front[n] = whole
      /\ \A k \in 1..n : front[k] = front[k - 1] \o parts[k] /\ behind[k - 1] = parts[k] \o behind[k]
      /\ \A k \in 0..n : whole = front[k] \o behind[k]
  BY <1>3, <1>6 DEF IsCut
<1>8. PICK at : /\ IsOffsets(at, readers, bytes, Len(prefix), n)
                /\ back = [n |-> at[n], v |-> [k \in 1..n |-> readers[k][FromOffset(bytes, at[k - 1])].v]]
  BY <1>4, ListIs
<1>9. /\ at[0] = Len(prefix)
      /\ \A k \in 1..n : at[k] = at[k - 1] + readers[k][FromOffset(bytes, at[k - 1])].n
  <2>1. /\ 0 \in 0..n
        /\ \A k \in 1..n : k \in 0..n /\ k # 0
    OBVIOUS
  <2>. QED BY <1>8, <2>1, Zenon DEF IsOffsets
<1>. DEFINE Start(k) == Len(prefix) + Len(front[k])
            Tail1(k) == behind[k] \o rest
<1>10. ASSUME NEW k \in 1..n, at[k - 1] = Start(k - 1)
       PROVE  FromOffset(bytes, at[k - 1]) = parts[k] \o Tail1(k)
  <2>1. k \in 0..n /\ k - 1 \in 0..n
    OBVIOUS
  <2>. DEFINE f == front[k - 1]
              p == parts[k]
              b == behind[k]
  <2>2. f \in Octets /\ p \in Octets /\ b \in Octets /\ whole = f \o (p \o b)
    BY <1>3, <1>7, <2>1
  <2>3. at[k - 1] = Len(prefix) + Len(f)
    BY <1>10
  <2>. HIDE DEF f, p, b
  <2>4. p \o b \in Octets /\ prefix \o f \in Octets /\ b \o rest \in Octets
    BY <2>2, OctetsConcat
  <2>5. whole \o rest = f \o (p \o (b \o rest))
    <3>. DEFINE c == p \o b
    <3>1. c \in Octets /\ whole = f \o c
      BY <2>2, <2>4
    <3>2. c \o rest = p \o (b \o rest)
      BY <2>2, OctetsAssociative
    <3>. HIDE DEF c
    <3>3. (f \o c) \o rest = f \o (c \o rest)
      BY <2>2, <3>1, OctetsAssociative, Zenon
    <3>. QED BY <3>1, <3>2, <3>3
  <2>6. p \o (b \o rest) \in Octets
    BY <2>2, <2>4, OctetsConcat
  <2>7. bytes = (prefix \o f) \o (p \o (b \o rest))
    <3>1. prefix \o (f \o (p \o (b \o rest))) = (prefix \o f) \o (p \o (b \o rest))
      BY <2>2, <2>6, OctetsAssociative
    <3>2. bytes = prefix \o (whole \o rest)
      BY DEF bytes
    <3>. QED BY <2>5, <3>1, <3>2
  <2>. HIDE DEF bytes
  <2>8. From(bytes, Len(prefix \o f)) = p \o (b \o rest)
    BY <2>4, <2>6, <2>7, OctetsConcat
  <2>9. Len(prefix \o f) = Len(prefix) + Len(f)
    BY <2>2, OctetsConcat
  <2>10. Len(prefix) + Len(f) \in Nat
    BY <2>2 DEF Octets
  <2>11. FromOffset(bytes, at[k - 1]) = From(bytes, at[k - 1])
    BY <2>3, <2>10, BoundOfNat DEF FromOffset
  <2>. QED BY <2>3, <2>8, <2>9, <2>11 DEF p, b
<1>. HIDE DEF bytes, back
\* As long as the values fit, each reader begins where its part does.
<1>. DEFINE T == {k \in Nat : k <= n /\ (\A i \in 1..k : Fits1(i)) => at[k] = Start(k)}
<1>11. 0 \in T
  <2>1. Len(front[0]) = 0 /\ Len(prefix) \in Nat
    BY <1>7, EmptySeq DEF Octets
  <2>. QED BY <1>9, <2>1
<1>12. ASSUME NEW k \in Nat, k \in T PROVE k + 1 \in T
  <2>. DEFINE m == k + 1
  <2>. SUFFICES ASSUME m <= n, \A i \in 1..m : Fits1(i) PROVE at[m] = Start(m)
    <3>. HIDE DEF m, Start
    <3>. QED BY DEF m
  <2>1. /\ m \in Nat /\ m \in 1..n /\ m - 1 = k /\ m \in 0..n /\ k \in 0..n /\ k <= n /\ Fits1(m)
        /\ \A i \in 1..k : Fits1(i)
    OBVIOUS
  <2>2. at[m - 1] = Start(m - 1)
    <3>. HIDE DEF Start, m
    <3>. QED BY <1>12, <2>1
  <2>3. FromOffset(bytes, at[m - 1]) = parts[m] \o Tail1(m)
    <3>. HIDE DEF Start, m, Tail1
    <3>. QED BY <1>10, <2>1, <2>2
  <2>. HIDE DEF m
  <2>4. behind[m] \in Octets /\ front[m - 1] \in Octets
    BY <1>7, <2>1
  <2>5. Tail1(m) \in Octets
    BY <2>4, OctetsConcat
  <2>. HIDE DEF Tail1
  <2>6. readers[m][parts[m] \o Tail1(m)] = [n |-> Len(parts[m]), v |-> values[m]]
    BY <1>2, <1>3, <1>4, <2>1, <2>5
  <2>7. at[m] = at[m - 1] + Len(parts[m])
    <3>1. at[m] = at[m - 1] + readers[m][FromOffset(bytes, at[m - 1])].n
      BY <1>9, <2>1
    <3>. QED BY <2>3, <2>6, <3>1
  <2>8. Len(front[m]) = Len(front[m - 1]) + Len(parts[m]) /\ Len(front[m - 1]) \in Nat /\ Len(parts[m]) \in Nat
    <3>1. front[m] = front[m - 1] \o parts[m] /\ parts[m] \in Octets
      BY <1>3, <1>7, <2>1
    <3>. QED BY <2>4, <3>1, OctetsConcat
  <2>9. Len(prefix) \in Nat
    BY DEF Octets
  <2>. DEFINE x == Len(front[m - 1])
              y == Len(parts[m])
              p == Len(prefix)
  <2>10. at[m - 1] = p + x /\ at[m] = at[m - 1] + y /\ Len(front[m]) = x + y
    BY <2>2, <2>7, <2>8
  <2>11. x \in Nat /\ y \in Nat /\ p \in Nat
    BY <2>8, <2>9
  <2>. HIDE DEF x, y, p
  <2>12. at[m] = p + Len(front[m])
    BY <2>10, <2>11
  <2>. QED BY <2>12 DEF p
<1>. HIDE DEF T, Start, Tail1
<1>13. \A k \in Nat : k \in T
  BY <1>11, <1>12, SetInduction
\* What the reader of a value sees, if all before it fit.
<1>14. ASSUME NEW k \in 1..n, \A i \in 1..(k - 1) : Fits1(i)
       PROVE  /\ Tail1(k) \in Octets /\ (rest # <<>> => Tail1(k) # <<>>)
              /\ readers[k][FromOffset(bytes, at[k - 1])] = types[k].read[types[k].write[values[k]] \o Tail1(k)]
  <2>1. k - 1 \in Nat /\ k - 1 <= n /\ k \in 0..n
    OBVIOUS
  <2>2. at[k - 1] = Start(k - 1)
    BY <1>13, <1>14, <2>1 DEF T
  <2>3. FromOffset(bytes, at[k - 1]) = parts[k] \o Tail1(k)
    BY <1>10, <2>2
  <2>4. behind[k] \in Octets
    BY <1>7, <2>1
  <2>5. Tail1(k) \in Octets /\ (rest # <<>> => Tail1(k) # <<>>)
    BY <2>4, OctetsConcat, ConcatEqualIffEmpty DEF Tail1, Octets
  <2>. QED BY <1>3, <1>4, <2>3, <2>5
<1>15. ASSUME Exact PROVE back = [n |-> Len(prefix) + Len(whole), v |-> values]
  <2>1. at[n] = Len(prefix) + Len(whole)
    <3>1. n \in Nat /\ n <= n /\ \A i \in 1..n : Fits1(i)
      BY <1>15
    <3>2. at[n] = Start(n)
      BY <1>13, <3>1 DEF T
    <3>. QED BY <1>7, <3>2 DEF Start
  <2>2. ASSUME NEW k \in 1..n PROVE readers[k][FromOffset(bytes, at[k - 1])].v = values[k]
    <3>1. Fits1(k) /\ \A i \in 1..(k - 1) : Fits1(i)
      BY <1>15
    <3>2. readers[k][FromOffset(bytes, at[k - 1])] = [n |-> Len(types[k].write[values[k]]), v |-> values[k]]
      BY <1>2, <1>14, <3>1
    <3>. QED BY <3>2
  <2>. QED BY <1>8, <2>1, <2>2
<1>16. ASSUME ~Exact, rest # <<>> PROVE back.v # values
  <2>. DEFINE Bad == {k \in 1..n : ~Fits1(k)}
  <2>1. PICK k \in Bad : \A j \in Bad : k <= j
    <3>1. Bad \in SUBSET Nat /\ Bad # {}
      BY <1>16
    <3>. HIDE DEF Bad
    <3>. QED BY <3>1, LeastNat
  <2>2. k \in 1..n /\ ~Fits1(k) /\ \A i \in 1..(k - 1) : Fits1(i)
    BY <2>1
  <2>3. readers[k][FromOffset(bytes, at[k - 1])].v # values[k]
    <3>1. /\ Tail1(k) \in Octets /\ Tail1(k) # <<>>
          /\ readers[k][FromOffset(bytes, at[k - 1])] = types[k].read[types[k].write[values[k]] \o Tail1(k)]
      BY <1>14, <1>16, <2>2
    <3>. QED BY <1>2, <2>2, <3>1
  <2>4. back.v[k] # values[k]
    BY <1>8, <2>2, <2>3
  <2>. QED BY <2>4
\* Where nothing is behind a value, nothing is behind those after it.
<1>17. ASSUME NEW k \in 0..n, behind[k] = <<>>
       PROVE  \A d \in Nat : k + d <= n => behind[k + d] = <<>>
  <2>. DEFINE U == {d \in Nat : k + d <= n => behind[k + d] = <<>>}
  <2>1. 0 \in U
    BY <1>17
  <2>2. ASSUME NEW d \in Nat, d \in U PROVE d + 1 \in U
    <3>. DEFINE j == k + (d + 1)
    <3>. SUFFICES ASSUME j <= n PROVE behind[j] = <<>>
      OBVIOUS
    <3>1. j \in 1..n /\ j \in 0..n /\ j - 1 = k + d /\ k + d <= n
      OBVIOUS
    <3>2. behind[j - 1] = <<>>
      BY <2>2, <3>1
    <3>. HIDE DEF j
    <3>3. behind[j - 1] = parts[j] \o behind[j] /\ parts[j] \in Octets /\ behind[j] \in Octets
      BY <1>3, <1>7, <3>1
    <3>. QED BY <3>2, <3>3, OctetsEmpty
  <2>. HIDE DEF U
  <2>3. \A d \in Nat : d \in U
    BY <2>1, <2>2, SetInduction
  <2>. QED BY <2>3 DEF U
<1>18. ASSUME NEW k \in 1..n, NEW j \in (k + 1)..n, parts[j] # <<>> PROVE behind[k] # <<>>
  <2>. SUFFICES ASSUME behind[k] = <<>> PROVE FALSE
    OBVIOUS
  <2>1. k \in 0..n /\ (j - 1) - k \in Nat /\ k + ((j - 1) - k) = j - 1 /\ j - 1 <= n /\ j \in 1..n /\ j \in 0..n
    OBVIOUS
  <2>2. behind[j - 1] = <<>>
    BY <1>17, <2>1
  <2>3. behind[j - 1] = parts[j] \o behind[j] /\ parts[j] \in Octets /\ behind[j] \in Octets
    BY <1>3, <1>7, <2>1
  <2>. QED BY <1>18, <2>2, <2>3, OctetsEmpty
<1>19. ASSUME Spoilt(n, types, values) PROVE back.v # values
  <2>. DEFINE Bad == {k \in 1..n : ~Fits1(k)}
  <2>1. PICK i \in 1..n :
           /\ ~Fits1(i)
           /\ \/ IsClosed(types[i]) /\ parts[i] # <<>>
              \/ \E j \in (i + 1)..n : parts[j] # <<>>
    <3>1. \A i \in 1..n : \A j \in (i + 1)..n : j \in 1..n
      OBVIOUS
    <3>. QED BY <1>3, <1>19, <3>1 DEF Spoilt, Fits1
  <2>2. PICK k \in Bad : \A j \in Bad : k <= j
    <3>1. Bad \in SUBSET Nat /\ i \in Bad
      BY <2>1
    <3>. HIDE DEF Bad
    <3>. QED BY <3>1, LeastNat
  <2>3. k \in 1..n /\ ~Fits1(k) /\ k <= i /\ \A j \in 1..(k - 1) : Fits1(j)
    BY <2>1, <2>2
  <2>4. /\ Tail1(k) \in Octets
        /\ readers[k][FromOffset(bytes, at[k - 1])] = types[k].read[types[k].write[values[k]] \o Tail1(k)]
    BY <1>14, <2>3
  <2>5. readers[k][FromOffset(bytes, at[k - 1])].v # values[k]
    <3>1. CASE k = i /\ IsClosed(types[i]) /\ parts[i] # <<>>
      <4>1. values[k] \in types[k].values /\ values[k] \notin types[k].exact /\ types[k].write[values[k]] # <<>>
        BY <1>3, <2>3, <3>1 DEF Fits1
      <4>. QED BY <2>4, <3>1, <4>1, Zenon DEF IsClosed
    <3>2. CASE \E j \in (k + 1)..n : parts[j] # <<>>
      <4>1. behind[k] # <<>> /\ behind[k] \in Octets
        <5>1. k \in 0..n
          BY <2>3
        <5>. QED BY <1>7, <1>18, <2>3, <3>2, <5>1
      <4>2. Tail1(k) # <<>>
        BY <4>1, OctetsEmpty DEF Tail1
      <4>. QED BY <1>2, <2>3, <2>4, <4>2
    <3>3. (k = i /\ IsClosed(types[i]) /\ parts[i] # <<>>) \/ \E j \in (k + 1)..n : parts[j] # <<>>
      BY <2>1, <2>3
    <3>. QED BY <3>1, <3>2, <3>3
  <2>6. back.v[k] # values[k]
    BY <1>8, <2>3, <2>5
  <2>. QED BY <2>6
<1>. HIDE DEF Exact
<1>. QED BY <1>0, <1>5, <1>15, <1>16, <1>19 DEF back, bytes, readers, ReadBack

-----------------------------------------------------------------------------
(* Records and arrays *)

LEMMA RecordIsCodec ==
    ASSUME NEW S, NEW fields \in Seq(S), \A i \in DOMAIN fields : IsCodec(fields[i])
    PROVE  IsCodec(Record(fields))
<1>. DEFINE type == Record(fields)
            n == Len(fields)
<1>1. n \in Nat /\ DOMAIN fields = 1..n
  OBVIOUS
<1>2. /\ type.values = {v \in FieldValue : /\ v # <<>> /\ v = [i \in 1..n |-> v[i]]
                                           /\ \A i \in 1..n : v[i] \in fields[i].values}
      /\ type.exact = {v \in type.values : AllExact(n, fields, v)}
      /\ type.write = [v \in type.values |-> Written(n, fields, v)]
      /\ type.read = [b \in Octets |-> ListFromBytes(Readers(n, fields), b, 0)]
  <2>. HIDE DEF n
  <2>. QED BY <1>1, Zenon DEF Record, Written, Readers, AllExact
<1>. HIDE DEF type, n
<1>3. ASSUME NEW v \in type.values, NEW rest \in Octets
      PROVE  /\ Written(n, fields, v) \in Octets
             /\ v \in type.exact =>
                  ListFromBytes(Readers(n, fields), Written(n, fields, v) \o rest, 0)
                    = [n |-> Len(Written(n, fields, v)), v |-> v]
             /\ v \notin type.exact /\ rest # <<>> =>
                  ListFromBytes(Readers(n, fields), Written(n, fields, v) \o rest, 0).v # v
  <2>1. v = [i \in 1..n |-> v[i]] /\ \A i \in 1..n : IsCodec(fields[i]) /\ v[i] \in fields[i].values
    BY <1>1, <1>2
  <2>2. v \in type.exact <=> AllExact(n, fields, v)
    BY <1>2
  <2>. DEFINE none == <<>>
              w == Written(n, fields, v)
  <2>3. none \in Octets /\ Len(none) = 0
    BY EmptySeq DEF Octets
  <2>6. AreValues(n, fields, v)
    BY <2>1 DEF AreValues
  <2>. HIDE DEF none
  <2>7. ReadBack(n, fields, v, none, rest)
    BY <1>1, <2>3, <2>6, ListReadsBack
  <2>4. /\ w \in Octets
        /\ AllExact(n, fields, v) =>
             ListFromBytes(Readers(n, fields), none \o (w \o rest), Len(none)) = [n |-> Len(none) + Len(w), v |-> v]
        /\ ~AllExact(n, fields, v) /\ rest # <<>> =>
             ListFromBytes(Readers(n, fields), none \o (w \o rest), Len(none)).v # v
    BY <2>7, Zenon DEF ReadBack
  <2>. HIDE DEF w
  <2>5. none \o (w \o rest) = w \o rest /\ Len(none) + Len(w) = Len(w)
    <3>1. w \o rest \in Octets /\ Len(w) \in Nat
      BY <2>4, OctetsConcat
    <3>2. \A s \in Octets : none \o s = s
      BY ConcatEmptySeq DEF Octets, none
    <3>. QED BY <2>3, <3>1, <3>2
  <2>. QED BY <2>2, <2>3, <2>4, <2>5 DEF w
<1>4. ASSUME NEW v \in type.values
      PROVE type.write[v] = Written(n, fields, v) /\ type.write[v] \in Octets
  <2>1. type.write[v] = Written(n, fields, v)
    BY <1>2
  <2>2. <<>> \in Octets
    BY EmptySeq DEF Octets
  <2>3. Written(n, fields, v) \in Octets
    BY <1>3, <2>2
  <2>. QED BY <2>1, <2>3
<1>5. ASSUME NEW v \in type.values, NEW rest \in Octets
      PROVE  /\ v \in type.exact => type.read[type.write[v] \o rest] = [n |-> Len(type.write[v]), v |-> v]
             /\ v \notin type.exact /\ rest # <<>> => type.read[type.write[v] \o rest].v # v
  <2>. DEFINE w == Written(n, fields, v)
  <2>1. w \o rest \in Octets /\ type.write[v] = w
    BY <1>4, OctetsConcat
  <2>2. type.read[w \o rest] = ListFromBytes(Readers(n, fields), w \o rest, 0)
    BY <1>2, <2>1
  <2>3. /\ v \in type.exact => ListFromBytes(Readers(n, fields), w \o rest, 0) = [n |-> Len(w), v |-> v]
        /\ v \notin type.exact /\ rest # <<>> => ListFromBytes(Readers(n, fields), w \o rest, 0).v # v
    BY <1>3
  <2>. HIDE DEF w
  <2>. QED BY <2>1, <2>2, <2>3
<1>6. type.write = [v \in type.values |-> type.write[v]]
  BY <1>2
<1>7. IsCodec(type)
  BY <1>4, <1>5, <1>6, CodecIf
<1>. QED BY <1>7 DEF type

\* A record that is spoilt is read as another one, whatever follows.
LEMMA RecordSpoils ==
    ASSUME NEW S, NEW fields \in Seq(S), \A i \in DOMAIN fields : IsCodec(fields[i]),
           NEW v \in Record(fields).values, NEW rest \in Octets, Spoilt(Len(fields), fields, v)
    PROVE  Record(fields).read[Record(fields).write[v] \o rest].v # v
<1>. DEFINE n == Len(fields)
            none == <<>>
            w == Written(n, fields, v)
            Back(b, offset) == ListFromBytes(Readers(n, fields), b, offset)
<1>1. n \in Nat /\ DOMAIN fields = 1..n
  OBVIOUS
<1>2. /\ v = [i \in 1..n |-> v[i]] /\ \A i \in 1..n : v[i] \in fields[i].values
      /\ Record(fields).write[v] = w
      /\ Record(fields).read = [b \in Octets |-> Back(b, 0)]
  <2>. HIDE DEF n
  <2>. QED BY <1>1, Zenon DEF Record, Written, Readers
<1>3. AreValues(n, fields, v)
  BY <1>1, <1>2 DEF AreValues
<1>4. none \in Octets /\ Len(none) = 0 /\ \A s \in Octets : none \o s = s
  BY EmptySeq, ConcatEmptySeq DEF Octets
<1>. HIDE DEF none
<1>5. ReadBack(n, fields, v, none, rest)
  BY <1>1, <1>3, <1>4, ListReadsBack
<1>6. w \in Octets /\ Back(none \o (w \o rest), Len(none)).v # v
  BY <1>5 DEF ReadBack
<1>. HIDE DEF w, Back
<1>7. w \o rest \in Octets
  BY <1>6, OctetsConcat
<1>. QED BY <1>2, <1>4, <1>6, <1>7

\* With a present bit in front, or without the record.
LEMMA PresentBitIsCodec ==
    ASSUME NEW S, NEW fields \in Seq(S), \A i \in DOMAIN fields : IsCodec(fields[i])
    PROVE  LET type == RecordWithPresentBit(fields)
           IN  IsCodec(type) /\ IsCodec(type.record) /\ "record" \in DOMAIN type
<1>. DEFINE type == RecordWithPresentBit(fields)
            record == type.record
            Rest(b) == record.read[From(b, 1)]
<1>1. /\ record = Record(fields) /\ "record" \in DOMAIN type
      /\ type.values = {v \in FieldValue : v = <<>> \/ v \in record.values}
      /\ type.exact = {v \in type.values : v = <<>> \/ v \in record.exact}
      /\ type.write = [v \in type.values |-> IF v = <<>> THEN <<0>> ELSE <<1>> \o record.write[v]]
      /\ type.read = [b \in Octets |-> IF Prefix(b, 1) = <<1>> THEN [n |-> 1 + Rest(b).n, v |-> Rest(b).v]
                                       ELSE [n |-> 1, v |-> <<>>]]
  BY DEF RecordWithPresentBit
<1>2. IsCodec(record)
  BY <1>1, RecordIsCodec
<1>. HIDE DEF type, record
<1>3. /\ <<0>> \in Octets /\ Len(<<0>>) = 1 /\ <<0>> # <<1>>
      /\ <<1>> \in Octets /\ Len(<<1>>) = 1
  BY DEF Octets, Octet
<1>4. ASSUME NEW v \in type.values, v # <<>>
      PROVE  /\ v \in record.values /\ record.write[v] \in Octets
             /\ (v \in type.exact <=> v \in record.exact)
             /\ type.write[v] = <<1>> \o record.write[v] /\ type.write[v] \in Octets
             /\ Len(type.write[v]) = 1 + Len(record.write[v])
  <2>1. v \in record.values /\ type.write[v] = <<1>> \o record.write[v]
    BY <1>1, <1>4
  <2>2. record.write[v] \in Octets
    BY <1>2, <2>1, CodecOf
  <2>3. v \in type.exact <=> v \in record.exact
    BY <1>1, <1>4
  <2>4. /\ <<1>> \o record.write[v] \in Octets
        /\ Len(<<1>> \o record.write[v]) = 1 + Len(record.write[v])
    BY <1>3, <2>2, OctetsConcat
  <2>. QED BY <2>1, <2>2, <2>3, <2>4
<1>5. <<>> \in type.values => <<>> \in type.exact /\ type.write[<<>>] = <<0>>
  BY <1>1
<1>6. ASSUME NEW v \in type.values PROVE type.write[v] \in Octets
  BY <1>3, <1>4, <1>5
<1>7. ASSUME NEW v \in type.values, NEW rest \in Octets
      PROVE  /\ v \in type.exact => type.read[type.write[v] \o rest] = [n |-> Len(type.write[v]), v |-> v]
             /\ v \notin type.exact /\ rest # <<>> => type.read[type.write[v] \o rest].v # v
  <2>1. CASE v = <<>>
    <3>1. <<0>> \o rest \in Octets /\ Prefix(<<0>> \o rest, 1) = <<0>>
      BY <1>3, OctetsConcat
    <3>2. type.read[<<0>> \o rest] = [n |-> 1, v |-> <<>>]
      BY <1>1, <1>3, <3>1
    <3>. QED BY <1>3, <1>5, <2>1, <3>2
  <2>2. CASE v # <<>>
    <3>. DEFINE w == record.write[v]
                b == (<<1>> \o w) \o rest
    <3>1. w \in Octets /\ v \in record.values
      BY <1>4, <2>2
    <3>2. /\ v \in record.exact => record.read[w \o rest] = [n |-> Len(w), v |-> v]
          /\ v \notin record.exact /\ rest # <<>> => record.read[w \o rest].v # v
      BY <1>2, <3>1, CodecOf
    <3>. HIDE DEF w
    <3>3. w \o rest \in Octets /\ b = <<1>> \o (w \o rest)
      <4>1. w \o rest \in Octets
        BY <3>1, OctetsConcat
      <4>2. (<<1>> \o w) \o rest = <<1>> \o (w \o rest)
        BY <1>3, <3>1, OctetsAssociative
      <4>. QED BY <4>1, <4>2
    <3>4. b \in Octets /\ Prefix(b, 1) = <<1>> /\ From(b, 1) = w \o rest
      <4>. DEFINE c == w \o rest
                  d == <<1>> \o c
      <4>1. c \in Octets
        BY <3>3
      <4>. HIDE DEF c
      <4>2. d \in Octets /\ Prefix(d, 1) = <<1>> /\ From(d, 1) = c
        BY <1>3, <4>1, OctetsConcat
      <4>3. b = d
        BY <3>3 DEF c
      <4>. HIDE DEF d, b
      <4>. QED BY <4>2, <4>3 DEF c
    <3>. HIDE DEF b
    <3>5. type.read[b] = [n |-> 1 + record.read[w \o rest].n, v |-> record.read[w \o rest].v]
      BY <1>1, <3>4
    <3>6. type.write[v] \o rest = b /\ Len(type.write[v]) = 1 + Len(w)
      BY <1>4, <2>2 DEF b, w
    <3>7. v \in type.exact <=> v \in record.exact
      BY <1>4, <2>2
    <3>. QED BY <3>2, <3>5, <3>6, <3>7
  <2>. QED BY <2>1, <2>2
<1>8. type.write = [v \in type.values |-> type.write[v]]
  BY <1>1
<1>9. IsCodec(type)
  BY <1>6, <1>7, <1>8, CodecIf
<1>. QED BY <1>1, <1>2, <1>9 DEF type, record

\* A number of elements, and behind it the elements.
LEMMA ArrayIsCodec ==
    ASSUME NEW of, IsCodec(Element(of)),
           NEW size \in Nat \ {0}, NEW signed \in BOOLEAN, NEW big \in BOOLEAN
    PROVE  IsCodec(Array(of, IntType(size, signed, big)))
<1>. DEFINE length == IntType(size, signed, big)
            format == [size |-> size, signed |-> signed, big |-> big]
            type == Array(of, length)
            element == Element(of)
            Types(n) == [i \in 1..n |-> element]
            Whole(v) == Written(Len(v), Types(Len(v)), v)
            Head1(v) == IntToBytes(format, Len(v))
            ReadersOf(b) == [i \in 1..IntFromBytes(format, b) |-> element.read]
<1>1. length.format = format /\ format.size = size /\ format \in Formats
  BY DEF IntType, Formats
<1>. HIDE DEF length, format, element
<1>2. /\ type.values = {v \in FieldValue : v \in Seq(element.values) /\ Fits(format, Len(v))}
      /\ type.exact = {v \in type.values : \A i \in DOMAIN v : v[i] \in element.exact}
      /\ type.write = [v \in type.values |->
                          Head1(v) \o FlattenSeq([i \in DOMAIN v |-> element.write[v[i]]])]
      /\ type.read = [b \in Octets |-> ListFromBytes(ReadersOf(b), b, size)]
  BY <1>1, Zenon DEF Array, element
<1>. HIDE DEF type
<1>3. ASSUME NEW v \in type.values
      PROVE  /\ Len(v) \in Nat /\ DOMAIN v = 1..Len(v) /\ Fits(format, Len(v))
             /\ \A i \in 1..Len(v) : v[i] \in element.values
             /\ v = [i \in 1..Len(v) |-> v[i]]
  <2>1. v \in Seq(element.values) /\ Fits(format, Len(v))
    BY <1>2
  <2>. QED BY <2>1
<1>4. \A n \in Nat : \A i \in 1..n : Types(n)[i] = element
  OBVIOUS
<1>. HIDE DEF Types
<1>5. ASSUME NEW v \in type.values PROVE type.write[v] = Head1(v) \o Whole(v)
  <2>. DEFINE n == Len(v)
              a == [i \in DOMAIN v |-> element.write[v[i]]]
              b == [i \in 1..n |-> Types(n)[i].write[v[i]]]
  <2>1. a = b
    BY <1>3, <1>4
  <2>2. Whole(v) = FlattenSeq(b)
    BY DEF Written
  <2>3. type.write[v] = Head1(v) \o FlattenSeq(a)
    BY <1>2
  <2>. HIDE DEF a, b, Head1, Whole
  <2>. QED BY <2>1, <2>2, <2>3
<1>6. ASSUME NEW n \in Nat, NEW b, IntFromBytes(format, b) = n PROVE ReadersOf(b) = Readers(n, Types(n))
  BY <1>4, <1>6 DEF Readers
<1>7. ASSUME NEW v \in type.values PROVE v \in type.exact <=> AllExact(Len(v), Types(Len(v)), v)
  <2>1. \A i \in 1..Len(v) : Types(Len(v))[i] = element
    BY <1>3, <1>4
  <2>. QED BY <1>2, <1>3, <2>1 DEF AllExact
<1>8. ASSUME NEW v \in type.values PROVE AreValues(Len(v), Types(Len(v)), v)
  <2>1. \A i \in 1..Len(v) : Types(Len(v))[i] = element
    BY <1>3, <1>4
  <2>. QED BY <1>3, <2>1 DEF AreValues, element
<1>9. ASSUME NEW v \in type.values
      PROVE  /\ Head1(v) \in Octets /\ Len(Head1(v)) = size
             /\ \A rest \in Octets : IntFromBytes(format, Head1(v) \o rest) = Len(v)
  <2>. DEFINE n == Len(v)
  <2>1. n \in Int /\ Fits(format, n)
    BY <1>3
  <2>. HIDE DEF n
  <2>2. IntToBytes(format, n) \in Octets /\ Len(IntToBytes(format, n)) = size
    BY <1>1, <2>1, WrittenDigits
  <2>3. ASSUME NEW rest \in Octets PROVE IntFromBytes(format, IntToBytes(format, n) \o rest) = n
    BY <1>1, <2>1, IntReadsBack
  <2>. QED BY <2>2, <2>3 DEF n
<1>10. ASSUME NEW v \in type.values, NEW rest \in Octets PROVE ReadBack(Len(v), Types(Len(v)), v, Head1(v), rest)
  <2>. HIDE DEF Head1
  <2>. QED BY <1>3, <1>8, <1>9, ListReadsBack
<1>. HIDE DEF Head1, ReadersOf
<1>11. ASSUME NEW v \in type.values PROVE Whole(v) \in Octets /\ type.write[v] \in Octets
  <2>1. <<>> \in Octets
    BY EmptySeq DEF Octets
  <2>2. Whole(v) \in Octets
    BY <1>10, <2>1 DEF ReadBack
  <2>. HIDE DEF Whole
  <2>. QED BY <1>5, <1>9, <2>2, OctetsConcat
<1>12. ASSUME NEW v \in type.values, NEW rest \in Octets
       PROVE  /\ v \in type.exact => type.read[type.write[v] \o rest] = [n |-> Len(type.write[v]), v |-> v]
              /\ v \notin type.exact /\ rest # <<>> => type.read[type.write[v] \o rest].v # v
  <2>. DEFINE h == Head1(v)
              w == Whole(v)
              b == h \o (w \o rest)
              readers == Readers(Len(v), Types(Len(v)))
              back == ListFromBytes(readers, b, size)
  <2>1. h \in Octets /\ w \in Octets /\ w \o rest \in Octets /\ b \in Octets /\ Len(h) = size
    <3>1. h \in Octets /\ w \in Octets /\ Len(h) = size
      BY <1>9, <1>11
    <3>2. w \o rest \in Octets
      BY <3>1, OctetsConcat
    <3>. HIDE DEF w
    <3>. QED BY <3>1, <3>2, OctetsConcat
  <2>2. type.write[v] \o rest = b /\ Len(type.write[v]) = size + Len(w)
    <3>1. type.write[v] = h \o w
      BY <1>5
    <3>. HIDE DEF h, w
    <3>2. (h \o w) \o rest = h \o (w \o rest)
      BY <2>1, OctetsAssociative, Zenon
    <3>3. Len(h \o w) = Len(h) + Len(w)
      BY <2>1, OctetsConcat
    <3>. QED BY <2>1, <3>1, <3>2, <3>3
  <2>3. /\ AllExact(Len(v), Types(Len(v)), v) => back = [n |-> size + Len(w), v |-> v]
        /\ ~AllExact(Len(v), Types(Len(v)), v) /\ rest # <<>> => back.v # v
    BY <1>10, <2>1, Zenon DEF ReadBack
  <2>4. type.read[b] = back
    <3>1. IntFromBytes(format, b) = Len(v)
      <4>. HIDE DEF w
      <4>. QED BY <1>9, <2>1
    <3>2. ReadersOf(b) = readers
      <4>. HIDE DEF b
      <4>. QED BY <1>3, <1>6, <3>1
    <3>. HIDE DEF b, readers
    <3>. QED BY <1>2, <2>1, <3>2
  <2>. HIDE DEF b, back, w
  <2>. QED BY <1>7, <2>2, <2>3, <2>4
<1>13. type.write = [v \in type.values |-> type.write[v]]
  BY <1>2
<1>14. IsCodec(type)
  BY <1>11, <1>12, <1>13, CodecIf
<1>. QED BY <1>14 DEF type, length

-----------------------------------------------------------------------------
(* Every type that can be built *)

IntTypes == {IntType(size, signed, big) : size \in Nat \ {0}, signed \in BOOLEAN, big \in BOOLEAN}

SimpleTypes ==
    IntTypes \union {Boolean, Char, Text}
        \union {Fixed(length, right) : length \in Nat, right \in BOOLEAN}

\* The records and arrays of some types, and those types.
Composed(types) ==
    types \union {Record(fields) : fields \in Seq(types)}
          \union {RecordWithPresentBit(fields) : fields \in Seq(types)}
          \union {Array(of, length) : of \in types, length \in IntTypes}

\* Nested at most n deep.
TypesOfDepth(n) ==
    LET nest[k \in 0..n] == IF k = 0 THEN SimpleTypes ELSE Composed(nest[k - 1]) IN nest[n]

IsNest(f, n) == f = [k \in 0..n |-> IF k = 0 THEN SimpleTypes ELSE Composed(f[k - 1])]

LEMMA NestExists == \A n \in Nat : \E f : IsNest(f, n)
<1>. DEFINE T == {n \in Nat : \E f : IsNest(f, n)}
<1>1. 0 \in T
  <2>1. IsNest([k \in 0..0 |-> SimpleTypes], 0)
    BY DEF IsNest
  <2>. QED BY <2>1
<1>2. ASSUME NEW n \in Nat, n \in T PROVE n + 1 \in T
  <2>1. PICK f : IsNest(f, n)
    BY <1>2
  <2>. DEFINE g == [k \in 0..(n + 1) |-> IF k = n + 1 THEN Composed(f[n]) ELSE f[k]]
  <2>2. ASSUME NEW k \in 0..(n + 1)
        PROVE  g[k] = IF k = 0 THEN SimpleTypes ELSE Composed(g[k - 1])
    <3>1. CASE k = n + 1
      <4>1. k # 0 /\ k - 1 = n /\ n \in 0..(n + 1) /\ n # n + 1
        BY <3>1
      <4>2. g[k] = Composed(f[n]) /\ g[n] = f[n]
        BY <3>1, <4>1
      <4>. HIDE DEF g
      <4>. QED BY <4>1, <4>2
    <3>2. CASE k # n + 1
      <4>1. k \in 0..n /\ g[k] = f[k]
        BY <3>2
      <4>2. f[k] = IF k = 0 THEN SimpleTypes ELSE Composed(f[k - 1])
        BY <2>1, <4>1 DEF IsNest
      <4>3. k # 0 => k - 1 \in 0..n /\ g[k - 1] = f[k - 1]
        BY <4>1
      <4>. HIDE DEF g
      <4>. QED BY <4>1, <4>2, <4>3
    <3>. QED BY <3>1, <3>2
  <2>3. g = [k \in 0..(n + 1) |-> g[k]]
    OBVIOUS
  <2>. HIDE DEF g
  <2>4. IsNest(g, n + 1)
    BY <2>2, <2>3 DEF IsNest
  <2>. QED BY <2>4
<1>. HIDE DEF T
<1>3. \A n \in Nat : n \in T
  BY <1>1, <1>2, SetInduction
<1>. QED BY <1>3 DEF T

LEMMA TypesOfDepthIs ==
    ASSUME NEW n \in Nat
    PROVE  \E f : IsNest(f, n) /\ TypesOfDepth(n) = f[n]
<1>. DEFINE f == CHOOSE h : h = [k \in 0..n |-> IF k = 0 THEN SimpleTypes ELSE Composed(h[k - 1])]
<1>1. TypesOfDepth(n) = f[n]
  BY DEF TypesOfDepth
<1>2. PICK g : IsNest(g, n)
  BY NestExists
<1>3. IsNest(f, n)
  BY <1>2, Zenon DEF IsNest
<1>. QED BY <1>1, <1>3

\* A type, and what an array makes of it, read what they write.
LEMMA SimpleTypesRead ==
    ASSUME NEW type \in SimpleTypes
    PROVE  IsCodec(type) /\ IsCodec(Element(type)) /\ IsClosed(type)
<1>1. IsCodec(type) /\ IsClosed(type)
  BY IntIsCodec, BooleanIsCodec, CharIsCodec, TextIsCodec, FixedIsCodec DEF SimpleTypes, IntTypes
<1>2. "record" \notin DOMAIN type
  <2>1. ASSUME type \in IntTypes PROVE "record" \notin DOMAIN type
    <3>1. PICK size, signed, big : type = IntType(size, signed, big)
      BY <2>1 DEF IntTypes
    <3>2. DOMAIN IntType(size, signed, big) = {"format", "values", "exact", "write", "read"}
      BY DEF IntType
    <3>. QED BY <3>1, <3>2
  <2>2. /\ "record" \notin DOMAIN Boolean /\ "record" \notin DOMAIN Char
        /\ "record" \notin DOMAIN Text
    BY DEF Boolean, Char, Text
  <2>3. \A length, right : "record" \notin DOMAIN Fixed(length, right)
    BY DEF Fixed
  <2>. QED BY <2>1, <2>2, <2>3 DEF SimpleTypes
<1>. QED BY <1>1, <1>2 DEF Element

LEMMA ComposedTypesRead ==
    ASSUME NEW types, \A t \in types : IsCodec(t) /\ IsCodec(Element(t)),
           NEW type \in Composed(types)
    PROVE  IsCodec(type) /\ IsCodec(Element(type))
<1>1. CASE type \in types
  BY <1>1
<1>2. ASSUME NEW fields \in Seq(types) PROVE \A i \in DOMAIN fields : IsCodec(fields[i])
  OBVIOUS
<1>3. ASSUME NEW fields \in Seq(types), type = Record(fields) PROVE IsCodec(type) /\ IsCodec(Element(type))
  <2>1. IsCodec(type)
    BY <1>2, <1>3, RecordIsCodec
  <2>2. "record" \notin DOMAIN type
    BY <1>3 DEF Record
  <2>. QED BY <2>1, <2>2 DEF Element
<1>4. ASSUME NEW fields \in Seq(types), type = RecordWithPresentBit(fields)
      PROVE  IsCodec(type) /\ IsCodec(Element(type))
  BY <1>2, <1>4, PresentBitIsCodec DEF Element
<1>5. ASSUME NEW of \in types, NEW length \in IntTypes, type = Array(of, length)
      PROVE  IsCodec(type) /\ IsCodec(Element(type))
  <2>1. PICK size \in Nat \ {0}, signed \in BOOLEAN, big \in BOOLEAN : length = IntType(size, signed, big)
    BY DEF IntTypes
  <2>2. IsCodec(type)
    BY <1>5, <2>1, ArrayIsCodec
  <2>3. "record" \notin DOMAIN type
    BY <1>5 DEF Array
  <2>. QED BY <2>2, <2>3 DEF Element
<1>. QED BY <1>1, <1>3, <1>4, <1>5 DEF Composed

\* Every type of the binary messages, records of arrays of records and so on
\* at any depth, reads what it wrote: of a value that fits its format exactly
\* the bytes written, whatever follows them; a value that does not fit is not
\* read when something follows.  (types.py, structures.py)
THEOREM EveryTypeReadsBack ==
    \A n \in Nat : \A type \in TypesOfDepth(n) : IsCodec(type)
<1>. SUFFICES ASSUME NEW n \in Nat PROVE \A type \in TypesOfDepth(n) : IsCodec(type)
  OBVIOUS
<1>1. PICK f : IsNest(f, n) /\ TypesOfDepth(n) = f[n]
  BY TypesOfDepthIs
<1>. DEFINE Read(types) == \A type \in types : IsCodec(type) /\ IsCodec(Element(type))
            T == {k \in Nat : k <= n => Read(f[k])}
<1>2. 0 \in T
  <2>1. f[0] = SimpleTypes
    BY <1>1 DEF IsNest
  <2>2. Read(f[0])
    BY <2>1, SimpleTypesRead
  <2>. QED BY <2>2
<1>3. ASSUME NEW k \in Nat, k \in T PROVE k + 1 \in T
  <2>. SUFFICES ASSUME k + 1 <= n PROVE Read(f[k + 1])
    <3>. HIDE DEF Read
    <3>. QED OBVIOUS
  <2>1. k + 1 \in 0..n /\ k + 1 # 0 /\ (k + 1) - 1 = k /\ k <= n
    OBVIOUS
  <2>2. f[k + 1] = Composed(f[k])
    BY <1>1, <2>1 DEF IsNest
  <2>3. Read(f[k])
    BY <1>3, <2>1
  <2>4. Read(Composed(f[k]))
    BY <2>3, ComposedTypesRead
  <2>. HIDE DEF Read
  <2>. QED BY <2>2, <2>4
<1>. HIDE DEF T
<1>4. n \in T
  BY <1>2, <1>3, SetInduction
<1>5. Read(f[n])
  <2>. HIDE DEF Read
  <2>. QED BY <1>4 DEF T
<1>. QED BY <1>1, <1>5

-----------------------------------------------------------------------------
(* Messages *)

\* What the id's byte is read as.
LEMMA IndicatorReadsBack ==
    ASSUME NEW i \in Octet, NEW rest \in Octets
    PROVE  /\ IntToBytes(Byte.format, i) \in Octets /\ Len(IntToBytes(Byte.format, i)) = 1
           /\ IntFromBytes(Byte.format, IntToBytes(Byte.format, i) \o rest) = i
<1>. DEFINE format == [size |-> 1, signed |-> FALSE, big |-> FALSE]
<1>1. Byte.format = format
  BY DEF Byte, IntType
<1>2. format \in Formats /\ format.size = 1 /\ ~format.signed /\ format.size - 1 = 0
  BY DEF Formats
<1>. HIDE DEF format
<1>3. i \in Int /\ i \in 0..255
  BY DEF Octet
<1>4. Fits(format, i)
  BY <1>2, <1>3, ShiftedNone DEF Fits
<1>. QED BY <1>1, <1>2, <1>3, <1>4, IntReadsBack

\* The messages whose definitions say what was meant, of types of any depth.
BinaryMessages ==
    {m \in [id : DOMAIN Layouts, values : FieldValue] :
        /\ Layouts[m.id] = SpecifiedLayouts[m.id]
        /\ \E n \in Nat : Layouts[m.id] \in Seq(TypesOfDepth(n))
        /\ m.values \in Record(Layouts[m.id]).values}

\* A field of a message that does not fit its type, and that leaves its mark on
\* the bytes: something is written behind it, or it is of a simple type and not
\* written as nothing.
Misread(m) ==
    LET types == Layouts[m.id]
        Bytes1(i) == types[i].write[m.values[i]]
    IN  \E i \in DOMAIN types :
            /\ m.values[i] \notin types[i].exact
            /\ \/ types[i] \in SimpleTypes /\ Bytes1(i) # <<>>
               \/ \E j \in (i + 1)..Len(types) : Bytes1(j) # <<>>

\* A message of ITCH, OUCH or SQF comes back from its bytes, and whatever
\* follows them in the payload, exactly if it is a faithful one: outgoing, and
\* of values that fit.  (CommonMessage.to_bytes and from_bytes; an unfaithful
\* one may come back when nothing follows it and nothing was written from the
\* field on: Char takes an empty text for the last field of a message.)
THEOREM MessageRoundTrip ==
    ASSUME NEW m \in BinaryMessages, NEW rest \in Octets
    PROVE  LET back == MessageFromBytes(MessageToBytes(m) \o rest)
           IN  /\ MessageToBytes(m) \in Octets
               /\ RecordFaithful(m) => back = m
               /\ ~RecordFaithful(m) /\ rest # <<>> => back # m
               /\ m.id[2] # "outgoing" \/ Misread(m) => back # m
<1>. DEFINE type == Record(Layouts[m.id])
            h == IntToBytes(Byte.format, m.id[1])
            w == type.write[m.values]
            bytes == (h \o w) \o rest
            found == <<m.id[1], "outgoing">>
<1>1. /\ m.id \in DOMAIN Layouts /\ m.values \in type.values /\ Layouts[m.id] = SpecifiedLayouts[m.id]
      /\ m = [id |-> m.id, values |-> m.values]
  BY DEF BinaryMessages
<1>2. IsCodec(type)
  <2>1. PICK n \in Nat : Layouts[m.id] \in Seq(TypesOfDepth(n))
    BY DEF BinaryMessages
  <2>2. \A i \in DOMAIN Layouts[m.id] : IsCodec(Layouts[m.id][i])
    <3>1. \A t \in TypesOfDepth(n) : IsCodec(t)
      BY EveryTypeReadsBack
    <3>. QED BY <2>1, <3>1
  <2>. QED BY <2>1, <2>2, RecordIsCodec
<1>3. m.id[1] \in Octet /\ m.id = <<m.id[1], m.id[2]>> /\ m.id[2] \in {"outgoing", "incoming"}
  BY <1>1, LayoutsAssumption DEF Octet
<1>4. RecordFaithful(m) <=> m.id[2] = "outgoing" /\ m.values \in type.exact
  BY <1>1 DEF RecordFaithful
<1>5. /\ MessageToBytes(m) = h \o w
      /\ MessageFromBytes(bytes) =
           LET id == <<IntFromBytes(Byte.format, bytes), "outgoing">>
           IN  IF id \notin DOMAIN Layouts THEN UnknownId
               ELSE [id |-> id, values |-> Record(Layouts[id]).read[From(bytes, 1)].v]
  BY DEF MessageToBytes, MessageFromBytes
<1>6. Misread(m) => type.read[w \o rest].v # m.values
  <2>. DEFINE fields == Layouts[m.id]
              k == Len(fields)
  <2>. SUFFICES ASSUME Misread(m) PROVE type.read[w \o rest].v # m.values
    OBVIOUS
  <2>1. PICK n \in Nat : fields \in Seq(TypesOfDepth(n))
    BY DEF BinaryMessages
  <2>2. \A i \in DOMAIN fields : IsCodec(fields[i])
    <3>1. \A t \in TypesOfDepth(n) : IsCodec(t)
      BY EveryTypeReadsBack
    <3>. QED BY <2>1, <3>1
  <2>3. \A t \in SimpleTypes : IsClosed(t)
    BY SimpleTypesRead
  <2>4. DOMAIN fields = 1..k
    BY <2>1
  <2>5. Spoilt(k, fields, m.values)
    <3>1. PICK i \in 1..k :
             /\ m.values[i] \notin fields[i].exact
             /\ \/ fields[i] \in SimpleTypes /\ fields[i].write[m.values[i]] # <<>>
                \/ \E j \in (i + 1)..k : fields[j].write[m.values[j]] # <<>>
      BY <2>4, Zenon DEF Misread
    <3>2. fields[i] \in SimpleTypes => IsClosed(fields[i])
      BY <2>3
    <3>. HIDE DEF fields, k
    <3>. QED BY <3>1, <3>2, Zenon DEF Spoilt
  <2>. HIDE DEF fields, k
  <2>6. m.values \in Record(fields).values
    BY <1>1 DEF fields
  <2>. DEFINE v == m.values
  <2>7. v \in Record(fields).values /\ Spoilt(Len(fields), fields, v)
    BY <2>5, <2>6 DEF k
  <2>. HIDE DEF v
  <2>8. Record(fields).read[Record(fields).write[v] \o rest].v # v
    BY <2>1, <2>2, <2>7, RecordSpoils
  <2>. QED BY <2>8 DEF v, fields
<1>. HIDE DEF type
<1>7. /\ w \in Octets
      /\ m.values \in type.exact => type.read[w \o rest].v = m.values
      /\ m.values \notin type.exact /\ rest # <<>> => type.read[w \o rest].v # m.values
  <2>. DEFINE v == m.values
  <2>1. v \in type.values
    BY <1>1
  <2>. HIDE DEF v
  <2>2. /\ w \in Octets
        /\ v \in type.exact => type.read[w \o rest] = [n |-> Len(w), v |-> v]
        /\ v \notin type.exact /\ rest # <<>> => type.read[w \o rest].v # v
    <3>1. w = type.write[v]
      BY DEF v
    <3>2. /\ type.write[v] \in Octets
          /\ v \in type.exact => type.read[type.write[v] \o rest] = [n |-> Len(type.write[v]), v |-> v]
          /\ v \notin type.exact /\ rest # <<>> => type.read[type.write[v] \o rest].v # v
      BY <1>2, <2>1, CodecOf
    <3>. HIDE DEF w
    <3>. QED BY <3>1, <3>2
  <2>. HIDE DEF w
  <2>. QED BY <2>2 DEF v
<1>. HIDE DEF w
<1>8. w \o rest \in Octets /\ h \in Octets /\ Len(h) = 1 /\ IntFromBytes(Byte.format, h \o (w \o rest)) = m.id[1]
  <2>1. w \o rest \in Octets
    BY <1>7, OctetsConcat
  <2>. QED BY <1>3, <2>1, IndicatorReadsBack
<1>. HIDE DEF h
<1>9. (h \o w) \o rest = h \o (w \o rest)
  BY <1>7, <1>8, OctetsAssociative, Zenon
<1>10. From(h \o (w \o rest), 1) = w \o rest /\ h \o w \in Octets
  BY <1>7, <1>8, OctetsConcat
<1>11. MessageFromBytes(bytes) = IF found \notin DOMAIN Layouts THEN UnknownId
                                 ELSE [id |-> found, values |-> Record(Layouts[found]).read[w \o rest].v]
  <2>1. IntFromBytes(Byte.format, bytes) = m.id[1] /\ From(bytes, 1) = w \o rest
    BY <1>8, <1>9, <1>10
  <2>. HIDE DEF bytes
  <2>. QED BY <1>5, <2>1
<1>12. CASE m.id[2] = "outgoing"
  <2>1. found = m.id
    BY <1>3, <1>12
  <2>2. MessageFromBytes(bytes) = [id |-> m.id, values |-> type.read[w \o rest].v]
    BY <1>1, <1>11, <2>1 DEF type
  <2>3. MessageFromBytes(bytes) = m <=> type.read[w \o rest].v = m.values
    BY <1>1, <2>2
  <2>. QED BY <1>4, <1>5, <1>6, <1>7, <1>10, <1>12, <2>3
<1>13. CASE m.id[2] # "outgoing"
  <2>1. found # m.id
    BY <1>3, <1>13
  <2>2. MessageFromBytes(bytes).id # m.id
    <3>1. UnknownId.id = <<>> /\ m.id # <<>>
      BY <1>3 DEF UnknownId
    <3>. QED BY <1>11, <2>1, <3>1
  <2>. QED BY <1>4, <1>5, <1>10, <1>13, <2>2
<1>. QED BY <1>12, <1>13

=============================================================================
