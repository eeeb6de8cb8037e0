------------------------ MODULE ReaderFramingProofs ------------------------
(***************************************************************************)
(* Proofs about ReaderFraming, for any feed, any pieces and any number of  *)
(* drains: no byte is lost, repeated or reordered on its way from the      *)
(* transport to deserialize(), and the frames come out as they were sent.  *)
(* They rest on what deserialize() takes; those of SoupBinTCP and FIX are  *)
(* shown to comply, and what a FIX session sends to be such a frame.       *)
(***************************************************************************)
EXTENDS ReaderFraming, FixFraming, CodecProofs, FiniteSetTheorems

\* What is said of the feeds.
LEMMA FeedTypes ==
    /\ MaxDrains \in Nat
    /\ \A f \in Feeds : /\ f.bytes \in Seq(Octet) /\ f.chunks \subseteq Nat \ {0}
                        /\ Len(f.ends) = Len(f.outcomes)
BY FramingAssumption DEF Octet

-----------------------------------------------------------------------------
(* Suffixes of sequences: what is left when n elements have been taken.    *)

Suffix(s, n) == SubSeq(s, n + 1, Len(s))

\* A suffix has the elements of the sequence from an offset on.
LEMMA SuffixProperties ==
    ASSUME NEW S, NEW s \in Seq(S), NEW n \in 0..Len(s)
    PROVE  /\ Suffix(s, n) \in Seq(S)
           /\ Len(Suffix(s, n)) = Len(s) - n
           /\ \A i \in 1..(Len(s) - n) : Suffix(s, n)[i] = s[i + n]
<1>1. /\ n + 1 \in Int /\ Len(s) \in Nat
      /\ \A i \in (n + 1)..Len(s) : s[i] \in S
  OBVIOUS
<1>2. /\ Suffix(s, n) \in Seq(S)
      /\ Len(Suffix(s, n)) = IF n + 1 <= Len(s) THEN Len(s) - (n + 1) + 1 ELSE 0
      /\ \A i \in 1..(Len(s) - (n + 1) + 1) : Suffix(s, n)[i] = s[(n + 1) + i - 1]
  BY <1>1, SubSeqProperties DEF Suffix
<1>. QED BY <1>1, <1>2

\* The whole sequence is the suffix from its beginning.
LEMMA SuffixWhole ==
    ASSUME NEW S, NEW s \in Seq(S)
    PROVE  Suffix(s, 0) = s
BY SubSeqFull DEF Suffix

\* What is appended to a sequence is appended to its suffixes.
LEMMA SuffixOfConcat ==
    ASSUME NEW S, NEW s \in Seq(S), NEW t \in Seq(S), NEW n \in 0..Len(s)
    PROVE  Suffix(s \o t, n) = Suffix(s, n) \o t
<1>. DEFINE u == Suffix(s \o t, n)
            v == Suffix(s, n) \o t
<1>1. /\ s \o t \in Seq(S) /\ Len(s \o t) = Len(s) + Len(t)
      /\ \A i \in 1..(Len(s) + Len(t)) : (s \o t)[i] = IF i <= Len(s) THEN s[i] ELSE t[i - Len(s)]
  BY ConcatProperties
<1>2. /\ u \in Seq(S) /\ Len(u) = Len(s) + Len(t) - n
      /\ \A i \in 1..(Len(s) + Len(t) - n) : u[i] = (s \o t)[i + n]
  <2>1. n \in 0..Len(s \o t)
    BY <1>1
  <2>2. /\ u \in Seq(S) /\ Len(u) = Len(s \o t) - n
        /\ \A i \in 1..(Len(s \o t) - n) : u[i] = (s \o t)[i + n]
    BY <1>1, <2>1, SuffixProperties
  <2>. QED BY <1>1, <2>2
<1>3. /\ Suffix(s, n) \in Seq(S) /\ Len(Suffix(s, n)) = Len(s) - n
      /\ \A i \in 1..(Len(s) - n) : Suffix(s, n)[i] = s[i + n]
  BY SuffixProperties
<1>4. /\ v \in Seq(S) /\ Len(v) = (Len(s) - n) + Len(t)
      /\ \A i \in 1..((Len(s) - n) + Len(t)) :
            v[i] = IF i <= Len(s) - n THEN Suffix(s, n)[i] ELSE t[i - (Len(s) - n)]
  <2>1. /\ v \in Seq(S) /\ Len(v) = Len(Suffix(s, n)) + Len(t)
        /\ \A i \in 1..(Len(Suffix(s, n)) + Len(t)) :
              v[i] = IF i <= Len(Suffix(s, n)) THEN Suffix(s, n)[i] ELSE t[i - Len(Suffix(s, n))]
    BY <1>3, ConcatProperties
  <2>. QED BY <1>3, <2>1
<1>5. ASSUME NEW i \in 1..Len(u) PROVE u[i] = v[i]
  <2>1. /\ Len(s) \in Nat /\ Len(t) \in Nat /\ n \in Nat /\ i \in Nat
        /\ i >= 1 /\ i <= Len(s) + Len(t) - n
    BY <1>2, <1>5
  <2>2. u[i] = IF i + n <= Len(s) THEN s[i + n] ELSE t[(i + n) - Len(s)]
    BY <1>1, <1>2, <2>1
  <2>3. CASE i <= Len(s) - n
    BY <1>3, <1>4, <2>1, <2>2, <2>3
  <2>4. CASE i > Len(s) - n
    <3>1. (i + n) - Len(s) = i - (Len(s) - n)
      BY <2>1
    <3>. QED BY <1>4, <2>1, <2>2, <2>4, <3>1
  <2>5. i <= Len(s) - n \/ i > Len(s) - n
    BY <2>1
  <2>. QED BY <2>3, <2>4, <2>5
<1>6. Len(u) = Len(v)
  BY <1>2, <1>4
<1>. QED BY <1>2, <1>4, <1>5, <1>6, SeqEqual

\* A suffix of a part of a sequence is a part that begins later.
LEMMA SuffixOfPart ==
    ASSUME NEW S, NEW s \in Seq(S), NEW a \in Nat, NEW b \in a..Len(s), NEW n \in 0..(b - a)
    PROVE  Suffix(SubSeq(s, a + 1, b), n) = SubSeq(s, (a + n) + 1, b)
<1>. DEFINE w == SubSeq(s, a + 1, b)
            v == SubSeq(s, (a + n) + 1, b)
<1>1. /\ Len(s) \in Nat /\ b \in Nat /\ n \in Nat /\ a <= b /\ b <= Len(s) /\ a + n <= b
      /\ \A i \in (a + 1)..b : s[i] \in S
      /\ \A i \in ((a + n) + 1)..b : s[i] \in S
  OBVIOUS
<1>2. /\ w \in Seq(S) /\ Len(w) = IF a + 1 <= b THEN b - (a + 1) + 1 ELSE 0
      /\ \A i \in 1..(b - (a + 1) + 1) : w[i] = s[(a + 1) + i - 1]
  BY <1>1, SubSeqProperties
<1>3. Len(w) = b - a
  BY <1>1, <1>2
<1>4. /\ v \in Seq(S) /\ Len(v) = IF (a + n) + 1 <= b THEN b - ((a + n) + 1) + 1 ELSE 0
      /\ \A i \in 1..(b - ((a + n) + 1) + 1) : v[i] = s[((a + n) + 1) + i - 1]
  BY <1>1, SubSeqProperties
<1>5. /\ Suffix(w, n) \in Seq(S) /\ Len(Suffix(w, n)) = Len(w) - n
      /\ \A i \in 1..(Len(w) - n) : Suffix(w, n)[i] = w[i + n]
  <2>1. w \in Seq(S) /\ n \in 0..Len(w)
    BY <1>2, <1>3
  <2>. HIDE DEF w
  <2>. QED BY <2>1, SuffixProperties
<1>6. Len(Suffix(w, n)) = Len(v)
  BY <1>1, <1>3, <1>4, <1>5
<1>7. ASSUME NEW i \in 1..Len(Suffix(w, n)) PROVE Suffix(w, n)[i] = v[i]
  <2>1. i \in Nat /\ i >= 1 /\ i <= (b - a) - n
    BY <1>1, <1>3, <1>5, <1>7
  <2>2. Suffix(w, n)[i] = w[i + n]
    BY <1>3, <1>5, <2>1
  <2>3. w[i + n] = s[(a + 1) + (i + n) - 1]
    BY <1>1, <1>2, <2>1
  <2>4. v[i] = s[((a + n) + 1) + i - 1]
    BY <1>1, <1>4, <2>1
  <2>5. (a + 1) + (i + n) - 1 = ((a + n) + 1) + i - 1
    BY <1>1, <2>1
  <2>. QED BY <2>2, <2>3, <2>4, <2>5
<1>. HIDE DEF w, v
<1>8. Suffix(w, n) = v
  BY <1>4, <1>5, <1>6, <1>7, SeqEqual
<1>. QED BY <1>8 DEF w, v

-----------------------------------------------------------------------------
(* The invariant.  ReaderInv is inductive once the buffers have their type. *)

\* What is asked of deserialize(): it takes no more than there is, and nothing
\* while it waits for the rest of a frame.
TakesWhatIsThere ==
    \A f \in Feeds : \A view \in Seq(Octet) :
        /\ Deserialize(f, view).n \in 0..Len(view)
        /\ Deserialize(f, view).kind = "wait" => Deserialize(f, view).n = 0

BufferTypes == feed \in Feeds /\ buffer \in Seq(Octet) /\ held \in Seq(Octet)

FullInv == BufferTypes /\ ReaderInv

\* The unread part of the buffer as a suffix of it.
LEMMA UnreadProperties ==
    ASSUME FullInv
    PROVE  /\ Unread = Suffix(buffer, rpos)
           /\ rpos \in 0..Len(buffer)
           /\ Unread \in Seq(Octet) /\ Len(Unread) = Len(buffer) - rpos
<1>1. rpos \in Nat /\ rpos <= Len(buffer) \div 2 /\ buffer \in Seq(Octet) /\ Len(buffer) \in Nat
  BY DEF FullInv, BufferTypes, ReaderInv, RTypeOK, BufferBounded
<1>2. rpos \in 0..Len(buffer)
  BY <1>1
<1>3. Unread = Suffix(buffer, rpos)
  BY DEF Unread, Suffix
<1>. QED BY <1>1, <1>2, <1>3, SuffixProperties

\* What a turn takes is there.
LEMMA ResultProperties ==
    ASSUME FullInv, TakesWhatIsThere
    PROVE  /\ Result.n \in 0..Len(Unread)
           /\ Result.kind = "wait" => Result.n = 0
<1>1. feed \in Feeds /\ Unread \in Seq(Octet)
  BY UnreadProperties DEF FullInv, BufferTypes
<1>2. CASE Unread = <<>>
  BY <1>1, <1>2 DEF Result
<1>3. CASE Unread # <<>>
  BY <1>1, <1>3 DEF Result, TakesWhatIsThere
<1>. QED BY <1>2, <1>3

\* A step that leaves feed, buffer and read position alone leaves the result of
\* deserialize() alone.
LEMMA ResultUnchanged ==
    ASSUME UNCHANGED <<feed, buffer, rpos>>
    PROVE  Unread' = Unread /\ Result' = Result
BY DEF Unread, Result

\* Nothing has arrived yet.
LEMMA InitInv == RInit => FullInv
<1>. SUFFICES ASSUME RInit PROVE FullInv
  OBVIOUS
<1>. USE DEF RInit
<1>1. BufferTypes
  BY DEF BufferTypes
<1>2. feed.bytes \in Seq(Octet) /\ Len(feed.bytes) \in Nat
  BY FeedTypes
<1>3. RTypeOK
  <2>1. MaxDrains \in Nat
    BY FeedTypes
  <2>2. pos \in 0..Len(feed.bytes) /\ eaten \in 0..pos /\ drains \in 0..MaxDrains
    BY <1>2, <2>1
  <2>. QED BY <2>2 DEF RTypeOK
<1>4. BytesKept
  <2>1. SubSeq(feed.bytes, eaten + 1, pos) = <<>> /\ Unread = <<>>
    BY SubSeqEmpty DEF Unread
  <2>. QED BY <2>1 DEF BytesKept
<1>5. BufferBounded /\ HeldInDrain /\ DrainedMeansNoFrame
  BY DEF BufferBounded, HeldInDrain, DrainedMeansNoFrame
<1>. QED BY <1>1, <1>3, <1>4, <1>5 DEF FullInv, ReaderInv

\* What arrives continues what has arrived, in whichever of the two buffers.
LEMMA ArriveInv == ASSUME FullInv, Arrive PROVE FullInv'
<1>. DEFINE data(end) == SubSeq(feed.bytes, pos + 1, end)
<1>1. PICK n \in feed.chunks :
        LET end == Least(pos + n, Len(feed.bytes))
        IN  /\ pos' = end
            /\ IF drain = "off"
               THEN buffer' = buffer \o data(end) /\ UNCHANGED held
               ELSE held' = held \o data(end) /\ UNCHANGED buffer
  BY DEF Arrive
<1>2. /\ feed \in Feeds /\ feed.bytes \in Seq(Octet) /\ Len(feed.bytes) \in Nat /\ n \in Nat
      /\ buffer \in Seq(Octet) /\ held \in Seq(Octet)
      /\ pos \in Nat /\ eaten \in Nat /\ eaten <= pos /\ pos < Len(feed.bytes)
  BY FeedTypes DEF FullInv, BufferTypes, ReaderInv, RTypeOK, Arrive
<1>3. pos' \in Nat /\ pos <= pos' /\ pos' <= Len(feed.bytes)
  BY <1>1, <1>2 DEF Least
<1>4. UNCHANGED <<feed, eaten, rpos, drain, closing, drains, got, state>> /\ ~closing
  BY DEF Arrive
<1>5. data(pos') \in Seq(Octet)
  <2>1. \A i \in (pos + 1)..pos' : feed.bytes[i] \in Octet
    BY <1>2, <1>3
  <2>. QED BY <1>2, <1>3, <2>1, SubSeqProperties
<1>6. SubSeq(feed.bytes, eaten + 1, pos') = SubSeq(feed.bytes, eaten + 1, pos) \o data(pos')
  <2>1. /\ eaten + 1 \in 1..(Len(feed.bytes) + 1) /\ pos \in ((eaten + 1) - 1)..Len(feed.bytes)
        /\ pos' \in pos..Len(feed.bytes)
    BY <1>2, <1>3
  <2>. QED BY <1>2, <2>1, ConcatAdjacentSubSeq
<1>. HIDE DEF data
<1>7. RTypeOK'
  BY <1>2, <1>3, <1>4 DEF FullInv, ReaderInv, RTypeOK
<1>8. /\ Unread \in Seq(Octet) /\ rpos \in 0..Len(buffer) /\ Unread = Suffix(buffer, rpos)
      /\ SubSeq(feed.bytes, eaten + 1, pos) = Unread \o held
  BY UnreadProperties DEF FullInv, ReaderInv, BytesKept
<1>9. CASE drain = "off"
  <2>1. buffer' = buffer \o data(pos') /\ held' = held /\ held = <<>>
    BY <1>1, <1>9 DEF FullInv, ReaderInv, HeldInDrain
  <2>2. BufferTypes'
    BY <1>2, <1>4, <1>5, <2>1, ConcatProperties DEF BufferTypes
  <2>3. Unread' = Unread \o data(pos')
    <3>1. Unread' = Suffix(buffer \o data(pos'), rpos)
      BY <1>4, <2>1 DEF Unread, Suffix
    <3>. QED BY <1>2, <1>5, <1>8, <3>1, SuffixOfConcat
  <2>4. BytesKept'
    <3>1. Unread \o data(pos') \in Seq(Octet)
      BY <1>5, <1>8, ConcatProperties
    <3>2. (Unread \o data(pos')) \o <<>> = Unread \o data(pos') /\ Unread \o <<>> = Unread
      BY <1>8, <3>1, ConcatEmptySeq
    <3>. QED BY <1>4, <1>6, <1>8, <2>1, <2>3, <3>2 DEF BytesKept
  <2>5. BufferBounded'
    <3>1. /\ Len(buffer') = Len(buffer) + Len(data(pos')) /\ Len(data(pos')) \in Nat
          /\ Len(buffer) \in Nat
      BY <1>2, <1>5, <2>1, ConcatProperties
    <3>. QED BY <1>4, <1>8, <3>1 DEF FullInv, ReaderInv, BufferBounded
  <2>. QED BY <1>4, <1>7, <1>9, <2>1, <2>2, <2>4, <2>5
           DEF FullInv, ReaderInv, HeldInDrain, DrainedMeansNoFrame
<1>10. CASE drain # "off"
  <2>1. held' = held \o data(pos') /\ buffer' = buffer
    BY <1>1, <1>10
  <2>2. BufferTypes'
    BY <1>2, <1>4, <1>5, <2>1, ConcatProperties DEF BufferTypes
  <2>3. Unread' = Unread /\ Result' = Result
    BY <1>4, <2>1, ResultUnchanged
  <2>4. BytesKept'
    <3>1. (Unread \o held) \o data(pos') = Unread \o (held \o data(pos'))
      <4>. DEFINE u == Unread
                  d == data(pos')
      <4>1. u \in Seq(Octet) /\ d \in Seq(Octet) /\ held \in Seq(Octet)
        BY <1>2, <1>5, <1>8
      <4>. HIDE DEF u, d
      <4>2. (u \o held) \o d = u \o (held \o d)
        BY <4>1, ConcatAssociative
      <4>. QED BY <4>2 DEF u, d
    <3>. QED BY <1>4, <1>6, <1>8, <2>1, <2>3, <3>1 DEF BytesKept
  <2>. QED BY <1>4, <1>7, <1>10, <2>1, <2>2, <2>3, <2>4
           DEF FullInv, ReaderInv, BufferBounded, HeldInDrain, DrainedMeansNoFrame
<1>. QED BY <1>9, <1>10

\* Compaction does not change what is unread: only what is consumed goes.
LEMMA ConsumeInv ==
    ASSUME FullInv, NEW n \in 0..Len(Unread), n > 0, Consume(n)
    PROVE  /\ buffer' \in Seq(Octet) /\ rpos' \in Nat /\ rpos' <= Len(buffer') \div 2
           /\ Unread' = Suffix(Unread, n)
<1>1. /\ Unread = Suffix(buffer, rpos) /\ rpos \in 0..Len(buffer)
      /\ Len(Unread) = Len(buffer) - rpos /\ Unread \in Seq(Octet)
  BY UnreadProperties
<1>2. buffer \in Seq(Octet) /\ Len(buffer) \in Nat /\ rpos \in Nat /\ n \in Nat /\ rpos + n <= Len(buffer)
  BY <1>1 DEF FullInv, BufferTypes
<1>3. SubSeq(buffer, (rpos + n) + 1, Len(buffer)) = Suffix(Unread, n)
  <2>1. Len(buffer) \in rpos..Len(buffer) /\ n \in 0..(Len(buffer) - rpos)
    BY <1>1, <1>2
  <2>. QED BY <1>2, <2>1, SuffixOfPart DEF Unread
<1>4. CASE rpos + n > Len(buffer) \div 2
  <2>1. buffer' = Suffix(Unread, n) /\ rpos' = 0
    BY <1>3, <1>4 DEF Consume
  <2>2. buffer' \in Seq(Octet) /\ Len(buffer') \in Nat
    BY <1>1, <2>1, SuffixProperties
  <2>3. Unread' = buffer'
    <3>1. Unread' = Suffix(buffer', 0)
      BY <2>1 DEF Unread, Suffix
    <3>. QED BY <2>2, <3>1, SuffixWhole
  <2>. QED BY <2>1, <2>2, <2>3
<1>5. CASE ~(rpos + n > Len(buffer) \div 2)
  <2>1. buffer' = buffer /\ rpos' = rpos + n
    BY <1>5 DEF Consume
  <2>2. Unread' = SubSeq(buffer, (rpos + n) + 1, Len(buffer))
    BY <2>1 DEF Unread
  <2>. QED BY <1>2, <1>3, <1>5, <2>1, <2>2
<1>. QED BY <1>4, <1>5

\* A turn takes off the front of what is unread what deserialize() says.
LEMMA TurnInv == ASSUME FullInv, TakesWhatIsThere, Turn PROVE FullInv'
<1>. DEFINE n == Result.n
<1>1. /\ IF n > 0 THEN Consume(n) ELSE UNCHANGED <<buffer, rpos>>
      /\ eaten' = eaten + n
      /\ state' \in {"running", "failed", "stopped"}
      /\ drain' = IF NothingTaken(Result) THEN "set" ELSE drain
      /\ UNCHANGED <<feed, pos, held, closing, drains>>
  BY DEF Turn
<1>2. n \in 0..Len(Unread) /\ (Result.kind = "wait" => n = 0)
  BY ResultProperties
<1>3. /\ Unread \in Seq(Octet) /\ Len(Unread) \in Nat /\ held \in Seq(Octet) /\ Len(held) \in Nat
      /\ feed.bytes \in Seq(Octet) /\ Len(feed.bytes) \in Nat
      /\ pos \in Nat /\ eaten \in Nat /\ eaten <= pos /\ pos <= Len(feed.bytes)
      /\ SubSeq(feed.bytes, eaten + 1, pos) = Unread \o held
  <2>1. /\ feed \in Feeds /\ held \in Seq(Octet) /\ pos \in 0..Len(feed.bytes) /\ eaten \in 0..pos
        /\ SubSeq(feed.bytes, eaten + 1, pos) = Unread \o held
    BY DEF FullInv, BufferTypes, ReaderInv, RTypeOK, BytesKept
  <2>2. feed.bytes \in Seq(Octet)
    BY <2>1, FeedTypes
  <2>. QED BY <2>1, <2>2, UnreadProperties
<1>4. /\ buffer' \in Seq(Octet) /\ rpos' \in Nat /\ rpos' <= Len(buffer') \div 2
      /\ Unread' = Suffix(Unread, n)
  <2>1. CASE n > 0
    BY <1>1, <1>2, <2>1, ConsumeInv
  <2>2. CASE ~(n > 0)
    <3>1. n = 0 /\ UNCHANGED <<buffer, rpos>>
      BY <1>1, <1>2, <2>2
    <3>2. Unread' = Unread
      BY <3>1 DEF Unread
    <3>. QED BY <1>3, <3>1, <3>2, SuffixWhole
             DEF FullInv, BufferTypes, ReaderInv, RTypeOK, BufferBounded
  <2>. QED BY <2>1, <2>2
<1>. HIDE DEF n
<1>5. n \in Nat /\ n <= pos - eaten
  <2>1. Len(SubSeq(feed.bytes, eaten + 1, pos)) = pos - eaten
    <3>1. \A i \in (eaten + 1)..pos : feed.bytes[i] \in Octet
      BY <1>3
    <3>2. Len(SubSeq(feed.bytes, eaten + 1, pos)) =
            IF eaten + 1 <= pos THEN pos - (eaten + 1) + 1 ELSE 0
      BY <1>3, <3>1, SubSeqProperties
    <3>. QED BY <1>3, <3>2
  <2>2. Len(Unread \o held) = Len(Unread) + Len(held)
    BY <1>3, ConcatProperties
  <2>. QED BY <1>2, <1>3, <2>1, <2>2
<1>6. BytesKept'
  <2>1. SubSeq(feed.bytes, (eaten + n) + 1, pos) = Suffix(Unread \o held, n)
    <3>1. pos \in eaten..Len(feed.bytes) /\ n \in 0..(pos - eaten)
      BY <1>3, <1>5
    <3>2. Suffix(SubSeq(feed.bytes, eaten + 1, pos), n) = SubSeq(feed.bytes, (eaten + n) + 1, pos)
      BY <1>3, <3>1, SuffixOfPart
    <3>. QED BY <1>3, <3>2
  <2>2. Suffix(Unread \o held, n) = Suffix(Unread, n) \o held
    BY <1>2, <1>3, SuffixOfConcat
  <2>. QED BY <1>1, <1>4, <2>1, <2>2 DEF BytesKept
<1>7. BufferTypes'
  BY <1>1, <1>3, <1>4 DEF FullInv, BufferTypes
<1>8. RTypeOK'
  BY <1>1, <1>3, <1>4, <1>5 DEF FullInv, ReaderInv, RTypeOK
<1>9. HeldInDrain'
  BY <1>1 DEF FullInv, ReaderInv, HeldInDrain
<1>10. DrainedMeansNoFrame'
  <2>1. SUFFICES ASSUME drain' = "set" PROVE Result'.kind = "wait"
    BY DEF DrainedMeansNoFrame
  <2>2. Result.kind = "wait"
    BY <1>1, <2>1 DEF NothingTaken, FullInv, ReaderInv, DrainedMeansNoFrame
  <2>3. UNCHANGED <<feed, buffer, rpos>>
    BY <1>1, <1>2, <2>2
  <2>. QED BY <2>2, <2>3, ResultUnchanged
<1>. QED BY <1>4, <1>6, <1>7, <1>8, <1>9, <1>10 DEF FullInv, ReaderInv, BufferBounded

\* Leaving a drain puts what was held back behind what is unread.
LEMMA EndDrainInv == ASSUME FullInv, EndDrain PROVE FullInv'
<1>. USE DEF EndDrain
<1>1. Unread \in Seq(Octet) /\ held \in Seq(Octet)
  BY UnreadProperties DEF FullInv, BufferTypes
<1>2. buffer' = Unread \o held /\ buffer' \in Seq(Octet) /\ Len(buffer') \in Nat
  BY <1>1, ConcatProperties DEF Rejoined
<1>3. Unread' = buffer'
  <2>1. Unread' = Suffix(buffer', 0)
    BY DEF Unread, Suffix
  <2>. QED BY <1>2, <2>1, SuffixWhole
<1>4. BytesKept'
  BY <1>2, <1>3, ConcatEmptySeq DEF FullInv, ReaderInv, BytesKept
<1>5. BufferTypes' /\ RTypeOK'
  BY <1>2 DEF FullInv, BufferTypes, ReaderInv, RTypeOK
<1>6. BufferBounded' /\ HeldInDrain' /\ DrainedMeansNoFrame'
  BY <1>2 DEF BufferBounded, HeldInDrain, DrainedMeansNoFrame
<1>. QED BY <1>4, <1>5, <1>6 DEF FullInv, ReaderInv

\* Every step of the reader, of its users and of its session keeps the bytes.
LEMMA StepInv == ASSUME FullInv, TakesWhatIsThere, [RNext]_rvars PROVE FullInv'
<1>1. CASE Arrive
  BY <1>1, ArriveInv
<1>2. CASE Turn
  BY <1>2, TurnInv
<1>3. CASE EndDrain
  BY <1>3, EndDrainInv
<1>4. CASE UNCHANGED <<feed, buffer, rpos, pos, eaten>> /\ (BeginDrain \/ DrainedClose \/ Stop \/ UNCHANGED rvars)
  <2>1. Unread' = Unread /\ Result' = Result
    BY <1>4, ResultUnchanged
  <2>2. held' = held
    BY <1>4 DEF BeginDrain, DrainedClose, Stop, rvars, FullInv, ReaderInv, HeldInDrain
  <2>3. BufferTypes' /\ BytesKept' /\ BufferBounded'
    BY <1>4, <2>1, <2>2 DEF FullInv, BufferTypes, ReaderInv, BytesKept, BufferBounded
  <2>4. RTypeOK'
    BY <1>4, FeedTypes DEF FullInv, ReaderInv, RTypeOK, BeginDrain, DrainedClose, Stop, rvars
  <2>5. HeldInDrain' /\ DrainedMeansNoFrame'
    BY <1>4, <2>1, <2>2 DEF FullInv, ReaderInv, HeldInDrain, DrainedMeansNoFrame, BeginDrain,
                            DrainedClose, Stop, rvars
  <2>. QED BY <2>3, <2>4, <2>5 DEF FullInv, ReaderInv
<1>5. BeginDrain \/ DrainedClose \/ Stop \/ UNCHANGED rvars => UNCHANGED <<feed, buffer, rpos, pos, eaten>>
  BY DEF BeginDrain, DrainedClose, Stop, rvars
<1>. QED BY <1>1, <1>2, <1>3, <1>4, <1>5 DEF RNext

-----------------------------------------------------------------------------
(* The frames.  MatchInv says how many have been read; it is inductive.     *)

\* The ends of a feed's frames, one behind the other.
FramesInOrder(f) ==
    /\ f.ends \in Seq(Nat) /\ DOMAIN f.outcomes = 1..Len(f.ends)
    /\ \A k \in 0..Len(f.ends) : EndOf(f, k) <= Len(f.bytes)
    /\ \A i, j \in 0..Len(f.ends) : i < j => EndOf(f, i) < EndOf(f, j)

MatchInv ==
    \E k \in 0..Len(feed.ends) :
        /\ eaten = EndOf(feed, k)
        /\ got = MessagesOf(feed, k)
        /\ state = "failed" => k < Len(feed.ends) /\ feed.outcomes[k + 1].kind = "raise"

\* The k frames that have been taken off are those that end where the reader is.
LEMMA FramesReadIs ==
    ASSUME FramesInOrder(feed), NEW k \in 0..Len(feed.ends), eaten = EndOf(feed, k)
    PROVE  FramesRead = k
<1>1. Len(feed.ends) \in Nat /\ DOMAIN feed.ends = 1..Len(feed.ends) /\ k \in Nat
  BY DEF FramesInOrder
<1>2. ASSUME NEW i \in DOMAIN feed.ends
      PROVE  feed.ends[i] <= eaten <=> i <= k
  <2>1. /\ i \in 0..Len(feed.ends) /\ i \in Nat /\ EndOf(feed, i) = feed.ends[i]
        /\ feed.ends[i] \in Nat
    BY <1>1 DEF FramesInOrder, EndOf
  <2>2. EndOf(feed, k) \in Nat
    BY <1>1 DEF FramesInOrder, EndOf
  <2>3. CASE i < k
    BY <2>1, <2>2, <2>3 DEF FramesInOrder
  <2>4. CASE i = k
    BY <2>1, <2>2, <2>4
  <2>5. CASE k < i
    BY <2>1, <2>2, <2>5 DEF FramesInOrder
  <2>. QED BY <1>1, <2>1, <2>3, <2>4, <2>5
<1>3. {i \in DOMAIN feed.ends : feed.ends[i] <= eaten} = 1..k
  BY <1>1, <1>2
<1>4. Cardinality(1..k) = k
  BY <1>1, FS_Interval
<1>. QED BY <1>3, <1>4 DEF FramesRead

\* One frame more is one message more, if it holds one.
LEMMA OneMore ==
    ASSUME NEW f, NEW k \in Nat, FramesInOrder(f), k < Len(f.ends)
    PROVE  MessagesOf(f, k + 1) =
             IF f.outcomes[k + 1].kind = "msg"
             THEN Append(MessagesOf(f, k), f.outcomes[k + 1].msg) ELSE MessagesOf(f, k)
<1>. DEFINE first(n) == [i \in 1..n |-> i]
            S == {i \in DOMAIN f.outcomes : f.outcomes[i].kind = "msg"}
            kept == Selected(first(k), S)
<1>1. first(k) \in Seq(Nat) /\ first(k + 1) = Append(first(k), k + 1) /\ k + 1 \in DOMAIN f.outcomes
  <2>1. first(k) \in Seq(Nat) /\ first(k + 1) \in Seq(Nat) /\ Len(first(k)) = k /\ Len(first(k + 1)) = k + 1
    OBVIOUS
  <2>2. /\ Append(first(k), k + 1) \in Seq(Nat) /\ Len(Append(first(k), k + 1)) = k + 1
        /\ \A i \in 1..(k + 1) : Append(first(k), k + 1)[i] = i
    BY <2>1
  <2>3. \A i \in 1..(k + 1) : first(k + 1)[i] = i
    OBVIOUS
  <2>4. first(k + 1) = Append(first(k), k + 1)
    BY <2>1, <2>2, <2>3, SeqEqual
  <2>5. k + 1 \in DOMAIN f.outcomes
    BY DEF FramesInOrder
  <2>. QED BY <2>1, <2>4, <2>5
<1>2. k + 1 \in S <=> f.outcomes[k + 1].kind = "msg"
  BY <1>1
<1>3. Selected(first(k + 1), S) = IF k + 1 \in S THEN Append(kept, k + 1) ELSE kept
  <2>. DEFINE s == first(k)
  <2>1. s \in Seq(Nat) /\ first(k + 1) = Append(s, k + 1) /\ k + 1 \in Nat
    BY <1>1
  <2>. HIDE DEF s, S
  <2>2. \A q \in Seq(Nat), e \in Nat :
          Selected(Append(q, e), S) = IF e \in S THEN Append(Selected(q, S), e) ELSE Selected(q, S)
    BY SelectedAppend
  <2>. QED BY <2>1, <2>2 DEF s
<1>4. kept \in Seq(Nat)
  <2>1. kept \in Seq(Nat \intersect S)
    BY <1>1, SelectedType
  <2>. QED BY <2>1, SeqMonotonic
<1>5. MessagesOf(f, k) = [i \in DOMAIN kept |-> f.outcomes[kept[i]].msg]
  BY DEF MessagesOf
<1>6. MessagesOf(f, k + 1) = [i \in DOMAIN Selected(first(k + 1), S) |-> f.outcomes[Selected(first(k + 1), S)[i]].msg]
  BY DEF MessagesOf
<1>. HIDE DEF kept, S, first
<1>7. CASE k + 1 \in S
  <2>1. Selected(first(k + 1), S) = Append(kept, k + 1)
    BY <1>3, <1>7
  <2>2. [i \in DOMAIN Append(kept, k + 1) |-> f.outcomes[Append(kept, k + 1)[i]].msg]
          = Append([i \in DOMAIN kept |-> f.outcomes[kept[i]].msg], f.outcomes[k + 1].msg)
    BY <1>4
  <2>. QED BY <1>2, <1>5, <1>6, <1>7, <2>1, <2>2
<1>8. CASE k + 1 \notin S
  BY <1>2, <1>3, <1>5, <1>6, <1>8
<1>. QED BY <1>7, <1>8

\* What is unread begins where the reader is.
LEMMA UnreadIsNext ==
    ASSUME FullInv
    PROVE  /\ eaten + Len(Unread) \in eaten..Len(feed.bytes)
           /\ Unread = SubSeq(feed.bytes, eaten + 1, eaten + Len(Unread))
<1>. DEFINE b == feed.bytes
            u == Unread
            w == SubSeq(b, eaten + 1, pos)
            p == eaten + Len(u)
            v == SubSeq(b, eaten + 1, p)
<1>1. /\ b \in Seq(Octet) /\ Len(b) \in Nat /\ u \in Seq(Octet) /\ held \in Seq(Octet)
      /\ Len(u) \in Nat /\ Len(held) \in Nat
      /\ pos \in Nat /\ eaten \in Nat /\ eaten <= pos /\ pos <= Len(b)
      /\ w = u \o held
  <2>1. /\ feed \in Feeds /\ held \in Seq(Octet) /\ pos \in 0..Len(b) /\ eaten \in 0..pos /\ w = u \o held
    BY DEF FullInv, BufferTypes, ReaderInv, RTypeOK, BytesKept
  <2>2. b \in Seq(Octet) /\ u \in Seq(Octet)
    BY <2>1, FeedTypes, UnreadProperties
  <2>. QED BY <2>1, <2>2
<1>. HIDE DEF b, u
<1>2. /\ Len(w) = pos - eaten /\ \A i \in 1..(pos - eaten) : w[i] = b[eaten + i]
  <2>1. \A i \in (eaten + 1)..pos : b[i] \in Octet
    BY <1>1
  <2>2. /\ Len(w) = IF eaten + 1 <= pos THEN pos - (eaten + 1) + 1 ELSE 0
        /\ \A i \in 1..(pos - (eaten + 1) + 1) : w[i] = b[(eaten + 1) + i - 1]
    BY <1>1, <2>1, SubSeqProperties
  <2>. QED BY <1>1, <2>2
<1>3. /\ Len(w) = Len(u) + Len(held) /\ \A i \in 1..Len(u) : w[i] = u[i]
  BY <1>1, ConcatProperties
<1>4. p \in Nat /\ eaten <= p /\ p <= pos /\ p <= Len(b)
  BY <1>1, <1>2, <1>3
<1>5. /\ v \in Seq(Octet) /\ Len(v) = Len(u) /\ \A i \in 1..Len(u) : v[i] = b[eaten + i]
  <2>1. \A i \in (eaten + 1)..p : b[i] \in Octet
    BY <1>1, <1>4
  <2>2. /\ v \in Seq(Octet) /\ Len(v) = IF eaten + 1 <= p THEN p - (eaten + 1) + 1 ELSE 0
        /\ \A i \in 1..(p - (eaten + 1) + 1) : v[i] = b[(eaten + 1) + i - 1]
    BY <1>1, <1>4, <2>1, SubSeqProperties
  <2>. QED BY <1>1, <1>4, <2>2
<1>6. \A i \in 1..Len(u) : u[i] = v[i]
  <2>1. \A i \in 1..Len(u) : i \in 1..(pos - eaten)
    BY <1>1, <1>2, <1>3
  <2>. QED BY <1>2, <1>3, <1>5, <2>1
<1>. HIDE DEF v
<1>7. u = v
  BY <1>1, <1>5, <1>6, SeqEqual
<1>. QED BY <1>1, <1>4, <1>7 DEF b, u, v

\* A turn reads the next frame, or nothing.
LEMMA TurnMatch ==
    ASSUME FullInv, MatchInv, FramesInOrder(feed), TakesWholeFrames(feed), Turn
    PROVE  MatchInv'
<1>1. PICK k \in 0..Len(feed.ends) : /\ eaten = EndOf(feed, k) /\ got = MessagesOf(feed, k)
  BY DEF MatchInv
<1>2. /\ feed' = feed /\ state = "running"
      /\ eaten' = eaten + Result.n
      /\ got' = IF Result.kind = "msg" THEN Append(got, Result.msg) ELSE got
      /\ state' = "failed" => Result.kind = "raise"
  BY DEF Turn
<1>3. /\ Len(feed.ends) \in Nat /\ k \in Nat /\ k <= Len(feed.ends) /\ eaten \in Nat
  BY <1>1 DEF FramesInOrder, EndOf
<1>4. CASE Result.kind = "wait" /\ Result.n = 0
  BY <1>1, <1>2, <1>3, <1>4 DEF MatchInv
<1>5. CASE Unread # <<>> /\ ~(Result.kind = "wait" /\ Result.n = 0)
  <2>. DEFINE p == eaten + Len(Unread)
  <2>1. /\ p \in (eaten + 1)..Len(feed.bytes)
        /\ Result = Deserialize(feed, SubSeq(feed.bytes, eaten + 1, p))
    <3>1. Unread \in Seq(Octet) /\ Len(Unread) \in Nat /\ Len(Unread) # 0
      BY <1>5, UnreadProperties, EmptySeq
    <3>2. p \in eaten..Len(feed.bytes) /\ Unread = SubSeq(feed.bytes, eaten + 1, p)
      BY UnreadIsNext
    <3>3. Result = Deserialize(feed, Unread)
      BY <1>5 DEF Result
    <3>4. p \in (eaten + 1)..Len(feed.bytes)
      BY <1>3, <3>1, <3>2
    <3>. QED BY <3>2, <3>3, <3>4
  <2>. HIDE DEF p
  <2>2. /\ k < Len(feed.ends) /\ feed.ends[k + 1] <= p
        /\ Result.kind = feed.outcomes[k + 1].kind
        /\ Result.n = IF Result.kind = "raise" THEN 0 ELSE feed.ends[k + 1] - EndOf(feed, k)
        /\ Result.kind = "msg" => Result.msg = feed.outcomes[k + 1].msg
    BY <1>1, <1>5, <2>1 DEF TakesWholeFrames
  <2>3. CASE Result.kind = "raise"
    <3>1. eaten' = EndOf(feed, k) /\ got' = MessagesOf(feed, k)
      BY <1>1, <1>2, <1>3, <2>2, <2>3
    <3>. QED BY <1>2, <2>2, <2>3, <3>1 DEF MatchInv
  <2>4. CASE Result.kind # "raise"
    <3>1. k + 1 \in 0..Len(feed.ends) /\ EndOf(feed, k + 1) = feed.ends[k + 1]
          /\ feed.ends[k + 1] \in Nat
      BY <1>3, <2>2 DEF EndOf, FramesInOrder
    <3>2. eaten' = EndOf(feed, k + 1)
      BY <1>1, <1>2, <1>3, <2>2, <2>4, <3>1
    <3>3. got' = MessagesOf(feed, k + 1)
      <4>1. MessagesOf(feed, k + 1) =
              IF feed.outcomes[k + 1].kind = "msg"
              THEN Append(MessagesOf(feed, k), feed.outcomes[k + 1].msg) ELSE MessagesOf(feed, k)
        BY <1>3, <2>2, OneMore
      <4>. QED BY <1>1, <1>2, <2>2, <4>1
    <3>4. state' # "failed"
      BY <1>2, <2>4
    <3>. QED BY <1>2, <3>1, <3>2, <3>3, <3>4 DEF MatchInv
  <2>. QED BY <2>3, <2>4
<1>6. Unread = <<>> => Result.kind = "wait" /\ Result.n = 0
  BY DEF Result
<1>. QED BY <1>4, <1>5, <1>6

\* Nothing has been read yet.
LEMMA InitMatch == ASSUME RInit, FramesInOrder(feed) PROVE MatchInv
<1>. DEFINE none == [i \in 1..0 |-> i]
<1>1. none = <<>> /\ Len(feed.ends) \in Nat
  BY DEF FramesInOrder
<1>2. MessagesOf(feed, 0) = <<>>
  <2>1. Selected(none, {i \in DOMAIN feed.outcomes : feed.outcomes[i].kind = "msg"}) = <<>>
    BY <1>1, SelectedEmpty
  <2>. QED BY <2>1 DEF MessagesOf
<1>. QED BY <1>1, <1>2 DEF RInit, MatchInv, EndOf

LEMMA StepMatch ==
    ASSUME FullInv, MatchInv, FramesInOrder(feed), TakesWholeFrames(feed), [RNext]_rvars
    PROVE  MatchInv'
<1>1. CASE Turn
  BY <1>1, TurnMatch
<1>2. CASE Arrive \/ BeginDrain \/ EndDrain \/ DrainedClose \/ Stop \/ UNCHANGED rvars
  <2>1. feed' = feed /\ eaten' = eaten /\ got' = got /\ (state' = "failed" => state = "failed")
    BY <1>2 DEF Arrive, BeginDrain, EndDrain, DrainedClose, Stop, rvars
  <2>. QED BY <2>1 DEF MatchInv
<1>. QED BY <1>1, <1>2 DEF RNext

-----------------------------------------------------------------------------
(* The theorems *)

\* Reader.on_data(), the compaction in deserialize(), and the two buffers of a
\* drain together keep every byte, once and in its order, until deserialize()
\* takes it; and a drain ends with no whole frame left.
THEOREM ReaderIsExact == ASSUME TakesWhatIsThere PROVE RSpec => []ReaderInv
<1>1. FullInv /\ [RNext]_rvars => FullInv'
  BY StepInv
<1>2. FullInv => ReaderInv
  BY DEF FullInv
<1>. QED BY InitInv, <1>1, <1>2, PTL DEF RSpec

\* Of feeds like these the reader has read some whole frames.
LEMMA ReaderMatches ==
    ASSUME TakesWhatIsThere, \A f \in Feeds : FramesInOrder(f) /\ TakesWholeFrames(f)
    PROVE  RSpec => [](FullInv /\ MatchInv)
<1>. DEFINE I == FullInv /\ MatchInv
<1>1. FullInv => FramesInOrder(feed) /\ TakesWholeFrames(feed)
  BY DEF FullInv, BufferTypes
<1>2. RInit => I
  BY <1>1, InitInv, InitMatch
<1>3. I /\ [RNext]_rvars => I'
  BY <1>1, StepInv, StepMatch
<1>. HIDE DEF I
<1>4. RSpec => []I
  BY <1>2, <1>3, PTL DEF RSpec
<1>. QED BY <1>4 DEF I

\* The messages the application gets are those of the frames read one by one,
\* in order, however the bytes were cut and whatever a drain held back; and
\* the reader fails only at a frame that cannot be decoded (Reader._process()).
THEOREM ReaderGivesFrames ==
    ASSUME TakesWhatIsThere, \A f \in Feeds : FramesInOrder(f) /\ TakesWholeFrames(f)
    PROVE  RSpec => []FramesMatch
<1>1. FullInv => FramesInOrder(feed)
  BY DEF FullInv, BufferTypes
<1>2. FullInv /\ MatchInv => FramesMatch
  <2>. SUFFICES ASSUME FullInv, MatchInv PROVE FramesMatch
    OBVIOUS
  <2>1. PICK k \in 0..Len(feed.ends) :
          /\ eaten = EndOf(feed, k) /\ got = MessagesOf(feed, k)
          /\ state = "failed" => feed.outcomes[k + 1].kind = "raise"
    BY DEF MatchInv
  <2>2. FramesRead = k
    BY <1>1, <2>1, FramesReadIs
  <2>. QED BY <2>1, <2>2 DEF FramesMatch
<1>3. RSpec => [](FullInv /\ MatchInv)
  BY ReaderMatches
<1>. QED BY <1>2, <1>3, PTL

-----------------------------------------------------------------------------
(* What deserialize() has to be for that: it decides by what is in front.  *)

\* The bytes v, and perhaps more.
Begins(v, w) == Len(v) <= Len(w) /\ \A i \in 1..Len(v) : v[i] = w[i]

\* It makes of a view what it makes of the beginning that is enough for it.
DecidesInFront(f) ==
    \A v, w \in Seq(Octet) :
        Begins(v, w) /\ Deserialize(f, v).kind # "wait" => Deserialize(f, w) = Deserialize(f, v)

\* It takes a frame as a whole, and nothing less is enough.
IsFrame(f, frame) ==
    LET r == Deserialize(f, frame)
    IN  /\ frame # <<>> /\ r.kind # "wait" /\ r.n = IF r.kind = "raise" THEN 0 ELSE Len(frame)
        /\ \A v \in Seq(Octet) :
              Begins(v, frame) /\ Len(v) < Len(frame) => Deserialize(f, v).kind = "wait"

\* A part of what is sent.
Part(f, i, j) == SubSeq(f.bytes, i + 1, j)

IsCutInFrames(f) ==
    /\ f.ends \in Seq(Nat) /\ \A k \in 0..Len(f.ends) : EndOf(f, k) <= Len(f.bytes)
    /\ \A k \in 1..Len(f.ends) : IsFrame(f, Part(f, EndOf(f, k - 1), EndOf(f, k)))
    /\ Deserialize(f, Part(f, EndOf(f, Len(f.ends)), Len(f.bytes))).kind = "wait"

LEMMA PartProperties ==
    ASSUME NEW f, f.bytes \in Seq(Octet), NEW i \in Nat, NEW j \in Nat, j <= Len(f.bytes)
    PROVE  /\ Part(f, i, j) \in Seq(Octet) /\ Len(Part(f, i, j)) = IF i < j THEN j - i ELSE 0
           /\ i <= j => Len(Part(f, i, j)) = j - i
           /\ \A m \in 1..(j - i) : Part(f, i, j)[m] = f.bytes[i + m]
<1>0. Len(f.bytes) \in Nat
  OBVIOUS
<1>1. \A m \in (i + 1)..j : f.bytes[m] \in Octet
  BY <1>0
<1>2. /\ Part(f, i, j) \in Seq(Octet) /\ Len(Part(f, i, j)) = IF i + 1 <= j THEN j - (i + 1) + 1 ELSE 0
      /\ \A m \in 1..(j - (i + 1) + 1) : Part(f, i, j)[m] = f.bytes[(i + 1) + m - 1]
  BY <1>1, SubSeqProperties DEF Part
<1>. QED BY <1>2

\* The parts that begin at one place begin alike.
LEMMA PartsBegin ==
    ASSUME NEW f, f.bytes \in Seq(Octet), NEW i \in Nat, NEW j \in Nat, NEW l \in Nat,
           i <= j, j <= l, l <= Len(f.bytes)
    PROVE  Begins(Part(f, i, j), Part(f, i, l))
<1>. DEFINE v == Part(f, i, j)
            w == Part(f, i, l)
<1>0. Len(f.bytes) \in Nat /\ j <= Len(f.bytes)
  OBVIOUS
<1>1. Len(v) = j - i /\ \A m \in 1..(j - i) : v[m] = f.bytes[i + m]
  BY <1>0, PartProperties
<1>2. Len(w) = l - i /\ \A m \in 1..(l - i) : w[m] = f.bytes[i + m]
  <2>1. i <= l
    OBVIOUS
  <2>. QED BY <2>1, PartProperties
<1>. HIDE DEF v, w
<1>3. Begins(v, w)
  BY <1>1, <1>2 DEF Begins
<1>. QED BY <1>3 DEF v, w

\* Each frame ends behind the ones before it.
LEMMA CutInOrder ==
    ASSUME NEW f, f.bytes \in Seq(Octet), OutcomesOfFrames(f), IsCutInFrames(f)
    PROVE  FramesInOrder(f)
<1>. DEFINE N == Len(f.ends)
<1>1. /\ f.ends \in Seq(Nat) /\ DOMAIN f.outcomes = 1..N /\ N \in Nat
      /\ \A k \in 0..N : EndOf(f, k) \in Nat /\ EndOf(f, k) <= Len(f.bytes)
  BY DEF IsCutInFrames, OutcomesOfFrames, EndOf
<1>2. ASSUME NEW k \in Nat, k < N PROVE EndOf(f, k) < EndOf(f, k + 1)
  <2>1. k + 1 \in 1..N /\ (k + 1) - 1 = k /\ k \in 0..N /\ k + 1 \in 0..N
    BY <1>1, <1>2
  <2>2. Part(f, EndOf(f, k), EndOf(f, k + 1)) # <<>>
    BY <2>1 DEF IsCutInFrames, IsFrame
  <2>. DEFINE v == Part(f, EndOf(f, k), EndOf(f, k + 1))
  <2>3. v \in Seq(Octet) /\ Len(v) = IF EndOf(f, k) < EndOf(f, k + 1) THEN EndOf(f, k + 1) - EndOf(f, k) ELSE 0
    BY <1>1, <2>1, PartProperties
  <2>. HIDE DEF v
  <2>4. Len(v) # 0
    BY <2>2, <2>3, EmptySeq DEF v
  <2>. QED BY <2>3, <2>4
<1>3. ASSUME NEW i \in Nat
      PROVE  \A d \in Nat : i + (d + 1) <= N => EndOf(f, i) < EndOf(f, i + (d + 1))
  <2>. DEFINE T == {d \in Nat : i + (d + 1) <= N => EndOf(f, i) < EndOf(f, i + (d + 1))}
  <2>1. 0 \in T
    <3>1. i + (0 + 1) = i + 1
      BY <1>3
    <3>. QED BY <1>1, <1>2, <1>3, <3>1
  <2>2. ASSUME NEW d \in Nat, d \in T PROVE d + 1 \in T
    <3>. SUFFICES ASSUME i + ((d + 1) + 1) <= N
                  PROVE  EndOf(f, i) < EndOf(f, i + ((d + 1) + 1))
      OBVIOUS
    <3>. DEFINE j == i + (d + 1)
    <3>1. j \in Nat /\ j < N /\ i + ((d + 1) + 1) = j + 1 /\ i \in 0..N /\ j \in 0..N /\ j + 1 \in 0..N
      BY <1>1, <1>3
    <3>2. EndOf(f, i) < EndOf(f, j)
      BY <1>1, <2>2, <3>1
    <3>. HIDE DEF j
    <3>3. EndOf(f, j) < EndOf(f, j + 1)
      BY <1>2, <3>1
    <3>4. EndOf(f, i) \in Nat /\ EndOf(f, j) \in Nat /\ EndOf(f, j + 1) \in Nat
      BY <1>1, <3>1
    <3>5. EndOf(f, i) < EndOf(f, j + 1)
      BY <3>2, <3>3, <3>4
    <3>6. i + ((d + 1) + 1) = j + 1
      BY <3>1
    <3>. QED BY <3>5, <3>6
  <2>. HIDE DEF T
  <2>3. \A d \in Nat : d \in T
    BY <2>1, <2>2, SetInduction
  <2>. QED BY <2>3 DEF T
<1>4. ASSUME NEW i \in 0..N, NEW j \in 0..N, i < j PROVE EndOf(f, i) < EndOf(f, j)
  <2>. DEFINE d == (j - i) - 1
  <2>1. d \in Nat /\ i \in Nat /\ i + (d + 1) = j /\ j <= N
    BY <1>1, <1>4
  <2>. HIDE DEF d
  <2>. QED BY <1>3, <2>1
<1>. QED BY <1>1, <1>4 DEF FramesInOrder

\* Of what begins where a frame does, it takes that frame once it is whole, and
\* waits until then.
LEMMA CutIsTaken ==
    ASSUME NEW f, f.bytes \in Seq(Octet), OutcomesOfFrames(f), IsCutInFrames(f), DecidesInFront(f),
           \A view \in Seq(Octet) : Deserialize(f, view).kind = "wait" => Deserialize(f, view).n = 0
    PROVE  TakesWholeFrames(f)
<1>. DEFINE N == Len(f.ends)
<1>1. /\ N \in Nat /\ Len(f.bytes) \in Nat /\ DOMAIN f.ends = 1..N
      /\ \A k \in 0..N : EndOf(f, k) \in Nat /\ EndOf(f, k) <= Len(f.bytes)
      /\ \A k \in 1..N : EndOf(f, k) = f.ends[k]
  BY DEF IsCutInFrames, EndOf
<1>2. SUFFICES ASSUME NEW k \in 0..N, NEW p \in (EndOf(f, k) + 1)..Len(f.bytes)
               PROVE  LET r == Deserialize(f, Part(f, EndOf(f, k), p))
                      IN  IF k < N /\ f.ends[k + 1] <= p
                          THEN /\ r.kind = f.outcomes[k + 1].kind /\ r.kind # "wait"
                               /\ r.n = IF r.kind = "raise" THEN 0 ELSE f.ends[k + 1] - EndOf(f, k)
                               /\ r.kind = "msg" => r.msg = f.outcomes[k + 1].msg
                          ELSE r.kind = "wait" /\ r.n = 0
  BY DEF TakesWholeFrames, Part
<1>. DEFINE e == EndOf(f, k)
            view == Part(f, e, p)
            end == EndOf(f, k + 1)
            frame == Part(f, e, end)
<1>3. e \in Nat /\ p \in Nat /\ e < p /\ p <= Len(f.bytes) /\ k \in Nat /\ k <= N
  BY <1>1
<1>4. view \in Seq(Octet) /\ Len(view) = p - e
  BY <1>3, PartProperties
<1>5. ASSUME k < N
      PROVE  /\ end \in Nat /\ e < end /\ end <= Len(f.bytes) /\ end = f.ends[k + 1]
             /\ frame \in Seq(Octet) /\ Len(frame) = end - e
             /\ IsFrame(f, frame) /\ f.outcomes[k + 1] = Deserialize(f, frame)
  <2>1. k + 1 \in 1..N /\ k + 1 \in 0..N /\ (k + 1) - 1 = k
    BY <1>1, <1>3, <1>5
  <2>2. end \in Nat /\ end <= Len(f.bytes) /\ end = f.ends[k + 1]
    BY <1>1, <2>1
  <2>3. e < end
    <3>1. FramesInOrder(f)
      BY CutInOrder
    <3>. QED BY <1>3, <2>1, <3>1 DEF FramesInOrder
  <2>4. frame \in Seq(Octet) /\ Len(frame) = end - e
    BY <1>3, <2>2, <2>3, PartProperties
  <2>5. IsFrame(f, frame)
    BY <2>1 DEF IsCutInFrames
  <2>6. f.outcomes[k + 1] = Deserialize(f, SubSeq(f.bytes, EndOf(f, (k + 1) - 1) + 1, f.ends[k + 1]))
    BY <1>1, <2>1 DEF OutcomesOfFrames
  <2>. QED BY <2>1, <2>2, <2>3, <2>4, <2>5, <2>6 DEF Part
<1>6. CASE k < N /\ f.ends[k + 1] <= p
  <2>1. Begins(frame, view)
    BY <1>3, <1>5, <1>6, PartsBegin
  <2>2. Deserialize(f, view) = Deserialize(f, frame)
    BY <1>4, <1>5, <1>6, <2>1 DEF DecidesInFront, IsFrame
  <2>. HIDE DEF view, frame, e, end
  <2>3. LET r == Deserialize(f, frame)
        IN  r.kind # "wait" /\ r.n = IF r.kind = "raise" THEN 0 ELSE end - e
    BY <1>5, <1>6 DEF IsFrame
  <2>. QED BY <1>5, <1>6, <2>2, <2>3 DEF view, e
<1>7. CASE ~(k < N /\ f.ends[k + 1] <= p)
  <2>1. Deserialize(f, view).kind = "wait"
    <3>1. CASE k < N
      <4>1. Begins(view, frame) /\ Len(view) < Len(frame)
        BY <1>3, <1>4, <1>5, <1>7, <3>1, PartsBegin
      <4>. QED BY <1>4, <1>5, <3>1, <4>1 DEF IsFrame
    <3>2. CASE ~(k < N)
      <4>. DEFINE rest == Part(f, e, Len(f.bytes))
      <4>1. k = N
        BY <1>1, <1>3, <3>2
      <4>2. Len(f.bytes) \in Nat /\ Len(f.bytes) <= Len(f.bytes)
        BY <1>1
      <4>3. rest \in Seq(Octet)
        BY <1>3, <4>2, PartProperties
      <4>4. Begins(view, rest)
        BY <1>3, <4>2, PartsBegin
      <4>5. Deserialize(f, rest).kind = "wait"
        BY <4>1 DEF IsCutInFrames
      <4>. HIDE DEF rest, view
      <4>. QED BY <1>4, <4>3, <4>4, <4>5 DEF DecidesInFront
    <3>. QED BY <3>1, <3>2
  <2>2. Deserialize(f, view).n = 0
    BY <1>4, <2>1
  <2>. HIDE DEF view
  <2>. QED BY <1>7, <2>1, <2>2 DEF view
<1>. QED BY <1>6, <1>7

-----------------------------------------------------------------------------
(* The reader of SoupBinTCP.                                               *)

\* SoupMessageReader.deserialize() takes whole frames, which are there.
LEMMA SoupTakesWhatIsThere ==
    ASSUME NEW view \in Seq(Octet)
    PROVE  /\ SoupDeserialize(view).n \in 0..Len(view)
           /\ SoupDeserialize(view).kind = "wait" => SoupDeserialize(view).n = 0
<1>1. CASE ~HasSoupFrame(view)
  BY <1>1 DEF SoupDeserialize
<1>2. CASE HasSoupFrame(view)
  <2>. DEFINE m == SoupDecode(Prefix(view, 2 + SizeOf(view)))
  <2>1. SizeOf(view) \in Nat /\ 2 + SizeOf(view) <= Len(view)
    <3>1. Len(view) >= 2 /\ Len(view) >= 2 + SizeOf(view)
      BY <1>2 DEF HasSoupFrame
    <3>2. 1 \in 1..Len(view) /\ 2 \in 1..Len(view)
      BY <1>2 DEF HasSoupFrame
    <3>3. view[1] \in Octet /\ view[2] \in Octet
      BY <3>2
    <3>4. \A a, b \in Octet : 256 * a + b \in Nat
      BY DEF Octet
    <3>5. SizeOf(view) \in Nat
      BY <3>3, <3>4, Zenon DEF SizeOf
    <3>. QED BY <3>1, <3>5
  <2>2. /\ SoupDeserialize(view).n = IF m = SoupInvalid THEN 0 ELSE 2 + SizeOf(view)
        /\ SoupDeserialize(view).kind # "wait"
    BY <1>2 DEF SoupDeserialize
  <2>. HIDE DEF m
  <2>. QED BY <2>1, <2>2
<1>. QED BY <1>1, <1>2

\* The reader of SoupBinTCP keeps every byte.
THEOREM SoupReaderIsExact ==
    ASSUME \A f \in Feeds : \A view \in Seq(Octet) : Deserialize(f, view) = SoupDeserialize(view)
    PROVE  RSpec => []ReaderInv
<1>1. TakesWhatIsThere
  BY SoupTakesWhatIsThere DEF TakesWhatIsThere
<1>. QED BY <1>1, ReaderIsExact

\* A frame of SoupBinTCP is what it is, whatever follows it.
LEMMA SoupFrameStands ==
    ASSUME NEW v \in Seq(Octet), NEW w \in Seq(Octet), HasSoupFrame(v),
           Begins(v, w)
    PROVE  /\ HasSoupFrame(w) /\ SizeOf(w) = SizeOf(v) /\ SizeOf(v) \in Nat
           /\ SoupDeserialize(w) = SoupDeserialize(v)
<1>1. /\ Len(v) \in Nat /\ Len(w) \in Nat /\ Len(v) >= 2 /\ Len(v) >= 2 + SizeOf(v)
      /\ Len(v) <= Len(w) /\ \A i \in 1..Len(v) : v[i] = w[i]
  BY DEF HasSoupFrame, Begins
<1>2. 1 \in 1..Len(v) /\ 2 \in 1..Len(v)
  BY <1>1
<1>3. v[1] \in Octet /\ v[2] \in Octet /\ w[1] = v[1] /\ w[2] = v[2]
  BY <1>1, <1>2
<1>4. \A a, b \in Octet : 256 * a + b \in Nat
  BY DEF Octet
<1>5. SizeOf(w) = SizeOf(v) /\ SizeOf(v) \in Nat
  BY <1>3, <1>4, Zenon DEF SizeOf
<1>6. HasSoupFrame(w)
  BY <1>1, <1>5 DEF HasSoupFrame
<1>. DEFINE n == 2 + SizeOf(v)
            a == SubSeq(v, 1, n)
            b == SubSeq(w, 1, n)
<1>7. /\ Prefix(v, n) = a /\ Prefix(w, n) = b
  <2>1. n \in Nat /\ n <= Len(v) /\ n <= Len(w)
    BY <1>1, <1>5
  <2>. HIDE DEF n
  <2>2. /\ (IF n < Len(v) THEN n ELSE Len(v)) = n /\ (IF n < Len(w) THEN n ELSE Len(w)) = n
    BY <1>1, <2>1
  <2>. QED BY <2>2 DEF Prefix
<1>8. a = b
  <2>1. n \in Nat /\ 1 <= n /\ n <= Len(v) /\ n <= Len(w)
    BY <1>1, <1>5
  <2>2. \A i \in 1..n : v[i] \in Octet /\ w[i] \in Octet /\ v[i] = w[i]
    BY <1>1, <2>1
  <2>. HIDE DEF n
  <2>3. /\ a \in Seq(Octet) /\ Len(a) = n /\ \A i \in 1..n : a[i] = v[i]
    BY <2>1, <2>2, SubSeqProperties
  <2>4. /\ b \in Seq(Octet) /\ Len(b) = n /\ \A i \in 1..n : b[i] = w[i]
    BY <2>1, <2>2, SubSeqProperties
  <2>. HIDE DEF a, b
  <2>. QED BY <2>2, <2>3, <2>4, SeqEqual
<1>9. SoupDecode(Prefix(w, 2 + SizeOf(w))) = SoupDecode(Prefix(v, 2 + SizeOf(v)))
  BY <1>5, <1>7, <1>8
<1>. HIDE DEF a, b, n
<1>. QED BY <1>5, <1>6, <1>9 DEF SoupDeserialize

\* What it takes is a frame, and it does not look further.
LEMMA SoupDecidesInFront ==
    ASSUME NEW f, \A view \in Seq(Octet) : Deserialize(f, view) = SoupDeserialize(view)
    PROVE  DecidesInFront(f)
<1>1. \A v \in Seq(Octet) : SoupDeserialize(v).kind # "wait" => HasSoupFrame(v)
  BY DEF SoupDeserialize
<1>2. SUFFICES ASSUME NEW v \in Seq(Octet), NEW w \in Seq(Octet), Begins(v, w),
                      SoupDeserialize(v).kind # "wait"
               PROVE  SoupDeserialize(w) = SoupDeserialize(v)
  BY DEF DecidesInFront
<1>. QED BY <1>1, <1>2, SoupFrameStands

LEMMA SoupCut ==
    ASSUME NEW f, f.bytes \in Seq(Octet), SoupFramed(f.bytes, f.ends),
           \A view \in Seq(Octet) : Deserialize(f, view) = SoupDeserialize(view)
    PROVE  IsCutInFrames(f)
<1>. DEFINE N == Len(f.ends)
<1>1. /\ f.ends \in Seq(Nat) /\ N \in Nat /\ Len(f.bytes) \in Nat
      /\ \A k \in 0..N : EndOf(f, k) \in Nat /\ EndOf(f, k) <= Len(f.bytes)
  BY DEF SoupFramed, EndOf
<1>2. ASSUME NEW k \in 1..N PROVE IsFrame(f, Part(f, EndOf(f, k - 1), EndOf(f, k)))
  <2>. DEFINE frame == Part(f, EndOf(f, k - 1), EndOf(f, k))
  <2>1. HasSoupFrame(frame) /\ Len(frame) = 2 + SizeOf(frame)
    BY <1>1 DEF SoupFramed, EndOf, Part
  <2>2. frame \in Seq(Octet)
    <3>1. k - 1 \in 0..N /\ k \in 0..N
      BY <1>1
    <3>. QED BY <1>1, <3>1, PartProperties
  <2>. HIDE DEF frame
  <2>3. frame # <<>>
    BY <2>1 DEF HasSoupFrame
  <2>4. SoupDeserialize(frame).kind # "wait"
        /\ SoupDeserialize(frame).n = IF SoupDeserialize(frame).kind = "raise" THEN 0 ELSE Len(frame)
    <3>. DEFINE m == SoupDecode(Prefix(frame, 2 + SizeOf(frame)))
                size == 2 + SizeOf(frame)
    <3>1. SoupDeserialize(frame) =
            [msg |-> m, n |-> IF m = SoupInvalid THEN 0 ELSE size,
             kind |-> CASE m = SoupInvalid         -> "raise"
                        [] m.class \in IsLogout    -> "stop"
                        [] m.class \in IsHeartbeat -> "skip"
                        [] OTHER                   -> "msg"]
      BY <2>1 DEF SoupDeserialize
    <3>2. size = Len(frame)
      BY <2>1
    <3>. HIDE DEF m, size
    <3>3. SoupInvalid.class \notin IsLogout \union IsHeartbeat
      BY DEF SoupInvalid, IsLogout, IsHeartbeat
    <3>4. CASE m = SoupInvalid
      BY <3>1, <3>3, <3>4
    <3>5. CASE m # SoupInvalid
      BY <3>1, <3>2, <3>5
    <3>. QED BY <3>4, <3>5
  <2>5. ASSUME NEW v \in Seq(Octet), Begins(v, frame), Len(v) < Len(frame)
        PROVE  SoupDeserialize(v).kind = "wait"
    <3>1. ~HasSoupFrame(v)
      <4>. SUFFICES ASSUME HasSoupFrame(v) PROVE FALSE
        OBVIOUS
      <4>1. SizeOf(frame) = SizeOf(v) /\ SizeOf(v) \in Nat
        BY <2>2, <2>5, SoupFrameStands
      <4>2. Len(v) >= 2 + SizeOf(v) /\ Len(v) \in Nat /\ Len(frame) \in Nat
        BY <2>2 DEF HasSoupFrame
      <4>. QED BY <2>1, <2>5, <4>1, <4>2
    <3>. QED BY <3>1 DEF SoupDeserialize
  <2>6. Deserialize(f, frame) = SoupDeserialize(frame)
    BY <2>2
  <2>7. IsFrame(f, frame)
    BY <2>3, <2>4, <2>5, <2>6 DEF IsFrame
  <2>. QED BY <2>7 DEF frame
<1>3. Deserialize(f, Part(f, EndOf(f, N), Len(f.bytes))).kind = "wait"
  <2>. DEFINE rest == Part(f, EndOf(f, N), Len(f.bytes))
  <2>1. ~HasSoupFrame(rest)
    BY <1>1 DEF SoupFramed, EndOf, Part
  <2>2. rest \in Seq(Octet)
    <3>1. N \in 0..N /\ Len(f.bytes) <= Len(f.bytes)
      BY <1>1
    <3>. QED BY <1>1, <3>1, PartProperties
  <2>. HIDE DEF rest
  <2>3. Deserialize(f, rest) = SoupDeserialize(rest)
    BY <2>2
  <2>4. Deserialize(f, rest).kind = "wait"
    BY <2>1, <2>3 DEF SoupDeserialize
  <2>. QED BY <2>4 DEF rest
<1>. QED BY <1>1, <1>2, <1>3 DEF IsCutInFrames

\* A SoupBinTCP session is given the messages of the frames its peer sent, in
\* order, whatever the pieces and the drains.
THEOREM SoupReaderGivesFrames ==
    ASSUME \A f \in Feeds : \A view \in Seq(Octet) : Deserialize(f, view) = SoupDeserialize(view),
           \A f \in Feeds : OutcomesOfFrames(f) /\ SoupFramed(f.bytes, f.ends)
    PROVE  RSpec => []FramesMatch
<1>1. TakesWhatIsThere
  BY SoupTakesWhatIsThere DEF TakesWhatIsThere
<1>2. ASSUME NEW f \in Feeds PROVE FramesInOrder(f) /\ TakesWholeFrames(f)
  <2>1. f.bytes \in Seq(Octet)
    BY FeedTypes
  <2>2. IsCutInFrames(f) /\ DecidesInFront(f)
    BY <2>1, SoupCut, SoupDecidesInFront
  <2>3. \A view \in Seq(Octet) : Deserialize(f, view).kind = "wait" => Deserialize(f, view).n = 0
    BY SoupTakesWhatIsThere
  <2>. QED BY <2>1, <2>2, <2>3, CutInOrder, CutIsTaken
<1>. QED BY <1>1, <1>2, ReaderGivesFrames

-----------------------------------------------------------------------------
(* The reader of FIX.                                                      *)

\* Find is the first place of a byte, 0 where there is none.
LEMMA FindFirst ==
    ASSUME NEW s, Len(s) \in Nat, NEW b, NEW from \in Nat
    PROVE  LET n == Find(s, b, from)
           IN  \/ n = 0 /\ \A i \in from..Len(s) : s[i] # b
               \/ n \in from..Len(s) /\ s[n] = b /\ \A i \in from..(n - 1) : s[i] # b
<1>. DEFINE at == {i \in from..Len(s) : s[i] = b}
<1>1. CASE at = {}
  BY <1>1 DEF Find
<1>2. CASE at # {}
  <2>1. at \in SUBSET Nat
    OBVIOUS
  <2>2. PICK x \in at : \A y \in at : x <= y
    <3>. HIDE DEF at
    <3>. QED BY <1>2, <2>1, LeastNat
  <2>3. Find(s, b, from) = Min(at)
    BY <1>2 DEF Find
  <2>4. Min(at) \in at /\ \A y \in at : Min(at) <= y
    <3>. HIDE DEF at
    <3>. QED BY <2>2 DEF Min
  <2>. DEFINE n == Min(at)
  <2>5. n \in from..Len(s) /\ s[n] = b
    BY <2>4
  <2>6. \A i \in from..(n - 1) : s[i] # b
    <3>. SUFFICES ASSUME NEW i \in from..(n - 1), s[i] = b PROVE FALSE
      OBVIOUS
    <3>1. i \in from..Len(s) /\ i < n
      BY <2>5
    <3>2. i \in at
      BY <3>1
    <3>3. n <= i
      BY <2>4, <3>2
    <3>. HIDE DEF n
    <3>. QED BY <2>5, <3>1, <3>3
  <2>. HIDE DEF n
  <2>. QED BY <2>3, <2>5, <2>6 DEF n
<1>. QED BY <1>1, <1>2

\* The place where a byte is found is known by that place.
LEMMA FindAt ==
    ASSUME NEW s, Len(s) \in Nat, NEW b, NEW from \in Nat, from # 0,
           NEW n \in from..Len(s), s[n] = b, \A i \in from..(n - 1) : s[i] # b
    PROVE  Find(s, b, from) = n
<1>. DEFINE m == Find(s, b, from)
<1>1. \/ m = 0 /\ \A i \in from..Len(s) : s[i] # b
      \/ m \in from..Len(s) /\ s[m] = b /\ \A i \in from..(m - 1) : s[i] # b
  BY FindFirst
<1>. HIDE DEF m
<1>2. m \in from..Len(s) /\ s[m] = b /\ \A i \in from..(m - 1) : s[i] # b
  BY <1>1
<1>3. ~(m < n)
  <2>1. m < n => m \in from..(n - 1)
    BY <1>2
  <2>. QED BY <1>2, <2>1
<1>4. ~(n < m)
  <2>1. n < m => n \in from..(m - 1)
    BY <1>2
  <2>. QED BY <1>2, <2>1
<1>. QED BY <1>2, <1>3, <1>4 DEF m

\* What is found stays where it is, whatever follows.
LEMMA FindStands ==
    ASSUME NEW v \in Seq(Octet), NEW w \in Seq(Octet), Begins(v, w),
           NEW b, NEW from \in Nat, from # 0, Find(v, b, from) # 0
    PROVE  /\ Find(w, b, from) = Find(v, b, from)
           /\ Find(v, b, from) \in from..Len(v)
<1>. DEFINE n == Find(v, b, from)
<1>1. n \in from..Len(v) /\ v[n] = b /\ \A i \in from..(n - 1) : v[i] # b
  BY FindFirst
<1>2. Len(v) \in Nat /\ Len(w) \in Nat /\ Len(v) <= Len(w) /\ \A i \in 1..Len(v) : v[i] = w[i]
  BY DEF Begins
<1>. HIDE DEF n
<1>3. n \in from..Len(w) /\ w[n] = b
  BY <1>1, <1>2
<1>4. \A i \in from..(n - 1) : w[i] # b
  <2>1. \A i \in from..(n - 1) : i \in 1..Len(v)
    BY <1>1, <1>2
  <2>. QED BY <1>1, <1>2, <2>1
<1>5. Find(w, b, from) = n
  BY <1>2, <1>3, <1>4, FindAt
<1>. QED BY <1>1, <1>5 DEF n

\* Equal places have equal bytes.
LEMMA SameBytes ==
    ASSUME NEW v \in Seq(Octet), NEW w \in Seq(Octet), Begins(v, w),
           NEW i \in Nat, NEW j \in Nat, 1 <= i, j <= Len(v)
    PROVE  SubSeq(v, i, j) = SubSeq(w, i, j) /\ SubSeq(v, i, j) \in Seq(Octet)
<1>1. Len(v) \in Nat /\ Len(w) \in Nat /\ Len(v) <= Len(w) /\ \A m \in 1..Len(v) : v[m] = w[m]
  BY DEF Begins
<1>2. \A m \in i..j : m \in 1..Len(v) /\ m \in 1..Len(w)
  BY <1>1
<1>3. \A m \in i..j : v[m] \in Octet /\ w[m] \in Octet /\ v[m] = w[m]
  BY <1>1, <1>2
<1>. DEFINE a == SubSeq(v, i, j)
            b == SubSeq(w, i, j)
<1>4. /\ a \in Seq(Octet) /\ Len(a) = IF i <= j THEN j - i + 1 ELSE 0
      /\ \A m \in 1..(j - i + 1) : a[m] = v[i + m - 1]
  BY <1>3, SubSeqProperties
<1>5. /\ b \in Seq(Octet) /\ Len(b) = IF i <= j THEN j - i + 1 ELSE 0
      /\ \A m \in 1..(j - i + 1) : b[m] = w[i + m - 1]
  BY <1>3, SubSeqProperties
<1>. HIDE DEF a, b
<1>6. Len(a) = Len(b)
  BY <1>4, <1>5
<1>7. ASSUME NEW m \in 1..Len(a) PROVE a[m] = b[m]
  <2>1. m \in 1..(j - i + 1)
    BY <1>4
  <2>2. i + m - 1 \in i..j
    BY <2>1
  <2>. QED BY <1>3, <1>4, <1>5, <2>1, <2>2
<1>8. a = b
  BY <1>4, <1>5, <1>6, <1>7, SeqEqual
<1>. QED BY <1>4, <1>8 DEF a, b

\* The type that has been seen is still there.
LEMMA TypeSeen ==
    ASSUME NEW w \in Seq(Octet), NEW i \in 1..(Len(w) - 2), SubSeq(w, i, i + 2) = <<51, 53, EQ>>
    PROVE  TypePosition(w) # 0
<1>. DEFINE at == {n \in 1..(Len(w) - 2) : SubSeq(w, n, n + 2) = <<51, 53, EQ>>}
<1>1. at \in SUBSET Nat /\ i \in at
  OBVIOUS
<1>2. TypePosition(w) = Min(at)
  BY <1>1 DEF TypePosition
<1>3. \A n \in at : n # 0
  OBVIOUS
<1>. HIDE DEF at
<1>4. PICK x \in at : \A y \in at : x <= y
  BY <1>1, LeastNat
<1>5. Min(at) \in at
  BY <1>4 DEF Min
<1>. QED BY <1>2, <1>3, <1>5

LEMMA TypeStands ==
    ASSUME NEW v \in Seq(Octet), NEW w \in Seq(Octet), Begins(v, w), TypePosition(v) # 0
    PROVE  TypePosition(w) # 0
<1>1. PICK i \in 1..(Len(v) - 2) : SubSeq(v, i, i + 2) = <<51, 53, EQ>>
  BY DEF TypePosition
<1>2. Len(v) \in Nat /\ Len(w) \in Nat /\ Len(v) <= Len(w)
  BY DEF Begins
<1>3. i \in Nat /\ i + 2 \in Nat /\ 1 <= i /\ i + 2 <= Len(v) /\ i \in 1..(Len(w) - 2)
  BY <1>2
<1>4. SubSeq(w, i, i + 2) = SubSeq(v, i, i + 2)
  BY <1>3, SameBytes
<1>. QED BY <1>1, <1>3, <1>4, TypeSeen

\* Nor does the length change that has been read.
LEMMA HeadingStands ==
    ASSUME NEW v \in Seq(Octet), NEW w \in Seq(Octet), Begins(v, w), HasHeading(v)
    PROVE  /\ HasHeading(w) /\ LengthText(w) = LengthText(v) /\ FrameLength(w) = FrameLength(v)
           /\ LengthText(v) \in Seq(Octet) /\ LengthEnd(v) \in Nat /\ LengthEnd(v) # 0
<1>1. TypePosition(w) # 0
  BY TypeStands DEF HasHeading
<1>2. /\ LengthStart(w) = LengthStart(v) /\ LengthStart(v) \in 3..Len(v)
  <2>1. Find(v, EQ, 3) # 0
    BY DEF HasHeading, LengthStart
  <2>. QED BY <2>1, FindStands DEF LengthStart
<1>3. Len(v) \in Nat /\ LengthStart(v) \in Nat /\ LengthStart(v) # 0
  BY <1>2
<1>4. LengthEnd(w) = LengthEnd(v) /\ LengthEnd(v) \in LengthStart(v)..Len(v)
  <2>1. Find(v, SOH, LengthStart(v)) # 0
    BY DEF HasHeading, LengthEnd
  <2>2. /\ Find(w, SOH, LengthStart(v)) = Find(v, SOH, LengthStart(v))
        /\ Find(v, SOH, LengthStart(v)) \in LengthStart(v)..Len(v)
    BY <1>3, <2>1, FindStands
  <2>. QED BY <1>2, <2>2 DEF LengthEnd
<1>5. LengthText(w) = LengthText(v) /\ LengthText(v) \in Seq(Octet)
  <2>1. /\ LengthStart(v) + 1 \in Nat /\ LengthEnd(v) - 1 \in Nat
        /\ 1 <= LengthStart(v) + 1 /\ LengthEnd(v) - 1 <= Len(v)
    BY <1>2, <1>3, <1>4
  <2>2. /\ SubSeq(v, LengthStart(v) + 1, LengthEnd(v) - 1) = SubSeq(w, LengthStart(v) + 1, LengthEnd(v) - 1)
        /\ SubSeq(v, LengthStart(v) + 1, LengthEnd(v) - 1) \in Seq(Octet)
    BY <2>1, SameBytes
  <2>. QED BY <1>2, <1>4, <2>2 DEF LengthText
<1>6. FrameLength(w) = FrameLength(v)
  BY <1>4, <1>5 DEF FrameLength
<1>7. HasHeading(w)
  BY <1>1, <1>2, <1>4 DEF HasHeading
<1>. QED BY <1>2, <1>3, <1>4, <1>5, <1>6, <1>7

\* A view begins with itself, so that the length it says is a number.
LEMMA FrameLengthType ==
    ASSUME NEW v \in Seq(Octet), HasHeading(v), IsNumber(LengthText(v))
    PROVE  FrameLength(v) \in Nat /\ FrameLength(v) > 7
<1>1. Begins(v, v)
  BY DEF Begins
<1>2. LengthText(v) \in Seq(Octet) /\ LengthEnd(v) \in Nat /\ LengthEnd(v) # 0
  BY <1>1, HeadingStands
<1>3. Number(LengthText(v)) \in Nat
  BY <1>2, NumberType
<1>. HIDE DEF FrameLength
<1>. QED BY <1>2, <1>3 DEF FrameLength, TRAILER_LENGTH

\* A whole frame is one whatever follows it, of the same bytes.
LEMMA FixFrameStands ==
    ASSUME NEW v \in Seq(Octet), NEW w \in Seq(Octet), Begins(v, w), HasFixFrame(v)
    PROVE  /\ HasFixFrame(w) /\ FrameLength(w) = FrameLength(v)
           /\ Prefix(w, FrameLength(v)) = Prefix(v, FrameLength(v))
<1>1. HasHeading(v) /\ IsNumber(LengthText(v)) /\ FrameLength(v) <= Len(v)
  BY DEF HasFixFrame
<1>2. FrameLength(v) \in Nat
  BY <1>1, FrameLengthType
<1>3. Len(v) \in Nat /\ Len(w) \in Nat /\ Len(v) <= Len(w)
  BY DEF Begins
<1>4. HasFixFrame(w) /\ FrameLength(w) = FrameLength(v)
  <2>1. HasHeading(w) /\ LengthText(w) = LengthText(v) /\ FrameLength(w) = FrameLength(v)
    BY <1>1, HeadingStands
  <2>2. FrameLength(w) <= Len(w)
    BY <1>1, <1>2, <1>3, <2>1
  <2>. QED BY <1>1, <2>1, <2>2 DEF HasFixFrame
<1>. DEFINE n == FrameLength(v)
<1>5. Prefix(v, n) = SubSeq(v, 1, n) /\ Prefix(w, n) = SubSeq(w, 1, n)
  <2>1. n \in Nat /\ n <= Len(v) /\ n <= Len(w)
    BY <1>1, <1>2, <1>3
  <2>. HIDE DEF n
  <2>2. /\ (IF n < Len(v) THEN n ELSE Len(v)) = n /\ (IF n < Len(w) THEN n ELSE Len(w)) = n
    BY <1>3, <2>1
  <2>. QED BY <2>2 DEF Prefix
<1>6. SubSeq(v, 1, n) = SubSeq(w, 1, n)
  <2>1. 1 \in Nat /\ 1 <= 1 /\ n \in Nat /\ n <= Len(v)
    BY <1>1, <1>2
  <2>. HIDE DEF n
  <2>. QED BY <2>1, SameBytes
<1>. QED BY <1>4, <1>5, <1>6

\* deserialize() of FixMessageReader, where D says what the bytes of a frame
\* are decoded to.
ReadsFix(f, D) ==
    \A view \in Seq(Octet) : Deserialize(f, view) = FixRead(view, D[Prefix(view, FrameLength(view))])

LEMMA ReceivedIs ==
    ASSUME NEW m, NEW length
    PROVE  /\ Received(m, length).kind # "wait"
           /\ Received(m, length).n = IF Received(m, length).kind = "raise" THEN 0 ELSE length
<1>1. CASE m = FixInvalid
  BY <1>1 DEF Received, Nothing
<1>2. CASE m # FixInvalid
  BY <1>2 DEF Received
<1>. QED BY <1>1, <1>2

\* What becomes of a view: it holds a frame, or a length that is none, or is
\* too short.
LEMMA FixReadIs ==
    ASSUME NEW view, NEW m
    PROVE  /\ HasFixFrame(view) => FixRead(view, m) = Received(m, FrameLength(view))
           /\ ~HasFixFrame(view) =>
                FixRead(view, m) = Nothing(IF HasHeading(view) /\ ~IsNumber(LengthText(view))
                                           THEN "raise" ELSE "wait")
BY DEF FixRead

LEMMA FixTakesWhatIsThere ==
    ASSUME NEW view \in Seq(Octet), NEW m
    PROVE  /\ FixRead(view, m).n \in 0..Len(view)
           /\ FixRead(view, m).kind = "wait" => FixRead(view, m).n = 0
<1>0. Len(view) \in Nat
  OBVIOUS
<1>1. CASE HasFixFrame(view)
  <2>1. FrameLength(view) \in 0..Len(view)
    BY <1>0, <1>1, FrameLengthType DEF HasFixFrame
  <2>. QED BY <1>0, <1>1, <2>1, FixReadIs, ReceivedIs
<1>2. CASE ~HasFixFrame(view)
  <2>1. FixRead(view, m).n = 0
    BY <1>2, FixReadIs DEF Nothing
  <2>. QED BY <1>0, <2>1
<1>. QED BY <1>1, <1>2

\* The reader of FIX keeps every byte.
THEOREM FixReaderIsExact ==
    ASSUME NEW D, \A f \in Feeds : ReadsFix(f, D)
    PROVE  RSpec => []ReaderInv
<1>1. TakesWhatIsThere
  BY FixTakesWhatIsThere DEF TakesWhatIsThere, ReadsFix
<1>. QED BY <1>1, ReaderIsExact

LEMMA FixDecidesInFront ==
    ASSUME NEW D, NEW f, ReadsFix(f, D)
    PROVE  DecidesInFront(f)
<1>. DEFINE Of(v) == D[Prefix(v, FrameLength(v))]
<1>1. SUFFICES ASSUME NEW v \in Seq(Octet), NEW w \in Seq(Octet), Begins(v, w),
                      FixRead(v, Of(v)).kind # "wait"
               PROVE  FixRead(w, Of(w)) = FixRead(v, Of(v))
  BY DEF DecidesInFront, ReadsFix
<1>2. CASE HasFixFrame(v)
  <2>1. HasFixFrame(w) /\ FrameLength(w) = FrameLength(v) /\ Of(w) = Of(v)
    BY <1>1, <1>2, FixFrameStands
  <2>. HIDE DEF Of
  <2>. QED BY <1>2, <2>1, FixReadIs
<1>3. CASE ~HasFixFrame(v)
  <2>. HIDE DEF Of
  <2>1. HasHeading(v) /\ ~IsNumber(LengthText(v))
    BY <1>1, <1>3, FixReadIs DEF Nothing
  <2>2. HasHeading(w) /\ ~IsNumber(LengthText(w))
    BY <1>1, <2>1, HeadingStands
  <2>3. ~HasFixFrame(w)
    BY <2>2 DEF HasFixFrame
  <2>. QED BY <1>3, <2>1, <2>2, <2>3, FixReadIs
<1>. QED BY <1>2, <1>3

LEMMA FixCut ==
    ASSUME NEW D, NEW f, ReadsFix(f, D), f.bytes \in Seq(Octet), FixFramed(f.bytes, f.ends)
    PROVE  IsCutInFrames(f)
<1>. DEFINE N == Len(f.ends)
            Of(v) == D[Prefix(v, FrameLength(v))]
<1>1. /\ f.ends \in Seq(Nat) /\ N \in Nat /\ Len(f.bytes) \in Nat
      /\ \A k \in 0..N : EndOf(f, k) \in Nat /\ EndOf(f, k) <= Len(f.bytes)
  BY DEF FixFramed, EndOf
<1>2. \A v \in Seq(Octet) : Deserialize(f, v) = FixRead(v, Of(v))
  BY DEF ReadsFix
<1>. HIDE DEF Of
<1>3. ASSUME NEW k \in 1..N PROVE IsFrame(f, Part(f, EndOf(f, k - 1), EndOf(f, k)))
  <2>. DEFINE frame == Part(f, EndOf(f, k - 1), EndOf(f, k))
  <2>1. HasFixFrame(frame) /\ FrameLength(frame) = Len(frame)
    BY <1>1 DEF FixFramed, EndOf, Part
  <2>2. frame \in Seq(Octet)
    <3>1. k - 1 \in 0..N /\ k \in 0..N
      BY <1>1
    <3>. QED BY <1>1, <3>1, PartProperties
  <2>. HIDE DEF frame
  <2>3. frame # <<>>
    <3>1. Len(frame) > 7
      BY <2>1, <2>2, FrameLengthType DEF HasFixFrame
    <3>2. Len(<<>>) = 0
      OBVIOUS
    <3>. QED BY <3>1, <3>2
  <2>4. /\ Deserialize(f, frame).kind # "wait"
        /\ Deserialize(f, frame).n = IF Deserialize(f, frame).kind = "raise" THEN 0 ELSE Len(frame)
    BY <1>2, <2>1, <2>2, FixReadIs, ReceivedIs
  <2>5. ASSUME NEW v \in Seq(Octet), Begins(v, frame), Len(v) < Len(frame)
        PROVE  Deserialize(f, v).kind = "wait"
    <3>1. ~HasFixFrame(v)
      <4>. SUFFICES ASSUME HasFixFrame(v) PROVE FALSE
        OBVIOUS
      <4>1. FrameLength(frame) = FrameLength(v)
        BY <2>2, <2>5, FixFrameStands
      <4>2. FrameLength(v) <= Len(v) /\ FrameLength(v) \in Nat /\ Len(v) \in Nat /\ Len(frame) \in Nat
        BY <2>2, FrameLengthType DEF HasFixFrame
      <4>. QED BY <2>1, <2>5, <4>1, <4>2
    <3>2. ~(HasHeading(v) /\ ~IsNumber(LengthText(v)))
      BY <2>1, <2>2, <2>5, HeadingStands DEF HasFixFrame
    <3>. QED BY <1>2, <3>1, <3>2, FixReadIs DEF Nothing
  <2>6. IsFrame(f, frame)
    BY <2>3, <2>4, <2>5 DEF IsFrame
  <2>. QED BY <2>6 DEF frame
<1>4. Deserialize(f, Part(f, EndOf(f, N), Len(f.bytes))).kind = "wait"
  <2>. DEFINE rest == Part(f, EndOf(f, N), Len(f.bytes))
  <2>1. FixRead(rest, FixInvalid).kind = "wait"
    BY <1>1 DEF FixFramed, EndOf, Part
  <2>2. rest \in Seq(Octet)
    <3>1. N \in 0..N /\ Len(f.bytes) <= Len(f.bytes)
      BY <1>1
    <3>. QED BY <1>1, <3>1, PartProperties
  <2>. HIDE DEF rest
  <2>3. ~HasFixFrame(rest)
    BY <2>1, FixReadIs, ReceivedIs
  <2>4. ~(HasHeading(rest) /\ ~IsNumber(LengthText(rest)))
    BY <2>1, <2>3, FixReadIs DEF Nothing
  <2>5. Deserialize(f, rest).kind = "wait"
    BY <1>2, <2>2, <2>3, <2>4, FixReadIs DEF Nothing
  <2>. QED BY <2>5 DEF rest
<1>. QED BY <1>1, <1>3, <1>4 DEF IsCutInFrames

\* A FIX session is given the messages of the frames its peer sent, in order,
\* whatever the pieces and the drains, and whatever a frame is decoded to.
THEOREM FixReaderGivesFrames ==
    ASSUME NEW D, \A f \in Feeds : ReadsFix(f, D),
           \A f \in Feeds : OutcomesOfFrames(f) /\ FixFramed(f.bytes, f.ends)
    PROVE  RSpec => []FramesMatch
<1>1. TakesWhatIsThere
  BY FixTakesWhatIsThere DEF TakesWhatIsThere, ReadsFix
<1>2. ASSUME NEW f \in Feeds PROVE FramesInOrder(f) /\ TakesWholeFrames(f)
  <2>1. f.bytes \in Seq(Octet)
    BY FeedTypes
  <2>2. IsCutInFrames(f) /\ DecidesInFront(f)
    BY <2>1, FixCut, FixDecidesInFront
  <2>3. \A view \in Seq(Octet) : Deserialize(f, view).kind = "wait" => Deserialize(f, view).n = 0
    BY FixTakesWhatIsThere DEF ReadsFix
  <2>. QED BY <2>1, <2>2, <2>3, CutInOrder, CutIsTaken
<1>. QED BY <1>1, <1>2, ReaderGivesFrames

-----------------------------------------------------------------------------
(* What FixSession sends is a frame for it.                                *)

\* f writes the numbers up to n.
IsDecimal(f, n) ==
    f = [k \in 0..n |-> IF k < 10 THEN <<48 + k>> ELSE Append(f[k \div 10], 48 + (k % 10))]

LEMMA DecimalExists == \A n \in Nat : \E f : IsDecimal(f, n)
<1>. DEFINE T == {n \in Nat : \E f : IsDecimal(f, n)}
<1>1. 0 \in T
  <2>1. IsDecimal([k \in 0..0 |-> <<48 + k>>], 0)
    BY DEF IsDecimal
  <2>. QED BY <2>1
<1>2. ASSUME NEW n \in Nat, n \in T PROVE n + 1 \in T
  <2>1. PICK f : IsDecimal(f, n)
    BY <1>2
  <2>. DEFINE last == IF n + 1 < 10 THEN <<48 + (n + 1)>>
                      ELSE Append(f[(n + 1) \div 10], 48 + ((n + 1) % 10))
              g == [k \in 0..(n + 1) |-> IF k = n + 1 THEN last ELSE f[k]]
  <2>2. ASSUME NEW k \in 0..(n + 1)
        PROVE  g[k] = IF k < 10 THEN <<48 + k>> ELSE Append(g[k \div 10], 48 + (k % 10))
    <3>0. k \in Nat /\ (k >= 10 => k \div 10 \in 0..n)
      OBVIOUS
    <3>1. CASE k = n + 1
      <4>1. g[k] = last
        BY <3>1
      <4>2. k >= 10 => g[k \div 10] = f[k \div 10]
        <5>. DEFINE j == k \div 10
        <5>. SUFFICES ASSUME k >= 10 PROVE g[j] = f[j]
          OBVIOUS
        <5>1. j \in 0..n
          BY <3>0
        <5>. HIDE DEF j
        <5>2. j \in 0..(n + 1) /\ j # n + 1
          BY <5>1
        <5>. QED BY <5>2
      <4>. HIDE DEF g
      <4>. QED BY <3>0, <3>1, <4>1, <4>2
    <3>2. CASE k # n + 1
      <4>1. k \in 0..n /\ g[k] = f[k]
        BY <3>2
      <4>2. f[k] = IF k < 10 THEN <<48 + k>> ELSE Append(f[k \div 10], 48 + (k % 10))
        BY <2>1, <4>1 DEF IsDecimal
      <4>3. k >= 10 => g[k \div 10] = f[k \div 10]
        <5>. DEFINE j == k \div 10
        <5>. SUFFICES ASSUME k >= 10 PROVE g[j] = f[j]
          OBVIOUS
        <5>1. j \in 0..n
          BY <3>0
        <5>. HIDE DEF j
        <5>2. j \in 0..(n + 1) /\ j # n + 1
          BY <5>1
        <5>. QED BY <5>2
      <4>. HIDE DEF g
      <4>. QED BY <3>0, <4>1, <4>2, <4>3
    <3>. QED BY <3>1, <3>2
  <2>3. g = [k \in 0..(n + 1) |-> g[k]]
    OBVIOUS
  <2>. HIDE DEF g
  <2>4. IsDecimal(g, n + 1)
    BY <2>2, <2>3 DEF IsDecimal
  <2>. QED BY <2>4
<1>. HIDE DEF T
<1>3. \A n \in Nat : n \in T
  BY <1>1, <1>2, SetInduction
<1>. QED BY <1>3 DEF T

LEMMA DecimalIs ==
    ASSUME NEW n \in Nat
    PROVE  \E f : IsDecimal(f, n) /\ Decimal(n) = f[n]
<1>. DEFINE f == CHOOSE h : h = [k \in 0..n |->
                     IF k < 10 THEN <<48 + k>> ELSE Append(h[k \div 10], 48 + (k % 10))]
<1>1. Decimal(n) = f[n]
  BY DEF Decimal
<1>2. PICK g : IsDecimal(g, n)
  BY DecimalExists
<1>3. IsDecimal(f, n)
  BY <1>2, Zenon DEF IsDecimal
<1>. QED BY <1>1, <1>3

\* A text of digits that a number is read from.
Writes(s, k) == s \in Seq(48..57) /\ s # <<>> /\ Number(s) = k

LEMMA DecimalReads ==
    ASSUME NEW n \in Nat
    PROVE  Writes(Decimal(n), n)
<1>1. PICK f : IsDecimal(f, n) /\ Decimal(n) = f[n]
  BY DecimalIs
<1>. DEFINE T == {k \in Nat : \A j \in 0..k : j <= n => Writes(f[j], j)}
<1>2. ASSUME NEW k \in 0..n, k < 10 PROVE Writes(f[k], k)
  <2>1. f[k] = <<48 + k>> /\ 48 + k \in 48..57 /\ 48 + k \in Nat
    BY <1>1, <1>2 DEF IsDecimal
  <2>2. Number(<<48 + k>>) = (48 + k) - 48
    BY <2>1, PositionalOne DEF Number
  <2>. QED BY <2>1, <2>2 DEF Writes
<1>3. ASSUME NEW k \in 0..n, k >= 10, Writes(f[k \div 10], k \div 10)
      PROVE  Writes(f[k], k)
  <2>. DEFINE j == k \div 10
              d == 48 + (k % 10)
  <2>1. f[k] = Append(f[j], d)
    <3>1. f[k] = IF k < 10 THEN <<48 + k>> ELSE Append(f[j], d)
      BY <1>1 DEF IsDecimal
    <3>2. ~(k < 10)
      BY <1>3
    <3>. QED BY <3>1, <3>2, Zenon
  <2>2. d \in 48..57 /\ k = 10 * j + (d - 48) /\ j \in Nat
    BY <1>3
  <2>3. f[j] \in Seq(48..57) /\ Number(f[j]) = j
    BY <1>3 DEF Writes
  <2>. HIDE DEF j, d
  <2>4. f[j] \in Seq(Nat) /\ d \in Nat
    BY <2>2, <2>3
  <2>5. Number(Append(f[j], d)) = 10 * Number(f[j]) + (d - 48)
    BY <2>4, PositionalAppend DEF Number
  <2>6. Append(f[j], d) \in Seq(48..57) /\ Append(f[j], d) # <<>>
    BY <2>2, <2>3
  <2>. QED BY <2>1, <2>2, <2>3, <2>5, <2>6 DEF Writes
<1>4. 0 \in T
  <2>1. 0 \in 0..n /\ 0 < 10 /\ \A j \in 0..0 : j = 0
    OBVIOUS
  <2>. QED BY <1>2, <2>1
<1>5. ASSUME NEW k \in Nat, k \in T PROVE k + 1 \in T
  <2>. SUFFICES ASSUME NEW j \in 0..(k + 1), j <= n PROVE Writes(f[j], j)
    OBVIOUS
  <2>1. CASE j \in 0..k
    BY <1>5, <2>1
  <2>2. CASE j = k + 1
    <3>1. j \in 0..n
      OBVIOUS
    <3>2. CASE j < 10
      BY <1>2, <3>1, <3>2
    <3>3. CASE j >= 10
      <4>. DEFINE i == j \div 10
      <4>1. i \in 0..k /\ i <= n
        BY <2>2, <3>3
      <4>. HIDE DEF i
      <4>2. Writes(f[i], i)
        BY <1>5, <4>1
      <4>. QED BY <1>3, <3>1, <3>3, <4>2 DEF i
    <3>. QED BY <3>1, <3>2, <3>3
  <2>. QED BY <2>1, <2>2
<1>. HIDE DEF T
<1>6. n \in T
  BY <1>4, <1>5, SetInduction
<1>7. n \in 0..n /\ n <= n
  OBVIOUS
<1>. QED BY <1>1, <1>6, <1>7 DEF T

\* How long the text of a small number is.
LEMMA DecimalShort ==
    ASSUME NEW n \in Nat
    PROVE  /\ n < 10 => Decimal(n) = <<48 + n>>
           /\ n \in 10..99 => /\ Len(Decimal(n)) = 2
                              /\ Decimal(n)[1] = 48 + (n \div 10) /\ Decimal(n)[2] = 48 + (n % 10)
           /\ n < 1000 => Len(Decimal(n)) \in 1..3
<1>1. PICK f : IsDecimal(f, n) /\ Decimal(n) = f[n]
  BY DecimalIs
<1>2. ASSUME NEW k \in 0..n
      PROVE  f[k] = IF k < 10 THEN <<48 + k>> ELSE Append(f[k \div 10], 48 + (k % 10))
  BY <1>1 DEF IsDecimal
<1>3. \A k \in 0..n : k < 10 => f[k] = <<48 + k>>
  BY <1>2
<1>4. ASSUME NEW k \in 0..n, k \in 10..99
      PROVE  /\ Len(f[k]) = 2 /\ f[k] \in Seq(Nat)
             /\ f[k][1] = 48 + (k \div 10) /\ f[k][2] = 48 + (k % 10)
  <2>. DEFINE j == k \div 10
              d == 48 + (k % 10)
  <2>1. j \in 0..n /\ j < 10 /\ d \in Nat
    BY <1>4
  <2>2. f[k] = Append(f[j], d)
    <3>1. f[k] = IF k < 10 THEN <<48 + k>> ELSE Append(f[j], d)
      BY <1>2
    <3>2. ~(k < 10)
      BY <1>4
    <3>. QED BY <3>1, <3>2, Zenon
  <2>. HIDE DEF j, d
  <2>3. f[k] = Append(<<48 + j>>, d)
    BY <1>3, <2>1, <2>2
  <2>4. \A a, b \in Nat : LET s == Append(<<a>>, b)
                          IN  Len(s) = 2 /\ s \in Seq(Nat) /\ s[1] = a /\ s[2] = b
    OBVIOUS
  <2>5. Len(f[k]) = 2 /\ f[k] \in Seq(Nat) /\ f[k][1] = 48 + j /\ f[k][2] = d
    BY <2>1, <2>3, <2>4
  <2>. QED BY <2>5 DEF j, d
<1>5. ASSUME n \in 100..999 PROVE Len(f[n]) = 3
  <2>. DEFINE j == n \div 10
              d == 48 + (n % 10)
  <2>1. j \in 0..n /\ j \in 10..99
    BY <1>5
  <2>2. f[n] = Append(f[j], d)
    <3>1. f[n] = IF n < 10 THEN <<48 + n>> ELSE Append(f[j], d)
      BY <1>2
    <3>2. ~(n < 10)
      BY <1>5
    <3>. QED BY <3>1, <3>2, Zenon
  <2>. HIDE DEF j, d
  <2>3. Len(f[j]) = 2 /\ f[j] \in Seq(Nat)
    BY <1>4, <2>1
  <2>4. d \in Nat
    BY DEF d
  <2>5. \A s \in Seq(Nat) : \A e \in Nat : Len(Append(s, e)) = Len(s) + 1
    OBVIOUS
  <2>6. Len(Append(f[j], d)) = Len(f[j]) + 1
    BY <2>3, <2>4, <2>5
  <2>7. Len(Append(f[j], d)) = 3
    BY <2>3, <2>6
  <2>. QED BY <2>2, <2>7, Zenon
<1>6. n \in 0..n
  OBVIOUS
<1>7. n < 1000 => n < 10 \/ n \in 10..99 \/ n \in 100..999
  OBVIOUS
<1>8. \A a, b : Len(<<a>>) = 1 /\ Len(<<a, b>>) = 2
  OBVIOUS
<1>9. n < 1000 => Len(f[n]) \in 1..3
  <2>1. CASE n < 10
    BY <1>3, <1>6, <1>8, <2>1
  <2>2. CASE n \in 10..99
    <3>1. Len(f[n]) = 2
      BY <1>4, <1>6, <2>2
    <3>. QED BY <3>1
  <2>3. CASE n \in 100..999
    BY <1>5, <2>3
  <2>. QED BY <1>7, <2>1, <2>2, <2>3
<1>. QED BY <1>1, <1>3, <1>4, <1>6, <1>9

\* Where the elements of a concatenation are.
LEMMA Joined ==
    ASSUME NEW x \in Seq(Octet), NEW y \in Seq(Octet)
    PROVE  /\ x \o y \in Seq(Octet) /\ Len(x \o y) = Len(x) + Len(y)
           /\ \A i \in 1..Len(x) : (x \o y)[i] = x[i]
           /\ \A i \in 1..Len(y) : (x \o y)[Len(x) + i] = y[i]
           /\ Begins(x, x \o y)
<1>1. /\ x \o y \in Seq(Octet) /\ Len(x \o y) = Len(x) + Len(y) /\ Len(x) \in Nat /\ Len(y) \in Nat
      /\ \A i \in 1..(Len(x) + Len(y)) : (x \o y)[i] = IF i <= Len(x) THEN x[i] ELSE y[i - Len(x)]
  BY ConcatProperties
<1>2. \A i \in 1..Len(x) : (x \o y)[i] = x[i]
  BY <1>1
<1>3. ASSUME NEW i \in 1..Len(y) PROVE (x \o y)[Len(x) + i] = y[i]
  <2>1. /\ Len(x) + i \in 1..(Len(x) + Len(y)) /\ ~(Len(x) + i <= Len(x))
        /\ (Len(x) + i) - Len(x) = i
    BY <1>1
  <2>. QED BY <1>1, <2>1
<1>. QED BY <1>1, <1>2, <1>3 DEF Begins

LEMMA BeginsTransitive ==
    ASSUME NEW x \in Seq(Octet), NEW y \in Seq(Octet), NEW z \in Seq(Octet), Begins(x, y), Begins(y, z)
    PROVE  Begins(x, z)
<1>1. Len(x) \in Nat /\ Len(y) \in Nat /\ Len(z) \in Nat
  OBVIOUS
<1>. QED BY <1>1 DEF Begins

LEMMA OneByte ==
    ASSUME NEW b \in Octet
    PROVE  <<b>> \in Seq(Octet) /\ Len(<<b>>) = 1 /\ <<b>>[1] = b
OBVIOUS

LEMMA Separators == SOH \in Octet /\ EQ \in Octet /\ SOH # EQ
BY DEF SOH, EQ, Octet

LEMMA DecimalType ==
    ASSUME NEW n \in Nat
    PROVE  Decimal(n) \in Seq(48..57) /\ Decimal(n) \in Seq(Octet) /\ Len(Decimal(n)) \in Nat
<1>1. Decimal(n) \in Seq(48..57)
  BY DecimalReads DEF Writes
<1>2. \A s \in Seq(48..57) : s \in Seq(Octet) /\ Len(s) \in Nat
  BY DEF Octet
<1>. QED BY <1>1, <1>2

\* The tag, the sign, the text.
LEMMA TagValueIs ==
    ASSUME NEW tag \in Nat, NEW text \in Seq(Octet)
    PROVE  LET t == Decimal(tag)
               a == TagValue(tag, text)
           IN  /\ a \in Seq(Octet) /\ Len(a) = Len(t) + 1 + Len(text) /\ t \in Seq(Octet) /\ Len(t) \in Nat
               /\ \A i \in 1..Len(t) : a[i] = t[i]
               /\ a[Len(t) + 1] = EQ
               /\ \A i \in 1..Len(text) : a[Len(t) + 1 + i] = text[i]
<1>. DEFINE t == Decimal(tag)
            u == t \o <<EQ>>
            a == u \o text
<1>1. t \in Seq(Octet) /\ Len(t) \in Nat /\ Len(text) \in Nat
  <2>1. t \in Seq(Octet) /\ Len(t) \in Nat
    BY DecimalType
  <2>2. Len(text) \in Nat
    OBVIOUS
  <2>. QED BY <2>1, <2>2
<1>. HIDE DEF t
<1>2. <<EQ>> \in Seq(Octet) /\ Len(<<EQ>>) = 1 /\ <<EQ>>[1] = EQ
  BY Separators, OneByte
<1>3. /\ u \in Seq(Octet) /\ Len(u) = Len(t) + 1
      /\ \A i \in 1..Len(t) : u[i] = t[i]
      /\ u[Len(t) + 1] = EQ
  <2>1. /\ u \in Seq(Octet) /\ Len(u) = Len(t) + Len(<<EQ>>)
        /\ \A i \in 1..Len(t) : u[i] = t[i]
        /\ \A i \in 1..Len(<<EQ>>) : u[Len(t) + i] = <<EQ>>[i]
    BY <1>1, <1>2, Joined
  <2>2. 1 \in 1..Len(<<EQ>>)
    BY <1>2
  <2>. QED BY <1>2, <2>1, <2>2
<1>. HIDE DEF u
<1>4. /\ a \in Seq(Octet) /\ Len(a) = Len(u) + Len(text)
      /\ \A i \in 1..Len(u) : a[i] = u[i]
      /\ \A i \in 1..Len(text) : a[Len(u) + i] = text[i]
  BY <1>3, Joined
<1>5. Len(t) + 1 \in 1..Len(u) /\ \A i \in 1..Len(t) : i \in 1..Len(u)
  BY <1>1, <1>3
<1>6. TagValue(tag, text) = a
  BY DEF TagValue, a, u, t
<1>. HIDE DEF a
<1>7. /\ a \in Seq(Octet) /\ Len(a) = Len(t) + 1 + Len(text)
      /\ \A i \in 1..Len(t) : a[i] = t[i]
      /\ a[Len(t) + 1] = EQ
      /\ \A i \in 1..Len(text) : a[Len(t) + 1 + i] = text[i]
  BY <1>1, <1>3, <1>4, <1>5
<1>. QED BY <1>1, <1>6, <1>7 DEF t

\* In front are the version and the length, each of them found.
HeadingParts(bs, body) ==
    LET h == Heading(body, bs)
        d == Decimal(Len(body))
    IN  /\ h \in Seq(Octet) /\ Len(h) = 6 + Len(bs) + Len(d)
        /\ d \in Seq(Octet) /\ Len(d) \in Nat
        /\ Find(h, EQ, 3) = 5 + Len(bs) /\ Find(h, SOH, 5 + Len(bs)) = Len(h)
        /\ \A i \in 1..Len(d) : h[5 + Len(bs) + i] = d[i]
        /\ h[4 + Len(bs)] = 57 /\ h[Len(h)] = SOH
        /\ \A i \in 3..(4 + Len(bs)) : h[i] # EQ

LEMMA HeadingIs ==
    ASSUME NEW bs \in Seq(Octet), \A i \in 1..Len(bs) : bs[i] # EQ, NEW body \in Seq(Octet)
    PROVE  HeadingParts(bs, body)
<1>. DEFINE d == Decimal(Len(body))
            a == TagValue(BEGIN_STRING_FIELD, bs)
            b == TagValue(BODY_LEN_FIELD, d)
            front == a \o <<SOH>>
            most == front \o b
            h == most \o <<SOH>>
<1>1. Len(body) \in Nat /\ Len(bs) \in Nat
  OBVIOUS
<1>2. d \in Seq(48..57) /\ Len(d) \in Nat /\ d \in Seq(Octet)
  BY <1>1, DecimalType
<1>3. <<SOH>> \in Seq(Octet) /\ Len(<<SOH>>) = 1 /\ <<SOH>>[1] = SOH
  BY Separators, OneByte
<1>4. /\ a \in Seq(Octet) /\ Len(a) = 2 + Len(bs) /\ \A i \in 1..Len(bs) : a[2 + i] = bs[i]
  <2>1. Decimal(8) = <<48 + 8>> /\ Len(Decimal(8)) = 1
    BY DecimalShort
  <2>2. /\ a \in Seq(Octet) /\ Len(a) = Len(Decimal(8)) + 1 + Len(bs)
        /\ \A i \in 1..Len(bs) : a[Len(Decimal(8)) + 1 + i] = bs[i]
    BY TagValueIs DEF BEGIN_STRING_FIELD
  <2>. HIDE DEF a
  <2>3. ASSUME NEW i \in 1..Len(bs) PROVE a[2 + i] = bs[i]
    <3>1. a[Len(Decimal(8)) + 1 + i] = bs[i]
      BY <2>2
    <3>2. 1 + 1 + i = 2 + i
      BY <1>1
    <3>. QED BY <2>1, <3>1, <3>2
  <2>4. Len(a) = 2 + Len(bs)
    <3>1. Len(a) = 1 + 1 + Len(bs)
      BY <2>1, <2>2, Zenon
    <3>. QED BY <1>1, <3>1
  <2>. QED BY <2>2, <2>3, <2>4
<1>5. /\ b \in Seq(Octet) /\ Len(b) = 2 + Len(d) /\ b[1] = 57 /\ b[2] = EQ
      /\ \A i \in 1..Len(d) : b[2 + i] = d[i]
  <2>1. Decimal(9) = <<48 + 9>> /\ Len(Decimal(9)) = 1 /\ Decimal(9)[1] = 57
    BY DecimalShort
  <2>. HIDE DEF d
  <2>2. /\ b \in Seq(Octet) /\ Len(b) = Len(Decimal(9)) + 1 + Len(d)
        /\ \A i \in 1..Len(Decimal(9)) : b[i] = Decimal(9)[i]
        /\ b[Len(Decimal(9)) + 1] = EQ
        /\ \A i \in 1..Len(d) : b[Len(Decimal(9)) + 1 + i] = d[i]
    BY <1>2, TagValueIs DEF BODY_LEN_FIELD
  <2>3. 1 \in 1..Len(Decimal(9))
    BY <2>1
  <2>. HIDE DEF b
  <2>4. b[1] = 57 /\ b[2] = EQ /\ Len(b) = 2 + Len(d)
    <3>1. b[1] = Decimal(9)[1] /\ Len(Decimal(9)) + 1 = 2
      BY <2>1, <2>2, <2>3
    <3>. QED BY <1>2, <2>1, <2>2, <3>1
  <2>5. ASSUME NEW i \in 1..Len(d) PROVE b[2 + i] = d[i]
    <3>1. b[Len(Decimal(9)) + 1 + i] = d[i]
      BY <2>2
    <3>2. 1 + 1 + i = 2 + i
      BY <1>2
    <3>. QED BY <2>1, <3>1, <3>2
  <2>. QED BY <2>2, <2>4, <2>5
<1>. HIDE DEF a, b, d
<1>6. /\ front \in Seq(Octet) /\ Len(front) = 3 + Len(bs)
      /\ \A i \in 1..Len(bs) : front[2 + i] = bs[i]
      /\ front[3 + Len(bs)] = SOH
  <2>1. /\ front \in Seq(Octet) /\ Len(front) = Len(a) + Len(<<SOH>>)
        /\ \A i \in 1..Len(a) : front[i] = a[i]
        /\ \A i \in 1..Len(<<SOH>>) : front[Len(a) + i] = <<SOH>>[i]
    <3>1. a \in Seq(Octet) /\ <<SOH>> \in Seq(Octet)
      BY <1>3, <1>4
    <3>. QED BY <3>1, Joined
  <2>2. 1 \in 1..Len(<<SOH>>) /\ \A i \in 1..Len(bs) : 2 + i \in 1..Len(a)
    BY <1>1, <1>3, <1>4
  <2>. HIDE DEF front
  <2>. QED BY <1>1, <1>3, <1>4, <2>1, <2>2
<1>. HIDE DEF front
<1>7. /\ most \in Seq(Octet) /\ Len(most) = 5 + Len(bs) + Len(d)
      /\ \A i \in 1..Len(bs) : most[2 + i] = bs[i]
      /\ most[3 + Len(bs)] = SOH /\ most[4 + Len(bs)] = 57 /\ most[5 + Len(bs)] = EQ
      /\ \A i \in 1..Len(d) : most[5 + Len(bs) + i] = d[i]
  <2>1. /\ most \in Seq(Octet) /\ Len(most) = Len(front) + Len(b)
        /\ \A i \in 1..Len(front) : most[i] = front[i]
        /\ \A i \in 1..Len(b) : most[Len(front) + i] = b[i]
    <3>1. front \in Seq(Octet) /\ b \in Seq(Octet)
      BY <1>5, <1>6
    <3>. QED BY <3>1, Joined
  <2>2. /\ 1 \in 1..Len(b) /\ 2 \in 1..Len(b) /\ \A i \in 1..Len(d) : 2 + i \in 1..Len(b)
        /\ 3 + Len(bs) \in 1..Len(front) /\ \A i \in 1..Len(bs) : 2 + i \in 1..Len(front)
    BY <1>1, <1>2, <1>5, <1>6
  <2>. HIDE DEF most
  <2>3. most[Len(front) + 1] = 57 /\ most[Len(front) + 2] = EQ
    BY <1>5, <2>1, <2>2
  <2>4. ASSUME NEW i \in 1..Len(d) PROVE most[5 + Len(bs) + i] = d[i]
    <3>1. most[Len(front) + (2 + i)] = b[2 + i] /\ b[2 + i] = d[i]
      BY <1>5, <2>1, <2>2
    <3>2. Len(front) + (2 + i) = 5 + Len(bs) + i
      BY <1>1, <1>2, <1>6
    <3>. QED BY <3>1, <3>2
  <2>5. Len(front) + 1 = 4 + Len(bs) /\ Len(front) + 2 = 5 + Len(bs)
    BY <1>1, <1>6
  <2>. QED BY <1>1, <1>2, <1>5, <1>6, <2>1, <2>2, <2>3, <2>4, <2>5
<1>. HIDE DEF most
<1>8. /\ h \in Seq(Octet) /\ Len(h) = 6 + Len(bs) + Len(d)
      /\ \A i \in 1..Len(most) : h[i] = most[i]
      /\ h[Len(h)] = SOH
  <2>1. /\ h \in Seq(Octet) /\ Len(h) = Len(most) + Len(<<SOH>>)
        /\ \A i \in 1..Len(most) : h[i] = most[i]
        /\ \A i \in 1..Len(<<SOH>>) : h[Len(most) + i] = <<SOH>>[i]
    <3>1. most \in Seq(Octet) /\ <<SOH>> \in Seq(Octet)
      BY <1>3, <1>7
    <3>. QED BY <3>1, Joined
  <2>2. 1 \in 1..Len(<<SOH>>)
    BY <1>3
  <2>. HIDE DEF h
  <2>. QED BY <1>1, <1>2, <1>3, <1>7, <2>1, <2>2
<1>9. Heading(body, bs) = h
  BY DEF Heading, h, most, front, a, b, d
<1>. HIDE DEF h
<1>10. \A i \in 1..Len(d) : h[5 + Len(bs) + i] = d[i]
  <2>1. \A i \in 1..Len(d) : 5 + Len(bs) + i \in 1..Len(most)
    BY <1>1, <1>2, <1>7
  <2>. QED BY <1>7, <1>8, <2>1
<1>11. Find(h, EQ, 3) = 5 + Len(bs) /\ \A i \in 3..(4 + Len(bs)) : h[i] # EQ
  <2>1. 5 + Len(bs) \in 3..Len(h) /\ h[5 + Len(bs)] = EQ
    BY <1>1, <1>2, <1>7, <1>8
  <2>2. ASSUME NEW i \in 3..(4 + Len(bs)) PROVE h[i] # EQ
    <3>1. i \in 1..Len(most) /\ h[i] = most[i]
      BY <1>1, <1>2, <1>7, <1>8
    <3>2. CASE i < 3 + Len(bs)
      <4>1. i - 2 \in 1..Len(bs) /\ 2 + (i - 2) = i
        BY <1>1, <3>2
      <4>2. most[2 + (i - 2)] = bs[i - 2]
        BY <1>7, <4>1
      <4>. QED BY <3>1, <4>1, <4>2
    <3>3. CASE i = 3 + Len(bs)
      BY <1>7, <3>1, <3>3, Separators
    <3>4. CASE i = 4 + Len(bs)
      BY <1>7, <3>1, <3>4 DEF EQ
    <3>5. i < 3 + Len(bs) \/ i = 3 + Len(bs) \/ i = 4 + Len(bs)
      BY <1>1
    <3>. QED BY <3>2, <3>3, <3>4, <3>5
  <2>3. Len(h) \in Nat /\ 3..((5 + Len(bs)) - 1) = 3..(4 + Len(bs))
    BY <1>1, <1>8
  <2>4. Find(h, EQ, 3) = 5 + Len(bs)
    BY <2>1, <2>2, <2>3, FindAt
  <2>. QED BY <2>2, <2>4
<1>12. Find(h, SOH, 5 + Len(bs)) = Len(h)
  <2>1. /\ Len(h) \in Nat /\ 5 + Len(bs) \in Nat /\ 5 + Len(bs) # 0 /\ Len(h) \in (5 + Len(bs))..Len(h)
    BY <1>1, <1>2, <1>8
  <2>2. ASSUME NEW i \in (5 + Len(bs))..(Len(h) - 1) PROVE h[i] # SOH
    <3>1. i \in 1..Len(most) /\ h[i] = most[i]
      BY <1>1, <1>2, <1>7, <1>8
    <3>2. CASE i = 5 + Len(bs)
      BY <1>7, <3>1, <3>2, Separators
    <3>3. CASE i > 5 + Len(bs)
      <4>1. i - (5 + Len(bs)) \in 1..Len(d) /\ 5 + Len(bs) + (i - (5 + Len(bs))) = i
        BY <1>1, <1>2, <1>8, <3>3
      <4>2. most[5 + Len(bs) + (i - (5 + Len(bs)))] = d[i - (5 + Len(bs))]
        BY <1>7, <4>1
      <4>3. d[i - (5 + Len(bs))] \in 48..57
        BY <1>2, <4>1
      <4>4. most[i] = d[i - (5 + Len(bs))]
        BY <4>1, <4>2
      <4>5. h[i] \in 48..57
        BY <3>1, <4>3, <4>4
      <4>. HIDE DEF h, most, d
      <4>. QED BY <4>5 DEF SOH
    <3>. QED BY <1>1, <3>2, <3>3
  <2>. QED BY <1>8, <2>1, <2>2, FindAt
<1>13. h[4 + Len(bs)] = 57
  <2>1. 4 + Len(bs) \in 1..Len(most)
    BY <1>1, <1>2, <1>7
  <2>. QED BY <1>7, <1>8, <2>1
<1>14. /\ h \in Seq(Octet) /\ Len(h) = 6 + Len(bs) + Len(d)
       /\ d \in Seq(Octet) /\ Len(d) \in Nat
       /\ Find(h, EQ, 3) = 5 + Len(bs) /\ Find(h, SOH, 5 + Len(bs)) = Len(h)
       /\ \A i \in 1..Len(d) : h[5 + Len(bs) + i] = d[i]
       /\ h[4 + Len(bs)] = 57 /\ h[Len(h)] = SOH
       /\ \A i \in 3..(4 + Len(bs)) : h[i] # EQ
  BY <1>2, <1>8, <1>10, <1>11, <1>12, <1>13, Zenon
<1>. QED BY <1>9, <1>14, Zenon DEF HeadingParts, d

\* The checksum has three digits.
LEMMA ChecksumType ==
    ASSUME NEW bytes \in Seq(Octet)
    PROVE  Checksum(bytes) \in Seq(Octet) /\ Len(Checksum(bytes)) = 3
<1>1. Total(bytes) \in Nat
  <2>1. Len(bytes) \in Nat /\ \A i \in 1..Len(bytes) : bytes[i] \in Nat /\ bytes[i] >= 0
    <3>1. \A o \in Octet : o \in Nat /\ o >= 0
      BY DEF Octet
    <3>2. Len(bytes) \in Nat /\ \A i \in 1..Len(bytes) : bytes[i] \in Octet
      OBVIOUS
    <3>. QED BY <3>1, <3>2, Zenon
  <2>. QED BY <2>1, PositionalType DEF Total
<1>. DEFINE n == Total(bytes) % 256
            digits == Decimal(n)
            zeros == [i \in 1..(3 - Len(digits)) |-> 48]
<1>2. n \in Nat /\ n < 1000
  BY <1>1
<1>. HIDE DEF n
<1>3. digits \in Seq(Octet) /\ Len(digits) \in 1..3
  BY <1>2, DecimalType, DecimalShort
<1>4. Checksum(bytes) = zeros \o digits
  BY DEF Checksum, n
<1>. HIDE DEF digits
<1>5. zeros \in Seq(Octet) /\ Len(zeros) = 3 - Len(digits)
  <2>1. 3 - Len(digits) \in Nat
    <3>1. \A k \in 1..3 : 3 - k \in Nat
      OBVIOUS
    <3>. QED BY <1>3, <3>1, Zenon
  <2>2. \A k \in Nat : [i \in 1..k |-> 48] \in Seq(Octet) /\ Len([i \in 1..k |-> 48]) = k
    BY DEF Octet
  <2>. QED BY <2>1, <2>2
<1>. HIDE DEF zeros
<1>6. zeros \o digits \in Seq(Octet) /\ Len(zeros \o digits) = Len(zeros) + Len(digits)
  BY <1>3, <1>5, Joined
<1>. QED BY <1>3, <1>4, <1>5, <1>6

\* The body begins with the type.
LEMMA BodyIs ==
    ASSUME NEW type \in Seq(Octet), NEW message \in Seq(Octet)
    PROVE  LET b == Body(type, message)
           IN  b \in Seq(Octet) /\ Len(b) >= 3 /\ b[1] = 51 /\ b[2] = 53 /\ b[3] = EQ
<1>. DEFINE t == Decimal(35)
            a == TagValue(MSG_TYPE_FIELD, type)
            front == a \o <<SOH>>
            b == front \o message
<1>1. Len(t) = 2 /\ t[1] = 51 /\ t[2] = 53
  <2>1. 35 \in Nat /\ 35 \in 10..99 /\ 48 + (35 \div 10) = 51 /\ 48 + (35 % 10) = 53
    OBVIOUS
  <2>. QED BY <2>1, DecimalShort
<1>2. /\ a \in Seq(Octet) /\ Len(a) = Len(t) + 1 + Len(type)
      /\ \A i \in 1..Len(t) : a[i] = t[i]
      /\ a[Len(t) + 1] = EQ
  BY TagValueIs DEF MSG_TYPE_FIELD
<1>. HIDE DEF t, a
<1>3. Len(a) >= 3 /\ Len(a) \in Nat /\ a[1] = 51 /\ a[2] = 53 /\ a[3] = EQ
  <2>1. Len(type) \in Nat /\ 1 \in 1..Len(t) /\ 2 \in 1..Len(t) /\ Len(t) + 1 = 3
    BY <1>1
  <2>. QED BY <1>1, <1>2, <2>1
<1>4. <<SOH>> \in Seq(Octet)
  BY Separators, OneByte
<1>5. front \in Seq(Octet) /\ Begins(a, front)
  BY <1>2, <1>4, Joined
<1>. HIDE DEF front
<1>6. b \in Seq(Octet) /\ Begins(front, b)
  BY <1>5, Joined
<1>7. Body(type, message) = b
  BY DEF Body, b, front, a
<1>. HIDE DEF b
<1>8. Begins(a, b)
  BY <1>2, <1>5, <1>6, BeginsTransitive
<1>9. Len(b) >= 3 /\ b[1] = 51 /\ b[2] = 53 /\ b[3] = EQ
  <2>1. Len(a) <= Len(b) /\ Len(b) \in Nat /\ \A i \in 1..Len(a) : a[i] = b[i]
    BY <1>6, <1>8 DEF Begins
  <2>2. 1 \in 1..Len(a) /\ 2 \in 1..Len(a) /\ 3 \in 1..Len(a)
    BY <1>3
  <2>. QED BY <1>3, <2>1, <2>2
<1>. QED BY <1>6, <1>7, <1>9

\* The bytes that FixSession.send_msg() writes are one frame for the reader,
\* as long as they are, whatever the message, its type and, but for the sign
\* that the reader looks for, the version.
THEOREM FixWritesFrames ==
    ASSUME NEW bs \in Seq(Octet), \A i \in 1..Len(bs) : bs[i] # EQ,
           NEW type \in Seq(Octet), NEW message \in Seq(Octet)
    PROVE  LET frame == CompleteMsg(Body(type, message), bs)
           IN  frame \in Seq(Octet) /\ HasFixFrame(frame) /\ FrameLength(frame) = Len(frame)
<1>. DEFINE body == Body(type, message)
            d == Decimal(Len(body))
            h == Heading(body, bs)
            data == h \o body
            t == TagValue(CHECKSUM_FIELD, Checksum(data))
            most == data \o t
            frame == most \o <<SOH>>
<1>1. body \in Seq(Octet) /\ Len(body) \in Nat /\ Len(body) >= 3 /\ body[1] = 51 /\ body[2] = 53 /\ body[3] = EQ
  BY BodyIs
<1>2. CompleteMsg(body, bs) = frame
  BY DEF CompleteMsg
<1>. HIDE DEF body
<1>3. /\ h \in Seq(Octet) /\ Len(h) = 6 + Len(bs) + Len(d)
      /\ d \in Seq(Octet) /\ Len(d) \in Nat
      /\ Find(h, EQ, 3) = 5 + Len(bs) /\ Find(h, SOH, 5 + Len(bs)) = Len(h)
      /\ \A i \in 1..Len(d) : h[5 + Len(bs) + i] = d[i]
  <2>1. HeadingParts(bs, body)
    BY <1>1, HeadingIs
  <2>. QED BY <2>1, Zenon DEF HeadingParts
<1>4. Writes(d, Len(body))
  BY <1>1, DecimalReads
<1>. HIDE DEF d, h
<1>5. h \in Seq(Octet) /\ Len(h) \in Nat /\ Len(bs) \in Nat
  BY <1>3
\* The frame is the heading, the body and seven bytes.
<1>6. /\ data \in Seq(Octet) /\ Len(data) = Len(h) + Len(body)
      /\ \A i \in 1..Len(body) : data[Len(h) + i] = body[i]
      /\ Begins(h, data)
  BY <1>1, <1>5, Joined
<1>. HIDE DEF data
<1>7. t \in Seq(Octet) /\ Len(t) = 6
  <2>1. Checksum(data) \in Seq(Octet) /\ Len(Checksum(data)) = 3
    BY <1>6, ChecksumType
  <2>2. 10 \in Nat /\ 10 \in 10..99
    OBVIOUS
  <2>3. Len(Decimal(10)) = 2
    BY <2>2, DecimalShort
  <2>4. t \in Seq(Octet) /\ Len(t) = Len(Decimal(10)) + 1 + Len(Checksum(data))
    BY <2>1, <2>2, TagValueIs DEF CHECKSUM_FIELD
  <2>5. Len(t) = 2 + 1 + 3
    BY <2>1, <2>3, <2>4, Zenon
  <2>6. 2 + 1 + 3 = 6
    OBVIOUS
  <2>. QED BY <2>4, <2>5, <2>6, Zenon
<1>. HIDE DEF t
<1>8. most \in Seq(Octet) /\ Len(most) = Len(data) + Len(t) /\ Begins(data, most)
  BY <1>6, <1>7, Joined
<1>. HIDE DEF most
<1>9. frame \in Seq(Octet) /\ Len(frame) = Len(most) + 1 /\ Begins(most, frame)
  <2>1. <<SOH>> \in Seq(Octet) /\ Len(<<SOH>>) = 1
    BY Separators, OneByte
  <2>. QED BY <1>8, <2>1, Joined
<1>. HIDE DEF frame
<1>10. Len(frame) = Len(h) + Len(body) + 7
  BY <1>1, <1>5, <1>6, <1>7, <1>8, <1>9
<1>11. Begins(data, frame) /\ Begins(h, frame)
  <2>1. Begins(data, frame)
    BY <1>6, <1>8, <1>9, BeginsTransitive
  <2>. QED BY <1>5, <1>6, <1>9, <2>1, BeginsTransitive
\* The reader sees the type,
<1>12. TypePosition(frame) # 0
  <2>. DEFINE i == Len(h) + 1
              seen == SubSeq(frame, i, i + 2)
              type3 == <<51, 53, EQ>>
  <2>1. i \in Nat /\ i + 2 \in Nat /\ i \in 1..(Len(frame) - 2) /\ Len(frame) \in Nat
    BY <1>1, <1>5, <1>10
  <2>2. frame[i] = 51 /\ frame[i + 1] = 53 /\ frame[i + 2] = EQ
    <3>1. \A k \in 1..Len(data) : data[k] = frame[k]
      BY <1>11 DEF Begins
    <3>2. /\ Len(h) + 1 \in 1..Len(data) /\ Len(h) + 2 \in 1..Len(data) /\ Len(h) + 3 \in 1..Len(data)
          /\ 1 \in 1..Len(body) /\ 2 \in 1..Len(body) /\ 3 \in 1..Len(body)
      BY <1>1, <1>5, <1>6
    <3>3. data[Len(h) + 1] = 51 /\ data[Len(h) + 2] = 53 /\ data[Len(h) + 3] = EQ
      BY <1>1, <1>6, <3>2
    <3>4. i + 1 = Len(h) + 2 /\ i + 2 = Len(h) + 3
      BY <1>5
    <3>. QED BY <3>1, <3>2, <3>3, <3>4
  <2>3. /\ seen \in Seq(Octet) /\ Len(seen) = 3
        /\ seen[1] = frame[i] /\ seen[2] = frame[i + 1] /\ seen[3] = frame[i + 2]
    <3>1. \A k \in i..(i + 2) : frame[k] \in Octet
      BY <1>9, <2>1
    <3>. HIDE DEF i
    <3>2. /\ seen \in Seq(Octet) /\ Len(seen) = IF i <= i + 2 THEN (i + 2) - i + 1 ELSE 0
          /\ \A k \in 1..((i + 2) - i + 1) : seen[k] = frame[i + k - 1]
      BY <2>1, <3>1, SubSeqProperties
    <3>3. /\ 1 \in 1..((i + 2) - i + 1) /\ 2 \in 1..((i + 2) - i + 1) /\ 3 \in 1..((i + 2) - i + 1)
          /\ i + 1 - 1 = i /\ i + 2 - 1 = i + 1 /\ i + 3 - 1 = i + 2
      BY <2>1
    <3>. QED BY <2>1, <3>2, <3>3
  <2>4. type3 \in Seq(Octet) /\ Len(type3) = 3 /\ type3[1] = 51 /\ type3[2] = 53 /\ type3[3] = EQ
    BY DEF EQ, Octet
  <2>. HIDE DEF seen, type3
  <2>5. seen = type3
    <3>1. \A k \in 1..3 : k = 1 \/ k = 2 \/ k = 3
      OBVIOUS
    <3>2. \A k \in 1..Len(seen) : seen[k] = type3[k]
      BY <2>2, <2>3, <2>4, <3>1
    <3>3. seen \in Seq(Octet) /\ type3 \in Seq(Octet) /\ Len(seen) = Len(type3)
      BY <2>3, <2>4
    <3>. QED BY <3>2, <3>3, SeqEqual
  <2>. HIDE DEF i
  <2>. QED BY <1>9, <2>1, <2>5, TypeSeen DEF seen, type3
\* ... and the length,
<1>13. LengthStart(frame) = 5 + Len(bs) /\ LengthEnd(frame) = Len(h)
  <2>1. Find(frame, EQ, 3) = 5 + Len(bs)
    <3>1. Find(h, EQ, 3) # 0 /\ 3 \in Nat /\ 3 # 0
      BY <1>3, <1>5
    <3>. QED BY <1>3, <1>5, <1>9, <1>11, <3>1, FindStands
  <2>2. Find(frame, SOH, 5 + Len(bs)) = Len(h)
    <3>1. 5 + Len(bs) \in Nat /\ 5 + Len(bs) # 0 /\ Len(h) # 0
      BY <1>3, <1>5
    <3>2. Find(h, SOH, 5 + Len(bs)) # 0
      BY <1>3, <3>1
    <3>. QED BY <1>3, <1>5, <1>9, <1>11, <3>1, <3>2, FindStands
  <2>. QED BY <2>1, <2>2 DEF LengthStart, LengthEnd
<1>14. LengthText(frame) = d
  <2>. DEFINE i == 6 + Len(bs)
              j == Len(h) - 1
              text == SubSeq(h, i, j)
  <2>1. /\ i \in Nat /\ j \in Nat /\ 1 <= i /\ j <= Len(h) /\ j - i + 1 = Len(d)
        /\ (i <= j <=> Len(d) > 0)
    BY <1>3, <1>5
  <2>2. SubSeq(frame, i, j) = text
    <3>. HIDE DEF i, j
    <3>1. /\ h \in Seq(Octet) /\ frame \in Seq(Octet) /\ Begins(h, frame)
          /\ i \in Nat /\ j \in Nat /\ 1 <= i /\ j <= Len(h)
      BY <1>5, <1>9, <1>11, <2>1
    <3>. QED BY <3>1, SameBytes
  <2>3. text \in Seq(Octet) /\ Len(text) = Len(d) /\ \A k \in 1..Len(d) : text[k] = h[i + k - 1]
    <3>1. \A k \in i..j : h[k] \in Octet
      BY <1>5, <2>1
    <3>. HIDE DEF i, j
    <3>2. /\ text \in Seq(Octet) /\ Len(text) = IF i <= j THEN j - i + 1 ELSE 0
          /\ \A k \in 1..(j - i + 1) : text[k] = h[i + k - 1]
      BY <2>1, <3>1, SubSeqProperties
    <3>. HIDE DEF text
    <3>. QED BY <1>3, <2>1, <3>2
  <2>4. ASSUME NEW k \in 1..Len(text) PROVE text[k] = d[k]
    <3>1. k \in 1..Len(d) /\ i + k - 1 = 5 + Len(bs) + k
      BY <1>3, <1>5, <2>3
    <3>2. text[k] = h[i + k - 1]
      BY <2>3, <3>1
    <3>. HIDE DEF i, text
    <3>. QED BY <1>3, <3>1, <3>2
  <2>5. text = d
    <3>. HIDE DEF text
    <3>. QED BY <1>3, <2>3, <2>4, SeqEqual
  <2>6. (5 + Len(bs)) + 1 = i
    BY <1>5
  <2>. QED BY <1>13, <2>2, <2>5, <2>6 DEF LengthText
\* ... which is that of the body.
<1>15. IsNumber(d) /\ Number(d) = Len(body)
  BY <1>4 DEF Writes, IsNumber
<1>16. FrameLength(frame) = Len(frame)
  BY <1>10, <1>13, <1>14, <1>15 DEF FrameLength, TRAILER_LENGTH
<1>17. HasHeading(frame)
  BY <1>3, <1>5, <1>12, <1>13 DEF HasHeading
<1>18. HasFixFrame(frame)
  <2>1. Len(frame) \in Nat /\ Len(frame) <= Len(frame)
    BY <1>9
  <2>. QED BY <1>14, <1>15, <1>16, <1>17, <2>1 DEF HasFixFrame
<1>. QED BY <1>2, <1>9, <1>16, <1>18 DEF body

\* A peer that reads these bytes takes them, and no more, for what they are
\* decoded to, whatever was sent after them.
THEOREM FixReadsWhatIsSent ==
    ASSUME NEW bs \in Seq(Octet), \A i \in 1..Len(bs) : bs[i] # EQ,
           NEW type \in Seq(Octet), NEW message \in Seq(Octet),
           NEW more \in Seq(Octet), NEW D
    PROVE  LET frame == CompleteMsg(Body(type, message), bs)
               view == frame \o more
           IN  FixRead(view, D[Prefix(view, FrameLength(view))]) = Received(D[frame], Len(frame))
<1>. DEFINE frame == CompleteMsg(Body(type, message), bs)
            view == frame \o more
<1>1. frame \in Seq(Octet) /\ HasFixFrame(frame) /\ FrameLength(frame) = Len(frame)
  BY FixWritesFrames
<1>. HIDE DEF frame
<1>2. view \in Seq(Octet) /\ Begins(frame, view)
  BY <1>1, Joined
<1>. HIDE DEF view
<1>3. HasFixFrame(view) /\ FrameLength(view) = Len(frame) /\ Prefix(view, Len(frame)) = Prefix(frame, Len(frame))
  BY <1>1, <1>2, FixFrameStands
<1>4. Prefix(frame, Len(frame)) = frame
  <2>1. Len(frame) \in Nat
    BY <1>1
  <2>2. (IF Len(frame) < Len(frame) THEN Len(frame) ELSE Len(frame)) = Len(frame)
    OBVIOUS
  <2>3. SubSeq(frame, 1, Len(frame)) = frame
    BY <1>1, SubSeqFull
  <2>. QED BY <2>2, <2>3 DEF Prefix
<1>5. FixRead(view, D[frame]) = Received(D[frame], Len(frame))
  BY <1>3, FixReadIs
<1>. QED BY <1>3, <1>4, <1>5 DEF view, frame

=============================================================================
