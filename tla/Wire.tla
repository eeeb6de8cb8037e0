-------------------------------- MODULE Wire --------------------------------
(***************************************************************************)
(* The codecs behind the reader: what a peer sends through the encoder of  *)
(* its protocol and what the application makes of it at the other end.     *)
(* Messages of ITCH, OUCH and SQF ("app") travel in the sequenced data of  *)
(* SoupBinTCP, where the application session decodes them.                 *)
(***************************************************************************)
EXTENDS ReaderFraming, SoupMessages, FixMessages, Records

CONSTANT BeginString    \* of the FIX session: a text

Deserialized(f, view) == IF f.proto = "fix" THEN FixDeserialize(view) ELSE SoupDeserialize(view)

Frame(proto, m) ==
    CASE proto = "soup" -> SoupEncode(m)
      [] proto = "fix"  -> FixEncode(m, BeginString)
      [] proto = "app"  -> SoupEncode([class |-> "SequencedData", fields |-> <<MessageToBytes(m)>>])

\* The messages the encoders accept; for SoupBinTCP also what a peer of another
\* make may send (see MaxLength).
Sendable(proto, m) ==
    CASE proto = "soup" -> m.class = "Debug" => Ascii(m.fields[1])
      [] proto = "fix"  -> Valid(m)
      [] proto = "app"  -> m.values \in Record(SpecifiedLayouts[m.id]).values

\* What is decoded at the other end, and what should be.
Understood(proto, msg) == IF proto = "app" THEN MessageFromBytes(msg.fields[1]) ELSE msg
Expected(proto, m) == IF proto = "fix" THEN Completed(m, BeginString) ELSE m

\* Whether the values of a message fit its format.
Faithful(proto, m) ==
    CASE proto = "soup" -> SoupFaithful(m)
      [] proto = "fix"  -> FixFaithful(m)
      [] proto = "app"  -> RecordFaithful(m)

\* A feed: what is sent, in which pieces it may arrive, where its frames end,
\* what becomes of each when it is read by itself, and what should.
FeedOf(proto, sent, chunks, frames, outcomes) ==
    [proto |-> proto, sent |-> sent, chunks |-> chunks,
     bytes |-> FlattenSeq(frames),
     ends |-> [i \in DOMAIN sent |-> Len(FlattenSeq(SubSeq(frames, 1, i)))],
     outcomes |-> outcomes,
     faithful |-> [i \in DOMAIN sent |-> Faithful(proto, sent[i])],
     expected |-> [i \in DOMAIN sent |-> Expected(proto, sent[i])],
     understood |-> [i \in DOMAIN sent |-> Understood(proto, outcomes[i].msg)]]

OutcomesAlone(proto, frames) == [i \in DOMAIN frames |-> Deserialized([proto |-> proto], frames[i])]
FeedSent(proto, sent, chunks, frames) == FeedOf(proto, sent, chunks, frames, OutcomesAlone(proto, frames))
Feed(proto, sent, chunks) == FeedSent(proto, sent, chunks, [i \in DOMAIN sent |-> Frame(proto, sent[i])])

-----------------------------------------------------------------------------

\* The frame the reader took last, or failed at, decodes to the message that
\* was sent exactly when its values fit the format: a message outside it is
\* changed without an error, or stops the reader.
RoundTrip ==
    LET k == IF state = "failed" THEN FramesRead + 1 ELSE FramesRead
    IN  k > 0 =>
          (feed.faithful[k]
             <=> feed.outcomes[k].kind # "raise" /\ feed.understood[k] = feed.expected[k])

=============================================================================
