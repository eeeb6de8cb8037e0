----------------------------- MODULE FixFraming -----------------------------
(***************************************************************************)
(* Where a FIX message begins and ends, fix/session.py and fix/_reader.py:  *)
(* the sender puts the version, the length and the type in front of what   *)
(* the message encodes to, and a checksum behind; the reader finds the end  *)
(* by the length.  What is between is in FixMessages.                      *)
(***************************************************************************)
EXTENDS Bytes

BEGIN_STRING_FIELD == 8
BODY_LEN_FIELD == 9
CHECKSUM_FIELD == 10
MSG_TYPE_FIELD == 35
HEART_BEAT_MSG == <<48>>
LOGOUT_MSG == <<53>>
TRAILER_LENGTH == 7

TagValue(tag, text) == Decimal(tag) \o <<EQ>> \o text

-----------------------------------------------------------------------------
(* FixSession._prepare_complete_msg(): the type in front of a message's     *)
(* bytes, which the length counts; then the length, and the version.  The  *)
(* checksum, which nobody verifies, is padded to three digits.             *)

Body(type, message) == TagValue(MSG_TYPE_FIELD, type) \o <<SOH>> \o message

Heading(body, beginString) ==
    TagValue(BEGIN_STRING_FIELD, beginString) \o <<SOH>>
        \o TagValue(BODY_LEN_FIELD, Decimal(Len(body))) \o <<SOH>>

Checksum(bytes) ==
    LET digits == Decimal(Total(bytes) % 256)
    IN  [i \in 1..(3 - Len(digits)) |-> 48] \o digits

CompleteMsg(body, beginString) ==
    LET data == Heading(body, beginString) \o body
    IN  data \o TagValue(CHECKSUM_FIELD, Checksum(data)) \o <<SOH>>

-----------------------------------------------------------------------------
(* FixMessageReader.deserialize(): the length is what follows the second    *)
(* "=" up to the separator.                                                *)

TypePosition(bytes) == LET at == {i \in 1..(Len(bytes) - 2) : SubSeq(bytes, i, i + 2) = <<51, 53, EQ>>}
                       IN  IF at = {} THEN 0 ELSE Min(at)

LengthStart(view) == Find(view, EQ, 3)
LengthEnd(view) == Find(view, SOH, LengthStart(view))
LengthText(view) == SubSeq(view, LengthStart(view) + 1, LengthEnd(view) - 1)
HasHeading(view) == TypePosition(view) # 0 /\ LengthStart(view) # 0 /\ LengthEnd(view) # 0
FrameLength(view) == LengthEnd(view) + Number(LengthText(view)) + TRAILER_LENGTH

\* A frame with the length of its body that is there as a whole.
HasFixFrame(view) ==
    HasHeading(view) /\ IsNumber(LengthText(view)) /\ FrameLength(view) <= Len(view)

FixInvalid == [type |-> <<>>, segments |-> <<>>]

Nothing(kind) == [kind |-> kind, n |-> 0, msg |-> FixInvalid]

\* What becomes of a frame from which the message m was decoded.
Received(m, length) ==
    IF m = FixInvalid THEN Nothing("raise")
    ELSE [n |-> length, msg |-> m,
          kind |-> CASE m.type = LOGOUT_MSG     -> "stop"
                     [] m.type = HEART_BEAT_MSG -> "skip"
                     [] OTHER                   -> "msg"]

\* ... where m is what the frame in front of the view, if there is one, decodes to.
FixRead(view, m) ==
    IF HasFixFrame(view) THEN Received(m, FrameLength(view))
    ELSE Nothing(IF HasHeading(view) /\ ~IsNumber(LengthText(view)) THEN "raise" ELSE "wait")

-----------------------------------------------------------------------------

\* Bytes cut into frames, and where each ends; behind the last is at most the
\* beginning of another.
FixFramed(bytes, ends) ==
    LET Start(k) == IF k = 0 THEN 0 ELSE ends[k]
    IN  /\ ends \in Seq(Nat) /\ \A k \in 0..Len(ends) : Start(k) <= Len(bytes)
        /\ \A k \in 1..Len(ends) :
              LET frame == SubSeq(bytes, Start(k - 1) + 1, ends[k])
              IN  HasFixFrame(frame) /\ FrameLength(frame) = Len(frame)
        /\ FixRead(SubSeq(bytes, Start(Len(ends)) + 1, Len(bytes)), FixInvalid).kind = "wait"

=============================================================================
