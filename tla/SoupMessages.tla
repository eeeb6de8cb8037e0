---------------------------- MODULE SoupMessages ----------------------------
(***************************************************************************)
(* The frames of SoupBinTCP, soup/core.py and soup/_reader.py: two bytes of *)
(* length, an indicator, and text columns of fixed width or a payload.  A  *)
(* message is its class and its fields, each the text of its value.        *)
(***************************************************************************)
EXTENDS Bytes

Indicator == [LoginRequest |-> 76, LoginAccepted |-> 65, LoginRejected |-> 74,
              SequencedData |-> 83, UnSequencedData |-> 85, Debug |-> 43,
              ClientHeartbeat |-> 82, ServerHeartbeat |-> 72,
              EndOfSession |-> 90, LogoutRequest |-> 79]

\* The struct formats: the first and the last byte of each column of text,
\* counted from the indicator.
Columns(class) ==
    CASE class = "LoginRequest"  -> <<<<1, 6>>, <<7, 16>>, <<17, 26>>, <<27, 46>>>>
      [] class = "LoginAccepted" -> <<<<1, 10>>, <<11, 30>>>>
      [] class = "LoginRejected" -> <<<<1, 1>>>>
      [] OTHER                   -> <<>>

First(class, i) == Columns(class)[i][1]
Final(class, i) == Columns(class)[i][2]
Width(class, i) == Final(class, i) - First(class, i) + 1
BodyLength(class) == LET n == Len(Columns(class)) IN IF n = 0 THEN 0 ELSE Final(class, n)

CarriesData == {"SequencedData", "UnSequencedData", "Debug"}
CarriesNumber == {"LoginRequest", "LoginAccepted"}
IsHeartbeat == {"ClientHeartbeat", "ServerHeartbeat"}
IsLogout == {"EndOfSession", "LogoutRequest"}
RejectReasons == {<<65>>, <<83>>}

-----------------------------------------------------------------------------
(* to_bytes: ljust() pads a column, struct cuts what does not fit. *)

Packed(text, width) == SubSeq(Ljust(text, width), 1, width)

SoupBody(m) ==
    IF m.class \in CarriesData THEN m.fields[1]
    ELSE [p \in 1..BodyLength(m.class) |->
             LET i == CHOOSE i \in DOMAIN Columns(m.class) :
                          First(m.class, i) <= p /\ p <= Final(m.class, i)
             IN  Packed(m.fields[i], Width(m.class, i))[p - First(m.class, i) + 1]]

SoupEncode(m) ==
    LET length == Len(SoupBody(m)) + 1
    IN  <<length \div 256, length % 256, Indicator[m.class]>> \o SoupBody(m)

\* struct takes the length for a signed number of two bytes, so to_bytes raises
\* beyond this; the encoder of another implementation goes on to 65535, and
\* the reader accepts that.
MaxLength == 32767

-----------------------------------------------------------------------------
(* from_bytes *)

SoupInvalid == [class |-> "invalid", fields |-> <<>>]

SizeOf(frame) == 256 * frame[1] + frame[2]
SignedSize(frame) == IF SizeOf(frame) > MaxLength THEN SizeOf(frame) - 65536 ELSE SizeOf(frame)

\* A column of a frame, after its length and its indicator.
Column(class, frame, i) == SubSeq(frame, 3 + First(class, i), 3 + Final(class, i))

UnpackData(class, frame) ==
    LET data == IF SignedSize(frame) > 1 THEN From(frame, 3) ELSE <<>>
    IN  IF class = "Debug" /\ ~Ascii(data) THEN SoupInvalid
        ELSE [class |-> class, fields |-> <<data>>]

\* A column of text loses the spaces at both its ends, a number also its
\* leading zeros.
UnpackColumns(class, frame) ==
    LET fields == DOMAIN Columns(class)
        column == [i \in fields |-> Column(class, frame, i)]
        Numeric(i) == class \in CarriesNumber /\ i = Len(Columns(class))
        digits == [i \in fields |-> Strip(column[i], {SPACE, NUL})]
        Value(i) == IF Numeric(i) THEN Canonical(digits[i]) ELSE Strip(column[i], Whitespace)
    IN  IF \/ Len(frame) # 3 + BodyLength(class)
           \/ \E i \in fields : ~Ascii(column[i]) \/ (Numeric(i) /\ ~IsNumber(digits[i]))
           \/ class = "LoginRejected" /\ column[1] \notin RejectReasons
        THEN SoupInvalid
        ELSE [class |-> class, fields |-> [i \in fields |-> Value(i)]]

SoupDecode(frame) ==
    LET classes == {c \in DOMAIN Indicator : Len(frame) > 2 /\ Indicator[c] = frame[3]}
        class == CHOOSE c \in classes : TRUE
    IN  CASE classes = {}         -> SoupInvalid
          [] class \in CarriesData -> UnpackData(class, frame)
          [] OTHER                -> UnpackColumns(class, frame)

-----------------------------------------------------------------------------
(* SoupMessageReader.deserialize *)

HasSoupFrame(view) == Len(view) >= 2 /\ Len(view) >= 2 + SizeOf(view)

SoupDeserialize(view) ==
    IF ~HasSoupFrame(view) THEN [kind |-> "wait", n |-> 0, msg |-> SoupInvalid]
    ELSE LET m == SoupDecode(Prefix(view, 2 + SizeOf(view)))
             consumed == IF m = SoupInvalid THEN 0 ELSE 2 + SizeOf(view)
         IN  [msg |-> m, n |-> consumed,
              kind |-> CASE m = SoupInvalid        -> "raise"
                         [] m.class \in IsLogout    -> "stop"
                         [] m.class \in IsHeartbeat -> "skip"
                         [] OTHER                  -> "msg"]

-----------------------------------------------------------------------------

\* Bytes cut into frames, and where each ends; behind the last is at most the
\* beginning of another.
SoupFramed(bytes, ends) ==
    LET Start(k) == IF k = 0 THEN 0 ELSE ends[k]
    IN  /\ ends \in Seq(Nat) /\ \A k \in 0..Len(ends) : Start(k) <= Len(bytes)
        /\ \A k \in 1..Len(ends) :
              LET frame == SubSeq(bytes, Start(k - 1) + 1, ends[k])
              IN  HasSoupFrame(frame) /\ Len(frame) = 2 + SizeOf(frame)
        /\ ~HasSoupFrame(SubSeq(bytes, Start(Len(ends)) + 1, Len(bytes)))

\* The messages that a frame carries unchanged: what a column holds fits it
\* and has no space at its ends, and a payload's length is not negative.
SoupFaithful(m) ==
    IF m.class \in CarriesData THEN Len(m.fields[1]) < MaxLength
    ELSE \A i \in DOMAIN m.fields :
            /\ Len(m.fields[i]) <= Width(m.class, i)
            /\ Strip(m.fields[i], Whitespace) = m.fields[i]
            /\ m.class \in CarriesNumber /\ i = Len(m.fields) =>
                 IsNumber(m.fields[i]) /\ Canonical(m.fields[i]) = m.fields[i]

=============================================================================
