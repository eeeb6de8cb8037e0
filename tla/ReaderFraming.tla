--------------------------- MODULE ReaderFraming ---------------------------
(***************************************************************************)
(* The Reader of common/session.py: bytes arrive in pieces of any size, the *)
(* reader's task takes one frame at a time off its buffer, and a drain     *)
(* holds back what arrives until the buffer has no whole frame left.       *)
(* deserialize(), which Reader leaves abstract, is a constant: of a feed   *)
(* and the bytes not yet read it gives what becomes of them.               *)
(***************************************************************************)
EXTENDS Integers, Sequences, FiniteSets, Selection

CONSTANTS
    Feeds,              \* what the peer sends: records with the fields bytes
                        \* and chunks, frames' ends and outcomes (below)
    MaxDrains,          \* bound on buffer_until_drained()
    Deserialize(_, _)   \* feed, bytes |-> [kind, n, msg]: n bytes are read

ASSUME FramingAssumption ==
    /\ MaxDrains \in Nat
    /\ \A f \in Feeds : /\ f.bytes \in Seq(0..255) /\ f.chunks \subseteq Nat \ {0}
                        /\ Len(f.ends) = Len(f.outcomes)

VARIABLES
    feed,       \* what the peer sends in this behaviour
    pos,        \* how many of its bytes have arrived
    eaten,      \* how many of those the reader has taken off
    buffer,     \* _buffer
    rpos,       \* _read_pos
    held,       \* _drain_buffer: what arrived during a drain
    drain,      \* "off", "on" (its event not set), "set"
    closing,    \* the drain is that of a closing session
    drains,     \* how many drains have begun
    got,        \* the messages given to on_msg_coro
    state       \* "running", "failed" (deserialize() raised), "stopped"

rvars == <<feed, pos, eaten, buffer, rpos, held, drain, closing, drains, got, state>>

Least(a, b) == IF a < b THEN a ELSE b

Unread == SubSeq(buffer, rpos + 1, Len(buffer))

RInit ==
    /\ feed \in Feeds
    /\ pos = 0 /\ eaten = 0 /\ rpos = 0 /\ drains = 0
    /\ buffer = <<>> /\ held = <<>> /\ got = <<>>
    /\ drain = "off" /\ closing = FALSE /\ state = "running"

\* data_received() and on_data(); a closed transport delivers nothing more.
Arrive ==
    /\ pos < Len(feed.bytes) /\ ~closing /\ state # "stopped"
    /\ \E n \in feed.chunks :
         LET end == Least(pos + n, Len(feed.bytes))
             data == SubSeq(feed.bytes, pos + 1, end)
         IN  /\ pos' = end
             /\ IF drain = "off"
                THEN buffer' = buffer \o data /\ UNCHANGED held
                ELSE held' = held \o data /\ UNCHANGED buffer
    /\ UNCHANGED <<feed, eaten, rpos, drain, closing, drains, got, state>>

\* What both readers do after a frame of n bytes: _read_pos moves on, and the
\* buffer is compacted when more than half of it has been read.
Consume(n) ==
    IF rpos + n > Len(buffer) \div 2
    THEN buffer' = SubSeq(buffer, rpos + n + 1, Len(buffer)) /\ rpos' = 0
    ELSE rpos' = rpos + n /\ UNCHANGED buffer

\* A turn of _process(): _process_1() on what there is, and the end of a drain
\* reported when that took nothing off the buffer.  The handler of a session
\* puts the message on its queue and does not suspend.
BufferEmpty(r) == drain = "on" /\ Unread = <<>>
NothingTaken(r) == drain = "on" /\ r.kind = "wait"

\* Without bytes deserialize() is not called.
Result == IF Unread = <<>> THEN [kind |-> "wait", n |-> 0] ELSE Deserialize(feed, Unread)

Turn ==
    /\ state = "running"
    /\ \E r \in {Result} :
         /\ IF r.n > 0 THEN Consume(r.n) ELSE UNCHANGED <<buffer, rpos>>
         /\ eaten' = eaten + r.n
         /\ got' = IF r.kind = "msg" THEN Append(got, r.msg) ELSE got
         /\ state' = CASE r.kind = "raise" -> "failed"
                       [] r.kind = "stop"  -> "stopped"
                       [] OTHER            -> "running"
         /\ drain' = IF NothingTaken(r) THEN "set" ELSE drain
    /\ UNCHANGED <<feed, pos, held, closing, drains>>

\* buffer_until_drained() is entered, by a user or by close(), which has
\* closed the transport.
BeginDrain ==
    /\ drain = "off" /\ drains < MaxDrains /\ state # "stopped"
    /\ drain' = "on" /\ drains' = drains + 1 /\ closing' \in BOOLEAN
    /\ UNCHANGED <<feed, pos, eaten, buffer, rpos, held, got, state>>

\* ... and left: its body has run, or the task that waits was cancelled.
DropsHeld == Unread
HeldFirst == held \o Unread
Rejoined == Unread \o held

EndDrain ==
    /\ drain # "off" /\ ~closing
    /\ drain' = "off" /\ buffer' = Rejoined /\ rpos' = 0 /\ held' = <<>>
    /\ UNCHANGED <<feed, pos, eaten, closing, drains, got, state>>

\* close() discards what was held back and stops the reader.
DrainedClose ==
    /\ drain = "set" /\ closing
    /\ drain' = "off" /\ held' = <<>> /\ state' = "stopped"
    /\ UNCHANGED <<feed, pos, eaten, buffer, rpos, closing, drains, got>>

\* stop() from elsewhere: a close that does not drain.
Stop ==
    /\ state # "stopped" /\ ~closing
    /\ state' = "stopped"
    /\ UNCHANGED <<feed, pos, eaten, buffer, rpos, held, drain, closing, drains, got>>

RNext == Arrive \/ Turn \/ BeginDrain \/ EndDrain \/ DrainedClose \/ Stop

\* The reader's task runs, and close() goes on; nobody has to send, to drain
\* or to leave a drain.  TurnFairness is WF_rvars(Turn): a turn changes nothing
\* only when Idle.
Idle == state # "running" \/ (Result.kind = "wait" /\ ~NothingTaken(Result))
TurnFairness == []<>Idle \/ []<><<Turn>>_rvars

RSpec == RInit /\ [][RNext]_rvars /\ TurnFairness /\ WF_rvars(DrainedClose)

-----------------------------------------------------------------------------
(* Properties *)

RTypeOK ==
    /\ pos \in 0..Len(feed.bytes) /\ eaten \in 0..pos
    /\ rpos \in Nat /\ drains \in 0..MaxDrains
    /\ drain \in {"off", "on", "set"} /\ closing \in BOOLEAN
    /\ state \in {"running", "failed", "stopped"}

\* No byte is lost, repeated or reordered between the transport and
\* deserialize(), whatever compaction and drains do to the two buffers.
BytesKept == SubSeq(feed.bytes, eaten + 1, pos) = Unread \o held

\* A buffer that is read keeps at most as many bytes already read as it has
\* yet to read.
BufferBounded == rpos <= Len(buffer) \div 2

HeldInDrain == held # <<>> => drain # "off" /\ ~closing

\* A drain that reports its end left no whole frame in the buffer: only the
\* beginning of one, which the bytes held back complete.
DrainedMeansNoFrame ==
    drain = "set" => Result.kind = "wait"

ReaderInv == RTypeOK /\ BytesKept /\ BufferBounded /\ HeldInDrain /\ DrainedMeansNoFrame

\* Where the k-th frame of a feed ends, and how many have been taken off.
EndOf(f, k) == IF k = 0 THEN 0 ELSE f.ends[k]
FramesRead == Cardinality({i \in DOMAIN feed.ends : feed.ends[i] <= eaten})

\* The messages among the first k frames of a feed, each read by itself.
MessagesOf(f, k) ==
    LET kept == Selected([i \in 1..k |-> i], {i \in DOMAIN f.outcomes : f.outcomes[i].kind = "msg"})
    IN  [i \in DOMAIN kept |-> f.outcomes[kept[i]].msg]

\* The application gets what each frame by itself decodes to, in order, but
\* for the heartbeats and what follows a logout, however the bytes were cut
\* and whatever was held back; the reader fails only at a frame that cannot
\* be decoded.
FramesMatch ==
    LET k == FramesRead
    IN  /\ eaten = EndOf(feed, k)
        /\ got = MessagesOf(feed, k)
        /\ state = "failed" => feed.outcomes[k + 1].kind = "raise"

\* What the outcomes of a feed are: what deserialize() makes of each frame.
OutcomesOfFrames(f) ==
    /\ DOMAIN f.outcomes = DOMAIN f.ends
    /\ \A k \in DOMAIN f.ends :
          f.outcomes[k] = Deserialize(f, SubSeq(f.bytes, EndOf(f, k - 1) + 1, f.ends[k]))

\* What FramesMatch asks of deserialize(): of what begins where a frame does,
\* it takes that frame once it is whole, for what it is by itself, and waits
\* until then.
TakesWholeFrames(f) ==
    \A k \in 0..Len(f.ends) : \A p \in (EndOf(f, k) + 1)..Len(f.bytes) :
        LET r == Deserialize(f, SubSeq(f.bytes, EndOf(f, k) + 1, p))
        IN  IF k < Len(f.ends) /\ f.ends[k + 1] <= p
            THEN /\ r.kind = f.outcomes[k + 1].kind /\ r.kind # "wait"
                 /\ r.n = IF r.kind = "raise" THEN 0 ELSE f.ends[k + 1] - EndOf(f, k)
                 /\ r.kind = "msg" => r.msg = f.outcomes[k + 1].msg
            ELSE r.kind = "wait" /\ r.n = 0

FrameEndsBy(i, n) == i \in DOMAIN feed.ends /\ feed.ends[i] <= n

\* A frame that has arrived is read, unless the reader ended or the frame is
\* held back; and a drain ends while the reader runs, even one that found only
\* the beginning of a frame.
MaxFrames == 4
ReaderProgress ==
    /\ \A i \in 1..MaxFrames :
          FrameEndsBy(i, pos) ~> FrameEndsBy(i, eaten) \/ state # "running" \/ held # <<>>
    /\ drain = "on" ~> drain # "on" \/ state # "running"

=============================================================================
