# A specification of nasdaq-protocols

`nasdaq_protocols` is an asyncio library for SoupBinTCP, the ITCH, OUCH and SQF
applications above it, an ASN.1 application, and FIX.  One class, `AsyncSession`,
carries all of them: it owns the transport, a reader task, a message queue with a
dispatcher task and two heartbeat monitors, and its `close()` has to bring all of
that down from whichever task happens to call it.  Most of what can go wrong in
this code goes wrong there, between two suspensions of the event loop, so that is
where this specification starts.

Paths below are relative to `src/src/nasdaq_protocols/`.

## 1. The system

| Component | State | Operations | Interacts with |
|---|---|---|---|
| `AsyncSession` (`common/session.py:212-403`) | `_transport`, `_closed`, `_closing_task`, the reader, the queue, two monitors | `connection_made`, `data_received`, `connection_lost`, `initiate_close`, `close`, `start_dispatching`, `start_heartbeats`, `receive_msg`, `set_handlers` | the event loop calls the protocol callbacks; the reader puts into the queue; the reader, the remote monitor, handlers and the application call `close()`; `close()` calls `on_close_coro` |
| `Reader` (`common/session.py:98-194`, `soup/_reader.py`, `fix/_reader.py`) | buffer and read position, drain event, `_stopped`, its task | `on_data`, `_process`, `deserialize`, `buffer_until_drained`, `stop` | calls `on_message` of the session for each message, `close()` when the session ends |
| `HeartbeatMonitor` (`common/session.py:33-93`) | `_pinged`, the count of missed heartbeats, its task | `ping`, `stop`, the periodic check | pinged by `send_msg` (local) and `data_received` (remote); calls `send_heartbeat` or `close` |
| `DispatchableMessageQueue` (`common/message_queue.py`) | the queue, a buffer queue during a drain, `_recv_task`, `_dispatcher_task`, `_closed` | `put`, `get`, `start_dispatching`, `pause_dispatching`, `buffer_until_drained`, `stop` | calls `on_msg_coro`; its handlers may call back into the session |
| `stop_task` (`common/utils.py:20-60`) | none | cancel a task and wait for it, unless it is the caller | used by everything that stops |
| SoupBinTCP sessions (`soup/session.py`) | `sequence`, `_logged_in`, session id | `login`, `logout`, `end_session`, `send_msg`, `_on_msg` | an `AsyncSession` at each end |
| `SoupClientSessionSync`, `SyncExecutor` (`soup/session.py:298-349`, `common/sync_executor.py`) | `close_lock`, `closed_event`, the loop and its thread | `send_msg`, `receive`, `logout`, `close` | caller threads submit to the loop's thread; `on_close_coro` runs in the latter and takes the lock |
| application sessions (`soup/soup_app.py`, `asn1_app/soup_session.py`; ITCH, OUCH, SQF) | a second message queue, `_close_event`, `closed` | construction, `receive_message`, `close` | take over both handlers of a soup session |
| FIX session and reader (`fix/session.py`, `fix/_reader.py`) | `sequence` and the ids of the header | `login`, `send_msg` | an `AsyncSession` |
| message codecs (`soup/core.py`, `fix/core.py`, `common/message/structures.py`) | registries of classes | `to_bytes`, `from_bytes` | readers and `send_msg` |
| definitions (`fix/parser/*`, `common/message/parser.py`) | fields, components, records, messages of a file | `parse`, the contexts of the templates | the classes that the codecs use |
| tools | none | command lines | print what a session dispatches |

What is hard here:

* **Who closes.**  Five kinds of tasks enter `close()`.  A task that stops itself is
  only *marked* as cancelled, and the mark strikes at its next suspension: perhaps in
  a later part of `close()`, where it is swallowed, perhaps in `on_close_coro`,
  perhaps never.
* **Order.**  `close()` stops monitors, drains reader and queue, stops queue and
  reader, and suspends in between, while the rest of the session goes on.
* **Draining.**  A drain waits for a reader that may end, fail or be ended by what it
  reads, and then for a queue that somebody has to empty.
* **Shared fields.**  `_recv_task` is one field for all calls of `get()`; the buffer
  queue replaces the queue under those who wait for it.
* **Time.**  Two monitors at two ends, timers that run late, and messages that travel.
* **Threads.**  A lock taken by callers and by the loop they wait for.
* **Logins.**  `login()` suspends, and what it starts when it resumes it starts in
  whatever the session has become; sequence numbers are set by the login and counted
  by the reader, two tasks.
* **Two sessions, one close.**  An application session closes from the `on_close_coro`
  of the session below it, and the caller of its `close()` waits for that.
* **Bytes.**  Frames are found in a buffer that grows, is compacted and is drained; a
  FIX group ends where a tag repeats or is unknown.

What makes each component correct:

* session: `on_close_coro` is called once and always; by then nothing else runs; a
  draining close has handed over everything that arrived; messages keep their order;
* queue: nothing is lost but what somebody gave up, nothing repeated or reordered; a
  `get()` that waits is served or released; `stop()` ends every dispatcher it can know of;
* heartbeats: an end that lives is not silent for too long, a peer that lives is
  kept, a peer that is dead is dropped in a known time;
* synchronous session: calls return, and after `close()` the loop has ended;
* logins: one that fails has closed the session and started no heartbeats, one that
  waits is released, and sequence numbers say how much was read;
* application sessions: every message of the session below reaches the application
  once, and `close()` returns when everything below is closed;
* reader and codecs: every frame is read once however its bytes arrive, and what is
  decoded is what was encoded, exactly for the values that fit the format.

## 2. Modules

| Module | What it is |
|---|---|
| `SessionContract` | what a session promises, as a machine of three variables: a backlog, what was taken, and a phase |
| `Session` | `AsyncSession` with all its tasks |
| `SessionInvariant` | the inductive invariant of `Session`, in named parts |
| `SessionRefinement` | `Session` implements `SessionContract`: the mapping, which `SessionProofs` proves |
| `Selection`, `SelectionProofs` | the elements of a sequence at or from a set, without recursion; lemmas about them |
| `MCSession` | the module of the session's runs, with names for their parameters |
| `MessageQueue`, `MCQueue`, `MessageQueueProofs` | the queue by itself, with several readers, pauses, exchanges and stray dispatchers; the module of a run; theorems |
| `Heartbeats`, `HeartbeatsProofs` | the monitors in discrete time; theorems |
| `SyncSession`, `SyncSessionProofs` | threads over a session; theorems |
| `ProtocolSession` | extends `Session`: the sessions of SoupBinTCP and FIX, logins and numbers |
| `SoupApp`, `MCSoupApp` | extends `ProtocolSession`: an application session on top |
| `SoupAppInvariant` | the inductive invariant of both |
| `SessionProofs` | theorems about `Session`, `ProtocolSession` and `SoupApp` |
| `Bytes` | what the codecs use of Python's `bytes` and `int` |
| `SoupMessages` | the codec of SoupBinTCP and the `deserialize()` of its reader |
| `FixFraming` | where a FIX message begins and ends: what the sender puts around it, and how the reader finds its end |
| `FixMessages`, `Records` | the codecs of FIX and of binary messages |
| `CodecProofs` | theorems about `SoupMessages` and `Records` |
| `FixDictionary`, `MessageDefinitions` | from XML definitions to the classes of `FixMessages` and `Records` |
| `ReaderFraming`, `ReaderFramingProofs` | the reader on bytes, with `deserialize()` as a constant; theorems about it and about the framing of SoupBinTCP and FIX |
| `Wire`, `MCWire` | the codecs behind the reader; the messages of the run |
| `WireProofs` | theorems about the FIX codec in its frames, and from one end of the wire to the other |

The modules form three families.  `Session` and what extends it compose the tasks of
one event loop, whole frames travelling between them.  `MessageQueue`, `Heartbeats` and
`SyncSession` look at one part each with more freedom than a session gives it.  `Wire` composes reader,
codecs and definitions on bytes, and what it shows (a frame is read once, in order)
is what lets the first family take frames whole.

Operators that start with the comment "mutant" are wrong on purpose: each stands
next to the definition it is a plausible mistake of, and shows that a property
notices the mistake.

### Session

A step is what one task does between two suspensions.  A task is a variable with a
small set of values (`reader`, `disp`, `local`, `remote`, `recv`); `"cancelled"` says
that its cancellation was requested and it has not run yet.  `close()` is a chain of
operators, `StopLocal`, `StopRemote`, `DrainReader`, `StopQueue`, `StopRecv`,
`StopReader`, `Notify`, each of which either suspends, with `cpc` naming the await, or
goes on with the next one; `LocalStopped`, `RemoteStopped`, ..., `ReaderStopped` are
the continuations after each await.  `closer` is the task that passed the guard.

`stop_task()` (`common/utils.py:24-34`) is modelled with its exception for the caller:
if the task to stop is the closer itself, `pending` remembers the cancellation; the
next suspension inside `stop_task()` swallows it (`Suspend` resets `pending`), a
suspension of `on_close_coro` raises it (`OnCloseCancelled`), and a handler that has
returned meets it in `get()` (`HandlerReturns`), unless a message is queued: such a `get()`
does not suspend, and the next handler runs with the cancellation pending
(`HandlerGoesOn`).

Frames are whole, with a kind: `"msg"`, `"heartbeat"` (skipped), `"end"` (an
end-of-session or logout frame) and `"bad"` (`deserialize` raises).  Handlers, `on_close_coro` and the
application's calls are arbitrary within the constants: `AppCloses`, `HandlerCloses`
and `InitiateCloses` give the `drain` arguments that may be used by whom.

`StartsWhenActive` says that `start_dispatching()` and `start_heartbeats()` are only
called on an active session.  The code does not check this.  With `FALSE` there are
runs in which a monitor outlives the session; `ProtocolSession` shows which: the runs of
`soup_app` have it `FALSE`.

### SessionContract and the refinement

`SessionContract` knows messages that arrive, are taken, and a session that is open,
closing, draining and closed.  A handler that does not suspend is given several messages
in one step, so `Take` takes a prefix of the backlog.  `SessionRefinement` maps `backlog` to the queue followed
by the messages in the reader's buffer (`Selected` from it, so that the proof can
reason about it), `taken` to what was delivered, and `phase` to `closed`, `drainArg` and
`notified`.  `ContractSafety` therefore says that no message
is lost, repeated or reordered on its way, that a draining session closes only with an
empty backlog, and that it closes once; `ContractLiveness` adds that a close that has
begun ends.

### MessageQueue

Here the queue stands alone, since its interface allows more than a session uses:
several concurrent `get()`s, callers that give up, a pause of the dispatcher, and the
exchange of the queue for its buffer.  `get[r]` follows one call through
`_blocking_read()`; `recvTask` is the field that all calls share, and `GetResumes` is
the `finally` clause that stops whatever that field names by then.  `"orphaned"` is a task
that waits for a queue object that has been replaced.

`dref` is the field `_dispatcher_task`, and `disp[d]` follows one dispatcher task.  There
may be more than one: `start_dispatching()` asks only for the field, so it starts a
dispatcher on a stopped queue, or in a pause, whose end starts another beside it.
`stop()` and the owner stop the one that the field names; `ends` remembers for which
task each of them waits.  The auxiliary `stray` are the dispatchers which `stop()` cannot
know of: begun after it, or replaced in the field while they ran.

`taken` records what leaves the queue, `used` what a handler was given or `get()`
returned, `givenUp` what the code loses when somebody is cancelled: `GetCancelled` drops
the message that the task of a `get()` has, and `DrainGivenUp` is an owner cancelled while
`buffer_until_drained()` polls a queue that is not empty; its `finally` exchanges the queue
all the same, and what was in it is gone.  With `discard_buffer=True` the old queue stays
and the new messages go.  `NothingLost` says that no other message is ever lost.  One corner of
`DrainGivenUp` is left out: the owner gives up in the very round of the loop in which
the task of a `get()`, or a stray dispatcher, has been woken by an entry of the queue and
has not run yet.  Its guard lets these run first; the message would be taken, or, should
that task be cancelled in the same round, given up with the others.

### Heartbeats

One direction of a connection: the local monitor of the end that sends and the remote
monitor of the end that receives, with messages in flight that carry their age.  Time
is discrete; a timer runs at its time or up to `MaxLate` later, a message arrives
within `MaxDelay`.  Both ends pass the client's interval to the local monitor and the
server's to the remote one (`soup/session.py:178,293`), so `ClientInterval` is the setting of
the sender and `ServerInterval` that of the receiver, and each direction of a connection
is an instance of the module, whatever the ends have been given.  The directions share
no state until one of them closes the session.

### SyncSession

`pc[t]` follows a thread through `close()`, `logout()`, `send_msg()` or `receive()`;
`loop` is the thread of the event loop, `"blocked"` while `on_close_coro` waits for
`close_lock`.  The session is abstract: open, closing, closed, as `Session` shows that
it goes.

### ProtocolSession

The variable `role` says which class a behaviour is about: `SoupClientSession`,
`SoupServerSession`, `FixSession`, or the soup client under an application session.
`login` follows `login()`: `"waiting"` in `receive_msg()`, `"replied"` when the reply has left
the queue and the login's task has not run yet, `"closing"` in the `close()` after a
rejection; for a server `"asking"` while its handler awaits `on_login()`.  `LoginAccepted`
starts monitors and dispatcher whether or not the session still lives, as the code
does, and `late` records that it did not.  `ServerRefuses` is the handler of a server that
awaits `close()` in the dispatcher's own task (`soup/session.py:294-295`): that dispatcher is
marked as cancelled, the mark is swallowed where `close()` awaits the next task, and it goes
on to dispatch what is queued.  `seq` is `sequence`: of a client the messages
read (`on_message()` runs in the reader), of a server and of FIX the messages sent;
`skipped` is what `reply.sequence - 1` forgets because it was read before the login
resumed.  `wire` holds the numbers handed to the transport; `SendFix` takes a number
even when the message cannot be encoded.

All actions of `Session` that belong to a session's own tasks, among them a reader that
dies of a malformed frame, are conjoined unchanged (`TaskStep`); the calls of the application are replaced by the ones these classes make.

### SoupApp

`connect_async()` builds the application session in the step in which `login()` returns,
so `Build` is `LoginAccepted` with the constructor's `set_handlers()` and
`start_dispatching()`.  `app = "raised"` is a session whose `set_handlers()` found the soup
session closing: it has assigned the handlers first.  `_on_soup_message()` never
suspends, hence `SoupDispatch` moves the whole soup queue.  `_on_soup_close()` is the
`on_close_coro` of the soup session; `Urgent` lets it begin in the very step that
notifies.  `apc` follows it through the application queue's `stop()` and the
application's own `on_close_coro`; `event` is `_close_event`, on which `close()` waits.
`Asn1SoupClientSession` repeats this code and is modelled by the same module.

### ReaderFraming

`Reader` with its buffer, read position and drain buffer, bytes arriving in pieces.  A
feed is what a peer sends, with the ends of its frames and what each decodes to when
read alone.  `Turn` is one iteration of `_process()`, `Consume` the compaction both
readers make.  `BeginDrain` enters `buffer_until_drained()`, `EndDrain` leaves it, by
its user or by a cancellation, and `DrainedClose` is its discarding end in a close.  `ReaderInv` says that unread and held-back bytes are exactly those that arrived
and were not yet taken; `FramesMatch` that the application gets, frame by frame, what
each would be alone.

### The codecs: SoupMessages, FixFraming, FixMessages, Records

Bytes are numbers, texts are sequences of their codes, and a value is the text or the
number the codec works on.  `SoupMessages` has the struct formats, with text columns
that are padded, cut and stripped and a length that the encoder takes for a signed
number.  In `Records` a type is what its class
is: the values a field of it may hold, `write` for `to_bytes()`, `read` for `from_bytes()`,
and the values that are `exact` for its format.  Being functions and not recursive
operators, types can be put into records, present bits and arrays at any depth and
still be reasoned about.  A length that is negative counts from the end of the bytes, as
the bound of a slice does (`Bound`).

`FixMessages` is built the same way.  A class of fields, of a segment or of a group's
instances, is the sequence of its entries, and an entry, `Field(tag, type)` or
`Group(tag, class)`, is a record with `write` and `read`.  `NextField` is one turn of the loop
of `DataSegment.from_bytes()`, which ends at a tag that repeats or is not of the class;
`FieldsFromBytes` is the loop, `GroupsFromBytes` reads as many instances as the count says.
A group has no end of its own, so whether a value comes back depends on what is
behind it: `exact` is a function of whether anything but the checksum is.  `CompleteMsg` of
`FixFraming` is `_prepare_complete_msg()`, with body length and checksum, and `FixRead` the
`FixMessageReader.deserialize()` around the decoder.  `FieldValue` is whatever an application may assign; in the
runs it is `Any`, the set of everything that the module `TLC` provides.
Each module ends with the condition under which a message comes back unchanged
(`SoupFaithful`, `FixFaithful`, `RecordFaithful`), which is not taken from the code but from the
format; `RoundTrip` of `Wire` says that this condition is exact, in both directions.

### FixDictionary and MessageDefinitions

A file is a sequence of sections, an element a record.  `Parse` goes through a FIX
dictionary from its last section to its first, as `parse()` does; `ClassOf` resolves
components and groups; `SupportedTypes` are the types of a version; `Generated` makes the
entries of `FixMessages` from them, as the templates do, or none for version 4.2, which the
parser reads and the generator refuses.  `ParseFile` does the
same for the definitions of an ITCH, OUCH or SQF application, with the override of
messages by their key; `TypeOfField` is the type a template writes (for an
enum of a fixed text a class without its length, which neither packs nor reads), `LayoutsOf` the
registry after the import.  The classes so generated are the constants `Dictionary` and
`Layouts` of the codecs.  `MCWire` also writes down by hand what the files mean
(`Specified`, `SpecifiedLayouts`), and the conditions above are about that: a parser
that loses a component, a type or a required flag makes messages come back different
from what the file promises, and `RoundTrip` fails.

## 3. Runs

| Run | Question | Bounds |
|---|---|---|
| `session_close` | does every close end, and with what left? | 3 frames of a peer that behaves; dispatching from the start; application and `initiate_close` with and without drain |
| `session_safety` | what may a failing peer and closing handlers do to order, completeness and quiet? | 3 frames, also `"end"` and `"bad"`; a handler may close, with and without drain |
| `queue_reader` | is every `get()` served or released, and which dispatchers does `stop()` end? | one reader, two dispatchers, 3 messages, pause and discarding drain; stop and start at any time |
| `queue_readers` | is anything lost, repeated or reordered, and does the invariant of the proofs hold? | two readers and an owner that give up, two dispatchers, 3 messages, everything at any time; symmetry of readers and of dispatchers |
| `heartbeats` | do intervals with room keep a live peer and drop a dead one? | intervals 2 and 9, one missed heartbeat tolerated, lateness 1, delay 2, 2 messages in flight |
| `sync_session` | do closing threads always get their answer? | 3 threads, two of which close or log out; the session may close by itself |
| `soup_app` | what do logins, numbers and application sessions make of every order of closes, and does the invariant of the proofs hold? | all four roles; 4 frames, `"msg"`, `"end"` or `"bad"`, the third undecodable by the application; `LoginAccepted` with sequence 5; 2 numbered messages sent; plain closes; `StartsWhenActive = FALSE` |
| `wire` | is every frame read once, and does every message come back? | 51 feeds of 1 to 4 messages; two sizes of pieces each (one for the two longest); 2 drains |

Why these are enough.  Frames matter by kind and by what is before and behind them:
three give a first, a middle and a last for each position that `close()` can be in,
and every pair of kinds in every order.  Queue messages are compared only by their
order, and three are one that is held or handled, one that is queued and one that is
buffered.  Two dispatchers are one in the field and one that is stray; no run needs
a third, as what a stray one does is the same whatever the others are at.  Symmetry is
sound in `queue_readers`, which checks invariants only and names no reader or dispatcher.  In `heartbeats`, `Tolerated * 9 = 9` exceeds `SendGap + MaxDelay = 6 + 2` by
one, the least room the proof asks for, so an error of one tick in any of the terms
shows.  Two threads that close are the least that compete for the lock; the third
sends or receives.

`soup_app` needs four frames: the answer to the login, one message that may be read
before the login resumes, the one that does not decode, and one behind it.  Drains are
left to the session's runs: no code of these classes asks for one, except
`connection_lost()`, which is in the run.

`wire` takes, for each protocol, the messages at the edges of its format: a text that
just fits and one that does not, empty and non-ASCII texts, separators inside values,
numbers at both ends of their range, payloads where the first byte of the length and
where its sign begins to count, groups that are empty, nested, out of order, without a
common tag, and unknown tags.  Scripts of several frames put heartbeats, logouts and
frames that cannot be decoded before and behind others.  The pieces are chosen so that
each feed is cut inside its length, at a frame's end and across two frames.  Longer
messages would repeat these cases; pieces of every size would multiply the states and
add none, as only the position of a cut relative to a frame counts.  `FeedsAssumption`
tries on these feeds what the proofs of `FramesMatch` suppose: that what a feed decodes to
is what its frames decode to (`OutcomesOfFrames`), that it is `FixFramed` or `SoupFramed`,
and, at each byte of all that are shorter than 1000 bytes, that `deserialize()` takes a
frame when it is whole and waits while it is not.  `DictionaryAssumption` tries what the
proof of the FIX round trip supposes of a dictionary, and that the generated classes have
the entries which the file means.

What the runs say of behaviour that may surprise:

* `SequenceBracketed`: the `sequence` that the tools print next to a message is between the
  number of the message and the number of the last one read; it may lag by what was
  read before `login()` resumed, as `reply.sequence - 1` then forgets it
  (`soup/session.py:176`).
* `QuietUnlessLate`: the only way to a monitor that outlives its session is a login that
  resumes after the close began; and the only way to a dispatcher that does, without one,
  is a server that refuses a login.
* `NoDispatchAfterStop`: `stop()` does not end a dispatcher that is begun after it, by
  `start_dispatching()` or at the end of a pause or an exchange, nor one that another took the
  place of in `_dispatcher_task`.
* `NothingLost`: a drain of the queue that is cancelled or times out loses what is queued,
  and a `get()` that is cancelled may lose the message it was about to return.
* `NoOrphanAtClose`: `set_handlers()` that raises has assigned its handlers, and it is
  only thanks to that order (`common/session.py:344-347`) that the dispatcher of the application
  session it refused is stopped.
* `AppCloseReturns`: `close()` of an application returns except in four situations, named
  in `CloseIsStuck`: a drain that lost its reader, a close that raised the exception with
  which its reader died of a malformed frame, an `on_close_coro` cancelled by the task that
  called it, and an `on_close_coro` that itself awaits `close()`.
* `RoundTrip`: values outside a format are mostly changed without an error.  A login name
  beyond six characters is cut, spaces around a text are lost, a soup payload beyond
  32767 bytes of another implementation arrives empty, instances of a FIX group that
  share no tag arrive as one, a boolean given for an integer field is sent as `True`
  and stops the reader of the peer, and a fixed text that is too long shifts every
  field behind it.

Each property of a passing run fails under at least one mutant of the code, named in
`PROJECT.json`: a close without its guard, a queue stop that forgets the dispatcher, a
drain reported too early or too late, a message peeked at instead of taken, and so on.

Four more runs show where the code does not do what its documentation says:

* `session_drain_hangs` (`CloseNotifies`).  `connection_lost()` starts `close(drain=True)`;
  the reader then reads the frame that ends the session, stops itself, and never sets
  the drain event (`common/session.py:165`).  `on_close_coro` is not called, against
  `common/session.py:282-283`.
* `session_used_after_close` (`NoDispatchAfterNotify`).  A handler awaits `close()`.  The
  dispatcher cannot stop itself, the cancellation is swallowed while `close()` stops
  the reader, and messages go on arriving after `on_close_coro`, against
  `common/session.py:304`.  A soup server that refuses a login is such a handler.
* `heartbeats_defaults` (`HealthyPeerKept`).  Equal intervals, the default of 10 and 10,
  close a session that is idle and healthy, because an idle end sends its first
  heartbeat only after two intervals, against `common/session.py:325`.
* `sync_deadlock` (`CloseReturns`).  Two threads that close, and `on_close_coro`, wait
  for one another.

The modules state further properties that the code does not have, for a reader who
wants to see why; no run checks them: `OnCloseUninterrupted` and `DrainHandlesAll` in
`Session`, `EndOfQueueOnlyWhenStopped` in `MessageQueue` (it is proved for one reader
that does not give up), `SendReturns` in `SyncSession`.

## 4. Fairness

The event loop runs every ready task, so each task's steps are weakly fair.  A
handler is assumed to return, a transport whose `close()` was called to report
`connection_lost()`, and a thread to go on when it can.  Nothing is assumed of peers,
of what the application calls, or of when monitors fire.  In `Heartbeats` time passes
and what is due happens.  In `MessageQueue` the owner leaves its pause; nobody has to
put, get or stop.

`SoupApp` has one condition, `WF(System)`, over everything that the event loop does:
each such step uses up a message, a task or a call, and what the environment may add
is bounded, so every behaviour comes to a point where no step of the loop is left, and
fairness to all of them together is fairness to each.  In `ReaderFraming` the
reader's task is fair, and so is a close that goes on after its drain; peers, and users
of a drain, may do nothing.  `TurnFairness` is `WF_rvars(Turn)` written out, since `Idle` is
exactly when a turn would change nothing and is cheaper for TLC than `ENABLED`.

Liveness in `session_close` is under the peer and handlers of that run.  It does not
hold in general: with an `"end"` frame the drain hangs (see above), with a `"bad"`
frame the reader's task has failed and `close()` raises its exception, and with
nobody to take messages a drain polls for ever.

The runs switch TLC's deadlock check off, since a session that has closed, a
queue that has stopped and threads that have returned do nothing more.

## 5. Proofs

TLC checks small instances; eight modules prove for all values of the constants that
satisfy the assumptions in the modules, and the hypotheses named here:

* **Session.**  `TypeCorrect`, `OnCloseOnce`, `QuietClose`, `DrainIsComplete`,
  `InOrder`, `Invariance` and `NoLateHandler`. `NotifiedOnce` is not inductive: that
  `Notify` runs once follows from where `close()` is.  `CloseInv` therefore says, for
  each place `cpc`, what has been stopped (`InvCloser`, `InvMonitors`, `InvDispatcher`,
  `InvReader`); a group of places, such as `FromQueue`, is "from this await on".  Each
  fragment of `close()` is typed by a lemma of its own; `BeginCloseInv` shows that
  entering `close()` establishes the invariant whatever it finds stopped, and
  `CloseStep` goes through the actions.  `InvDrain` adds that nothing comes back once
  reader and queue were found empty, which needs that the transport no longer reads and
  that buffered messages are discarded.  `InvOrder` says that delivered, queued and
  buffered messages ascend, in this order.  `Invariance` puts the parts together as
  `IInv`, which a run checks.  All but `TypeCorrect` and `InOrder` assume
  `StartsWhenActive`; what holds without it is proved of the classes that start tasks
  too late, below.  The action property `NoDispatchAfterNotify` also needs that no
  handler closes its own session: with one that does it is false, as
  `session_used_after_close` shows.
* **The contract.**  `ImplementsContract`: every step of a session is a step of
  `SessionContract` or changes nothing the contract speaks of, so `ContractSafety` holds
  with any frames and any closers.  A frame that arrives appends to the backlog, one
  that is read moves within it, one that is dispatched or received leaves it at its
  head, and frames without a message are not in it; the lemmas of `SelectionProofs` say
  so of `Selected`.  That `Notify` closes a draining session only with an empty backlog
  is `InvDrain`.  The steps need only `ContractInv`, which does not say that every task has
  been stopped and so outlives a task that is started too late:
  `SoupImplementsContract` proves the same of every class of `ProtocolSession`, with an
  application session on top or without.  There `SoupDispatch` is the `Take` of several
  messages.
* **Selection.**  What `Selected` yields of an empty, an extended, a joined, a shortened
  sequence.  Such facts are inductions over the length, which the prover does not do as
  such; `SetInduction` obtains them from the least counterexample, an element of a set
  of naturals.
* **MessageQueue.**  `QueueTypeCorrect`, `QueueInvariant`, `QueueOrder`,
  `QueueComplete`, `QueueLosesNothing`, `QuietAfterStop` and `EndOfQueueMeansStopped`.  The
  argument about order is about one sequence, `Trail`: what was taken, is queued, or is
  buffered, in this order.  Taking and the exchange of the queue leave it as it is or cut
  a piece out of it, `put()` appends to it, discarding cuts off its end; `BufferInv` says
  when something is buffered, and that past the drain only what was given up is still
  queued.  Order and completeness hold for any number of readers, dispatchers and
  messages, with readers and owners that give up at any time, and any stop;
  `QueueLosesNothing` adds that without them nothing is given up at all.
  `QuietAfterStop` has no hypothesis: by `DispatcherInv` a dispatcher that is not stray and
  may start a handler is the one in the field, on a queue that is not stopped.
  `EndOfQueueMeansStopped` assumes `~ReadersGiveUp` and a single reader, since two of
  them do stop each other.
* **ProtocolSession and SoupApp.**  `SoupInvariance` proves `AInv`, which `soup_app`
  checks, and from it follow `SoupTypeCorrect`, `SoupQuiet`, `SoupNumbers`,
  `SoupReadNumbers`, `SoupAppComplete`, `SoupAppOrdered`, `SoupMonitors`, `SoupNoOrphan`
  and, of the session below, `SoupOnCloseOnce`, `SoupDrainIsComplete` and `SoupInOrder`.
  These classes call `start_heartbeats()` and `start_dispatching()` in a session that
  may be closing, and `CloseInv` is then false.  So `AInv` keeps what survives
  (`PlaceInv`, `InvDrain`, `InvOrder`) and has `~late => CloseInv` for the rest, `late`
  being a login that came too late.  The other parts: `LoginInv` ties `login` to the
  tasks that may exist, `OutInv` the numbers sent to `seq`, `AppInv` the application's
  two tasks and its close to the soup session's, `GivenInv` what was passed on to what
  was delivered, `ReadInv` the buffer to the frames' numbers, `CountInv` `seq` to what
  was read, `OverInv` that a reader which closes has stopped itself when `close()`
  comes to it, and `RefuserInv` that only a server's dispatcher closes.  The lemmas are those about `Session`, restated for one step of a
  session whatever else starts tasks.  `SoupReadNumbers` alone has a hypothesis: no
  heartbeats among the frames, because in this model frames, not messages, are numbered.
* **Heartbeats.**  `HeartbeatInvariance` proves that `HeartbeatInv` is inductive; the
  bounds on silence and detection and, for intervals with `RoomForHeartbeats`,
  `HealthyPeerIsKept` follow.  The invariant ties the age of the newest message in
  flight to the time since the last send (`InvFlight`), what was received to what is in
  flight (`InvReceived`), and the count of each monitor to the silence it has seen
  (`InvLocal`, `InvRemote`). With `Tolerated = 1` and no delays, `RoomForHeartbeats`
  reads `server_heartbeat_interval > 2 * client_heartbeat_interval`: this is the advice
  that follows for users.
* **SyncSession.**  `SyncInvariance`, `CloseAlwaysReachesLoop` and
  `CloseIsAlwaysComplete`. `InvLock` says who holds the lock, `InvEvent` that the loop
  is asked to stop under the lock and together with the event: this is what makes the
  test of `closed_event` in `close()` sufficient.
* **ReaderFraming.**  `ReaderIsExact` proves `ReaderInv` for any feed, any pieces and
  any number of drains.  Its invariant `FullInv` adds the types of the buffers.  Each
  action moves bytes between three sequences (not arrived, held back, unread); the
  lemmas about suffixes turn this into arithmetic on their lengths.  The hypothesis
  `TakesWhatIsThere` says of the constant `Deserialize` that it takes no more bytes than
  it was given, and none when it waits for more.  `ReaderGivesFrames` proves
  `FramesMatch`: by `MatchInv` the reader has eaten up to the end of a frame, has got
  what the frames up to there decode to, and fails only if the next frame does.  It
  supposes of a feed that its frames follow one another (`FramesInOrder`) and of
  `Deserialize` that it takes the first frame when it is whole, whatever follows, and
  waits while it is not (`TakesWholeFrames`).
* **Framing.**  `SoupReaderIsExact`, `SoupReaderGivesFrames`, `FixReaderIsExact` and
  `FixReaderGivesFrames` discharge these hypotheses for the two readers, on every stream
  of frames of the right length (`SoupFramed`, `FixFramed`), which the feeds of the run
  are.  The argument is the same for both (`CutIsTaken`): what decides about a frame lies
  in its front and does not change when more bytes follow (`DecidesInFront`), be it the
  two bytes of a length or, for FIX, the places of `35=`, of the second `=` and of the
  separator behind the length.  For FIX the decoder is any function of the bytes of a
  frame.
* **FIX, sender and reader.**  `FixWritesFrames`: what `_prepare_complete_msg()` makes of a
  message is one whole frame of its own length, for any message and type, and any version
  without `=`.  The search for the second `=` skips that of the first tag and meets
  the one of the length, whose digits contain neither `=` nor a separator; they are read
  back as the number that was written (`Decimal` and `Number` are inverse, by induction
  on the value), and the checksum is three digits whatever it sums up to, hence the
  `TRAILER_LENGTH` of 7.  `FixReadsWhatIsSent` concludes that the reader at the other end
  decodes exactly these bytes, whatever has arrived behind them.
* **Binary messages.**  `EveryTypeReadsBack` and `MessageRoundTrip`.  A codec (`IsCodec`)
  reads from its own bytes, whatever follows them, the value it wrote if that is exact,
  and claims no byte more; it does not read a value that is not exact when something
  follows.  Integers of any width, sign and byte order are codecs since their digits
  are put together again one by one (`IntReadsBack`, by induction over the digits); fixed
  texts since padding is what `strip()` takes off and nothing else.  Fields and elements
  that stand one behind the other are found by the sizes of those before them:
  `ListReadsBack` shows, by induction over their number, that each reader begins where its
  part does as long as all before it were exact, and otherwise looks at the first that
  was not.  With this, records, present bits and arrays of codecs are codecs, hence all
  types of any depth (`TypesOfDepth`), by induction over the depth.  `MessageRoundTrip`
  adds the id: an incoming message is decoded as the outgoing one with its indicator, or
  raises.  That something follows is needed for the second half, but only where a value
  ends in an empty `Char`: at the end of a payload it is read as the empty text it was,
  anywhere else it takes the byte behind it.  So nothing need follow if a field that does
  not fit has left its mark (`Misread`): something is written behind it, or it is of a
  simple type and was written at all (`IsClosed`).
* **FIX messages.**  `EveryEntryReadsBack` and `FixRoundTrip`.  A field ends at its
  separator, a group does not end: its last instance takes every field behind it that it
  knows.  So what a codec of FIX promises (`IsEntry`) has a condition on what follows: an
  entry reads back an exact value, and leaves exactly the rest, if the rest begins with a
  tag that is in none of its instances.  There always is a rest: behind the last field of
  a message the checksum is still to come.  A class whose entries keep this promise reads
  its fields one by one, each being stopped by the tag of the next, since tags are distinct
  and no tag of a group's instances is one of the class (`Unambiguous`); an instance of a
  group is stopped by the first tag of the next instance, which it has already.  Hence
  fields and groups over such classes are entries, at every depth (`EntriesOfDepth`), by
  induction over the depth.
  `FixRoundTrip` puts the three segments behind one another (`Apart`: no segment takes a
  field of one behind it), adds the fields that the framing adds (`FramingFits`), and with
  `FixReadsWhatIsSent` has the message that the peer's `deserialize()` decodes.
  The converse is about what can be read at all, of any bytes: whatever a class reads, of
  whatever a peer sends, are fields of its own, each once, with values that some bytes are
  read as (`FieldsWell`), and so are the fields of each instance of a group, at every depth
  (`GroupCanRead`).  A message with another field, be it one that the framing sets too, is
  therefore not what the peer gets (`FixMisread`), and neither is one without any field.
  For a field that is not a group, what can be read is what comes back (`FieldCanRead`);
  so of the messages without groups exactly those that fit come back (`FlatRoundTrip`).  A
  dictionary whose classes cannot be told apart is outside the theorem, and rightly: the
  decoder takes a field of the message that is also one of a group's last instance for the
  latter.
* **SoupMessages.**  `SoupRoundTrip`: of the messages that `to_bytes()` accepts, exactly
  those that `SoupFaithful` names come back from `from_bytes()` as they were.  The columns
  of a format do not overlap and fill the body (`ColumnsFill`), so each can be read by
  itself; `Stripped` and `TrimmedStays` say what `strip()` leaves of a column that was
  filled or cut, `CanonicalIs` what `int()` and `str()` make of digits.
  `PayloadRoundTrip` is about the messages with a payload (sequenced and unsequenced data,
  debug): each payload of at most 32766 bytes comes back as it was sent, and a longer one
  up to the limit of the length field is framed but comes back empty.  The theorem leaves
  out sequence numbers with a sign, as the model does (section 6).

* **The wire.**  `WireRoundTrip` proves `FramesMatch` and `RoundTrip` together, of the
  readers with the codecs behind them, with nothing supposed of either: only that each
  feed is one of messages in `WireMessages` (`IsWireFeed`).  These are, of SoupBinTCP,
  all that a peer can send; of FIX, those that fit a dictionary as `FixRoundTrip` has it,
  and those of which some field cannot be read (`FixMisread`); and of the binary protocols,
  those that fit their layouts, that have the id of an incoming message, or of which a field
  that does not fit leaves its mark (`Misread`).  The bytes of a feed are its frames one behind the other, so cut where the
  frames end they are the frames again (`FramesCutAgain`), and each frame is whole and
  comes back as its message exactly if that fits (`MessageComesBack`, from the theorems
  about the codecs).  So the hypotheses of `ReaderGivesFrames` hold, and by `MatchInv` the
  frame that `RoundTrip` speaks of is one of the feed's.

`TypeCorrect`, `QueueTypeCorrect`, `SoupTypeCorrect` and `HeartbeatTypes` are the type invariants; the
runs check these as part of `IInv`, `QInv`, `AInv` and `HeartbeatInv`, and `STypeOK` as part of `SyncInv`.

Only model-checked:

* all liveness properties, `ContractLiveness`, `ReaderProgress`, and whatever needs
  `ENABLED`: out of the prover's reach;
* that a FIX message does not come back as it was whose fields can all be read, but whose
  groups are not built as groups are read: an instance is empty, begins with a tag that the
  one before it has not, or has its fields in another order than its class;
* the same of a binary message alone in its frame of which only the end does not fit, and
  is written as nothing or is of a composed type: `MessageRoundTrip` proves it where a byte
  follows;
* what the parsers make of definitions: `FixDictionary` and `MessageDefinitions` declare
  recursive operators, which exclude theorems there and in `MCWire`.  The theorems about
  FIX and binary messages therefore take classes and layouts as they were meant
  (`Classes(Dictionary, type) = Classes(Specified, type)`, `Layouts[id] = SpecifiedLayouts[id]`), and
  only the run shows that `Generated` and `LayoutsOf` yield them.

## 6. Not modelled, and assumed

Sessions:

* Cancellation of `close()` itself, and the timeout of `connect_async()`.
* A `send_heartbeat()` that raises.
* Falsy messages, which `get()` drops (`common/message_queue.py:62`).
* What a closed transport writes.  It reads no more.
* An owner of the queue that gives up its drain in the very round of the loop in which an
  entry has woken somebody (`DrainGivenUp`, see `MessageQueue` above).
* A second `close()` of an application session, which returns at once and changes nothing.
* In `ReaderFraming`, a held-back piece is discarded only by a close, the one caller in
  the package that asks for it; and a handler of the reader does not suspend, as those
  of the sessions do not (with one that does, the comparison at
  `common/session.py:161-165` would see bytes that arrived meanwhile).

Codecs:

* Floats of FIX: their text is Python's `repr`, in scientific notation for some values.
* Integers in texts that are not plain decimal digits (`int()` also takes underscores,
  spaces and digits of other scripts), a body length with a sign, and integers beyond TLC's 32 bits: the eight-byte
  types are modelled with their width, on small values.
* The ASN.1 codec, an external library.
* The refusal of an ASCII type to pack or read a character beyond 127: `Char`, `Text` and
  `Fixed` are the types of ISO 8859-1, which do to all other texts what those of ASCII do.
* Access to fields by name, `as_collection`, JSON and printing.
* The FIX sessions of the versions, which differ in `BeginString`.

Definitions:

* The names of classes and fields, the values of enums, and the text that the templates
  write to files.
* Two definitions of the same name in a FIX dictionary: the parser keeps a component
  it has expanded, which is visible only then.
* Definitions that survive from one parsed file to the next
  (`common/message/parser.py:167` assigns to the class).

`new_project`, the command line tools and the type registry are plain declarations and
printing.

## 7. Plan

Done: every module the survey called for, and a theorem for each invariant that the runs
check.  What is left: to model a `send_heartbeat()` that fails, after which an end is
silent.
