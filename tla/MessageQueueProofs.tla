------------------------- MODULE MessageQueueProofs -------------------------
(***************************************************************************)
(* What DispatchableMessageQueue promises for any number of readers and    *)
(* messages.  The argument is about one sequence, Trail: every message     *)
(* that was taken, is queued or is buffered.  Taking a message and         *)
(* exchanging an empty queue for its buffer leave it as it is, put()       *)
(* appends to it, discarding the buffer cuts its end off, and a drain that *)
(* was given up cuts out what was still queued.                            *)
(***************************************************************************)
EXTENDS MessageQueue, SequenceTheorems, TLAPS

Trail == taken \o main \o buf

-----------------------------------------------------------------------------
(* Sequences of messages *)

Messages == 1..MaxMessages

\* A sequence that ascends.
Rising(s) == \A i, j \in DOMAIN s : i < j => s[i] < s[j]

\* The elements of two sequences, one after the other.
LEMMA ConcatElements ==
    ASSUME NEW S, NEW s \in Seq(S), NEW t \in Seq(S)
    PROVE  Elements(s \o t) = Elements(s) \union Elements(t)
<1>1. /\ s \o t \in Seq(S) /\ Len(s) \in Nat /\ Len(t) \in Nat
      /\ DOMAIN s = 1..Len(s) /\ DOMAIN t = 1..Len(t) /\ DOMAIN (s \o t) = 1..(Len(s) + Len(t))
      /\ \A i \in 1..(Len(s) + Len(t)) :
            (s \o t)[i] = IF i <= Len(s) THEN s[i] ELSE t[i - Len(s)]
    BY ConcatProperties, LenProperties
<1>2. ASSUME NEW e \in Elements(s \o t)
      PROVE  e \in Elements(s) \union Elements(t)
    <2>1. PICK i \in 1..(Len(s) + Len(t)) : e = (s \o t)[i]
        BY <1>1, <1>2 DEF Elements
    <2>2. CASE i <= Len(s)
        <3>1. i \in DOMAIN s /\ e = s[i]
            BY <1>1, <2>1, <2>2
        <3> QED BY <3>1 DEF Elements
    <2>3. CASE ~(i <= Len(s))
        <3>1. i - Len(s) \in DOMAIN t /\ e = t[i - Len(s)]
            BY <1>1, <2>1, <2>3
        <3> QED BY <3>1 DEF Elements
    <2> QED BY <2>2, <2>3
<1>3. ASSUME NEW e \in Elements(s)
      PROVE  e \in Elements(s \o t)
    <2>1. PICK i \in DOMAIN s : e = s[i]
        BY <1>3 DEF Elements
    <2>2. i \in DOMAIN (s \o t) /\ e = (s \o t)[i]
        BY <1>1, <2>1
    <2> QED BY <2>2 DEF Elements
<1>4. ASSUME NEW e \in Elements(t)
      PROVE  e \in Elements(s \o t)
    <2>1. PICK i \in DOMAIN t : e = t[i]
        BY <1>4 DEF Elements
    <2>2. i + Len(s) \in DOMAIN (s \o t) /\ e = (s \o t)[i + Len(s)]
        BY <1>1, <2>1
    <2> QED BY <2>2 DEF Elements
<1> QED BY <1>2, <1>3, <1>4

\* The elements of a sequence are elements of its set.
LEMMA ElementsType ==
    ASSUME NEW S, NEW s \in Seq(S)
    PROVE  Elements(s) \subseteq S
BY DEF Elements

\* The element of a sequence of one.
LEMMA OneElement ==
    ASSUME NEW e
    PROVE  Elements(<<e>>) = {e} /\ Elements(<<>>) = {}
BY DEF Elements

\* The elements of three sequences, and of a sequence with one more.
LEMMA TrailElements ==
    ASSUME NEW S, NEW s \in Seq(S), NEW t \in Seq(S), NEW u \in Seq(S)
    PROVE  Elements(s \o t \o u) = Elements(s) \union Elements(t) \union Elements(u)
<1>1. s \o t \in Seq(S)
    BY ConcatProperties
<1>2. Elements((s \o t) \o u) = Elements(s \o t) \union Elements(u)
    BY <1>1, ConcatElements
<1> QED BY <1>2, ConcatElements

LEMMA AppendElements ==
    ASSUME NEW S, NEW s \in Seq(S), NEW e \in S
    PROVE  Elements(Append(s, e)) = Elements(s) \union {e}
<1>1. Append(s, e) = s \o <<e>> /\ <<e>> \in Seq(S)
    OBVIOUS
<1>2. Elements(s \o <<e>>) = Elements(s) \union Elements(<<e>>)
    BY <1>1, ConcatElements
<1> QED BY <1>1, <1>2, OneElement

\* What rises rises up to any place.
LEMMA PrefixRises ==
    ASSUME NEW s \in Seq(Messages), NEW t \in Seq(Messages), Rising(s \o t)
    PROVE  Rising(s)
<1>1. \A i \in DOMAIN s : i \in DOMAIN (s \o t) /\ (s \o t)[i] = s[i]
    OBVIOUS
<1> QED BY <1>1 DEF Rising

\* What rises rises without a piece of it.
LEMMA CutRises ==
    ASSUME NEW s \in Seq(Messages), NEW t \in Seq(Messages), NEW u \in Seq(Messages),
           Rising(s \o t \o u)
    PROVE  Rising(s \o u)
<1> DEFINE at(i) == IF i <= Len(s) THEN i ELSE i + Len(t)
<1>1. /\ Len(s) \in Nat /\ Len(t) \in Nat /\ Len(u) \in Nat
      /\ DOMAIN (s \o u) = 1..(Len(s) + Len(u))
      /\ DOMAIN (s \o t \o u) = 1..(Len(s) + Len(t) + Len(u))
    OBVIOUS
<1>2. ASSUME NEW i \in DOMAIN (s \o u)
      PROVE  at(i) \in DOMAIN (s \o t \o u) /\ (s \o t \o u)[at(i)] = (s \o u)[i]
    <2>1. CASE i <= Len(s)
        <3>1. (s \o u)[i] = s[i] /\ (s \o t)[i] = s[i]
            BY <1>1, <2>1
        <3>2. (s \o t \o u)[i] = (s \o t)[i]
            BY <1>1, <2>1
        <3> QED BY <1>1, <2>1, <3>1, <3>2
    <2>2. CASE ~(i <= Len(s))
        <3>1. (s \o u)[i] = u[i - Len(s)]
            BY <1>1, <2>2
        <3>2. (s \o t \o u)[i + Len(t)] = u[i - Len(s)]
            BY <1>1, <2>2
        <3> QED BY <1>1, <2>2, <3>1, <3>2
    <2> QED BY <2>1, <2>2
<1>3. \A i, j \in DOMAIN (s \o u) : i < j => at(i) < at(j)
    BY <1>1
<1> HIDE DEF at
<1> QED BY <1>2, <1>3 DEF Rising

\* One message more than all before.
LEMMA AppendRises ==
    ASSUME NEW s \in Seq(Nat), NEW n \in Nat, Rising(s), \A e \in Elements(s) : e < n
    PROVE  Rising(Append(s, n))
<1>1. \A i \in DOMAIN s : s[i] < n
    BY DEF Elements
<1> QED BY <1>1 DEF Rising

\* The message at the head of the queue goes to the end of those taken.
LEMMA TakeKeepsTrail == QTypeOK /\ TakeHead /\ UNCHANGED buf => UNCHANGED Trail
<1> SUFFICES ASSUME QTypeOK, TakeHead, UNCHANGED buf PROVE Trail' = Trail
    OBVIOUS
<1>1. taken \in Seq(Messages) /\ main \in Seq(Messages) /\ buf \in Seq(Messages)
    BY DEF QTypeOK, Messages
<1>2. Append(taken, Head(main)) \o Tail(main) = taken \o main
    BY <1>1 DEF TakeHead
<1> QED BY <1>2 DEF Trail, TakeHead

-----------------------------------------------------------------------------
(* Type correctness *)

GetStates == {"idle", "blocked", "orphaned", "taken", "cancelling", "cancelled", "stopping",
              "ended"}
DispatcherStates == {"none", "get", "orphaned", "handle", "cancelled", "ended"}
MaybeDispatcher == Dispatchers \union {NoDispatcher}
OwnerStates == {"idle", "pausing", "paused", "draining", "draining_discard", "drained",
                "drained_discard", "swapping"}
StopperStates == {"idle", "await_dispatcher", "await_recv", "stopped"}

\* What the readers, the dispatchers and the messages are.
ReadersTyped ==
    /\ get \in [Readers -> GetStates] /\ held \in [Readers -> 0..MaxMessages]
    /\ awaited \in [Readers -> Readers \union {NoReader}]
    /\ recvTask \in Readers \union {NoReader}
DispatchersTyped ==
    /\ disp \in [Dispatchers -> DispatcherStates]
    /\ dref \in MaybeDispatcher
    /\ ends \in [owner : MaybeDispatcher, stop : MaybeDispatcher]
    /\ stray \subseteq Dispatchers
PlacesTyped ==
    /\ buffering \in BOOLEAN /\ closed \in BOOLEAN
    /\ owner \in OwnerStates /\ stopper \in StopperStates
MessagesTyped ==
    /\ sent \in 0..MaxMessages
    /\ main \in Seq(Messages) /\ buf \in Seq(Messages) /\ taken \in Seq(Messages)
    /\ used \subseteq Messages /\ discarded \subseteq Messages
    /\ givenUp \subseteq 0..MaxMessages

AllTyped == ReadersTyped /\ DispatchersTyped /\ PlacesTyped /\ MessagesTyped

LEMMA QTypeParts == QTypeOK <=> AllTyped
BY Zenon DEF QTypeOK, AllTyped, ReadersTyped, DispatchersTyped, PlacesTyped, MessagesTyped,
   Messages, GetStates, DispatcherStates, MaybeDispatcher, OwnerStates, StopperStates

\* A queue that was constructed is typed.
LEMMA QInitTyped == QInit => QTypeOK
<1> SUFFICES ASSUME QInit PROVE AllTyped
    BY QTypeParts
<1>1. ReadersTyped
    <2>1. "idle" \in GetStates /\ 0 \in 0..MaxMessages
        BY MaxMessagesAssumption DEF GetStates
    <2> QED BY <2>1 DEF QInit, ReadersTyped
<1>2. DispatchersTyped
    <2>1. dref \in MaybeDispatcher
        BY DEF QInit, MaybeDispatcher
    <2>2. "get" \in DispatcherStates /\ "none" \in DispatcherStates
        BY DEF DispatcherStates
    <2>3. disp \in [Dispatchers -> DispatcherStates]
        BY <2>2 DEF QInit
    <2>4. NoDispatcher \in MaybeDispatcher
        BY DEF MaybeDispatcher
    <2> QED BY <2>1, <2>3, <2>4 DEF QInit, DispatchersTyped
<1>3. PlacesTyped
    BY Zenon DEF QInit, PlacesTyped, OwnerStates, StopperStates
<1>4. MessagesTyped
    <2>1. <<>> \in Seq(Messages) /\ {} \subseteq Messages /\ 0 \in 0..MaxMessages
          /\ {} \subseteq 0..MaxMessages
        BY MaxMessagesAssumption
    <2> QED BY <2>1 DEF QInit, MessagesTyped
<1> QED BY <1>1, <1>2, <1>3, <1>4 DEF AllTyped

\* Taking the head of the queue keeps it typed.
LEMMA TakeTyped ==
    ASSUME MessagesTyped, TakeHead
    PROVE  main' \in Seq(Messages) /\ taken' \in Seq(Messages) /\ Head(main) \in Messages
<1>1. main \in Seq(Messages) /\ taken \in Seq(Messages) /\ main # <<>>
    BY DEF MessagesTyped, TakeHead
<1> QED BY <1>1 DEF TakeHead

\* stop() leaves the readers typed when it cancels the task of one.
LEMMA StopRecvTyped ==
    ASSUME ReadersTyped, StopRecvTask, UNCHANGED <<held, awaited>>
    PROVE  ReadersTyped' /\ stopper' \in {"await_recv", "stopped"}
<1>1. CASE Waiting(recvTask)
    <2>1. "cancelling" \in GetStates
        BY DEF GetStates
    <2> QED BY <1>1, <2>1 DEF ReadersTyped, StopRecvTask, CancelTask
<1>2. CASE ~Waiting(recvTask)
    BY <1>2 DEF ReadersTyped, StopRecvTask
<1> QED BY <1>1, <1>2

\* No step gives a reader a value the code does not know.
LEMMA ReadersTypedStep ==
    ASSUME AllTyped, [QNext]_qvars
    PROVE  ReadersTyped'
<1>0. ReadersTyped /\ MessagesTyped
    BY DEF AllTyped
<1>1. \A x \in {"idle", "blocked", "orphaned", "taken", "cancelling", "cancelled", "stopping",
                "ended"} : x \in GetStates
    BY DEF GetStates
<1>2. 0 \in 0..MaxMessages /\ Messages \subseteq 0..MaxMessages
    BY MaxMessagesAssumption DEF Messages
<1>3. ASSUME NEW r \in Readers
      PROVE  Outcome(r) \in GetStates
    BY <1>1 DEF Outcome
<1> USE DEF ReadersTyped
<1>4. CASE UNCHANGED readVars
    BY <1>0, <1>4 DEF readVars
<1>5. ASSUME NEW r \in Readers, GetEnds(r) \/ GetWaits(r) \/ RecvCancelled(r)
      PROVE  ReadersTyped'
    BY <1>0, <1>1, <1>5 DEF GetEnds, GetWaits, GetWaitsFor, RecvCancelled
<1>6. ASSUME NEW r \in Readers, RecvTakes(r)
      PROVE  ReadersTyped'
    <2>1. Head(main) \in 0..MaxMessages
        BY <1>0, <1>2, <1>6, TakeTyped DEF RecvTakes
    <2> QED BY <1>0, <1>1, <1>6, <2>1 DEF RecvTakes
<1>7. ASSUME NEW r \in Readers, GetCancelled(r)
      PROVE  ReadersTyped'
    BY <1>0, <1>1, <1>2, <1>7 DEF GetCancelled, CancelTask
<1>8. ASSUME NEW r \in Readers, GetReturns(r), awaited' \in [Readers -> Readers \union {NoReader}]
      PROVE  ReadersTyped'
    BY <1>0, <1>2, <1>3, <1>8 DEF GetReturns
<1>9. ASSUME NEW r \in Readers, GetResumes(r) \/ GetFinishes(r)
      PROVE  ReadersTyped'
    <2>1. CASE /\ get' = [CancelTask(recvTask) EXCEPT ![r] = "stopping"]
               /\ awaited' = [awaited EXCEPT ![r] = recvTask]
               /\ UNCHANGED <<held, recvTask>>
        BY <1>0, <1>1, <2>1 DEF CancelTask
    <2>2. CASE GetReturns(r) /\ awaited' \in {awaited, [awaited EXCEPT ![r] = NoReader]}
        BY <1>0, <1>8, <2>2
    <2> QED BY <1>9, <2>1, <2>2 DEF GetResumes, GetFinishes
<1>10. CASE Swap
    <2>1. get' \in [Readers -> GetStates]
        BY <1>0, <1>1, <1>10 DEF Swap
    <2> QED BY <1>0, <1>10, <2>1 DEF Swap
<1>11. CASE StopRecvTask /\ UNCHANGED <<held, awaited>>
    BY <1>0, <1>11, StopRecvTyped
<1>12. CASE Stop \/ StopDispatcherEnded \/ StopRecvEnded
    BY <1>0, <1>11, <1>12 DEF Stop, StopDispatcherEnded, StopRecvEnded
<1>13. ASSUME NEW r \in Readers, GetNow(r)
       PROVE  ReadersTyped'
    BY <1>4, <1>13 DEF GetNow
<1>14. ASSUME NEW d \in Dispatchers, Dispatching(d)
       PROVE  ReadersTyped'
    BY <1>4, <1>14 DEF Dispatching, DispatchNext, HandlerReturns, DispatcherEnds
<1>15. CASE Put \/ StartDispatching \/ OwnerStarts \/ DrainGivenUp \/ PauseEntered \/ Unpause
            \/ Drained \/ DiscardBuffer \/ SwapBegins \/ UNCHANGED qvars
    BY <1>4, <1>15 DEF Put, StartDispatching, OwnerStarts, Pause, BufferUntilDrained,
       DrainGivenUp, PauseEntered, Unpause, Drained, DiscardBuffer, SwapBegins, qvars
<1> HIDE DEF ReadersTyped
<1> QED BY <1>5, <1>6, <1>7, <1>9, <1>10, <1>12, <1>13, <1>14, <1>15
        DEF QNext, Calling, Reading, OwnerGoesOn, Stopping, SwapWithoutDispatcher, SwapEnds

\* A new dispatcher task, and one that is cancelled, keep the types.
LEMMA NewDispatcherTyped ==
    ASSUME DispatchersTyped, NEW d \in Dispatchers, NEW idle, NewDispatcher(d, idle),
           ends' \in [owner : MaybeDispatcher, stop : MaybeDispatcher]
    PROVE  DispatchersTyped'
<1>1. disp' \in [Dispatchers -> DispatcherStates]
    BY DEF NewDispatcher, DispatchersTyped, DispatcherStates
<1>2. dref' \in MaybeDispatcher
    BY DEF NewDispatcher, MaybeDispatcher
<1>3. stray' \subseteq Dispatchers
    BY DEF NewDispatcher, DispatchersTyped, MaybeDispatcher
<1> QED BY <1>1, <1>2, <1>3 DEF DispatchersTyped

LEMMA CancelDispatcherTyped ==
    ASSUME DispatchersTyped, NEW who \in {"owner", "stop"}, CancelDispatcher(who), dref' = dref
    PROVE  DispatchersTyped'
<1>1. disp' \in [Dispatchers -> DispatcherStates]
    BY DEF CancelDispatcher, DispatchersTyped, DispatcherStates
<1>2. ends' \in [owner : MaybeDispatcher, stop : MaybeDispatcher]
    BY DEF CancelDispatcher, DispatchersTyped
<1>3. stray' \subseteq Dispatchers
    BY DEF CancelDispatcher, DispatchersTyped
<1> QED BY <1>1, <1>2, <1>3 DEF DispatchersTyped

\* No step gives a dispatcher such a value.
LEMMA DispatchersTypedStep ==
    ASSUME AllTyped, [QNext]_qvars
    PROVE  DispatchersTyped'
<1>0. DispatchersTyped
    BY DEF AllTyped
<1>1. CASE UNCHANGED <<dispVars, ends>>
    BY <1>0, <1>1 DEF dispVars, DispatchersTyped
<1>2. NoDispatcher \in MaybeDispatcher
    BY DEF MaybeDispatcher
<1>3. ASSUME NEW r \in Readers, Calling(r) \/ Reading(r)
      PROVE  DispatchersTyped'
    BY <1>1, <1>3 DEF Calling, Reading, GetNow, GetEnds, GetWaits, GetWaitsFor, GetCancelled,
       RecvTakes, RecvCancelled, GetResumes, GetFinishes, whoVars
<1>4. ASSUME NEW d \in Dispatchers, Dispatching(d)
      PROVE  DispatchersTyped'
    <2>1. PICK x \in DispatcherStates : disp' = [disp EXCEPT ![d] = x]
        BY <1>4 DEF Dispatching, DispatchNext, HandlerReturns, DispatcherEnds, DispatcherStates
    <2>2. UNCHANGED <<dref, stray, ends>>
        BY <1>4 DEF Dispatching, DispatchNext, HandlerReturns, DispatcherEnds, whoVars
    <2> QED BY <1>0, <2>1, <2>2 DEF DispatchersTyped
<1>5. ASSUME NEW d \in Dispatchers, NEW idle, NewDispatcher(d, idle),
             ends' \in {ends, [ends EXCEPT !.owner = NoDispatcher]}
      PROVE  DispatchersTyped'
    <2>1. ends' \in [owner : MaybeDispatcher, stop : MaybeDispatcher]
        BY <1>0, <1>2, <1>5 DEF DispatchersTyped
    <2> QED BY <1>0, <1>5, <2>1, NewDispatcherTyped
<1>6. CASE StartDispatching \/ Unpause
    BY <1>5, <1>6 DEF StartDispatching, Unpause, whoVars
<1>7. CASE SwapEnds
    BY <1>5, <1>7 DEF SwapEnds
<1>8. CASE Pause \/ SwapBegins
    BY <1>0, <1>8, CancelDispatcherTyped DEF Pause, SwapBegins
<1>9. CASE Stop
    <2>1. CASE IsDispatching
        BY <1>0, <1>9, <2>1, CancelDispatcherTyped DEF Stop
    <2>2. CASE ~IsDispatching
        BY <1>1, <1>9, <2>2 DEF Stop, dispVars
    <2> QED BY <2>1, <2>2
<1>10. CASE PauseEntered \/ StopDispatcherEnded
    <2>1. ends' \in [owner : MaybeDispatcher, stop : MaybeDispatcher]
        BY <1>0, <1>2, <1>10 DEF PauseEntered, StopDispatcherEnded, DispatchersTyped
    <2>2. dref' \in MaybeDispatcher /\ UNCHANGED <<disp, stray>>
        BY <1>2, <1>10 DEF PauseEntered, StopDispatcherEnded
    <2> QED BY <1>0, <2>1, <2>2 DEF DispatchersTyped
<1>11. CASE SwapWithoutDispatcher
    <2>1. disp' \in [Dispatchers -> DispatcherStates]
        BY <1>0, <1>11 DEF SwapWithoutDispatcher, DispatchersTyped, DispatcherStates
    <2> QED BY <1>0, <1>11, <2>1 DEF SwapWithoutDispatcher, DispatchersTyped
<1>12. CASE Put \/ DrainGivenUp \/ Drained \/ DiscardBuffer \/ StopRecvEnded \/ UNCHANGED qvars
            \/ \E discard \in BOOLEAN : BufferUntilDrained(discard)
    BY <1>1, <1>12 DEF Put, DrainGivenUp, Drained, DiscardBuffer, StopRecvEnded, qvars,
       BufferUntilDrained, whoVars
<1> QED BY <1>3, <1>4, <1>6, <1>7, <1>8, <1>9, <1>10, <1>11, <1>12
        DEF QNext, OwnerStarts, OwnerGoesOn, Stopping

\* No step gives the owner, stop() or a flag such a value.
LEMMA PlacesTypedStep ==
    ASSUME AllTyped, [QNext]_qvars
    PROVE  PlacesTyped'
<1>0. PlacesTyped
    BY DEF AllTyped
<1>1. CASE UNCHANGED <<buffering, closed, owner, stopper>>
    BY <1>0, <1>1 DEF PlacesTyped
<1>2. ASSUME NEW r \in Readers, Calling(r) \/ Reading(r)
      PROVE  PlacesTyped'
    BY <1>1, <1>2 DEF Calling, Reading, GetNow, GetEnds, GetWaits, GetWaitsFor, GetCancelled,
       RecvTakes, RecvCancelled, GetResumes, GetFinishes, whoVars, bufVars
<1>3. ASSUME NEW d \in Dispatchers, Dispatching(d)
      PROVE  PlacesTyped'
    BY <1>1, <1>3 DEF Dispatching, DispatchNext, HandlerReturns, DispatcherEnds, whoVars, bufVars
<1>4. CASE /\ owner' \in OwnerStates /\ buffering' \in {buffering, TRUE, FALSE}
           /\ UNCHANGED <<closed, stopper>>
    BY <1>0, <1>4 DEF PlacesTyped
<1>5. CASE Put \/ StartDispatching \/ UNCHANGED qvars
    BY <1>1, <1>5 DEF Put, StartDispatching, qvars, whoVars, bufVars
<1>6. CASE \E discard \in BOOLEAN : BufferUntilDrained(discard)
    BY <1>4, <1>6 DEF BufferUntilDrained, OwnerStates
<1>7. CASE Pause \/ PauseEntered \/ Unpause \/ Drained \/ DrainGivenUp \/ SwapBegins
    BY <1>4, <1>7 DEF Pause, PauseEntered, Unpause, Drained, DrainGivenUp, SwapBegins,
       AfterDrain, OwnerStates, bufVars
<1>8. CASE DiscardBuffer \/ SwapWithoutDispatcher \/ SwapEnds
    BY <1>4, <1>8 DEF DiscardBuffer, SwapWithoutDispatcher, SwapEnds, Swap, OwnerStates
<1>9. CASE Stop \/ StopDispatcherEnded \/ StopRecvEnded
    <2>1. stopper' \in StopperStates /\ closed' \in {closed, TRUE} /\ UNCHANGED <<owner, buffering>>
        BY <1>9 DEF Stop, StopDispatcherEnded, StopRecvEnded, StopRecvTask, StopperStates, bufVars
    <2> QED BY <1>0, <2>1 DEF PlacesTyped
<1> QED BY <1>2, <1>3, <1>5, <1>6, <1>7, <1>8, <1>9
        DEF QNext, OwnerStarts, OwnerGoesOn, Stopping

\* No step gives queue, buffer or bookkeeping such a value.
LEMMA MessagesTypedStep ==
    ASSUME AllTyped, [QNext]_qvars
    PROVE  MessagesTyped'
<1>0. MessagesTyped /\ ReadersTyped
    BY DEF AllTyped
<1> USE DEF MessagesTyped
<1>1. CASE Put
    <2>1. sent' \in 1..MaxMessages /\ sent' \in 0..MaxMessages
        BY <1>0, <1>1, MaxMessagesAssumption DEF Put
    <2>2. main' \in Seq(Messages) /\ buf' \in Seq(Messages)
        <3>1. sent' \in Messages /\ main \in Seq(Messages) /\ buf \in Seq(Messages)
            BY <1>0, <2>1 DEF Messages
        <3>2. Append(main, sent') \in Seq(Messages) /\ Append(buf, sent') \in Seq(Messages)
            BY <3>1, AppendProperties
        <3> QED BY <1>1, <3>1, <3>2, Zenon DEF Put, PutWhere
    <2> QED BY <1>0, <1>1, <2>1, <2>2 DEF Put, useVars
<1>2. CASE TakeHead /\ used' \in {used, used \union {Head(main)}} /\ UNCHANGED <<sent, bufVars, givenUp>>
    <2>1. main' \in Seq(Messages) /\ taken' \in Seq(Messages) /\ Head(main) \in Messages
        BY <1>0, <1>2, TakeTyped
    <2> QED BY <1>0, <1>2, <2>1 DEF bufVars
<1>3. CASE UNCHANGED <<sent, main, bufVars, useVars>>
    BY <1>0, <1>3 DEF bufVars, useVars
<1>4. ASSUME NEW r \in Readers, GetNow(r) \/ RecvTakes(r)
      PROVE  MessagesTyped'
    BY <1>2, <1>4 DEF GetNow, RecvTakes
<1>5. ASSUME NEW r \in Readers, GetEnds(r) \/ GetWaits(r) \/ RecvCancelled(r)
      PROVE  MessagesTyped'
    BY <1>3, <1>5 DEF GetEnds, GetWaits, GetWaitsFor, RecvCancelled
<1>6. ASSUME NEW r \in Readers
      PROVE  held[r] # 0 => held[r] \in Messages
    <2>1. held[r] \in 0..MaxMessages
        BY <1>0 DEF ReadersTyped
    <2> QED BY <2>1, MaxMessagesAssumption DEF Messages
<1>7. ASSUME NEW r \in Readers, GetResumes(r) \/ GetFinishes(r)
      PROVE  MessagesTyped'
    <2>1. used' \subseteq Messages
        <3>1. CASE used' = used
            BY <1>0, <3>1
        <3>2. CASE GetReturns(r)
            <4>1. used' = used \/ (held[r] # 0 /\ used' = used \union {held[r]})
                BY <3>2, Zenon DEF GetReturns, Outcome
            <4> QED BY <1>0, <1>6, <4>1
        <3> QED BY <1>7, <3>1, <3>2 DEF GetResumes, GetFinishes
    <2>2. UNCHANGED <<sent, main, bufVars, taken, givenUp>>
        BY <1>7 DEF GetResumes, GetFinishes
    <2> QED BY <1>0, <2>1, <2>2 DEF bufVars
<1>8. ASSUME NEW r \in Readers, GetCancelled(r)
      PROVE  MessagesTyped'
    <2>1. givenUp' = givenUp \/ givenUp' = givenUp \union {held[r]}
        BY <1>8 DEF GetCancelled
    <2>3. held[r] \in 0..MaxMessages
        BY <1>0 DEF ReadersTyped
    <2>2. UNCHANGED <<sent, main, bufVars, taken, used>>
        BY <1>8 DEF GetCancelled
    <2> QED BY <1>0, <2>1, <2>2, <2>3 DEF bufVars
<1>9. ASSUME NEW d \in Dispatchers, Dispatching(d)
      PROVE  MessagesTyped'
    BY <1>2, <1>3, <1>9 DEF Dispatching, DispatchNext, HandlerReturns, DispatcherEnds
<1>10. CASE StartDispatching \/ Pause \/ PauseEntered \/ Unpause \/ Drained \/ SwapBegins
            \/ Stop \/ StopDispatcherEnded \/ StopRecvEnded \/ UNCHANGED qvars
    BY <1>3, <1>10 DEF StartDispatching, Pause, PauseEntered, Unpause, Drained, SwapBegins, Stop,
       StopDispatcherEnded, StopRecvEnded, qvars
<1>11. CASE \E discard \in BOOLEAN : BufferUntilDrained(discard)
    BY <1>0, <1>11 DEF BufferUntilDrained, useVars
<1>12. CASE DrainGivenUp
    <2>1. {main[i] : i \in DOMAIN main} \subseteq Messages
        BY <1>0, ElementsType DEF Elements
    <2>2. Messages \subseteq 0..MaxMessages
        BY MaxMessagesAssumption DEF Messages
    <2> QED BY <1>0, <1>12, <2>1, <2>2 DEF DrainGivenUp, bufVars
<1>13. CASE DiscardBuffer
    <2>1. {buf[i] : i \in DOMAIN buf} \subseteq Messages
        BY <1>0, ElementsType DEF Elements
    <2>2. <<>> \in Seq(Messages)
        OBVIOUS
    <2> QED BY <1>0, <1>13, <2>1, <2>2 DEF DiscardBuffer, useVars
<1>14. CASE SwapWithoutDispatcher \/ SwapEnds
    <2>1. Swap
        BY <1>14 DEF SwapWithoutDispatcher, SwapEnds
    <2>2. <<>> \in Seq(Messages)
        OBVIOUS
    <2> QED BY <1>0, <2>1, <2>2 DEF Swap, useVars
<1> HIDE DEF MessagesTyped
<1> QED BY <1>1, <1>4, <1>5, <1>7, <1>8, <1>9, <1>10, <1>11, <1>12, <1>13, <1>14
        DEF QNext, Calling, Reading, OwnerStarts, OwnerGoesOn, Stopping

\* Every reachable state of the queue, with any number of readers, dispatchers
\* and messages, is well typed.
THEOREM QueueTypeCorrect == QSafeSpec => []QTypeOK
<1>1. AllTyped /\ [QNext]_qvars => AllTyped'
    BY ReadersTypedStep, DispatchersTypedStep, PlacesTypedStep, MessagesTypedStep DEF AllTyped
<1> QED BY <1>1, QTypeParts, QInitTyped, PTL DEF QSafeSpec


-----------------------------------------------------------------------------
(* Buffering and what tasks of get() hold *)

\* The owner buffers while it exchanges the queue.
LEMMA BufferStep ==
    ASSUME QTypeOK, BufferInv, [QNext]_qvars
    PROVE  BufferInv'
<1>1. main \in Seq(Messages) /\ buf \in Seq(Messages) /\ owner \in OwnerStates
    BY QTypeParts DEF AllTyped, MessagesTyped, PlacesTyped
<1> DEFINE M == Elements(main)
<1> USE DEF BufferInv
<1>2. CASE UNCHANGED <<main, buf, buffering, owner>> /\ givenUp \subseteq givenUp'
    BY <1>2 DEF Elements
<1>3. CASE TakeHead /\ UNCHANGED <<buf, buffering, owner, givenUp>>
    <2>1. main # <<>> /\ main' = Tail(main)
        BY <1>3 DEF TakeHead
    <2>2. Elements(main)' \subseteq Elements(main)
        <3>1. \A i \in DOMAIN Tail(main) : i + 1 \in DOMAIN main /\ Tail(main)[i] = main[i + 1]
            BY <1>1, <2>1
        <3> QED BY <2>1, <3>1 DEF Elements
    <2> QED BY <1>3, <2>2
<1>4. CASE Put
    <2>1. UNCHANGED <<buffering, owner, givenUp>>
        BY <1>4 DEF Put, whoVars, useVars
    <2>2. CASE buffering
        BY <1>4, <2>1, <2>2 DEF Put, PutWhere, Elements
    <2>3. CASE ~buffering
        BY <1>4, <2>1, <2>3 DEF Put, PutWhere, Exchanging, PastDrain
    <2> QED BY <2>2, <2>3
<1>5. ASSUME NEW r \in Readers, Calling(r) \/ Reading(r)
      PROVE  BufferInv'
    BY <1>2, <1>3, <1>5 DEF Calling, Reading, GetNow, GetEnds, GetWaits, GetWaitsFor, GetCancelled,
       RecvTakes, RecvCancelled, GetResumes, GetFinishes, whoVars, bufVars, useVars
<1>6. ASSUME NEW d \in Dispatchers, Dispatching(d)
      PROVE  BufferInv'
    BY <1>2, <1>3, <1>6 DEF Dispatching, DispatchNext, HandlerReturns, DispatcherEnds, whoVars,
       bufVars, useVars
<1>7. CASE StartDispatching \/ Stop \/ StopDispatcherEnded \/ StopRecvEnded \/ UNCHANGED qvars
    BY <1>2, <1>7 DEF StartDispatching, Stop, StopDispatcherEnded, StopRecvEnded, qvars, whoVars,
       bufVars, useVars
<1>8. CASE Pause \/ PauseEntered \/ Unpause
    BY <1>8 DEF Pause, PauseEntered, Unpause, bufVars, Exchanging, PastDrain
<1>9. ASSUME NEW discard \in BOOLEAN, BufferUntilDrained(discard)
      PROVE  BufferInv'
    BY <1>9 DEF BufferUntilDrained, Exchanging, PastDrain
<1>10. CASE Drained
    <2>1. Elements(main)' = {}
        BY <1>10, OneElement DEF Drained, Elements
    <2> QED BY <1>10, <2>1 DEF Drained, AfterDrain, Exchanging, PastDrain, bufVars
<1>11. CASE DrainGivenUp
    <2>1. Elements(main)' \subseteq givenUp'
        BY <1>11 DEF DrainGivenUp, Elements
    <2> QED BY <1>11, <2>1 DEF DrainGivenUp, AfterDrain, Exchanging, PastDrain, bufVars
<1>12. CASE SwapBegins
    <2>1. Elements(main)' = Elements(main) /\ givenUp' = givenUp
        BY <1>12 DEF SwapBegins, Elements, useVars
    <2> QED BY <1>12, <2>1 DEF SwapBegins, Exchanging, PastDrain, bufVars
<1>13. CASE DiscardBuffer \/ SwapWithoutDispatcher \/ SwapEnds
    BY <1>13 DEF DiscardBuffer, SwapWithoutDispatcher, SwapEnds, Swap, Exchanging, PastDrain
<1> QED BY <1>4, <1>5, <1>6, <1>7, <1>8, <1>9, <1>10, <1>11, <1>12, <1>13
        DEF QNext, OwnerStarts, OwnerGoesOn, Stopping

\* A task that waits has no message yet.
LEMMA HeldStep ==
    ASSUME QTypeOK, HeldInv, [QNext]_qvars
    PROVE  HeldInv'
<1>1. get \in [Readers -> GetStates] /\ held \in [Readers -> 0..MaxMessages]
    BY QTypeParts DEF AllTyped, ReadersTyped
<1> USE DEF HeldInv
<1>2. CASE UNCHANGED <<get, held>>
    BY <1>2
<1>3. ASSUME NEW r \in Readers, GetEnds(r) \/ GetWaits(r) \/ RecvCancelled(r)
      PROVE  HeldInv'
    BY <1>1, <1>3 DEF GetEnds, GetWaits, GetWaitsFor, RecvCancelled
<1>4. ASSUME NEW r \in Readers, RecvTakes(r) \/ GetCancelled(r)
      PROVE  HeldInv'
    BY <1>1, <1>4 DEF RecvTakes, GetCancelled, CancelTask
<1>5. ASSUME NEW r \in Readers, GetResumes(r) \/ GetFinishes(r)
      PROVE  HeldInv'
    <2>1. CASE GetReturns(r)
        BY <1>1, <2>1 DEF GetReturns
    <2>2. CASE /\ get' = [CancelTask(recvTask) EXCEPT ![r] = "stopping"] /\ held' = held
               /\ Waiting(recvTask)
        BY <1>1, <2>2 DEF CancelTask, Waiting
    <2> QED BY <1>5, <2>1, <2>2 DEF GetResumes, GetFinishes
<1>6. CASE StopRecvTask /\ held' = held
    BY <1>1, <1>6 DEF StopRecvTask, CancelTask, Waiting
<1>7. CASE Stop \/ StopDispatcherEnded
    BY <1>2, <1>6, <1>7 DEF Stop, StopDispatcherEnded
<1>8. CASE SwapWithoutDispatcher \/ SwapEnds
    BY <1>1, <1>8 DEF SwapWithoutDispatcher, SwapEnds, Swap
<1>9. ASSUME NEW r \in Readers, GetNow(r)
      PROVE  HeldInv'
    BY <1>2, <1>9 DEF GetNow, readVars
<1>10. ASSUME NEW d \in Dispatchers, Dispatching(d)
       PROVE  HeldInv'
    BY <1>2, <1>10 DEF Dispatching, DispatchNext, HandlerReturns, DispatcherEnds, readVars
<1>11. CASE Put \/ StartDispatching \/ OwnerStarts \/ DrainGivenUp \/ PauseEntered \/ Unpause
            \/ Drained \/ DiscardBuffer \/ SwapBegins \/ StopRecvEnded \/ UNCHANGED qvars
    BY <1>2, <1>11 DEF Put, StartDispatching, OwnerStarts, Pause, BufferUntilDrained,
       DrainGivenUp, PauseEntered, Unpause, Drained, DiscardBuffer, SwapBegins, StopRecvEnded,
       qvars, readVars
<1> HIDE DEF HeldInv
<1> QED BY <1>3, <1>4, <1>5, <1>7, <1>8, <1>9, <1>10, <1>11
        DEF QNext, Calling, Reading, OwnerGoesOn, Stopping

-----------------------------------------------------------------------------
(* Order *)

\* The trail rises, and what is on it was put.
TrailInv == Rising(Trail) /\ Elements(Trail) \subseteq 1..sent

LEMMA TrailInvIs == QTypeOK => (TrailInv <=> TakenInOrder /\ OnlyPut)
<1> SUFFICES ASSUME QTypeOK PROVE TrailInv <=> TakenInOrder /\ OnlyPut
    OBVIOUS
<1>1. taken \in Seq(Messages) /\ main \in Seq(Messages) /\ buf \in Seq(Messages)
    BY DEF QTypeOK, Messages
<1>2. Elements(Trail) = Elements(taken) \union Elements(main) \union Elements(buf)
    BY <1>1, TrailElements DEF Trail
<1>3. Rising(Trail) <=> TakenInOrder
    BY DEF Rising, Trail, TakenInOrder
<1> QED BY <1>2, <1>3 DEF TrailInv, OnlyPut

\* What a step can do to the trail.
TrailOf(s, t, u) == s \o t \o u
TrailStays == UNCHANGED <<Trail, sent>>
TrailGrows == sent' = sent + 1 /\ Trail' = Append(Trail, sent')
TrailIsCut ==
    /\ UNCHANGED sent
    /\ \E a, b, c \in Seq(Messages) : Trail = TrailOf(a, b, c) /\ Trail' = a \o c

\* put() appends to the trail, whether it reaches the queue or its buffer.
LEMMA PutTrail ==
    ASSUME QTypeOK, BufferInv, Put
    PROVE  TrailGrows
<1>1. /\ taken \in Seq(Messages) /\ main \in Seq(Messages) /\ buf \in Seq(Messages)
      /\ sent' \in Messages
    BY MaxMessagesAssumption DEF QTypeOK, Messages, Put
<1>2. CASE buffering
    <2>1. buf' = Append(buf, sent') /\ main' = main /\ taken' = taken
        BY <1>2 DEF Put, PutWhere, useVars
    <2>2. taken \o main \o Append(buf, sent') = Append(taken \o main \o buf, sent')
        BY <1>1
    <2> QED BY <2>1, <2>2 DEF TrailGrows, Trail, Put
<1>3. CASE ~buffering
    <2>1. main' = Append(main, sent') /\ taken' = taken /\ buf' = <<>> /\ buf = <<>>
        BY <1>3 DEF Put, PutWhere, BufferInv, useVars
    <2>2. taken \o Append(main, sent') \o <<>> = Append(taken \o main \o <<>>, sent')
        BY <1>1
    <2> QED BY <2>1, <2>2 DEF TrailGrows, Trail, Put
<1> QED BY <1>2, <1>3

\* The buffer takes the place of the queue: what is left there goes.
LEMMA SwapTrail ==
    ASSUME QTypeOK, Swap
    PROVE  TrailIsCut
<1>1. taken \in Seq(Messages) /\ main \in Seq(Messages) /\ buf \in Seq(Messages)
    BY DEF QTypeOK, Messages
<1>2. main' = buf /\ buf' = <<>> /\ taken' = taken /\ sent' = sent
    BY DEF Swap, useVars
<1>3. taken \o buf \o <<>> = taken \o buf
    BY <1>1
<1>4. Trail = TrailOf(taken, main, buf) /\ Trail' = taken \o buf
    BY <1>2, <1>3 DEF Trail, TrailOf
<1> QED BY <1>1, <1>2, <1>4 DEF TrailIsCut

\* Discarding the buffer cuts it off the trail.
LEMMA DiscardTrail ==
    ASSUME QTypeOK, DiscardBuffer
    PROVE  TrailIsCut
<1>1. /\ taken \in Seq(Messages) /\ main \in Seq(Messages) /\ buf \in Seq(Messages)
      /\ <<>> \in Seq(Messages) /\ taken \o main \in Seq(Messages)
    BY DEF QTypeOK, Messages
<1> DEFINE s == taken \o main
<1>2. Trail = s \o buf /\ Trail' = s \o <<>> /\ s \in Seq(Messages)
    BY <1>1 DEF Trail, DiscardBuffer, useVars
<1> HIDE DEF s
<1>3. TrailOf(s, buf, <<>>) = s \o buf
    BY <1>1, <1>2 DEF TrailOf
<1> QED BY <1>1, <1>2, <1>3 DEF TrailIsCut, DiscardBuffer

\* No step does anything else to it.
LEMMA TrailStep ==
    ASSUME QTypeOK, BufferInv, [QNext]_qvars
    PROVE  TrailStays \/ TrailGrows \/ TrailIsCut
<1>1. CASE TakeHead /\ UNCHANGED <<sent, bufVars>>
    BY <1>1, TakeKeepsTrail DEF TrailStays, bufVars
<1>2. CASE UNCHANGED <<sent, main, buf, taken>>
    BY <1>2 DEF TrailStays, Trail
<1>3. ASSUME NEW r \in Readers, Calling(r) \/ Reading(r)
      PROVE  TrailStays \/ TrailGrows \/ TrailIsCut
    <2>1. CASE GetNow(r) \/ RecvTakes(r)
        BY <1>1, <2>1 DEF GetNow, RecvTakes
    <2>2. CASE \/ GetEnds(r) \/ GetWaits(r) \/ GetCancelled(r)
               \/ RecvCancelled(r) \/ GetResumes(r) \/ GetFinishes(r)
        <3>1. UNCHANGED <<sent, main, buf, taken>>
            BY <2>2 DEF GetEnds, GetWaits, GetWaitsFor, GetCancelled, RecvCancelled, GetResumes,
               GetFinishes, bufVars, useVars
        <3> QED BY <1>2, <3>1
    <2> QED BY <1>3, <2>1, <2>2 DEF Calling, Reading
<1>4. ASSUME NEW d \in Dispatchers, Dispatching(d)
      PROVE  TrailStays \/ TrailGrows \/ TrailIsCut
    BY <1>1, <1>2, <1>4 DEF Dispatching, DispatchNext, HandlerReturns, DispatcherEnds, bufVars,
       useVars
<1>5. CASE StartDispatching \/ Stop \/ Stopping
    BY <1>2, <1>5 DEF StartDispatching, Stop, Stopping, StopDispatcherEnded, StopRecvEnded,
       bufVars, useVars
<1>6. CASE OwnerStarts \/ SwapBegins \/ PauseEntered \/ Unpause \/ Drained \/ DrainGivenUp
           \/ UNCHANGED qvars
    <2>1. UNCHANGED <<sent, main, buf, taken>>
        BY <1>6 DEF OwnerStarts, Pause, BufferUntilDrained, SwapBegins, PauseEntered, Unpause,
           Drained, DrainGivenUp, bufVars, useVars, qvars
    <2> QED BY <1>2, <2>1
<1>7. CASE SwapWithoutDispatcher \/ SwapEnds
    BY <1>7, SwapTrail DEF SwapWithoutDispatcher, SwapEnds
<1> QED BY <1>3, <1>4, <1>5, <1>6, <1>7, PutTrail, DiscardTrail DEF QNext, OwnerGoesOn

\* The trail goes on rising.
LEMMA OrderStep ==
    ASSUME QTypeOK, BufferInv, TrailInv, [QNext]_qvars
    PROVE  TrailInv'
<1>1. /\ taken \in Seq(Messages) /\ main \in Seq(Messages) /\ buf \in Seq(Messages)
      /\ sent \in Nat
    BY DEF QTypeOK, Messages
<1>2. Trail \in Seq(Messages)
    BY <1>1, ConcatProperties DEF Trail
<1>3. TrailStays \/ TrailGrows \/ TrailIsCut
    BY TrailStep
<1> DEFINE t == Trail
           u == Trail'
<1> SUFFICES Rising(u) /\ Elements(u) \subseteq 1..sent'
    BY DEF TrailInv, Rising, Elements
<1>4. Rising(t) /\ Elements(t) \subseteq 1..sent
    BY DEF TrailInv
<1>5. CASE TrailStays
    BY <1>4, <1>5 DEF TrailStays
<1>6. CASE TrailGrows
    <2> DEFINE n == sent + 1
    <2>1. n \in Nat /\ u = Append(t, n) /\ sent' = n
        BY <1>1, <1>6 DEF TrailGrows
    <2>2. \A e \in Elements(t) : e < n
        BY <1>1, <1>4
    <2>3. t \in Seq(Nat)
        <3>1. Messages \subseteq Nat
            BY DEF Messages
        <3> QED BY <1>2, <3>1, SeqMonotonic
    <2>4. Elements(Append(t, n)) = Elements(t) \union {n}
        BY <2>1, <2>3, AppendElements
    <2>5. 1..n = 1..sent \union {n}
        BY <1>1
    <2> HIDE DEF n, t, u
    <2> QED BY <1>4, <2>1, <2>2, <2>3, <2>4, <2>5, AppendRises
<1>7. CASE TrailIsCut
    <2>1. PICK a, b, c \in Seq(Messages) : Trail = TrailOf(a, b, c) /\ Trail' = a \o c
        BY <1>7 DEF TrailIsCut
    <2>2. t = a \o b \o c /\ u = a \o c
        BY <2>1 DEF TrailOf
    <2>3. Elements(t) = Elements(a) \union Elements(b) \union Elements(c)
        BY <2>2, TrailElements
    <2>4. Elements(u) = Elements(a) \union Elements(c)
        BY <2>2, ConcatElements
    <2>5. sent' = sent
        BY <1>7 DEF TrailIsCut
    <2> HIDE DEF t, u
    <2>6. Rising(u)
        BY <1>4, <2>2, CutRises
    <2> QED BY <1>4, <2>3, <2>4, <2>5, <2>6
<1> QED BY <1>3, <1>5, <1>6, <1>7

-----------------------------------------------------------------------------
(* Completeness *)

\* Nothing that was accounted for or given up gets out of sight.
KeepsAccounts ==
    /\ OnTheWay \subseteq (OnTheWay \union used)' \union givenUp'
    /\ Elements(main) \subseteq (Elements(main) \union OnTheWay \union used)' \union givenUp'
    /\ Elements(buf) \subseteq (Elements(buf) \union Elements(main) \union discarded)'
    /\ used \subseteq used' /\ discarded \subseteq discarded' /\ givenUp \subseteq givenUp'

LEMMA AccountsKept == NothingLost /\ KeepsAccounts /\ UNCHANGED sent => NothingLost'
<1> SUFFICES ASSUME NothingLost, KeepsAccounts, sent' = sent
             PROVE  1..sent' \subseteq Accounted' \union givenUp'
    BY DEF NothingLost
<1>1. Accounted \union givenUp \subseteq Accounted' \union givenUp'
    <2> DEFINE O == OnTheWay
               P == OnTheWay'
               M == Elements(main)
               N == Elements(main)'
               B == Elements(buf)
               C == Elements(buf)'
    <2>1. /\ Accounted = used \union O \union M \union B \union discarded
          /\ Accounted' = used' \union P \union N \union C \union discarded'
        BY DEF Accounted
    <2>2. /\ O \subseteq P \union used' \union givenUp'
          /\ M \subseteq N \union P \union used' \union givenUp'
          /\ B \subseteq C \union N \union discarded'
          /\ used \subseteq used' /\ discarded \subseteq discarded' /\ givenUp \subseteq givenUp'
        BY DEF KeepsAccounts
    <2> HIDE DEF O, P, M, N, B, C
    <2> QED BY <2>1, <2>2
<1> QED BY <1>1 DEF NothingLost

\* What TakeHead takes was all of the queue but its tail.
LEMMA TakeElements ==
    ASSUME MessagesTyped, TakeHead
    PROVE  Elements(main) = {Head(main)} \union Elements(main')
<1>1. main \in Seq(Messages) /\ main # <<>> /\ main' = Tail(main)
    BY DEF MessagesTyped, TakeHead
<1>2. main = <<Head(main)>> \o Tail(main) /\ <<Head(main)>> \in Seq(Messages)
           /\ Tail(main) \in Seq(Messages)
    BY <1>1
<1>3. Elements(<<Head(main)>> \o Tail(main)) = Elements(<<Head(main)>>) \union Elements(Tail(main))
    BY <1>2, ConcatElements
<1> QED BY <1>1, <1>2, <1>3, OneElement

\* No step loses a message.
LEMMA CompleteStep ==
    ASSUME QTypeOK, BufferInv, HeldInv, NothingLost, [QNext]_qvars
    PROVE  NothingLost'
<1>1. /\ MessagesTyped /\ get \in [Readers -> GetStates]
      /\ held \in [Readers -> 0..MaxMessages]
    BY QTypeParts DEF AllTyped, ReadersTyped
<1>2. CASE UNCHANGED <<sent, main, buf, discarded, held, used>> /\ givenUp \subseteq givenUp'
    BY <1>2, AccountsKept DEF KeepsAccounts, OnTheWay, Elements
<1>3. CASE Put
    <2>1. /\ sent' = sent + 1 /\ sent \in Nat
          /\ UNCHANGED <<discarded, held, used, givenUp>>
        BY <1>1, <1>3 DEF Put, readVars, useVars, MessagesTyped
    <2>2. (Elements(main) \union Elements(buf))' = Elements(main) \union Elements(buf) \union {sent'}
        <3>1. main \in Seq(Messages) /\ buf \in Seq(Messages) /\ sent' \in Messages
            BY <1>1, <1>3, <2>1, MaxMessagesAssumption DEF Put, MessagesTyped, Messages
        <3>2. /\ Elements(Append(main, sent')) = Elements(main) \union {sent'}
              /\ Elements(Append(buf, sent')) = Elements(buf) \union {sent'}
            BY <3>1, AppendElements
        <3>3. Elements(main)' = Elements(main') /\ Elements(buf)' = Elements(buf')
            BY DEF Elements
        <3> QED BY <1>3, <3>2, <3>3 DEF Put, PutWhere
    <2>3. OnTheWay' = OnTheWay
        BY <2>1 DEF OnTheWay
    <2>4. 1..sent' = 1..sent \union {sent'}
        BY <2>1
    <2>5. Accounted' = Accounted \union {sent'}
        BY <2>1, <2>2, <2>3 DEF Accounted
    <2> QED BY <2>1, <2>4, <2>5 DEF NothingLost
<1>4. CASE TakeHead /\ UNCHANGED <<sent, buf, discarded, givenUp>>
           /\ \/ used' = used \union {Head(main)} /\ UNCHANGED held
              \/ /\ used' = used
                 /\ \E r \in Readers : get[r] = "blocked" /\ held' = [held EXCEPT ![r] = Head(main)]
    <2>1. Elements(main) = {Head(main)} \union Elements(main)' /\ Head(main) \in Messages
        BY <1>1, <1>4, TakeElements, TakeTyped DEF Elements
    <2>2. OnTheWay \subseteq OnTheWay' /\ (Head(main) \in OnTheWay' \/ Head(main) \in used')
        <3>1. CASE used' = used \union {Head(main)} /\ UNCHANGED held
            BY <3>1 DEF OnTheWay
        <3>2. ASSUME NEW r \in Readers, get[r] = "blocked", held' = [held EXCEPT ![r] = Head(main)]
              PROVE  OnTheWay \subseteq OnTheWay' /\ Head(main) \in OnTheWay'
            <4>1. held[r] = 0
                BY <3>2 DEF HeldInv
            <4>2. held'[r] = Head(main) /\ \A s \in Readers \ {r} : held'[s] = held[s]
                BY <1>1, <3>2
            <4>3. Head(main) # 0
                BY <2>1 DEF Messages
            <4> QED BY <4>1, <4>2, <4>3 DEF OnTheWay
        <3> QED BY <1>4, <3>1, <3>2
    <2>3. Elements(buf)' = Elements(buf) /\ used \subseteq used'
        BY <1>4 DEF Elements
    <2>4. KeepsAccounts
        BY <1>4, <2>1, <2>2, <2>3 DEF KeepsAccounts
    <2> QED BY <1>4, <2>4, AccountsKept
<1>5. ASSUME NEW r \in Readers, GetNow(r) \/ RecvTakes(r)
      PROVE  NothingLost'
    BY <1>4, <1>5 DEF GetNow, RecvTakes, bufVars, readVars
<1>6. ASSUME NEW r \in Readers, GetEnds(r) \/ GetWaits(r) \/ RecvCancelled(r)
      PROVE  NothingLost'
    BY <1>2, <1>6 DEF GetEnds, GetWaits, GetWaitsFor, RecvCancelled, bufVars, useVars
<1>7. ASSUME NEW r \in Readers, held' = [held EXCEPT ![r] = 0],
             held[r] # 0 => held[r] \in used' \union givenUp',
             used \subseteq used', givenUp \subseteq givenUp',
             UNCHANGED <<sent, main, bufVars>>
      PROVE  NothingLost'
    <2>1. \A s \in Readers \ {r} : held'[s] = held[s]
        BY <1>1, <1>7
    <2>2. OnTheWay \subseteq OnTheWay' \union used' \union givenUp'
        BY <1>7, <2>1 DEF OnTheWay
    <2>3. Elements(main)' = Elements(main) /\ Elements(buf)' = Elements(buf)
        BY <1>7 DEF Elements, bufVars
    <2>4. KeepsAccounts
        BY <1>7, <2>2, <2>3 DEF KeepsAccounts, bufVars
    <2> QED BY <1>7, <2>4, AccountsKept
<1>8. ASSUME NEW r \in Readers, GetResumes(r) \/ GetFinishes(r)
      PROVE  NothingLost'
    <2>1. UNCHANGED <<sent, main, bufVars, givenUp>>
        BY <1>8 DEF GetResumes, GetFinishes
    <2>2. CASE GetReturns(r)
        <3>1. used' = IF held[r] # 0 THEN used \union {held[r]} ELSE used
            BY <2>2, Zenon DEF GetReturns, Outcome
        <3> QED BY <1>7, <2>1, <2>2, <3>1 DEF GetReturns
    <2>3. CASE UNCHANGED <<held, used>>
        BY <1>2, <2>1, <2>3 DEF bufVars
    <2> QED BY <1>8, <2>2, <2>3 DEF GetResumes, GetFinishes
<1>9. ASSUME NEW r \in Readers, GetCancelled(r)
      PROVE  NothingLost'
    <2>1. UNCHANGED <<sent, main, bufVars, used>>
        BY <1>9 DEF GetCancelled
    <2>2. CASE UNCHANGED <<held, givenUp>>
        BY <1>2, <2>1, <2>2 DEF bufVars
    <2>3. CASE held' = [held EXCEPT ![r] = 0] /\ givenUp' = givenUp \union {held[r]}
        BY <1>7, <2>1, <2>3
    <2> QED BY <1>9, <2>2, <2>3 DEF GetCancelled
<1>10. ASSUME NEW d \in Dispatchers, Dispatching(d)
       PROVE  NothingLost'
    BY <1>2, <1>4, <1>10 DEF Dispatching, DispatchNext, HandlerReturns, DispatcherEnds, bufVars,
       readVars, useVars
<1>11. CASE StartDispatching \/ Pause \/ PauseEntered \/ Unpause \/ Drained \/ SwapBegins
            \/ DrainGivenUp \/ Stop \/ StopDispatcherEnded \/ StopRecvEnded \/ UNCHANGED qvars
            \/ \E discard \in BOOLEAN : BufferUntilDrained(discard)
    <2>1. UNCHANGED <<sent, main, buf, discarded, held, used>>
        BY <1>11 DEF StartDispatching, Pause, PauseEntered, Unpause, Drained, SwapBegins,
           DrainGivenUp, Stop, StopDispatcherEnded, StopRecvEnded, BufferUntilDrained, qvars,
           bufVars, readVars, useVars
    <2>2. givenUp \subseteq givenUp'
        BY <1>11 DEF StartDispatching, Pause, PauseEntered, Unpause, Drained, SwapBegins,
           DrainGivenUp, Stop, StopDispatcherEnded, StopRecvEnded, BufferUntilDrained, qvars,
           useVars
    <2> QED BY <1>2, <2>1, <2>2
<1>12. CASE DiscardBuffer
    <2>1. /\ Elements(buf) \subseteq discarded' /\ discarded \subseteq discarded'
          /\ UNCHANGED <<sent, main, held, used, givenUp>>
        BY <1>12 DEF DiscardBuffer, Elements, readVars, useVars
    <2>2. Elements(main)' = Elements(main) /\ OnTheWay' = OnTheWay
        BY <2>1 DEF Elements, OnTheWay
    <2> QED BY <2>1, <2>2, AccountsKept DEF KeepsAccounts
<1>13. CASE SwapWithoutDispatcher \/ SwapEnds
    <2>1. Swap /\ owner \in PastDrain
        BY <1>13 DEF SwapWithoutDispatcher, SwapEnds, PastDrain
    <2>2. Elements(main) \subseteq givenUp
        BY <2>1 DEF BufferInv
    <2>3. Elements(main)' = Elements(buf) /\ UNCHANGED <<sent, held, used, givenUp, discarded>>
        BY <2>1 DEF Swap, Elements, useVars
    <2>4. OnTheWay' = OnTheWay
        BY <2>3 DEF OnTheWay
    <2> QED BY <2>2, <2>3, <2>4, AccountsKept DEF KeepsAccounts
<1> QED BY <1>3, <1>5, <1>6, <1>8, <1>9, <1>10, <1>11, <1>12, <1>13
        DEF QNext, Calling, Reading, OwnerStarts, OwnerGoesOn, Stopping

-----------------------------------------------------------------------------
(* Dispatchers *)

\* A task that becomes _dispatcher_task makes the one before it stray.
LEMMA NewDispatcherKeeps ==
    ASSUME DispatchersTyped, closed \in BOOLEAN, DispatcherInv, NEW d \in Dispatchers, NEW idle,
           NewDispatcher(d, idle), UNCHANGED closed
    PROVE  \A e \in Dispatchers \ stray' : Running(e)' => e = dref' /\ ~closed'
<1> SUFFICES ASSUME NEW e \in Dispatchers \ stray', Running(e)'
             PROVE  e = d /\ ~closed
    BY DEF NewDispatcher
<1>1. CASE e = d
    BY <1>1 DEF NewDispatcher
<1>2. CASE e # d
    <2>1. disp'[e] = disp[e] \/ disp'[e] = "orphaned"
        BY <1>2 DEF NewDispatcher
    <2>2. Running(e)
        BY <2>1 DEF Running
    <2>3. e \notin stray /\ ~(e = dref /\ Running(e) /\ dref # NoDispatcher)
        BY <1>2 DEF NewDispatcher
    <2>4. e # NoDispatcher
        BY NoDispatcherAssumption
    <2> QED BY <2>2, <2>3, <2>4 DEF DispatcherInv
<1> QED BY <1>1, <1>2

\* A dispatcher that is cancelled does not run.
LEMMA CancelDispatcherKeeps ==
    ASSUME DispatchersTyped, DispatcherInv, NEW who, CancelDispatcher(who), IsDispatching
    PROVE  \A e \in Dispatchers \ stray' : ~Running(e)'
<1> SUFFICES ASSUME NEW e \in Dispatchers \ stray', Running(e)'
             PROVE  FALSE
    OBVIOUS
<1>1. dref \in Dispatchers /\ disp \in [Dispatchers -> DispatcherStates]
    BY DEF DispatchersTyped, IsDispatching, MaybeDispatcher
<1>2. disp'[dref] \in {"ended", "cancelled"}
    BY <1>1 DEF CancelDispatcher
<1>3. e # dref
    BY <1>2 DEF Running
<1>4. disp'[e] = disp[e] /\ e \notin stray
    BY <1>1, <1>3 DEF CancelDispatcher
<1> QED BY <1>3, <1>4 DEF Running, DispatcherInv

\* stop() and the owner go on knowing every dispatcher that is not stray.
LEMMA DispatcherStep ==
    ASSUME QTypeOK, DispatcherInv, [QNext]_qvars
    PROVE  DispatcherInv'
<1>1. DispatchersTyped /\ closed \in BOOLEAN /\ owner \in OwnerStates
    BY QTypeParts DEF AllTyped, PlacesTyped
<1> DEFINE Known == \A e \in Dispatchers \ stray : Running(e) => e = dref /\ ~closed
           Ends == owner \in {"pausing", "swapping"} /\ ~closed => dref = ends.owner /\ IsDispatching
           Open == closed <=> stopper # "idle"
<1>2. DispatcherInv <=> Known /\ Ends /\ Open
    BY DEF DispatcherInv
<1>3. DispatcherInv' <=> Known' /\ Ends' /\ Open'
    BY DEF DispatcherInv
<1>4. Known /\ Ends /\ Open
    BY <1>2
<1>5. CASE UNCHANGED <<dispVars, closed, stopper, ends>>
           /\ (owner' = owner \/ owner' \notin {"pausing", "swapping"})
    BY <1>3, <1>4, <1>5 DEF dispVars, Running, IsDispatching
<1>6. ASSUME NEW r \in Readers, Calling(r) \/ Reading(r)
      PROVE  DispatcherInv'
    BY <1>5, <1>6 DEF Calling, Reading, GetNow, GetEnds, GetWaits, GetWaitsFor, GetCancelled,
       RecvTakes, RecvCancelled, GetResumes, GetFinishes, whoVars
<1>7. ASSUME NEW d \in Dispatchers, Dispatching(d)
      PROVE  DispatcherInv'
    <2>1. UNCHANGED <<dref, stray, closed, owner, stopper, ends>>
        BY <1>7 DEF Dispatching, DispatchNext, HandlerReturns, DispatcherEnds, whoVars
    <2>2. \A e \in Dispatchers : Running(e)' => Running(e)
        BY <1>1, <1>7 DEF Dispatching, DispatchNext, HandlerReturns, DispatcherEnds, Running,
           DispatchersTyped
    <2> QED BY <1>3, <1>4, <2>1, <2>2 DEF IsDispatching
<1>8. CASE StartDispatching
    <2>1. UNCHANGED <<closed, owner, stopper, ends>> /\ ~IsDispatching
        BY <1>8 DEF StartDispatching, whoVars
    <2>2. PICK d \in Dispatchers : NewDispatcher(d, {})
        BY <1>8 DEF StartDispatching
    <2>3. Known'
        BY <1>1, <2>1, <2>2, NewDispatcherKeeps
    <2> QED BY <1>3, <1>4, <2>1, <2>3
<1>9. CASE Unpause \/ SwapEnds
    <2>1. UNCHANGED <<closed, stopper>> /\ owner' = "idle"
        BY <1>9 DEF Unpause, SwapEnds, Swap
    <2>2. PICK d \in Dispatchers, idle \in SUBSET Dispatchers : NewDispatcher(d, idle)
        BY <1>9 DEF Unpause, SwapEnds, MayWait
    <2>3. Known'
        BY <1>1, <2>1, <2>2, NewDispatcherKeeps
    <2> QED BY <1>3, <1>4, <2>1, <2>3
<1>10. CASE Pause \/ SwapBegins
    <2>1. /\ CancelDispatcher("owner") /\ IsDispatching
          /\ UNCHANGED <<dref, closed, stopper>>
        BY <1>10 DEF Pause, SwapBegins
    <2>2. Known'
        BY <1>1, <2>1, CancelDispatcherKeeps
    <2>3. ends'.owner = dref
        BY <1>1, <2>1 DEF CancelDispatcher, DispatchersTyped
    <2> QED BY <1>3, <1>4, <2>1, <2>2, <2>3 DEF IsDispatching
<1>11. CASE PauseEntered
    <2>1. UNCHANGED <<disp, stray, closed, stopper>> /\ owner' = "paused"
          /\ disp[ends.owner] = "ended"
        BY <1>11 DEF PauseEntered, DispatcherHasEnded
    <2>2. Known'
        <3> SUFFICES ASSUME NEW e \in Dispatchers \ stray', Running(e)'
                     PROVE  FALSE
            OBVIOUS
        <3>1. e = dref /\ ~closed
            BY <1>4, <2>1 DEF Running
        <3>2. dref = ends.owner
            BY <1>4, <1>11, <3>1 DEF PauseEntered
        <3> QED BY <2>1, <3>1, <3>2 DEF Running
    <2> QED BY <1>3, <1>4, <2>1, <2>2
<1>12. CASE Stop
    <2>1. closed' /\ stopper' # "idle"
        BY <1>12 DEF Stop, StopRecvTask
    <2>2. CASE IsDispatching
        <3>1. \A e \in Dispatchers \ stray' : ~Running(e)'
            BY <1>1, <1>12, <2>2, CancelDispatcherKeeps DEF Stop
        <3> QED BY <1>3, <2>1, <3>1
    <2>3. CASE ~IsDispatching
        <3>1. UNCHANGED <<disp, stray>> /\ dref = NoDispatcher
            BY <1>12, <2>3 DEF Stop, IsDispatching
        <3>2. \A e \in Dispatchers \ stray' : ~Running(e)'
            BY <1>4, <3>1, NoDispatcherAssumption DEF Running
        <3> QED BY <1>3, <2>1, <3>2
    <2> QED BY <2>2, <2>3
<1>13. CASE StopDispatcherEnded
    <2>1. UNCHANGED <<disp, stray, closed>> /\ stopper = "await_dispatcher" /\ stopper' # "idle"
        BY <1>13 DEF StopDispatcherEnded, StopRecvTask
    <2>2. closed
        BY <1>4, <2>1
    <2>3. \A e \in Dispatchers \ stray' : ~Running(e)'
        BY <1>4, <2>1, <2>2 DEF Running
    <2> QED BY <1>3, <2>1, <2>2, <2>3
<1>14. CASE SwapWithoutDispatcher
    <2>1. UNCHANGED <<dref, stray, ends, closed, stopper>> /\ owner' = "idle"
        BY <1>14 DEF SwapWithoutDispatcher, Swap
    <2>2. \A e \in Dispatchers : Running(e)' => Running(e)
        BY <1>14 DEF SwapWithoutDispatcher, Running
    <2> QED BY <1>3, <1>4, <2>1, <2>2
<1>15. CASE \E discard \in BOOLEAN : BufferUntilDrained(discard)
    BY <1>5, <1>15 DEF BufferUntilDrained
<1>16. CASE Put \/ Drained \/ DrainGivenUp \/ DiscardBuffer \/ UNCHANGED qvars
    BY <1>5, <1>16 DEF Put, Drained, DrainGivenUp, AfterDrain, DiscardBuffer, qvars, whoVars
<1>17. CASE StopRecvEnded
    BY <1>3, <1>4, <1>17 DEF StopRecvEnded, dispVars, Running, IsDispatching
<1> QED BY <1>6, <1>7, <1>8, <1>9, <1>10, <1>11, <1>12, <1>13, <1>14, <1>15, <1>16, <1>17
        DEF QNext, OwnerStarts, OwnerGoesOn, Stopping

-----------------------------------------------------------------------------
(* Theorems *)

\* The order and the completeness of what is taken, with what new messages are
\* buffered for and which dispatchers stop() knows of, hold of every queue.
THEOREM QueueInvariant == QSafeSpec => []QInv
<1>1. QInit => QInv
    <2> SUFFICES ASSUME QInit
                 PROVE  BufferInv /\ HeldInv /\ DispatcherInv /\ TakenInOrder /\ OnlyPut /\ NothingLost
        BY QInitTyped DEF QInv
    <2>1. BufferInv
        BY DEF QInit, BufferInv, Exchanging, PastDrain
    <2>2. taken = <<>> /\ main = <<>> /\ buf = <<>> /\ sent = 0
        BY Zenon DEF QInit
    <2>3. TakenInOrder
        BY <2>2 DEF TakenInOrder
    <2>4. OnlyPut
        BY <2>2, OneElement DEF OnlyPut
    <2>5. 1..0 = {}
        OBVIOUS
    <2>6. NothingLost
        BY <2>2, <2>5 DEF NothingLost
    <2>7. HeldInv
        BY DEF QInit, HeldInv
    <2>8. DispatcherInv
        BY DEF QInit, DispatcherInv, Running, IsDispatching
    <2> QED BY <2>1, <2>3, <2>4, <2>6, <2>7, <2>8
<1>2. QInv /\ QTypeOK' /\ [QNext]_qvars => QInv'
    <2> SUFFICES ASSUME QInv, QTypeOK', [QNext]_qvars PROVE QInv'
        OBVIOUS
    <2>1. QTypeOK /\ BufferInv /\ HeldInv /\ DispatcherInv /\ TrailInv /\ NothingLost
        BY TrailInvIs DEF QInv
    <2>2. TrailInv'
        BY <2>1, OrderStep
    <2>3. (TakenInOrder /\ OnlyPut)'
        BY <2>2, TrailInvIs, PTL
    <2> QED BY <2>1, <2>3, BufferStep, HeldStep, DispatcherStep, CompleteStep DEF QInv
<1> QED BY <1>1, <1>2, QueueTypeCorrect, PTL DEF QSafeSpec

\* However many tasks read the queue and however many dispatchers, and whatever
\* is paused, buffered, cancelled or stopped meanwhile, messages are taken in
\* the order they were put, each once.
THEOREM QueueOrder == QSafeSpec => []TakenInOrder
BY QueueInvariant, PTL DEF QInv

\* ... and none disappears: it is given to a handler, returned by get() or on
\* the way there, queued, buffered, discarded on request, or was given up with
\* a drain or a get() that was cancelled.
THEOREM QueueComplete == QSafeSpec => []NothingLost
BY QueueInvariant, PTL DEF QInv

\* Every message is accounted for, and none was given up.
AllAccounted == 1..sent \subseteq Accounted
NoneGivenUp == givenUp = {}

\* Nothing is given up by itself: a queue whose callers are not cancelled
\* accounts for every message.
THEOREM QueueLosesNothing == ~ReadersGiveUp /\ ~OwnerGivesUp => (QSafeSpec => []AllAccounted)
<1> SUFFICES ASSUME ~ReadersGiveUp, ~OwnerGivesUp
             PROVE  QSafeSpec => []AllAccounted
    OBVIOUS
<1>1. QInit => NoneGivenUp
    BY DEF QInit, NoneGivenUp
<1>2. NoneGivenUp /\ [QNext]_qvars => NoneGivenUp'
    BY DEF NoneGivenUp, QNext, qvars, useVars, Put, StartDispatching, Stop, OwnerStarts, Pause,
       BufferUntilDrained, DrainGivenUp, Calling, Reading, GetNow, GetEnds, GetWaits, GetWaitsFor,
       GetCancelled, RecvTakes, RecvCancelled, GetResumes, GetFinishes, Dispatching,
       DispatchNext, HandlerReturns, DispatcherEnds, OwnerGoesOn, PauseEntered, Unpause,
       Drained, DiscardBuffer, SwapWithoutDispatcher, SwapBegins, SwapEnds, Swap, Stopping,
       StopDispatcherEnded, StopRecvEnded
<1>3. NothingLost /\ NoneGivenUp => AllAccounted
    BY DEF NothingLost, NoneGivenUp, AllAccounted
<1> QED BY <1>1, <1>2, <1>3, QueueComplete, PTL DEF QSafeSpec

\* Once stop() has returned no handler starts, whatever the readers, the owner
\* and the other dispatchers were at, but in a dispatcher that was begun after
\* stop() or that another took the place of before.
THEOREM QuietAfterStop == QSafeSpec => NoDispatchAfterStop
<1>1. ASSUME QInv, [QNext]_qvars, stopper = "stopped",
             NEW d \in Dispatchers \ stray, disp[d] # "handle", disp'[d] = "handle"
      PROVE  FALSE
    <2>1. DispatchersTyped /\ DispatcherInv
        BY <1>1, QTypeParts DEF QInv, AllTyped
    <2>2. disp[d] = "get"
        <3>1. \A e \in Dispatchers : \A idle : NewDispatcher(e, idle) => disp'[d] # "handle"
            BY <1>1 DEF NewDispatcher
        <3>2. \A who : CancelDispatcher(who) => disp'[d] # "handle"
            BY <1>1, <2>1 DEF CancelDispatcher, DispatchersTyped
        <3>3. \A e \in Dispatchers : Dispatching(e) => disp[d] = "get"
            BY <1>1, <2>1 DEF Dispatching, DispatchNext, HandlerReturns, DispatcherEnds,
               DispatchersTyped
        <3>4. SwapWithoutDispatcher => disp'[d] # "handle"
            BY <1>1 DEF SwapWithoutDispatcher
        <3>5. disp' # disp
            BY <1>1
        <3>6. \A r \in Readers : Calling(r) \/ Reading(r) => disp' = disp
            BY DEF Calling, Reading, GetNow, GetEnds, GetWaits, GetWaitsFor, GetCancelled,
               RecvTakes, RecvCancelled, GetResumes, GetFinishes, dispVars
        <3>7. Put \/ Drained \/ DrainGivenUp \/ DiscardBuffer \/ PauseEntered
                  \/ StopDispatcherEnded \/ StopRecvEnded \/ UNCHANGED qvars
                  \/ (\E discard \in BOOLEAN : BufferUntilDrained(discard)) => disp' = disp
            BY DEF Put, Drained, DrainGivenUp, DiscardBuffer, PauseEntered, StopDispatcherEnded,
               StopRecvEnded, BufferUntilDrained, qvars, dispVars
        <3>8. StartDispatching \/ Unpause \/ SwapEnds => disp'[d] # "handle"
            BY <3>1 DEF StartDispatching, Unpause, SwapEnds
        <3>9. Pause \/ SwapBegins \/ Stop => disp'[d] # "handle"
            BY <1>1, <3>2 DEF Pause, SwapBegins, Stop
        <3> QED BY <1>1, <3>3, <3>4, <3>5, <3>6, <3>7, <3>8, <3>9
                DEF QNext, OwnerStarts, OwnerGoesOn, Stopping
    <2>3. ~closed /\ (closed <=> stopper # "idle")
        BY <2>1, <2>2 DEF DispatcherInv, Running
    <2> QED BY <1>1, <2>3
<1>2. QInv /\ [QNext]_qvars =>
          [stopper = "stopped" =>
              \A d \in Dispatchers \ stray : disp[d] # "handle" => disp'[d] # "handle"]_qvars
    BY <1>1
<1> QED BY <1>2, QueueInvariant, PTL DEF QSafeSpec, NoDispatchAfterStop

\* With one reader no get() is cancelled but by stop(), and none that has a
\* result ends without it.
OneReaderInv ==
    /\ stopper # "idle" => closed
    /\ \A r \in Readers :
          /\ get[r] # "stopping"
          /\ get[r] = "taken" => held[r] # 0
          /\ get[r] \in {"cancelling", "cancelled", "ended"} => closed

\* EndOfQueue means that the queue was stopped, as long as one task reads the
\* queue at a time and its get() is not cancelled: with two it may not.
THEOREM EndOfQueueMeansStopped ==
    ~ReadersGiveUp /\ (\A r, s \in Readers : r = s) =>
        (QSafeSpec => []EndOfQueueOnlyWhenStopped)
<1> SUFFICES ASSUME ~ReadersGiveUp, \A r, s \in Readers : r = s
             PROVE  QSafeSpec => []EndOfQueueOnlyWhenStopped
    OBVIOUS
<1>1. QInit => OneReaderInv
    BY DEF QInit, OneReaderInv
<1>2. ASSUME QTypeOK, OneReaderInv, [QNext]_qvars
      PROVE  OneReaderInv'
    <2>1. get \in [Readers -> GetStates] /\ held \in [Readers -> 0..MaxMessages]
        BY <1>2, QTypeParts DEF AllTyped, ReadersTyped
    <2> USE DEF OneReaderInv
    <2>2. CASE UNCHANGED <<get, held>> /\ (closed => closed') /\ (closed' \/ stopper' = stopper)
        BY <1>2, <2>2
    <2>3. CASE \E r \in Readers : GetNow(r)
        BY <2>2, <2>3 DEF GetNow, readVars, whoVars
    <2>4. CASE \E r \in Readers : GetEnds(r) \/ GetWaits(r) \/ RecvCancelled(r)
        BY <1>2, <2>1, <2>4 DEF GetEnds, GetWaits, GetWaitsFor, RecvCancelled, whoVars
    <2>5. ASSUME NEW r \in Readers, RecvTakes(r)
          PROVE  OneReaderInv'
        <3>1. Head(main) # 0
            BY <1>2, <2>5, TakeTyped, QTypeParts DEF AllTyped, RecvTakes, Messages
        <3> QED BY <1>2, <2>1, <2>5, <3>1 DEF RecvTakes, whoVars
    <2>6. ASSUME NEW r \in Readers, GetResumes(r) \/ GetFinishes(r)
          PROVE  OneReaderInv'
        <3>1. /\ get' = [get EXCEPT ![r] = Outcome(r)] /\ held' = [held EXCEPT ![r] = 0]
              /\ closed' = closed /\ get[r] \in {"taken", "cancelled"}
            BY <1>2, <2>6 DEF GetResumes, GetFinishes, GetReturns, Waiting
        <3>2. get'[r] = Outcome(r) /\ (Outcome(r) = "ended" => closed) /\ Outcome(r) # "stopping"
            BY <1>2, <2>1, <3>1 DEF Outcome
        <3>3. \A s \in Readers : s = r
            OBVIOUS
        <3>4. Outcome(r) \in {"idle", "ended"} /\ stopper' = stopper
            BY <2>6 DEF Outcome, GetResumes, GetFinishes, whoVars
        <3> QED BY <1>2, <3>1, <3>2, <3>3, <3>4
    <2>7. CASE Swap /\ stopper' = stopper
        BY <1>2, <2>1, <2>7 DEF Swap
    <2>8. CASE StopRecvTask /\ closed' /\ held' = held
        BY <1>2, <2>1, <2>8 DEF StopRecvTask, CancelTask, Waiting
    <2>9. CASE SwapWithoutDispatcher \/ SwapEnds
        BY <2>7, <2>9 DEF SwapWithoutDispatcher, SwapEnds, Swap
    <2>10. CASE Stop
        BY <2>2, <2>8, <2>10 DEF Stop
    <2>11. CASE Put \/ StartDispatching \/ OwnerStarts \/ DrainGivenUp \/ PauseEntered \/ Unpause
                \/ (\E d \in Dispatchers : Dispatching(d)) \/ Drained \/ DiscardBuffer
                \/ SwapBegins \/ StopRecvEnded \/ UNCHANGED qvars
        <3>1. /\ UNCHANGED <<get, held, closed>>
              /\ stopper' = stopper \/ (stopper = "await_recv" /\ stopper' = "stopped")
            BY <2>11 DEF Put, StartDispatching, OwnerStarts, Pause,
               BufferUntilDrained, Dispatching, DispatchNext, HandlerReturns, DispatcherEnds,
               PauseEntered, Unpause, DrainGivenUp,
               Drained, DiscardBuffer, SwapBegins, StopRecvEnded, qvars, readVars, whoVars
        <3> QED BY <1>2, <3>1
    <2>12. CASE StopDispatcherEnded
        BY <1>2, <2>8, <2>12 DEF StopDispatcherEnded
    <2> QED BY <1>2, <2>3, <2>4, <2>5, <2>6, <2>9, <2>10, <2>11, <2>12
            DEF QNext, Calling, Reading, GetCancelled, OwnerGoesOn, Stopping
<1>3. OneReaderInv => EndOfQueueOnlyWhenStopped
    BY DEF OneReaderInv, EndOfQueueOnlyWhenStopped
<1>4. QTypeOK /\ OneReaderInv /\ [QNext]_qvars => OneReaderInv'
    BY <1>2
<1> QED BY <1>1, <1>3, <1>4, QueueTypeCorrect, PTL DEF QSafeSpec

=============================================================================
