-------------------------- MODULE HeartbeatsProofs --------------------------
(***************************************************************************)
(* Proofs about Heartbeats, for every choice of intervals, tolerance,      *)
(* lateness and delay: how long a peer may be silent, how soon silence is  *)
(* noticed, and that intervals which leave room never drop a healthy peer. *)
(***************************************************************************)
EXTENDS Heartbeats, TLAPS

\* The constants are naturals, the intervals and the tolerance positive.
LEMMA Constants ==
    /\ LocalInterval \in Nat /\ LocalInterval > 0
    /\ RemoteInterval \in Nat /\ RemoteInterval > 0
    /\ Tolerated \in Nat /\ Tolerated > 0
    /\ MaxLate \in Nat /\ MaxDelay \in Nat /\ MaxInFlight \in Nat
BY IntervalsAssumption, ToleratedAssumption, TimingAssumption, InFlightAssumption
   DEF LocalInterval, RemoteInterval

\* A multiple grows by the multiplicand and keeps the order of the multipliers.
LEMMA Multiples ==
    ASSUME NEW m \in Nat, NEW n \in Nat, NEW x \in Nat
    PROVE  /\ m * x \in Nat
           /\ (m + 1) * x = m * x + x
           /\ 0 * x = 0
           /\ m <= n => m * x <= n * x
<1>1. m * x \in Nat /\ (m + 1) * x = m * x + x /\ 0 * x = 0
  OBVIOUS
<1>2. ASSUME m <= n PROVE m * x <= n * x
  <2>1. PICK k \in Nat : n = m + k
    <3>1. n - m \in Nat /\ n = m + (n - m)
      BY <1>2
    <3>. QED BY <3>1
  <2>2. n * x = m * x + k * x /\ k * x \in Nat
    BY <2>1
  <2>. QED BY <1>1, <2>2
<1>. QED BY <1>1, <1>2

\* The bounds are naturals, and a period counted for each tolerated check,
\* and one before them, is within the gap.
LEMMA Gaps ==
    /\ SendGap \in Nat /\ DetectTime \in Nat
    /\ LocalInterval + MaxLate \in Nat /\ RemoteInterval + MaxLate \in Nat
    /\ LocalInterval + MaxLate <= SendGap
    /\ \A m \in Nat : m < Tolerated =>
          /\ (m + 1) * (LocalInterval + MaxLate) + (LocalInterval + MaxLate) <= SendGap
          /\ (m + 1) * (RemoteInterval + MaxLate) + (RemoteInterval + MaxLate) <= DetectTime
<1>. DEFINE X == LocalInterval + MaxLate
            Y == RemoteInterval + MaxLate
<1>1. X \in Nat /\ Y \in Nat /\ Tolerated \in Nat /\ Tolerated > 0
  BY Constants
<1>. HIDE DEF X, Y
<1>2. /\ (Tolerated + 1) * X \in Nat /\ (Tolerated + 1) * Y \in Nat
      /\ (Tolerated + 1) * X = Tolerated * X + X
      /\ (Tolerated + 1) * Y = Tolerated * Y + Y
      /\ Tolerated * X \in Nat
  BY <1>1, Multiples, Tolerated + 1 \in Nat
<1>3. ASSUME NEW m \in Nat, m < Tolerated
      PROVE  (m + 1) * X <= Tolerated * X /\ (m + 1) * Y <= Tolerated * Y
  BY <1>1, <1>3, Multiples, m + 1 \in Nat, m + 1 <= Tolerated
<1>4. X <= (Tolerated + 1) * X
  BY <1>1, <1>2
<1>5. ASSUME NEW m \in Nat, m < Tolerated
      PROVE  (m + 1) * X + X <= (Tolerated + 1) * X /\ (m + 1) * Y + Y <= (Tolerated + 1) * Y
  <2>1. (m + 1) * X \in Nat /\ (m + 1) * Y \in Nat /\ Tolerated * Y \in Nat
    BY <1>1, Multiples, m + 1 \in Nat
  <2>. QED BY <1>1, <1>2, <1>3, <1>5, <2>1
<1>6. SendGap = (Tolerated + 1) * X /\ DetectTime = (Tolerated + 1) * Y
  BY DEF SendGap, DetectTime, X, Y
<1>. QED BY <1>1, <1>2, <1>4, <1>5, <1>6 DEF X, Y

-----------------------------------------------------------------------------
(* What happens to the messages that travel *)

\* A message that is sent goes to the end.
LEMMA Sent ==
    ASSUME NEW S, NEW s \in Seq(S), NEW e \in S
    PROVE  /\ Append(s, e) \in Seq(S) /\ Append(s, e) # <<>>
           /\ Len(Append(s, e)) = Len(s) + 1
           /\ \A i \in 1..Len(s) : Append(s, e)[i] = s[i]
           /\ Append(s, e)[Len(s) + 1] = e
OBVIOUS

\* A message that is received comes from the front.
LEMMA Received ==
    ASSUME NEW S, NEW s \in Seq(S), s # <<>>
    PROVE  /\ Tail(s) \in Seq(S) /\ Len(Tail(s)) = Len(s) - 1
           /\ \A i \in 1..(Len(s) - 1) : Tail(s)[i] = s[i + 1]
           /\ (Tail(s) = <<>>) <=> (Len(s) = 1)
<1>1. Tail(s) \in Seq(S) /\ Len(Tail(s)) = Len(s) - 1
  OBVIOUS
<1>2. \A i \in 1..(Len(s) - 1) : Tail(s)[i] = s[i + 1]
  OBVIOUS
<1>3. ASSUME NEW t \in Seq(S) PROVE (t = <<>>) <=> (Len(t) = 0)
  BY <1>1
<1>. QED BY <1>1, <1>2, <1>3

\* As time passes every message grows older, and none is lost.
LEMMA Aged ==
    ASSUME NEW s \in Seq(Nat), NEW t, t = [i \in DOMAIN s |-> s[i] + 1]
    PROVE  /\ t \in Seq(Nat) /\ Len(t) = Len(s)
           /\ \A i \in 1..Len(s) : t[i] = s[i] + 1
           /\ (t = <<>>) <=> (s = <<>>)
           /\ \A S : (\A i \in 1..Len(s) : s[i] + 1 \in S) => t \in Seq(S)
<1>1. DOMAIN s = 1..Len(s) /\ Len(s) \in Nat
  OBVIOUS
<1>2. t \in [1..Len(s) -> Nat]
  BY <1>1
<1>3. t \in Seq(Nat) /\ Len(t) = Len(s)
  BY <1>1, <1>2
<1>4. ASSUME NEW S, \A i \in 1..Len(s) : s[i] + 1 \in S PROVE t \in Seq(S)
  <2>1. t \in [1..Len(s) -> S]
    BY <1>1, <1>4
  <2>. QED BY <1>1, <2>1
<1>. QED BY <1>1, <1>3, <1>4

-----------------------------------------------------------------------------
(* Every step preserves the invariant *)

\* Monitors that have just started satisfy the invariant.
THEOREM InitInv == HInit => HeartbeatInv
<1>. SUFFICES ASSUME HInit PROVE HeartbeatInv
  OBVIOUS
<1>. USE Constants, Gaps DEF HInit
<1>1. HTypeOK
  <2>1. alive \in BOOLEAN /\ tripped \in BOOLEAN
    BY Zenon
  <2>2. localPinged \in BOOLEAN /\ remotePinged \in BOOLEAN
    BY Zenon
  <2>3. flight \in Seq(0..MaxDelay)
    OBVIOUS
  <2>4. /\ localAge \in 0..(LocalInterval + MaxLate)
        /\ remoteAge \in 0..(RemoteInterval + MaxLate)
        /\ localMissed \in 0..Tolerated /\ remoteMissed \in 0..Tolerated
        /\ sinceSend \in Nat /\ sinceReceive \in Nat
    OBVIOUS
  <2>. QED BY <2>1, <2>2, <2>3, <2>4 DEF HTypeOK
<1>2. InvLocal
  BY DEF InvLocal, LocalOwed
<1>3. InvFlight /\ InvReceived
  BY DEF InvFlight, InvReceived
<1>4. InvRemote
  BY DEF InvRemote
<1>. QED BY <1>1, <1>2, <1>3, <1>4 DEF HeartbeatInv

\* What the sender may owe is a natural.
LEMMA OwedNat == HTypeOK => LocalOwed \in Nat
<1>. SUFFICES ASSUME HTypeOK PROVE LocalOwed \in Nat
  OBVIOUS
<1>1. localMissed \in Nat /\ localMissed + 1 \in Nat /\ Period(LocalInterval) \in Nat
  BY Constants DEF HTypeOK, Period
<1>. QED BY <1>1, Multiples DEF LocalOwed

\* Time that passes while nothing is due keeps the invariant.
LEMMA TickInv == HeartbeatInv /\ Tick => HeartbeatInv'
<1>. SUFFICES ASSUME HeartbeatInv, Tick PROVE HeartbeatInv'
  OBVIOUS
<1>. USE Constants, Gaps DEF Tick, TickOn
<1>1. HTypeOK /\ InvLocal /\ InvFlight /\ InvReceived /\ InvRemote
  BY DEF HeartbeatInv
<1>2. flight \in Seq(0..MaxDelay) /\ flight \in Seq(Nat) /\ Len(flight) \in Nat
  BY <1>1 DEF HTypeOK
<1>3. /\ flight' \in Seq(Nat) /\ Len(flight') = Len(flight)
      /\ \A i \in 1..Len(flight) : flight'[i] = flight[i] + 1
      /\ (flight' = <<>>) <=> (flight = <<>>)
      /\ \A S : (\A i \in 1..Len(flight) : flight[i] + 1 \in S) => flight' \in Seq(S)
  <2>1. flight' = [i \in DOMAIN flight |-> flight[i] + 1]
    OBVIOUS
  <2>. QED BY <1>2, <2>1, Aged, Zenon
<1>4. \A i \in 1..Len(flight) : flight[i] \in 0..MaxDelay
  BY <1>2
<1>5. \A i \in 1..Len(flight) : flight[i] <= flight[1]
  BY <1>1, <1>4 DEF InvFlight
<1>6. \A i \in 1..Len(flight) : flight[i] + 1 \in 0..MaxDelay
  <2>. SUFFICES ASSUME NEW i \in 1..Len(flight) PROVE flight[i] + 1 \in 0..MaxDelay
    OBVIOUS
  <2>1. flight # <<>> /\ 1 \in 1..Len(flight)
    BY <1>2
  <2>2. flight[1] < MaxDelay /\ flight[i] <= flight[1]
    BY <2>1, <1>5
  <2>. QED BY <2>1, <2>2, <1>4
<1>7. flight' \in Seq(0..MaxDelay)
  BY <1>3, <1>6
<1>8. HTypeOK'
  <2>1. alive' \in BOOLEAN /\ tripped' \in BOOLEAN
    BY <1>1, Zenon DEF HTypeOK
  <2>2. localPinged' \in BOOLEAN /\ remotePinged' \in BOOLEAN
    BY <1>1, Zenon DEF HTypeOK
  <2>3. localAge' \in 0..(LocalInterval + MaxLate)
    BY <1>1 DEF HTypeOK
  <2>4. remoteAge' \in 0..(RemoteInterval + MaxLate)
    BY <1>1 DEF HTypeOK
  <2>5. /\ localMissed' \in 0..Tolerated /\ remoteMissed' \in 0..Tolerated
        /\ sinceSend' \in Nat /\ sinceReceive' \in Nat
    BY <1>1 DEF HTypeOK
  <2>. QED BY <1>7, <2>1, <2>2, <2>3, <2>4, <2>5, Zenon DEF HTypeOK
<1>9. InvLocal'
  <2>1. LocalOwed' = LocalOwed /\ LocalOwed \in Nat
    BY <1>1, OwedNat DEF LocalOwed
  <2>2. alive => localAge' = localAge + 1 /\ sinceSend' = sinceSend + 1
    OBVIOUS
  <2>. QED BY <1>1, <2>1, <2>2 DEF HTypeOK, InvLocal
<1>10. InvFlight'
  <2>1. flight' # <<>> => flight'[Len(flight')] = sinceSend'
    BY <1>1, <1>2, <1>3 DEF InvFlight
  <2>2. \A i, j \in 1..Len(flight') : i < j => flight'[j] <= flight'[i]
    BY <1>1, <1>3, <1>4 DEF InvFlight
  <2>3. \A i \in 1..(Len(flight') - 1) : flight'[i] <= flight'[i + 1] + SendGap
    <3>. SUFFICES ASSUME NEW i \in 1..(Len(flight) - 1)
                  PROVE  flight[i] + 1 <= flight[i + 1] + 1 + SendGap
      BY <1>2, <1>3
    <3>1. flight[i] <= flight[i + 1] + SendGap
      BY <1>1 DEF InvFlight
    <3>2. flight[i] \in Nat /\ flight[i + 1] \in Nat
      BY <1>2, <1>4
    <3>. QED BY <3>1, <3>2
  <2>. QED BY <2>1, <2>2, <2>3 DEF InvFlight
<1>11. InvReceived'
  <2>1. flight # <<>> => 1 \in 1..Len(flight)
    BY <1>2
  <2>. QED BY <1>1, <1>3, <1>4, <2>1 DEF InvReceived, HTypeOK
<1>12. InvRemote'
  BY <1>1, Multiples DEF InvRemote, HTypeOK, Period
<1>. QED BY <1>8, <1>9, <1>10, <1>11, <1>12 DEF HeartbeatInv

\* The invariant bounds the sender's silence.
LEMMA InvBoundsSilence == HeartbeatInv => SilenceBounded
<1>. SUFFICES ASSUME HeartbeatInv, alive PROVE sinceSend <= SendGap
  BY DEF SilenceBounded
<1>1. sinceSend <= localAge + LocalOwed /\ HTypeOK
  BY DEF HeartbeatInv, InvLocal
<1>2. /\ localAge \in Nat /\ localAge <= LocalInterval + MaxLate
      /\ sinceSend \in Nat /\ LocalOwed \in Nat
  BY <1>1, Constants, OwedNat DEF HTypeOK
<1>3. CASE localPinged \/ localMissed = Tolerated
  BY <1>1, <1>2, <1>3, Gaps DEF LocalOwed
<1>4. CASE ~(localPinged \/ localMissed = Tolerated)
  <2>1. localMissed \in Nat /\ localMissed < Tolerated
    BY <1>1, <1>4, Constants DEF HTypeOK
  <2>2. LocalOwed = (localMissed + 1) * (LocalInterval + MaxLate)
    BY <1>4 DEF LocalOwed, Period
  <2>3. LocalOwed + (LocalInterval + MaxLate) <= SendGap
    BY <2>1, <2>2, Gaps
  <2>. QED BY <1>1, <1>2, <2>3, Gaps, Constants
<1>. QED BY <1>3, <1>4

\* A message that a live sender sends is younger than all that travel, and not
\* by more than the gap.
LEMMA TransmitInv ==
    ASSUME HeartbeatInv, alive, Transmit, UNCHANGED sinceReceive
    PROVE  flight' \in Seq(0..MaxDelay) /\ InvFlight' /\ InvReceived'
<1>1. HTypeOK /\ InvFlight /\ InvReceived /\ sinceSend <= SendGap
  BY InvBoundsSilence DEF HeartbeatInv, SilenceBounded
<1>2. flight \in Seq(0..MaxDelay) /\ Len(flight) \in Nat /\ 0 \in 0..MaxDelay
  BY <1>1, Constants DEF HTypeOK
<1>3. /\ flight' \in Seq(0..MaxDelay) /\ flight' # <<>>
      /\ Len(flight') = Len(flight) + 1
      /\ \A i \in 1..Len(flight) : flight'[i] = flight[i]
      /\ flight'[Len(flight) + 1] = 0
  BY <1>2, Sent DEF Transmit
<1>4. \A i \in 1..Len(flight) : flight[i] \in Nat
  BY <1>2, Constants
<1>5. sinceSend' = 0 /\ sinceReceive' = sinceReceive /\ sinceSend \in Nat
      /\ sinceReceive \in Nat /\ SendGap \in Nat
  BY <1>1, Gaps DEF Transmit, HTypeOK
<1>6. InvFlight'
  <2>1. flight'[Len(flight')] = sinceSend'
    BY <1>3, <1>5
  <2>2. \A i, j \in 1..Len(flight') : i < j => flight'[j] <= flight'[i]
    <3>. SUFFICES ASSUME NEW i \in 1..Len(flight'), NEW j \in 1..Len(flight'), i < j
                  PROVE  flight'[j] <= flight'[i]
      OBVIOUS
    <3>1. i \in 1..Len(flight)
      BY <1>2, <1>3
    <3>2. CASE j \in 1..Len(flight)
      BY <1>1, <1>3, <3>1, <3>2 DEF InvFlight
    <3>3. CASE j = Len(flight) + 1
      BY <1>3, <1>4, <3>1, <3>3
    <3>. QED BY <1>2, <1>3, <3>2, <3>3
  <2>3. \A i \in 1..(Len(flight') - 1) : flight'[i] <= flight'[i + 1] + SendGap
    <3>. SUFFICES ASSUME NEW i \in 1..Len(flight)
                  PROVE  flight'[i] <= flight'[i + 1] + SendGap
      BY <1>2, <1>3
    <3>1. CASE i \in 1..(Len(flight) - 1)
      BY <1>1, <1>2, <1>3, <3>1 DEF InvFlight
    <3>2. CASE i = Len(flight)
      BY <1>1, <1>2, <1>3, <1>5, <3>2 DEF InvFlight
    <3>. QED BY <1>2, <3>1, <3>2
  <2>. QED BY <2>1, <2>2, <2>3 DEF InvFlight
<1>7. InvReceived'
  <2>1. CASE flight = <<>>
    <3>1. flight'[1] = 0 /\ sinceReceive <= sinceSend
      BY <1>1, <1>3, <2>1 DEF InvReceived
    <3>. QED BY <1>1, <1>3, <1>5, <3>1 DEF InvReceived
  <2>2. CASE flight # <<>>
    <3>1. 1 \in 1..Len(flight)
      BY <1>2, <2>2
    <3>2. flight'[1] = flight[1] /\ sinceReceive <= flight[1] + SendGap
      BY <1>1, <1>3, <2>2, <3>1 DEF InvReceived
    <3>. QED BY <1>3, <1>5, <3>2 DEF InvReceived
  <2>. QED BY <2>1, <2>2
<1>. QED BY <1>3, <1>6, <1>7

\* Sending keeps it: the newest message in flight is as old as the last send.
LEMMA SendMsgInv == HeartbeatInv /\ SendMsg => HeartbeatInv'
<1>. SUFFICES ASSUME HeartbeatInv, SendMsg PROVE HeartbeatInv'
  OBVIOUS
<1>1. flight' \in Seq(0..MaxDelay) /\ InvFlight' /\ InvReceived'
  BY TransmitInv DEF SendMsg
<1>2. HTypeOK' /\ InvLocal'
  BY <1>1, Constants DEF HeartbeatInv, HTypeOK, InvLocal, LocalOwed, SendMsg, Transmit,
                         remoteVars
<1>3. InvRemote'
  BY DEF HeartbeatInv, InvRemote, SendMsg, remoteVars, Period
<1>. QED BY <1>1, <1>2, <1>3 DEF HeartbeatInv

\* The local monitor keeps it: it sends before the silence grows too long.
LEMMA LocalCheckInv == HeartbeatInv /\ LocalCheck => HeartbeatInv'
<1>. SUFFICES ASSUME HeartbeatInv, LocalCheck PROVE HeartbeatInv'
  OBVIOUS
<1>. USE DEF LocalCheck, LocalCheckAt
<1>1. HTypeOK /\ InvLocal /\ InvFlight /\ InvReceived /\ InvRemote
  BY DEF HeartbeatInv
<1>2. InvRemote'
  BY <1>1 DEF InvRemote, remoteVars, Period
<1>3. /\ localAge \in Nat /\ localAge <= LocalInterval + MaxLate /\ localAge' = 0
      /\ sinceSend \in Nat /\ localMissed \in 0..Tolerated /\ LocalInterval + MaxLate \in Nat
  BY <1>1, Gaps, Constants DEF HTypeOK
<1>4. CASE localPinged
  <2>1. InvFlight' /\ InvReceived'
    BY <1>1, <1>4 DEF InvFlight, InvReceived
  <2>2. HTypeOK'
    <3>1. /\ alive' \in BOOLEAN /\ tripped' \in BOOLEAN
          /\ localPinged' \in BOOLEAN /\ remotePinged' \in BOOLEAN
      BY <1>1, <1>4, Zenon DEF HTypeOK, remoteVars
    <3>2. UNCHANGED <<flight, sinceSend, sinceReceive, remoteAge, remoteMissed>>
      BY <1>4 DEF remoteVars
    <3>3. localAge' = 0 /\ localMissed' = 0
      BY <1>4
    <3>4. localAge' \in 0..(LocalInterval + MaxLate) /\ localMissed' \in 0..Tolerated
      BY <3>3, Constants
    <3>. QED BY <1>1, <3>1, <3>2, <3>4, Zenon DEF HTypeOK
  <2>3. LocalOwed' = LocalInterval + MaxLate
    <3>1. ~localPinged' /\ localMissed' = 0 /\ localMissed' # Tolerated
      BY <1>4, Constants
    <3>2. (0 + 1) * (LocalInterval + MaxLate) = LocalInterval + MaxLate
      BY <1>3
    <3>. QED BY <3>1, <3>2 DEF LocalOwed, Period
  <2>4. sinceSend' <= localAge' + LocalOwed'
    BY <1>1, <1>3, <1>4, <2>3 DEF InvLocal, LocalOwed
  <2>. QED BY <1>2, <2>1, <2>2, <2>4 DEF HeartbeatInv, InvLocal
<1>5. CASE ~localPinged /\ localMissed' = Tolerated
  <2>1. Transmit /\ alive /\ UNCHANGED sinceReceive
    BY <1>5
  <2>2. flight' \in Seq(0..MaxDelay) /\ InvFlight' /\ InvReceived'
    BY <2>1, TransmitInv
  <2>3. HTypeOK'
    BY <1>1, <1>5, <2>2, Constants DEF HTypeOK, Transmit, remoteVars
  <2>4. InvLocal'
    BY <1>3, <1>5 DEF InvLocal, LocalOwed, Transmit
  <2>. QED BY <1>2, <2>2, <2>3, <2>4 DEF HeartbeatInv
<1>6. CASE ~localPinged /\ localMissed' # Tolerated
  <2>1. localMissed < Tolerated /\ localMissed' = localMissed + 1
    BY <1>3, <1>6, Constants
  <2>2. UNCHANGED <<flight, sinceSend>>
    BY <1>6
  <2>3. InvFlight' /\ InvReceived'
    BY <1>1, <2>2 DEF InvFlight, InvReceived
  <2>4. HTypeOK'
    BY <1>1, <1>6, <2>1, <2>2, Constants DEF HTypeOK, remoteVars
  <2>5. LocalOwed' = LocalOwed + (LocalInterval + MaxLate)
    BY <1>3, <1>6, <2>1, Constants, Multiples DEF LocalOwed, Period
  <2>6. sinceSend' <= localAge' + LocalOwed'
    BY <1>1, <1>3, <2>2, <2>5, OwedNat DEF InvLocal
  <2>. QED BY <1>2, <2>3, <2>4, <2>6 DEF HeartbeatInv, InvLocal
<1>. QED BY <1>4, <1>5, <1>6

\* Receiving keeps it: what was sent later arrives later.
LEMMA ReceiveInv == HeartbeatInv /\ Receive => HeartbeatInv'
<1>. SUFFICES ASSUME HeartbeatInv, Receive PROVE HeartbeatInv'
  OBVIOUS
<1>1. HTypeOK /\ InvLocal /\ InvFlight /\ InvReceived /\ InvRemote
  BY DEF HeartbeatInv
<1>2. flight \in Seq(0..MaxDelay) /\ flight # <<>> /\ Len(flight) \in Nat
  BY <1>1 DEF HTypeOK, Receive
<1>3. /\ flight' \in Seq(0..MaxDelay) /\ Len(flight') = Len(flight) - 1
      /\ \A i \in 1..(Len(flight) - 1) : flight'[i] = flight[i + 1]
      /\ (flight' = <<>>) <=> (Len(flight) = 1)
  BY <1>2, Received DEF Receive
<1>4. HTypeOK'
  BY <1>1, <1>3 DEF HTypeOK, Receive, localVars
<1>5. InvLocal'
  BY <1>1 DEF InvLocal, LocalOwed, Period, Receive, localVars
<1>6. InvFlight'
  BY <1>1, <1>2, <1>3 DEF InvFlight, Receive
<1>7. InvReceived'
  <2>1. flight' # <<>> => flight'[1] \in 0..MaxDelay
    <3>1. flight' # <<>> => 1 \in 1..(Len(flight) - 1) /\ 2 \in 1..Len(flight)
      BY <1>2, <1>3
    <3>2. flight' # <<>> => flight'[1] = flight[2] /\ flight[2] \in 0..MaxDelay
      <4>1. \A i \in 1..Len(flight) : flight[i] \in 0..MaxDelay
        BY <1>2, Constants
      <4>2. 1 \in 1..(Len(flight) - 1) => flight'[1] = flight[1 + 1]
        BY <1>3
      <4>. QED BY <3>1, <4>1, <4>2
    <3>. QED BY <3>2
  <2>2. sinceReceive' = 0 /\ sinceSend' = sinceSend
    BY DEF Receive
  <2>3. sinceSend \in Nat
    BY <1>1 DEF HTypeOK
  <2>4. SendGap \in Nat /\ SendGap' = SendGap
    BY Gaps DEF SendGap
  <2>5. sinceReceive' <= sinceSend'
    BY <2>2, <2>3
  <2>6. flight' # <<>> => sinceReceive' <= flight'[1] + SendGap'
    BY <2>1, <2>2, <2>4, Constants
  <2>. QED BY <2>4, <2>5, <2>6 DEF InvReceived
<1>8. InvRemote'
  BY <1>1, Constants DEF InvRemote, Receive, HTypeOK
<1>. QED BY <1>4, <1>5, <1>6, <1>7, <1>8 DEF HeartbeatInv

\* The remote monitor keeps it: it counts only periods without a message.
LEMMA RemoteCheckInv == HeartbeatInv /\ RemoteCheck => HeartbeatInv'
<1>. SUFFICES ASSUME HeartbeatInv, RemoteCheck PROVE HeartbeatInv'
  OBVIOUS
<1>. USE DEF RemoteCheck, RemoteCheckWith
<1>1. HTypeOK /\ InvLocal /\ InvFlight /\ InvReceived /\ InvRemote
  BY DEF HeartbeatInv
<1>2. InvLocal' /\ InvFlight' /\ InvReceived'
  BY <1>1 DEF InvLocal, LocalOwed, Period, InvFlight, InvReceived, localVars
<1>3. /\ remoteMissed \in Nat /\ remoteMissed < Tolerated /\ sinceReceive \in Nat
      /\ remoteAge \in Nat /\ remoteAge <= RemoteInterval + MaxLate
      /\ remoteAge >= RemoteInterval /\ remoteAge' = 0 /\ sinceReceive' = sinceReceive
  BY <1>1, Constants DEF HTypeOK, InvRemote
<1>4. HTypeOK'
  <2>1. remoteMissed' \in 0..Tolerated
    BY <1>3, Constants
  <2>2. /\ alive' \in BOOLEAN /\ localPinged' \in BOOLEAN /\ remotePinged' \in BOOLEAN
    BY <1>1, Zenon DEF HTypeOK, localVars
  <2>3. tripped' \in BOOLEAN
    <3>1. CASE remotePinged
      BY <1>1, <3>1 DEF HTypeOK
    <3>2. CASE ~remotePinged
      <4>1. tripped' = (remoteMissed' >= Tolerated)
        BY <3>2
      <4>2. (remoteMissed' >= Tolerated) \in BOOLEAN
        OBVIOUS
      <4>. QED BY <4>1, <4>2, Zenon
    <3>. QED BY <3>1, <3>2
  <2>4. UNCHANGED <<flight, sinceSend, sinceReceive, localAge, localMissed>>
    BY DEF localVars
  <2>5. remoteAge' \in 0..(RemoteInterval + MaxLate)
    BY <1>3, Constants
  <2>. QED BY <1>1, <2>1, <2>2, <2>3, <2>4, <2>5, Zenon DEF HTypeOK
<1>5. CASE remotePinged
  <2>1. /\ 0 * RemoteInterval = 0
        /\ (0 + 1) * (RemoteInterval + MaxLate) = RemoteInterval + MaxLate
    BY Constants, Gaps
  <2>2. remotePinged' = FALSE /\ remoteMissed' = 0 /\ tripped' = tripped
    BY <1>5
  <2>3. ~tripped => sinceReceive <= remoteAge
    BY <1>1, <1>3, <1>5 DEF InvRemote
  <2>. QED BY <1>2, <1>3, <1>4, <2>1, <2>2, <2>3, Constants DEF HeartbeatInv, InvRemote, Period
<1>6. CASE ~remotePinged
  <2>. DEFINE Y == RemoteInterval + MaxLate
  <2>1. /\ remotePinged' = FALSE /\ remoteMissed' = remoteMissed + 1
        /\ tripped' = (remoteMissed' >= Tolerated)
    BY <1>6
  <2>2. /\ (remoteMissed + 1) * RemoteInterval = remoteMissed * RemoteInterval + RemoteInterval
        /\ remoteMissed * RemoteInterval \in Nat
    BY <1>3, Constants, Multiples
  <2>3. /\ (remoteMissed + 1 + 1) * Y = (remoteMissed + 1) * Y + Y
        /\ (remoteMissed + 1) * Y \in Nat
    BY <1>3, Constants, Multiples, Gaps, remoteMissed + 1 \in Nat
  <2>4. /\ sinceReceive >= remoteAge + remoteMissed * RemoteInterval
        /\ sinceReceive <= remoteAge + (remoteMissed + 1) * Y
    BY <1>1, <1>6 DEF InvRemote, Period
  <2>5. sinceReceive >= (remoteMissed + 1) * RemoteInterval
    BY <1>3, <2>2, <2>4, Constants
  <2>6. sinceReceive <= (remoteMissed + 1 + 1) * Y
    <3>1. remoteAge <= Y /\ Y \in Nat
      BY <1>3, Gaps
    <3>. HIDE DEF Y
    <3>. QED BY <1>3, <2>3, <2>4, <3>1
  <2>7. InvRemote'
    <3>1. sinceReceive' >= remoteAge' + remoteMissed' * RemoteInterval
      BY <1>3, <2>1, <2>2, <2>5, Constants
    <3>2. sinceReceive' <= remoteAge' + (remoteMissed' + 1) * Y
      BY <1>3, <2>1, <2>3, <2>6, Gaps
    <3>3. ~tripped' => remoteMissed' < Tolerated
      <4>1. ~tripped' => ~(remoteMissed' >= Tolerated)
        BY <2>1, Zenon
      <4>. QED BY <1>3, <2>1, <4>1, Constants
    <3>. QED BY <2>1, <3>1, <3>2, <3>3 DEF InvRemote, Period
  <2>. QED BY <1>2, <1>4, <2>7 DEF HeartbeatInv
<1>. QED BY <1>5, <1>6

\* The death of the sender keeps it: the rest no longer speaks of the sender.
LEMMA SenderDiesInv == HeartbeatInv /\ SenderDies => HeartbeatInv'
<1>. SUFFICES ASSUME HeartbeatInv, SenderDies PROVE HeartbeatInv'
  OBVIOUS
<1>. USE DEF SenderDies, localVars, remoteVars
<1>1. HTypeOK'
  BY Zenon DEF HeartbeatInv, HTypeOK
<1>2. InvLocal' /\ InvFlight' /\ InvReceived'
  BY DEF HeartbeatInv, InvLocal, InvFlight, InvReceived
<1>3. InvRemote'
  BY DEF HeartbeatInv, InvRemote, Period
<1>. QED BY <1>1, <1>2, <1>3 DEF HeartbeatInv

\* Every step keeps it.
LEMMA NextInv == HeartbeatInv /\ [HNext]_hvars => HeartbeatInv'
<1>1. HeartbeatInv /\ UNCHANGED hvars => HeartbeatInv'
  BY DEF HeartbeatInv, hvars, HTypeOK, InvLocal, LocalOwed, InvFlight, InvReceived,
         InvRemote, Period, localVars, remoteVars
<1>. QED BY <1>1, TickInv, SendMsgInv, LocalCheckInv, ReceiveInv, RemoteCheckInv, SenderDiesInv
        DEF HNext

\* The invariant holds in every state.
THEOREM HeartbeatInvariance == HSafeSpec => []HeartbeatInv
<1>. QED BY InitInv, NextInv, PTL DEF HSafeSpec

\* Every variable keeps to its values: the monitors run when they are due.
THEOREM HeartbeatTypes == HSafeSpec => []HTypeOK
<1>1. HeartbeatInv => HTypeOK
  BY DEF HeartbeatInv
<1>. QED BY <1>1, HeartbeatInvariance, PTL

\* Whatever an endpoint sends and when, its local monitor keeps its silence
\* within (Tolerated + 1) intervals, lateness included.
THEOREM SilenceIsBounded == HSafeSpec => []SilenceBounded
<1>. QED BY InvBoundsSilence, HeartbeatInvariance, PTL

\* The remote monitor does not overlook a silent peer for longer than
\* (Tolerated + 1) of its own intervals, lateness included.
THEOREM SilenceIsDetected == HSafeSpec => []SilenceDetected
<1>1. HeartbeatInv => SilenceDetected
  <2>. SUFFICES ASSUME HeartbeatInv, ~tripped PROVE sinceReceive <= DetectTime
    BY DEF SilenceDetected
  <2>. DEFINE Y == RemoteInterval + MaxLate
  <2>1. /\ remoteAge \in Nat /\ remoteAge <= Y /\ remoteMissed \in Nat
        /\ remoteMissed < Tolerated /\ sinceReceive \in Nat
    BY Constants DEF HeartbeatInv, HTypeOK, InvRemote
  <2>2. sinceReceive <= remoteAge + (IF remotePinged THEN 0 ELSE (remoteMissed + 1) * Y)
    BY DEF HeartbeatInv, InvRemote, Period
  <2>3. Y \in Nat /\ DetectTime \in Nat /\ (remoteMissed + 1) * Y \in Nat
    BY <2>1, Gaps, Multiples, remoteMissed + 1 \in Nat
  <2>4. (remoteMissed + 1) * Y + Y <= DetectTime
    BY <2>1, Gaps
  <2>. HIDE DEF Y
  <2>. QED BY <2>1, <2>2, <2>3, <2>4
<1>. QED BY <1>1, HeartbeatInvariance, PTL

\* Intervals that leave room for a heartbeat to be sent, late, and to travel
\* never cost a live peer its session.
THEOREM HealthyPeerIsKept ==
    ASSUME RoomForHeartbeats
    PROVE  HSafeSpec => []HealthyPeerKept
<1>1. HInit => HealthyPeerKept
  BY DEF HInit, HealthyPeerKept
<1>2. HeartbeatInv /\ HealthyPeerKept /\ [HNext]_hvars => HealthyPeerKept'
  <2>. SUFFICES ASSUME HeartbeatInv, HealthyPeerKept, [HNext]_hvars PROVE HealthyPeerKept'
    OBVIOUS
  <2>1. ASSUME RemoteCheck PROVE HealthyPeerKept'
    <3>. SUFFICES ASSUME alive, tripped', ~tripped PROVE FALSE
      BY <2>1 DEF HealthyPeerKept, RemoteCheck, RemoteCheckWith
    <3>1. ~remotePinged /\ remoteMissed + 1 >= Tolerated /\ remoteAge >= RemoteInterval
      BY <2>1 DEF RemoteCheck, RemoteCheckWith
    <3>2. /\ sinceReceive >= remoteAge + remoteMissed * RemoteInterval
          /\ remoteMissed \in Nat /\ remoteMissed < Tolerated
          /\ sinceReceive \in Nat /\ remoteAge \in Nat
      BY <3>1, Constants DEF HeartbeatInv, HTypeOK, InvRemote
    <3>3. remoteMissed + 1 = Tolerated
      BY <3>1, <3>2, Constants
    <3>4. /\ Tolerated * RemoteInterval = remoteMissed * RemoteInterval + RemoteInterval
          /\ remoteMissed * RemoteInterval \in Nat
      BY <3>2, <3>3, Constants, Multiples
    <3>5. sinceReceive >= Tolerated * RemoteInterval
      BY <3>1, <3>2, <3>4, Constants
    <3>6. sinceSend <= SendGap
      BY InvBoundsSilence DEF SilenceBounded
    <3>7. sinceReceive <= SendGap + MaxDelay
      <4>1. CASE flight = <<>>
        BY <3>2, <3>6, <4>1, Gaps, Constants DEF HeartbeatInv, HTypeOK, InvReceived
      <4>2. CASE flight # <<>>
        <5>1. flight[1] \in 0..MaxDelay
          <6>1. flight \in Seq(0..MaxDelay)
            BY DEF HeartbeatInv, HTypeOK
          <6>. QED BY <4>2, <6>1, Constants
        <5>. QED BY <3>2, <4>2, <5>1, Gaps, Constants DEF HeartbeatInv, InvReceived
      <4>. QED BY <4>1, <4>2
    <3>8. Tolerated * RemoteInterval \in Nat
      BY <3>4, Constants
    <3>. QED BY <3>2, <3>5, <3>7, <3>8, Gaps, Constants DEF RoomForHeartbeats
  <2>2. ASSUME ~RemoteCheck PROVE HealthyPeerKept'
    BY <2>2 DEF HealthyPeerKept, HNext, hvars, Tick, TickOn, SendMsg, LocalCheck,
                LocalCheckAt, Receive, SenderDies, remoteVars, localVars
  <2>. QED BY <2>1, <2>2
<1>. QED BY <1>1, <1>2, HeartbeatInvariance, PTL DEF HSafeSpec

=============================================================================
