----------------------------- MODULE Heartbeats -----------------------------
(***************************************************************************)
(* HeartbeatMonitor (common/session.py), as start_heartbeats() uses it: the *)
(* local monitor of one endpoint, the sender, sends a heartbeat when the    *)
(* sender is silent; the remote monitor of the other, the receiver, closes  *)
(* its session when nothing arrives.  Time passes in discrete steps.        *)
(*                                                                         *)
(* A client and a server both pass client_heartbeat_interval for the local  *)
(* monitor and server_heartbeat_interval for the remote one, so this is     *)
(* either direction of a connection, with the former setting of the sender  *)
(* and the latter of the receiver.  The two directions share no variable.   *)
(***************************************************************************)
EXTENDS Naturals, Sequences

CONSTANTS
    ClientInterval,     \* client_heartbeat_interval of the sender
    ServerInterval,     \* server_heartbeat_interval of the receiver
    Tolerated,          \* tolerate_missed_heartbeats
    MaxLate,            \* how late the event loop runs a timer at most
    MaxDelay,           \* how long a message travels at most
    MaxInFlight         \* BOUND: how many messages travel at a time

ASSUME IntervalsAssumption == ClientInterval \in Nat \ {0} /\ ServerInterval \in Nat \ {0}
ASSUME ToleratedAssumption == Tolerated \in Nat \ {0}
ASSUME TimingAssumption == MaxLate \in Nat /\ MaxDelay \in Nat
ASSUME InFlightAssumption == MaxInFlight \in Nat

LocalInterval == ClientInterval
RemoteInterval == ServerInterval

VARIABLES
    alive,          \* the sender runs
    localAge,       \* time since the local monitor last checked
    localPinged,    \* its _pinged
    localMissed,    \* its missed_heartbeats, up to the tolerance
    flight,         \* the ages of the messages that travel, oldest first
    remoteAge,      \* time since the remote monitor last checked
    remotePinged,   \* its _pinged
    remoteMissed,   \* its missed_heartbeats
    tripped,        \* the remote monitor called close()
    sinceSend,      \* time since the sender sent, or started
    sinceReceive    \* time since the receiver received, or both had started

localVars == <<localAge, localPinged, localMissed>>
remoteVars == <<remoteAge, remotePinged, remoteMissed, tripped>>
hvars == <<alive, localVars, flight, remoteVars, sinceSend, sinceReceive>>

\* The server starts its monitors when it accepts the login, the client when
\* that message arrives: either end may be the sender.
HInit ==
    /\ alive = TRUE /\ tripped = FALSE
    /\ localAge \in 0..MaxDelay /\ remoteAge \in 0..MaxDelay
    /\ localAge = 0 \/ remoteAge = 0
    /\ localAge <= LocalInterval /\ remoteAge <= RemoteInterval
    /\ localPinged = TRUE /\ remotePinged = TRUE
    /\ localMissed = 0 /\ remoteMissed = 0
    /\ flight = <<>>
    /\ sinceSend = localAge /\ sinceReceive = 0

-----------------------------------------------------------------------------
(* Time passes unless a timer or a message is due. *)

TickOn ==
    /\ localAge' = IF alive THEN localAge + 1 ELSE localAge
    /\ remoteAge' = remoteAge + 1
    /\ flight' = [i \in DOMAIN flight |-> flight[i] + 1]
    /\ sinceSend' = sinceSend + 1 /\ sinceReceive' = sinceReceive + 1
    /\ UNCHANGED <<alive, localPinged, localMissed, remotePinged, remoteMissed, tripped>>

TickPastDue ==      \* mutant: the remote monitor sleeps on
    /\ ~tripped
    /\ alive => localAge < LocalInterval + MaxLate
    /\ remoteAge <= RemoteInterval + MaxLate
    /\ flight # <<>> => flight[1] < MaxDelay
    /\ TickOn
Tick ==
    /\ ~tripped
    /\ alive => localAge < LocalInterval + MaxLate
    /\ remoteAge < RemoteInterval + MaxLate
    /\ flight # <<>> => flight[1] < MaxDelay
    /\ TickOn

Transmit ==
    /\ flight' = Append(flight, 0)
    /\ sinceSend' = 0

\* send_msg() of anything but a heartbeat pings the local monitor.
SendMsg ==
    /\ alive /\ ~tripped
    /\ Len(flight) < MaxInFlight
    /\ Transmit
    /\ localPinged' = TRUE
    /\ UNCHANGED <<alive, localAge, localMissed, remoteVars, sinceReceive>>

\* An iteration of the local monitor; it goes on after a heartbeat, and does
\* not begin to count anew.
LocalCheckAt(limit) ==
    /\ alive /\ ~tripped
    /\ localAge >= LocalInterval
    /\ localAge' = 0
    /\ \/ /\ localPinged
          /\ localPinged' = FALSE /\ localMissed' = 0
          /\ UNCHANGED <<flight, sinceSend>>
       \/ /\ ~localPinged
          /\ localMissed' = IF localMissed < limit THEN localMissed + 1 ELSE localMissed
          /\ IF localMissed' = limit THEN Transmit ELSE UNCHANGED <<flight, sinceSend>>
          /\ UNCHANGED localPinged
    /\ UNCHANGED <<alive, remoteVars, sinceReceive>>
ToleratesOneMore == LocalCheckAt(Tolerated + 1)     \* mutant: > for >=
LocalCheck == LocalCheckAt(Tolerated)

ReceiveUnseen ==    \* mutant: does not ping the remote monitor
    /\ flight # <<>> /\ ~tripped
    /\ flight' = Tail(flight)
    /\ sinceReceive' = 0
    /\ UNCHANGED <<alive, localVars, remoteVars, sinceSend>>
\* data_received() pings the remote monitor.
Receive ==
    /\ flight # <<>> /\ ~tripped
    /\ flight' = Tail(flight)
    /\ remotePinged' = TRUE
    /\ sinceReceive' = 0
    /\ UNCHANGED <<alive, localVars, remoteAge, remoteMissed, tripped, sinceSend>>

\* An iteration of the remote monitor; it ends when it trips.
RemoteCheckWith(pinged) ==
    /\ ~tripped
    /\ remoteAge >= RemoteInterval
    /\ remoteAge' = 0
    /\ \/ /\ remotePinged
          /\ remotePinged' = pinged /\ remoteMissed' = 0
          /\ UNCHANGED tripped
       \/ /\ ~remotePinged
          /\ remoteMissed' = remoteMissed + 1
          /\ tripped' = (remoteMissed' >= Tolerated)
          /\ UNCHANGED remotePinged
    /\ UNCHANGED <<alive, localVars, flight, sinceSend, sinceReceive>>
KeepsPing == RemoteCheckWith(TRUE)      \* mutant: does not clear _pinged
\* mutant: the loop ends at the first miss, without a call of close()
EndsSilently == remotePinged /\ RemoteCheckWith(FALSE)
RemoteCheck == RemoteCheckWith(FALSE)

\* The sender's process stops, or its network does.
SenderDies ==
    /\ alive /\ ~tripped
    /\ alive' = FALSE
    /\ UNCHANGED <<localVars, flight, remoteVars, sinceSend, sinceReceive>>

HNext == Tick \/ SendMsg \/ LocalCheck \/ Receive \/ RemoteCheck \/ SenderDies

HSafeSpec == HInit /\ [][HNext]_hvars
\* Time passes, and what is due happens.
HSpec == HSafeSpec /\ WF_hvars(Tick) /\ WF_hvars(LocalCheck)
                   /\ WF_hvars(Receive) /\ WF_hvars(RemoteCheck)
-----------------------------------------------------------------------------
(* Properties *)

\* Every variable has a value the code and the clock can give it.
HTypeOK ==
    /\ alive \in BOOLEAN /\ tripped \in BOOLEAN
    /\ localAge \in 0..(LocalInterval + MaxLate) /\ remoteAge \in 0..(RemoteInterval + MaxLate)
    /\ localPinged \in BOOLEAN /\ remotePinged \in BOOLEAN
    /\ localMissed \in 0..Tolerated /\ remoteMissed \in 0..Tolerated
    /\ flight \in Seq(0..MaxDelay)
    /\ sinceSend \in Nat /\ sinceReceive \in Nat

\* How long an endpoint that lives may be silent: one interval passes before
\* the monitor sees that it was pinged, and Tolerated more before it acts.
SendGap == (Tolerated + 1) * (LocalInterval + MaxLate)
DetectTime == (Tolerated + 1) * (RemoteInterval + MaxLate)

\* While an endpoint lives its peer is never left without a message for longer.
SilenceBounded == alive => sinceSend <= SendGap

\* A remote monitor does not close the session of a peer that lives.  This
\* needs intervals that leave room: RoomForHeartbeats.
HealthyPeerKept == tripped => ~alive
RoomForHeartbeats == Tolerated * RemoteInterval > SendGap + MaxDelay

\* A peer that is silent is noticed within a time that is known.
SilenceDetected == ~tripped => sinceReceive <= DetectTime

\* A session whose peer has died is closed.
DeadPeerDropped == ~alive ~> tripped

-----------------------------------------------------------------------------
(* The inductive invariant *)

Period(interval) == interval + MaxLate

\* How long the sender may have been silent when its monitor last checked.
LocalOwed == IF localPinged \/ localMissed = Tolerated
             THEN 0 ELSE (localMissed + 1) * Period(LocalInterval)
InvLocal == alive => sinceSend <= localAge + LocalOwed

\* What travels was sent in this order, the newest when the sender last sent.
InvFlight ==
    /\ flight # <<>> => flight[Len(flight)] = sinceSend
    /\ \A i, j \in 1..Len(flight) : i < j => flight[j] <= flight[i]
    /\ \A i \in 1..(Len(flight) - 1) : flight[i] <= flight[i + 1] + SendGap

\* What was received last was sent before all that.
InvReceived ==
    /\ flight = <<>> => sinceReceive <= sinceSend
    /\ flight # <<>> => sinceReceive <= flight[1] + SendGap

\* A remote monitor that counts has seen nothing for as long as it counted,
\* and for at most one period more.
InvRemote ==
    /\ ~remotePinged => sinceReceive >= remoteAge + remoteMissed * RemoteInterval
    /\ ~tripped => sinceReceive <= remoteAge + (IF remotePinged THEN 0
                                    ELSE (remoteMissed + 1) * Period(RemoteInterval))
    /\ ~tripped => remoteMissed < Tolerated

HeartbeatInv == HTypeOK /\ InvLocal /\ InvFlight /\ InvReceived /\ InvRemote

=============================================================================
