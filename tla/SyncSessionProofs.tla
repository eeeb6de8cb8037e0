------------------------- MODULE SyncSessionProofs -------------------------
(***************************************************************************)
(* Proofs about SyncSession, for any set of threads: what close_lock and   *)
(* closed_event achieve, whoever closes the session and when.              *)
(***************************************************************************)
EXTENDS SyncSession, TLAPS

\* The states of one thread's call.
LEMMA GotoType ==
    ASSUME NEW t \in Threads, NEW S, pc \in [Threads -> S], NEW at \in S, Goto(t, at)
    PROVE  /\ pc' \in [Threads -> S] /\ pc'[t] = at
           /\ \A u \in Threads : u # t => pc'[u] = pc[u]
BY DEF Goto

\* Before a thread calls, nobody holds close_lock and the loop runs.
THEOREM SyncInit == SInit => SyncInv
<1>. SUFFICES ASSUME SInit PROVE SyncInv
  OBVIOUS
<1>. USE DEF SInit
<1>1. STypeOK
  BY Zenon DEF STypeOK
<1>2. InvLock
  BY ThreadsAssumption DEF InvLock, Holding
<1>3. InvEvent
  BY DEF InvEvent, Holding
<1>4. CloseIsComplete
  BY DEF CloseIsComplete
<1>. QED BY <1>1, <1>2, <1>3, <1>4 DEF SyncInv

-----------------------------------------------------------------------------
(* Every step preserves the invariant.  A thread's step concerns its own pc, *)
(* and the lock only if it takes or releases it.                             *)

\* A thread that begins its call holds nothing yet.
LEMMA BeginCallInv == ASSUME SyncInv, NEW t \in Threads, BeginCall(t) PROVE SyncInv'
<1>. USE ThreadsAssumption DEF SyncInv, BeginCall, SessionAndLoop
<1>1. STypeOK'
  BY DEF STypeOK, Goto, Closing
<1>2. /\ call' = call
      /\ \A u \in Threads : u # t => pc'[u] = pc[u]
  BY DEF STypeOK, Goto
<1>3. InvLock'
  BY <1>2 DEF STypeOK, InvLock, InvEvent, Goto, Holding, Closing
<1>4. InvEvent'
  BY <1>2 DEF STypeOK, InvLock, InvEvent, Goto, Holding, Closing
<1>5. CloseIsComplete'
  BY <1>2 DEF STypeOK, InvLock, InvEvent, CloseIsComplete, Goto, Holding, Closing
<1>. QED BY <1>1, <1>3, <1>4, <1>5

\* close() or logout() takes close_lock when it is free.
LEMMA TakeLockInv == ASSUME SyncInv, NEW t \in Threads, TakeLock(t) PROVE SyncInv'
<1>. USE ThreadsAssumption DEF SyncInv, TakeLock, SessionAndLoop
<1>1. STypeOK'
  BY DEF STypeOK, Goto, Closing
<1>2. /\ call' = call
      /\ \A u \in Threads : u # t => pc'[u] = pc[u]
  BY DEF STypeOK, Goto
<1>3. InvLock'
  BY <1>2 DEF STypeOK, InvLock, InvEvent, Goto, Holding, Closing
<1>4. InvEvent'
  BY <1>2 DEF STypeOK, InvLock, InvEvent, Goto, Holding, Closing
<1>5. CloseIsComplete'
  BY <1>2 DEF STypeOK, InvLock, InvEvent, CloseIsComplete, Goto, Holding, Closing
<1>. QED BY <1>1, <1>3, <1>4, <1>5

\* With the lock held, closed_event says whether the loop was asked to stop.
LEMMA CheckEventInv == ASSUME SyncInv, NEW t \in Threads, CheckEvent(t) PROVE SyncInv'
<1>. USE ThreadsAssumption DEF SyncInv, CheckEvent, SessionAndLoop
<1>1. STypeOK'
  BY DEF STypeOK, Goto, Closing
<1>2. /\ call' = call
      /\ \A u \in Threads : u # t => pc'[u] = pc[u]
  BY DEF STypeOK, Goto
<1>3. InvLock'
  BY <1>2 DEF STypeOK, InvLock, InvEvent, Goto, Holding, Closing
<1>4. InvEvent'
  BY <1>2 DEF STypeOK, InvLock, InvEvent, Goto, Holding, Closing
<1>5. CloseIsComplete'
  BY <1>2 DEF STypeOK, InvLock, InvEvent, CloseIsComplete, Goto, Holding, Closing
<1>. QED BY <1>1, <1>3, <1>4, <1>5

\* A closer that found closed_event unset finds the loop alive.
LEMMA CheckActiveInv == ASSUME SyncInv, NEW t \in Threads, CheckActive(t) PROVE SyncInv'
<1>. USE ThreadsAssumption DEF SyncInv, CheckActive, Release, SessionAndLoop
<1>1. STypeOK'
  BY DEF STypeOK, Goto, Closing
<1>2. /\ call' = call
      /\ \A u \in Threads : u # t => pc'[u] = pc[u]
  BY DEF STypeOK, Goto
<1>3. InvLock'
  BY <1>2 DEF STypeOK, InvLock, InvEvent, Goto, Holding, Closing
<1>4. InvEvent'
  BY <1>2 DEF STypeOK, InvLock, InvEvent, Goto, Holding, Closing
<1>5. CloseIsComplete'
  BY <1>2 DEF STypeOK, InvLock, InvEvent, CloseIsComplete, Goto, Holding, Closing
<1>. QED BY <1>1, <1>3, <1>4, <1>5

\* Submitting to the loop changes neither the lock nor the loop.
LEMMA SubmitInv == ASSUME SyncInv, NEW t \in Threads, Submit(t) PROVE SyncInv'
<1>. USE ThreadsAssumption DEF SyncInv, Submit, SessionAndLoop
<1>1. STypeOK'
  BY DEF STypeOK, Goto, Closing
<1>2. /\ call' = call
      /\ \A u \in Threads : u # t => pc'[u] = pc[u]
  BY DEF STypeOK, Goto
<1>3. InvLock'
  BY <1>2 DEF STypeOK, InvLock, InvEvent, Goto, Holding, Closing
<1>4. InvEvent'
  BY <1>2 DEF STypeOK, InvLock, InvEvent, Goto, Holding, Closing
<1>5. CloseIsComplete'
  BY <1>2 DEF STypeOK, InvLock, InvEvent, CloseIsComplete, Goto, Holding, Closing
<1>. QED BY <1>1, <1>3, <1>4, <1>5

\* A closer with its answer gives the lock back.
LEMMA ResumeInv == ASSUME SyncInv, NEW t \in Threads, Resume(t) PROVE SyncInv'
<1>. USE ThreadsAssumption DEF SyncInv, Resume, Release, SessionAndLoop
<1>1. STypeOK'
  BY DEF STypeOK, Goto, Closing
<1>2. /\ call' = call
      /\ \A u \in Threads : u # t => pc'[u] = pc[u]
  BY DEF STypeOK, Goto
<1>3. InvLock'
  BY <1>2 DEF STypeOK, InvLock, InvEvent, Goto, Holding, Closing
<1>4. InvEvent'
  BY <1>2 DEF STypeOK, InvLock, InvEvent, Goto, Holding, Closing
<1>5. CloseIsComplete'
  BY <1>2 DEF STypeOK, InvLock, InvEvent, CloseIsComplete, Goto, Holding, Closing
<1>. QED BY <1>1, <1>3, <1>4, <1>5

\* A closer waits for closed_event without the lock.
LEMMA AwaitEventInv == ASSUME SyncInv, NEW t \in Threads, AwaitEvent(t) PROVE SyncInv'
<1>. USE ThreadsAssumption DEF SyncInv, AwaitEvent, SessionAndLoop
<1>1. STypeOK'
  BY DEF STypeOK, Goto, Closing
<1>2. /\ call' = call
      /\ \A u \in Threads : u # t => pc'[u] = pc[u]
  BY DEF STypeOK, Goto
<1>3. InvLock'
  BY <1>2 DEF STypeOK, InvLock, InvEvent, Goto, Holding, Closing
<1>4. InvEvent'
  BY <1>2 DEF STypeOK, InvLock, InvEvent, Goto, Holding, Closing
<1>5. CloseIsComplete'
  BY <1>2 DEF STypeOK, InvLock, InvEvent, CloseIsComplete, Goto, Holding, Closing
<1>. QED BY <1>1, <1>3, <1>4, <1>5

\* A closer that has joined the loop's thread leaves a closed session.
LEMMA JoinInv == ASSUME SyncInv, NEW t \in Threads, Join(t) PROVE SyncInv'
<1>. USE ThreadsAssumption DEF SyncInv, Join, SessionAndLoop
<1>1. STypeOK'
  BY DEF STypeOK, Goto, Closing
<1>2. /\ call' = call
      /\ \A u \in Threads : u # t => pc'[u] = pc[u]
  BY DEF STypeOK, Goto
<1>3. InvLock'
  BY <1>2 DEF STypeOK, InvLock, InvEvent, Goto, Holding, Closing
<1>4. InvEvent'
  BY <1>2 DEF STypeOK, InvLock, InvEvent, Goto, Holding, Closing
<1>5. CloseIsComplete'
  BY <1>2 DEF STypeOK, InvLock, InvEvent, CloseIsComplete, Goto, Holding, Closing
<1>. QED BY <1>1, <1>3, <1>4, <1>5

\* The loop runs a submitted call; a closer's call it answers at once.
LEMMA RunCallInv == ASSUME SyncInv, NEW t \in Threads, RunCall(t) PROVE SyncInv'
<1>. USE ThreadsAssumption DEF SyncInv, RunCall, LoopRuns, SessionAndLoop
<1>1. STypeOK'
  BY DEF STypeOK, Goto, Closing
<1>2. /\ call' = call
      /\ \A u \in Threads : u # t => pc'[u] = pc[u]
  BY DEF STypeOK, Goto
<1>3. InvLock'
  BY <1>2 DEF STypeOK, InvLock, InvEvent, Goto, Holding, Closing
<1>4. InvEvent'
  BY <1>2 DEF STypeOK, InvLock, InvEvent, Goto, Holding, Closing
<1>5. CloseIsComplete'
  BY <1>2 DEF STypeOK, InvLock, InvEvent, CloseIsComplete, Goto, Holding, Closing
<1>. QED BY <1>1, <1>3, <1>4, <1>5

\* A message ends a receive, which holds no lock.
LEMMA MessageReceivedInv ==
    ASSUME SyncInv, NEW t \in Threads, MessageReceived(t)
    PROVE  SyncInv'
<1>. USE ThreadsAssumption DEF SyncInv, MessageReceived, LoopRuns, SessionAndLoop
<1>1. STypeOK'
  BY DEF STypeOK, Goto, Closing
<1>2. /\ call' = call
      /\ \A u \in Threads : u # t => pc'[u] = pc[u]
  BY DEF STypeOK, Goto
<1>3. InvLock'
  BY <1>2 DEF STypeOK, InvLock, InvEvent, Goto, Holding, Closing
<1>4. InvEvent'
  BY <1>2 DEF STypeOK, InvLock, InvEvent, Goto, Holding, Closing
<1>5. CloseIsComplete'
  BY <1>2 DEF STypeOK, InvLock, InvEvent, CloseIsComplete, Goto, Holding, Closing
<1>. QED BY <1>1, <1>3, <1>4, <1>5

\* The stopped queue ends a receive, which holds no lock.
LEMMA QueueStoppedInv ==
    ASSUME SyncInv, NEW t \in Threads, QueueStopped(t)
    PROVE  SyncInv'
<1>. USE ThreadsAssumption DEF SyncInv, QueueStopped, LoopRuns, SessionAndLoop
<1>1. STypeOK'
  BY DEF STypeOK, Goto, Closing
<1>2. /\ call' = call
      /\ \A u \in Threads : u # t => pc'[u] = pc[u]
  BY DEF STypeOK, Goto
<1>3. InvLock'
  BY <1>2 DEF STypeOK, InvLock, InvEvent, Goto, Holding, Closing
<1>4. InvEvent'
  BY <1>2 DEF STypeOK, InvLock, InvEvent, Goto, Holding, Closing
<1>5. CloseIsComplete'
  BY <1>2 DEF STypeOK, InvLock, InvEvent, CloseIsComplete, Goto, Holding, Closing
<1>. QED BY <1>1, <1>3, <1>4, <1>5

\* Installing on_close_coro starts nothing.
LEMMA InstallInv == ASSUME SyncInv, Install PROVE SyncInv'
<1>. USE ThreadsAssumption DEF SyncInv, Install
<1>1. STypeOK'
  BY DEF STypeOK
<1>2. InvLock'
  BY DEF STypeOK, InvLock, InvEvent, Holding, Closing
<1>3. InvEvent'
  BY DEF STypeOK, InvLock, InvEvent, Holding, Closing
<1>4. CloseIsComplete'
  BY DEF STypeOK, InvLock, InvEvent, CloseIsComplete, Holding, Closing
<1>. QED BY <1>1, <1>2, <1>3, <1>4

\* A session that closes by itself does not touch the lock.
LEMMA SessionClosesItselfInv == ASSUME SyncInv, SessionClosesItself PROVE SyncInv'
<1>. USE ThreadsAssumption DEF SyncInv, SessionClosesItself
<1>1. STypeOK'
  BY DEF STypeOK
<1>2. InvLock'
  BY DEF STypeOK, InvLock, InvEvent, Holding, Closing
<1>3. InvEvent'
  BY DEF STypeOK, InvLock, InvEvent, Holding, Closing
<1>4. CloseIsComplete'
  BY DEF STypeOK, InvLock, InvEvent, CloseIsComplete, Holding, Closing
<1>. QED BY <1>1, <1>2, <1>3, <1>4

\* A session that has closed leaves the loop to on_close_coro.
LEMMA SessionClosedInv == ASSUME SyncInv, SessionClosed PROVE SyncInv'
<1>. USE ThreadsAssumption DEF SyncInv, SessionClosed
<1>1. STypeOK'
  BY DEF STypeOK
<1>2. InvLock'
  BY DEF STypeOK, InvLock, InvEvent, Holding, Closing
<1>3. InvEvent'
  BY DEF STypeOK, InvLock, InvEvent, Holding, Closing
<1>4. CloseIsComplete'
  BY DEF STypeOK, InvLock, InvEvent, CloseIsComplete, Holding, Closing
<1>. QED BY <1>1, <1>2, <1>3, <1>4

\* on_close_coro takes the lock only when no closer holds it.
LEMMA OnCloseTakesLockInv == ASSUME SyncInv, OnCloseTakesLock PROVE SyncInv'
<1>. USE ThreadsAssumption DEF SyncInv, OnCloseTakesLock
<1>1. STypeOK'
  BY DEF STypeOK
<1>2. InvLock'
  BY DEF STypeOK, InvLock, InvEvent, Holding, Closing
<1>3. InvEvent'
  BY DEF STypeOK, InvLock, InvEvent, Holding, Closing
<1>4. CloseIsComplete'
  BY DEF STypeOK, InvLock, InvEvent, CloseIsComplete, Holding, Closing
<1>. QED BY <1>1, <1>2, <1>3, <1>4

\* on_close_coro sets closed_event and stops the loop under the lock.
LEMMA OnCloseReturnsInv == ASSUME SyncInv, OnCloseReturns PROVE SyncInv'
<1>. USE ThreadsAssumption DEF SyncInv, OnCloseReturns, Release
<1>1. STypeOK'
  BY DEF STypeOK
<1>2. InvLock'
  BY DEF STypeOK, InvLock, InvEvent, Holding, Closing
<1>3. InvEvent'
  BY DEF STypeOK, InvLock, InvEvent, Holding, Closing
<1>4. CloseIsComplete'
  BY DEF STypeOK, InvLock, InvEvent, CloseIsComplete, Holding, Closing
<1>. QED BY <1>1, <1>2, <1>3, <1>4

\* The loop stops after it was asked to.
LEMMA LoopStopsInv == ASSUME SyncInv, LoopStops PROVE SyncInv'
<1>. USE ThreadsAssumption DEF SyncInv, LoopStops
<1>1. STypeOK'
  BY DEF STypeOK
<1>2. InvLock'
  BY DEF STypeOK, InvLock, InvEvent, Holding, Closing
<1>3. InvEvent'
  BY DEF STypeOK, InvLock, InvEvent, Holding, Closing
<1>4. CloseIsComplete'
  BY DEF STypeOK, InvLock, InvEvent, CloseIsComplete, Holding, Closing
<1>. QED BY <1>1, <1>2, <1>3, <1>4

\* Every step of a thread or of the loop keeps the invariant.
LEMMA SyncStep == SyncInv /\ [SNext]_svars => SyncInv'
<1>1. SyncInv /\ UNCHANGED svars => SyncInv'
  BY DEF SyncInv, svars, STypeOK, InvLock, InvEvent, CloseIsComplete, Holding, Closing
<1>2. ASSUME SyncInv, NEW t \in Threads, ThreadStep(t) PROVE SyncInv'
  BY <1>2, TakeLockInv, CheckEventInv, CheckActiveInv, SubmitInv, ResumeInv, AwaitEventInv,
     JoinInv DEF ThreadStep
<1>3. ASSUME SyncInv, OnClose PROVE SyncInv'
  BY <1>3, OnCloseTakesLockInv, OnCloseReturnsInv, LoopStopsInv DEF OnClose
<1>. QED BY <1>1, <1>2, <1>3, InstallInv, SessionClosesItselfInv, SessionClosedInv,
            BeginCallInv, RunCallInv, MessageReceivedInv, QueueStoppedInv DEF SNext

\* The invariant holds in every state.
THEOREM SyncInvariance == SSafeSpec => []SyncInv
<1>. QED BY SyncInit, SyncStep, PTL DEF SSafeSpec

\* Whatever the threads, the peer and the loop do, close() and logout() never
\* submit to a loop that will not run them.
THEOREM CloseAlwaysReachesLoop == SSafeSpec => []CloseReachesLoop
<1>1. SyncInv => CloseReachesLoop
  BY DEF SyncInv, InvEvent, CloseReachesLoop, Holding
<1>. QED BY <1>1, SyncInvariance, PTL

\* close() and logout() never raise, and return with the session closed, the
\* loop's thread ended and the lock released.
THEOREM CloseIsAlwaysComplete == SSafeSpec => []CloseIsComplete
<1>1. SyncInv => CloseIsComplete
  BY DEF SyncInv
<1>. QED BY <1>1, SyncInvariance, PTL

=============================================================================
