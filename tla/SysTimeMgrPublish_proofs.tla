---------------------- MODULE SysTimeMgrPublish_proofs ----------------------
(***************************************************************************)
(* What other processes are told by the core of the system time manager,   *)
(* and which time it hands to the time syncs as secure.                    *)
(***************************************************************************)
EXTENDS SysTimeMgr_proofs

\* A time once acquired is kept until the process ends, and only a published
\* wake takes SECURE back to GOOD.
THEOREM AcquiredTimeIsNeverLost == Spec => AcquiredTimeIsKept
<1> DEFINE A ==
      up /\ up' =>
        /\ m_timequality \in {"GOOD", "SECURE"} =>
             m_timequality' \in {"GOOD", "SECURE"}
        /\ m_timequality = "SECURE" /\ m_timequality' # "SECURE" =>
             lastMsg'.event = "DEEP_SLEEP_ON" /\ lastMsg'.quality = "GOOD"
<1>1. ASSUME IInv, Next, up, up',
             m_timequality \in {"GOOD", "SECURE"}
      PROVE  /\ m_timequality' \in {"GOOD", "SECURE"}
             /\ m_timequality = "SECURE" /\ m_timequality' # "SECURE" =>
                  lastMsg'.event = "DEEP_SLEEP_ON" /\ lastMsg'.quality = "GOOD"
  <2>1. TypeOK /\ QualityMatchesState
    BY <1>1 DEF IInv
  <2>2. CASE initialize \/ Crash
    BY <1>1, <2>2, Zenon DEF initialize, Crash
  <2>3. ~ntpFailed
    <3>1. ntpFailed => m_state = "NTP_WAIT"
      BY <2>1, DispatchCell, TableCells DEF ntpFailed
    <3> QED
      BY <1>1, <2>1, <3>1 DEF QualityMatchesState
  <2>4. ASSUME NEW h, Dispatch(h), m_timequality = "SECURE"
        PROVE  h \notin {"ntpAquired", "dttAquired", "secureTimeAcquired"}
    <3>1. m_state = "RUNNING"
      BY <1>1, <2>1, <2>4 DEF QualityMatchesState
    <3>2. Head(m_queue) \in Events /\ HandlerOf("RUNNING", Head(m_queue)) = h
      BY <2>1, <2>4, <3>1, DispatchCell
    <3> QED
      BY <3>2 DEF HandlerOf, OnTimer, OnNtp, OnSecure, OnDtt, Events
  <2>5. CASE ntpAquired
    BY <2>4, <2>5 DEF ntpAquired
  <2>6. CASE dttAquired
    BY <2>4, <2>6 DEF dttAquired
  <2>7. CASE secureTimeAcquired
    BY <2>4, <2>7 DEF secureTimeAcquired
  <2>8. CASE updateSecureTime
    BY <2>8 DEF updateSecureTime
  <2>9. CASE deepsleepoff
    BY <1>1, <2>9 DEF deepsleepoff, ResetOnWake, PublishWake, publishStatus
  <2>10. CASE UNCHANGED <<up, m_state, m_timequality, m_timersrc, lastMsg>>
    BY <1>1, <2>10
  <2> QED
    BY <1>1, <2>2, <2>3, <2>5, <2>6, <2>7, <2>8, <2>9, <2>10, MgrWriters
<1>2. IInv /\ [Next]_vars => [A]_vars
  BY <1>1
<1> QED
  BY <1>2, IInvHolds, PTL DEF Spec, AcquiredTimeIsKept

-----------------------------------------------------------------------------
(* Broadcasts.                                                             *)

\* What publishStatus() leaves subscribers with.
LEMMA Published ==
  ASSUME NEW event, NEW message, publishStatus(event, message)
  PROVE  /\ lastMsg'.quality = m_timequality'
         /\ lastMsg'.message = message
         /\ lastMsg'.timerSrc = m_timersrc'
BY DEF publishStatus

\* A broadcast with the right label makes subscribers current.
LEMMA PublishedIsCurrent ==
  ASSUME NEW event, publishStatus(event, Label(m_timequality'))
  PROVE  BroadcastIsCurrent'
BY Published DEF BroadcastIsCurrent, getTimeStatus, Label

\* initialize() publishes the initial time if there is one.
LEMMA StartBroadcast ==
  ASSUME TypeOK, DownIsReset, initialize
  PROVE  BroadcastInv'
<1>1. PICK locTime \in SyncTimes : setInitialTime(locTime)
  BY DEF initialize
<1>2. m_timequality = "UNKNOWN" /\ m_state' = "NTP_WAIT"
  BY Zenon DEF initialize, DownIsReset
<1>3. CASE locTime = 0
  <2>1. m_timequality' = "UNKNOWN" /\ 0 \in SyncTimes
    BY <1>1, <1>2, <1>3 DEF setInitialTime
  <2> QED
    BY <1>2, <2>1
    DEF BroadcastInv, BroadcastIsCurrent, InitialTimeIsKnown,
        UnpublishedIsUnderstated
<1>4. CASE locTime # 0
  <2>1. m_timequality' = "POOR" /\ publishStatus("TIME_INITIAL", "Poor")
    BY <1>1, <1>4 DEF setInitialTime
  <2>2. Label(m_timequality') = "Poor"
    BY <2>1 DEF Label
  <2>3. BroadcastIsCurrent'
    BY <2>1, <2>2, PublishedIsCurrent
  <2> QED
    BY <1>2, <2>1, <2>3
    DEF BroadcastInv, InitialTimeIsKnown, UnpublishedIsUnderstated
<1> QED
  BY <1>3, <1>4

\* What subscribers know is preserved by every step.
LEMMA NextBroadcastInv == IInv /\ BroadcastInv /\ [Next]_vars => BroadcastInv'
<1> SUFFICES ASSUME IInv, BroadcastInv, [Next]_vars PROVE BroadcastInv'
  OBVIOUS
<1>1. TypeOK /\ DownIsReset /\ QualityMatchesState
  BY DEF IInv
<1>2. CASE UNCHANGED <<up, m_state, m_timequality, m_timersrc, lastMsg>>
  BY <1>2 DEF BroadcastInv, BroadcastIsCurrent, InitialTimeIsKnown,
     UnpublishedIsUnderstated, getTimeStatus, Label
<1>3. CASE UNCHANGED vars
  BY <1>2, <1>3, Zenon DEF vars
<1>4. CASE initialize
  BY <1>1, <1>4, StartBroadcast
<1>5. CASE Crash
  <2>1. ~up'
    BY <1>5, Zenon DEF Crash
  <2> QED
    BY <2>1, Zenon DEF BroadcastInv, BroadcastIsCurrent, InitialTimeIsKnown,
       UnpublishedIsUnderstated
<1>6. CASE ntpFailed
  <2>1. up /\ m_state = "NTP_WAIT"
    <3>1. m_state = "NTP_WAIT"
      BY <1>1, <1>6, DispatchCell, TableCells DEF ntpFailed
    <3> QED
      BY <1>6, <3>1, Zenon DEF ntpFailed, Dispatch, QueueMutexFree
  <2>2. m_timequality \in {"POOR", "UNKNOWN"}
    BY <1>1, <2>1 DEF QualityMatchesState, TypeOK, Qualities
  <2>3. /\ m_timequality' = m_timequality /\ m_state' = "NTP_FAIL"
        /\ publishStatus("NTP_FAIL", "Poor")
    BY <1>6 DEF ntpFailed
  <2>4. CASE m_timequality = "POOR"
    <3>1. BroadcastIsCurrent'
      BY <2>3, <2>4, PublishedIsCurrent DEF Label
    <3> QED
      BY <2>3, <2>4, <3>1
      DEF BroadcastInv, InitialTimeIsKnown, UnpublishedIsUnderstated
  <2>5. CASE m_timequality = "UNKNOWN"
    <3>1. 0 \in SyncTimes
      BY <2>1, <2>5, Zenon DEF BroadcastInv, InitialTimeIsKnown
    <3> QED
      BY <2>3, <2>5, <3>1
      DEF BroadcastInv, BroadcastIsCurrent, InitialTimeIsKnown,
          UnpublishedIsUnderstated
  <2> QED
    BY <2>2, <2>4, <2>5
<1>7. ASSUME NEW event, NEW message \in Labels,
             publishStatus(event, message), message = Label(m_timequality'),
             m_timequality' \in {"GOOD", "SECURE"},
             m_state' # "SECURE_TIME_ACQUIRED"
      PROVE  BroadcastInv'
  <2>1. BroadcastIsCurrent'
    BY <1>7, PublishedIsCurrent
  <2>2. InitialTimeIsKnown'
    BY <1>7 DEF InitialTimeIsKnown
  <2> QED
    BY <1>7, <2>1, <2>2 DEF BroadcastInv, UnpublishedIsUnderstated
<1>8. CASE ntpAquired
  BY <1>7, <1>8 DEF ntpAquired, Label, Labels
<1>9. CASE dttAquired
  BY <1>7, <1>9 DEF dttAquired, Label, Labels
<1>10. CASE secureTimeAcquired
  <2>1. Head(m_queue) \in Events
        /\ HandlerOf(m_state, Head(m_queue)) = "secureTimeAcquired"
    BY <1>1, <1>10, DispatchCell DEF secureTimeAcquired
  <2>2. m_state \in {"NTP_WAIT", "NTP_FAIL", "DTT_ACQUIRED"}
    BY <2>1 DEF HandlerOf, OnTimer, OnNtp, OnSecure, OnDtt, Events
  <2>3. up
    BY <1>10, Zenon DEF secureTimeAcquired, Dispatch, QueueMutexFree
  <2>4. m_timequality # "SECURE"
    BY <1>1, <2>2, <2>3 DEF QualityMatchesState
  <2>5. 0 \notin SyncTimes => lastMsg.quality \in {"POOR", "GOOD"}
    BY <1>1, <2>2, <2>3, <2>4
    DEF BroadcastInv, BroadcastIsCurrent, InitialTimeIsKnown, getTimeStatus,
        TypeOK, Qualities
  <2> QED
    BY <1>10, <2>5
    DEF secureTimeAcquired, BroadcastInv, BroadcastIsCurrent,
        InitialTimeIsKnown, UnpublishedIsUnderstated
<1>11. CASE updateSecureTime
  BY <1>7, <1>11 DEF updateSecureTime, Label, Labels
<1>12. CASE deepsleepoff
  <2>1. up
    BY <1>12, Zenon DEF deepsleepoff, StateMutexFree
  <2>2. BroadcastIsCurrent' /\ lastMsg'.quality = m_timequality'
    BY <1>12, Published, PublishedIsCurrent DEF deepsleepoff, PublishWake
  <2>3. InitialTimeIsKnown'
    BY <1>12, <2>1
    DEF deepsleepoff, ResetOnWake, BroadcastInv, InitialTimeIsKnown
  <2>4. UnpublishedIsUnderstated'
    BY <1>1, <1>12, <2>1, <2>2
    DEF deepsleepoff, ResetOnWake, QualityMatchesState,
        UnpublishedIsUnderstated
  <2> QED
    BY <2>2, <2>3, <2>4 DEF BroadcastInv
<1> QED
  BY <1>2, <1>3, <1>4, <1>5, <1>6, <1>8, <1>9, <1>10, <1>11, <1>12,
     MgrWriters

\* Nothing is known before the first start.
LEMMA InitBroadcastInv == Init => BroadcastInv
<1> SUFFICES ASSUME Init PROVE BroadcastInv
  OBVIOUS
<1>1. ~up
  BY Zenon DEF Init
<1> QED
  BY <1>1, Zenon DEF BroadcastInv, BroadcastIsCurrent, InitialTimeIsKnown,
     UnpublishedIsUnderstated

\* The invariant of the broadcasts holds of every behaviour.
LEMMA BroadcastInvHolds == Spec => []BroadcastInv
BY InitBroadcastInv, NextBroadcastInv, IInvHolds, PTL DEF Spec

\* Listening to broadcasts and polling with TIMER_STATUS_MSG give the same
\* answer in every state but SECURE_TIME_ACQUIRED, once a time is known.
THEOREM SubscribersAreCurrent == Spec => []BroadcastIsCurrent
<1>1. BroadcastInv => BroadcastIsCurrent
  BY DEF BroadcastInv
<1> QED
  BY <1>1, BroadcastInvHolds, PTL

\* If an initial time is always known, no subscriber believes in a better
\* quality than the time manager has, across wakes, crashes and restarts.
THEOREM QualityIsNeverOverstated == Spec => []NeverOverstated
<1>1. IInv /\ BroadcastInv => NeverOverstated
  <2> SUFFICES ASSUME IInv, BroadcastInv, up, 0 \notin SyncTimes
               PROVE  Rank(lastMsg.quality) <= Rank(m_timequality)
    BY DEF NeverOverstated
  <2>1. CASE m_state # "SECURE_TIME_ACQUIRED"
    <3>1. lastMsg.quality = m_timequality
      BY <2>1 DEF BroadcastInv, BroadcastIsCurrent, InitialTimeIsKnown,
         getTimeStatus
    <3> QED
      BY <3>1 DEF Rank
  <2>2. CASE m_state = "SECURE_TIME_ACQUIRED"
    <3>1. m_timequality = "GOOD" /\ lastMsg.quality \in {"POOR", "GOOD"}
      BY <2>2 DEF IInv, QualityMatchesState, BroadcastInv,
         UnpublishedIsUnderstated
    <3> QED
      BY <3>1 DEF Rank
  <2> QED
    BY <2>1, <2>2
<1> QED
  BY <1>1, IInvHolds, BroadcastInvHolds, PTL

-----------------------------------------------------------------------------
(* The time that is handed to the syncs.                                   *)

\* With only references and drm, a read assigns filetime and drmTime together.
LEMMA ReadVouches ==
  ASSUME TypeOK, OnlyDrmVouches, VouchInv, timerExpiryStep
  PROVE  loc'.filetime = loc'.drmTime
<1>1. Sources[loc.i] \in {"ntp", "stt", "drm"}
  <2>1. loc.i \in 1..Len(Sources)
    BY SourcesAssumption DEF timerExpiryStep, LoopStep, TypeOK, Locals
  <2> QED
    BY <2>1 DEF OnlyDrmVouches
<1>2. loc.filetime = loc.drmTime /\ loc \in Locals
  BY DEF VouchInv, TypeOK
<1>3. PICK r : loc' = ReadSource(Sources[loc.i], r)
  BY DEF timerExpiryStep
<1> QED
  BY <1>1, <1>2, <1>3 DEF ReadSource, isreference, Locals

\* The other handlers leave both alone or reset both.
LEMMA NextVouchInv == IInv /\ VouchInv /\ [Next]_vars => VouchInv'
<1> SUFFICES ASSUME IInv, VouchInv, [Next]_vars, OnlyDrmVouches
             PROVE  loc'.filetime = loc'.drmTime
  BY DEF VouchInv, OnlyDrmVouches
<1>1. TypeOK /\ DownIsReset
  BY DEF IInv
<1>2. loc.filetime = loc.drmTime /\ loc \in Locals
  BY <1>1 DEF VouchInv, TypeOK
<1>3. CASE UNCHANGED loc
  BY <1>2, <1>3
<1>4. CASE loc' = NoLocals
  BY <1>4 DEF NoLocals
<1>5. CASE timerExpiryStep
  BY <1>1, <1>5, ReadVouches
<1>6. CASE updateTimeStep \/ updateClockRealTimeStep
  BY <1>2, <1>6 DEF updateTimeStep, updateClockRealTimeStep, Locals
<1>7. ASSUME NEW h \in LoopHandlers, BeginLoop(h)
      PROVE  loc'.filetime = loc'.drmTime
  BY <1>7 DEF BeginLoop, NoLocals
<1>8. CASE Process
  <2>1. \A h : EndLoop(h) => loc' = NoLocals
    BY Zenon DEF EndLoop
  <2> QED
    BY <1>3, <1>4, <1>5, <1>6, <1>7, <1>8, <2>1, Zenon
    DEF Process, IgnoreEvent, ntpFailed, ntpAquired, dttAquired,
        secureTimeAcquired, procVars, updateTime, timerExpiry,
        updateSecureTime, updateClockRealTime
<1>9. PathMonitor \/ PathReadFails => UNCHANGED loc
  BY Zenon DEF PathMonitor, PathScan, PathScanSend, PathWatch, PathRead,
     PathSend, PathReadFails, PathStep, procVars
<1>10. NtpSynchronised \/ NtpTouch \/ NtpClockEvent => UNCHANGED loc
  BY Zenon DEF NtpSynchronised, NtpTouch, NtpClockEvent, NtpStep, procVars
<1>11. initialize \/ Timer \/ deepsleepoff \/ Resync \/ External
       => UNCHANGED loc
  BY Zenon DEF initialize, Timer, deepsleepoff, Resync, External,
     ExternalTouch, ExternalWrite, ClockMoves, ExternalStep, procVars
<1>12. Crash => loc' = NoLocals
  BY Zenon DEF Crash
<1>13. UNCHANGED vars => UNCHANGED loc
  BY Zenon DEF vars
<1> QED
  BY <1>3, <1>4, <1>8, <1>9, <1>10, <1>11, <1>12, <1>13, Zenon DEF Next

\* Who calls updateTimeSync(), and with what.
LEMMA SyncWriters ==
  ASSUME Next
  PROVE  \/ lastSync' = [time |-> 0, drm |-> 0]
         \/ lastSync' = [time |-> SecureUpdate, drm |-> loc.drmTime]
         \/ lastSync' = lastSync
<1>1. CASE Process
  <2>1. LoopStep => lastSync' = lastSync
    BY Zenon DEF LoopStep
  <2> QED
    BY <1>1, <2>1, Zenon
    DEF Process, IgnoreEvent, ntpFailed, ntpAquired, dttAquired,
        secureTimeAcquired, BeginLoop, updateTimeStep, timerExpiryStep,
        updateClockRealTimeStep, updateTime, timerExpiry, updateSecureTime,
        updateClockRealTime, updateTimeSync
<1>2. PathMonitor \/ PathReadFails => lastSync' = lastSync
  BY Zenon DEF PathMonitor, PathScan, PathScanSend, PathWatch, PathRead,
     PathSend, PathReadFails, PathStep
<1>3. NtpSynchronised \/ NtpTouch \/ NtpClockEvent => lastSync' = lastSync
  BY Zenon DEF NtpSynchronised, NtpTouch, NtpClockEvent, NtpStep
<1>4. initialize \/ Crash \/ Timer \/ deepsleepoff \/ Resync \/ External
      => lastSync' = lastSync
  BY Zenon DEF initialize, Crash, Timer, deepsleepoff, Resync, External,
     ExternalTouch, ExternalWrite, ClockMoves, ExternalStep
<1> QED
  BY <1>1, <1>2, <1>3, <1>4, Zenon DEF Next

\* A vouched time stays recorded until a vouched one replaces it.
LEMMA NextVouched ==
  IInv /\ VouchInv /\ SecureTimeIsVouched /\ [Next]_vars
    => SecureTimeIsVouched'
<1> SUFFICES ASSUME IInv, VouchInv, SecureTimeIsVouched, [Next]_vars,
                    OnlyDrmVouches
             PROVE  lastSync'.time > 600 =>
                      /\ lastSync'.drm # 0
                      /\ lastSync'.time - lastSync'.drm <= 600
  BY DEF SecureTimeIsVouched, OnlyDrmVouches
<1>1. loc.filetime = loc.drmTime /\ loc.filetime \in Nat /\ loc.reftime \in Nat
  BY DEF VouchInv, IInv, TypeOK, Locals
<1>2. CASE lastSync' = lastSync
  BY <1>2 DEF SecureTimeIsVouched
<1>3. CASE lastSync' = [time |-> 0, drm |-> 0]
  BY <1>3
<1>4. CASE lastSync' = [time |-> SecureUpdate, drm |-> loc.drmTime]
  BY <1>1, <1>4 DEF SecureUpdate
<1>5. UNCHANGED vars => lastSync' = lastSync
  BY Zenon DEF vars
<1> QED
  BY <1>2, <1>3, <1>4, <1>5, SyncWriters

\* For every drift and every outcome of the DRM call: a late enough time is
\* only handed to the syncs if the DRM service vouched for it in that pass.
THEOREM SecureTimeIsAlwaysVouched == Spec => []SecureTimeIsVouched
<1>1. Init => VouchInv /\ SecureTimeIsVouched
  <2> SUFFICES ASSUME Init PROVE VouchInv /\ SecureTimeIsVouched
    OBVIOUS
  <2>1. loc = NoLocals /\ lastSync = [time |-> 0, drm |-> 0]
    BY Zenon DEF Init
  <2> QED
    BY <2>1 DEF NoLocals, VouchInv, SecureTimeIsVouched
<1> QED
  BY <1>1, NextVouchInv, NextVouched, IInvHolds, PTL DEF Spec

=============================================================================
