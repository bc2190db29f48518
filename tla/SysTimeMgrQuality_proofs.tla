---------------------- MODULE SysTimeMgrQuality_proofs ----------------------
(***************************************************************************)
(* The core of the system time manager implements TimeQuality: what other  *)
(* processes see of its threads, queues, wakes and crashes is a quality    *)
(* that rises on evidence and whose changes are announced.                 *)
(***************************************************************************)
EXTENDS SysTimeMgr_proofs

\* What a source touches is a file of m_directory.
LEMMA SideEffectFiles ==
  ASSUME TypeOK, LoopStep,
         NEW r \in getTimeSec(Sources[loc.i]), SideEffect(Sources[loc.i], r)
  PROVE  UNCHANGED files \/ \E name \in Names : files' = files \cup {name}
<1>1. Sources[loc.i] \in SourceTypes
  BY SourcesAssumption DEF TypeOK, Locals, LoopStep
<1>2. r.touches => Sources[loc.i] \in {"drm", "dtt"}
  BY <1>1, SourceResult
<1>3. CASE r.touches
  BY <1>2, <1>3 DEF SideEffect, notifypathAvailable, Names
<1>4. CASE ~r.touches
  BY <1>4 DEF SideEffect, fsVars
<1> QED BY <1>3, <1>4

\* A step makes at most one file.
LEMMA FilesStep ==
  ASSUME TypeOK, Next
  PROVE  UNCHANGED files \/ \E name \in Names : files' = files \cup {name}
<1>1. CASE updateTimeStep \/ timerExpiryStep \/ updateClockRealTimeStep
  BY <1>1, SideEffectFiles
  DEF updateTimeStep, timerExpiryStep, updateClockRealTimeStep
<1>2. CASE \/ IgnoreEvent \/ ntpFailed \/ ntpAquired \/ dttAquired
           \/ secureTimeAcquired \/ \E h \in LoopHandlers : BeginLoop(h)
           \/ updateTime \/ timerExpiry \/ updateSecureTime
           \/ updateClockRealTime
  BY <1>2, Zenon
  DEF IgnoreEvent, ntpFailed, ntpAquired, dttAquired, secureTimeAcquired,
      BeginLoop, updateTime, timerExpiry, updateSecureTime,
      updateClockRealTime, EndLoop, fsVars
<1>3. CASE PathMonitor \/ PathReadFails
  BY <1>3, Zenon
  DEF PathMonitor, PathScan, PathScanSend, PathWatch, PathRead, PathSend,
      PathReadFails, PathStep
<1>4. CASE NtpSynchronised \/ NtpTouch \/ NtpClockEvent
  BY <1>4 DEF NtpSynchronised, NtpTouch, NtpClockEvent, fsVars, Names
<1>5. CASE External
  BY <1>5, NamesAssumption
  DEF External, ExternalTouch, ExternalWrite, ClockMoves,
      notifypathAvailable, fsVars
<1>6. CASE initialize \/ Crash \/ Timer \/ deepsleepoff \/ Resync
  BY <1>6, Zenon DEF initialize, Crash, Timer, deepsleepoff, Resync, fsVars
<1> QED
  BY <1>1, <1>2, <1>3, <1>4, <1>5, <1>6 DEF Next, Process

\* A handler runs in a process that is up, on an event that has its evidence,
\* and in a state that is not SECURE unless it is RUNNING.
LEMMA DispatchedFacts ==
  ASSUME IInv, NEW h, Dispatch(h)
  PROVE  /\ up /\ UNCHANGED up
         /\ m_state \in States /\ Head(m_queue) \in Events
         /\ HandlerOf(m_state, Head(m_queue)) = h
         /\ Evidence(Head(m_queue))
         /\ m_timequality = "SECURE" => m_state = "RUNNING"
<1>1. TypeOK /\ QueueHasEvidence /\ QualityMatchesState
  BY DEF IInv, SignalsHaveEvidence
<1>2. up /\ UNCHANGED up
  BY Zenon DEF Dispatch, QueueMutexFree
<1>3. m_timequality = "SECURE" => m_state = "RUNNING"
  BY <1>1, <1>2, Zenon DEF QualityMatchesState
<1> QED
  BY <1>1, <1>2, <1>3, DispatchCell, PoppedHasEvidence

\* The table has no acquiring handler for RUNNING.
LEMMA RunningKeeps ==
  ASSUME NEW e \in Events
  PROVE  HandlerOf("RUNNING", e)
           \notin {"ntpAquired", "dttAquired", "secureTimeAcquired"}
BY DEF HandlerOf, OnTimer, OnNtp, OnSecure, OnDtt, Events

\* Every step of the core is a step of TimeQuality or none.
LEMMA QualityStep ==
  ASSUME IInv, [Next]_vars
  PROVE  [Abstract!QualityNext]_(Abstract!qualityVars)
<1> USE DEF Abstract!QualityNext, Abstract!qualityVars
<1>1. TypeOK /\ DownIsReset /\ QualityMatchesState /\ QualityHasEvidence
  BY DEF IInv
<1>2. CASE UNCHANGED vars
  BY <1>2, Zenon DEF vars
<1>3. CASE initialize
  <2>1. ~up /\ up' = TRUE /\ UNCHANGED files
    BY <1>3, Zenon DEF initialize, fsVars
  <2>2. PICK locTime \in SyncTimes : setInitialTime(locTime)
    BY <1>3 DEF initialize
  <2>3. \/ m_timequality' = "POOR" /\ lastMsg'.quality = "POOR"
        \/ UNCHANGED <<m_timequality, lastMsg>>
    BY <2>2 DEF setInitialTime, publishStatus
  <2>4. Abstract!Start
    BY <2>1, <2>3, Zenon DEF Abstract!Start
  <2> QED BY <2>4
<1>4. CASE Crash
  <2>1. Abstract!Die
    BY <1>4, Zenon DEF Crash, Abstract!Die
  <2> QED BY <2>1
<1>5. CASE ntpFailed
  <2>1. up /\ UNCHANGED up /\ m_state = "NTP_WAIT"
    BY <1>5, DispatchedFacts, TableCells DEF ntpFailed
  <2>2. m_timequality \in {"POOR", "UNKNOWN"}
    BY <1>1, <2>1 DEF QualityMatchesState, TypeOK, Qualities
  <2>3. lastMsg'.quality = m_timequality /\ UNCHANGED <<m_timequality, files>>
    BY <1>5 DEF ntpFailed, publishStatus, fsVars
  <2>4. Abstract!Fail
    BY <2>1, <2>2, <2>3, Zenon DEF Abstract!Fail
  <2> QED BY <2>4
<1>6. ASSUME NEW h \in {"ntpAquired", "dttAquired", "secureTimeAcquired"},
             Dispatch(h)
      PROVE  up /\ UNCHANGED up /\ m_timequality # "SECURE"
  BY <1>6, DispatchedFacts, RunningKeeps
<1>7. CASE ntpAquired
  <2>1. files \cap {"ntp", "stt", "dtt"} # {}
    BY <1>7, DispatchedFacts, TableCells DEF ntpAquired, Evidence
  <2>2. /\ m_timequality' = "GOOD" /\ lastMsg'.quality = "GOOD"
        /\ UNCHANGED files
    BY <1>7 DEF ntpAquired, publishStatus, fsVars
  <2>3. Abstract!Acquire
    BY <1>6, <1>7, <2>1, <2>2 DEF ntpAquired, Abstract!Acquire
  <2> QED BY <2>3
<1>8. CASE dttAquired
  <2>1. files \cap {"ntp", "stt", "dtt"} # {}
    BY <1>8, DispatchedFacts, TableCells DEF dttAquired, Evidence
  <2>2. /\ m_timequality' = "GOOD" /\ lastMsg'.quality = "GOOD"
        /\ UNCHANGED files
    BY <1>8 DEF dttAquired, publishStatus, fsVars
  <2>3. Abstract!Acquire
    BY <1>6, <1>8, <2>1, <2>2 DEF dttAquired, Abstract!Acquire
  <2> QED BY <2>3
<1>9. CASE secureTimeAcquired
  <2>1. "drm" \in files
    BY <1>9, DispatchedFacts, TableCells DEF secureTimeAcquired, Evidence
  <2>2. /\ m_timequality' = "GOOD" /\ UNCHANGED <<lastMsg, files>>
    BY <1>9 DEF secureTimeAcquired, fsVars
  <2>3. Abstract!AcquireSilently
    BY <1>6, <1>9, <2>1, <2>2
    DEF secureTimeAcquired, Abstract!AcquireSilently
  <2> QED BY <2>3
<1>10. CASE updateSecureTime
  <2>1. handler = "updateSecureTime" /\ UNCHANGED <<up, files>>
    BY <1>10, Zenon DEF updateSecureTime, EndLoop, fsVars
  <2>2. /\ up /\ loc.event \in Events /\ Evidence(loc.event)
        /\ HandlerOf(m_state, loc.event) = "updateSecureTime"
        /\ m_state \in States
    BY <2>1
    DEF IInv, SignalsHaveEvidence, HandlerHasEvidence, HandlerMatchesState,
        TypeOK
  <2>3. \/ m_state = "NTP_ACQUIRED" /\ loc.event = "SECURE_TIME_AVAILABLE"
        \/ m_state = "SECURE_TIME_ACQUIRED" /\ loc.event = "NTP_AVAILABLE"
    BY <2>2, TableCells
  <2>4. /\ "drm" \in files /\ files \cap {"ntp", "stt"} # {}
        /\ m_timequality = "GOOD"
    BY <1>1, <2>2, <2>3 DEF Evidence, QualityHasEvidence, QualityMatchesState
  <2>5. m_timequality' = "SECURE" /\ lastMsg'.quality = "SECURE"
    BY <1>10 DEF updateSecureTime, publishStatus
  <2>6. Abstract!Secure
    BY <2>1, <2>2, <2>4, <2>5, Zenon DEF Abstract!Secure
  <2> QED BY <2>6
<1>11. CASE deepsleepoff
  <2>1. up /\ UNCHANGED <<up, files>>
    BY <1>11, Zenon DEF deepsleepoff, StateMutexFree, fsVars
  <2>2. /\ m_timequality' = IF m_timequality = "SECURE" THEN "GOOD"
                            ELSE m_timequality
        /\ lastMsg'.quality = m_timequality'
    BY <1>11 DEF deepsleepoff, ResetOnWake, PublishWake, publishStatus
  <2>3. Abstract!WakeUp
    BY <2>1, <2>2, Zenon DEF Abstract!WakeUp
  <2> QED BY <2>3
<1>12. ASSUME Next,
              UNCHANGED <<up, m_state, m_timequality, m_timersrc, lastMsg>>
       PROVE  [Abstract!QualityNext]_(Abstract!qualityVars)
  <2>1. CASE UNCHANGED files
    BY <1>12, <2>1, Zenon
  <2>2. CASE \E name \in Names : files' = files \cup {name}
    <3>1. Abstract!Witnessed
      BY <1>12, <2>2, Zenon DEF Abstract!Witnessed
    <3> QED BY <3>1
  <2> QED
    BY <1>1, <1>12, <2>1, <2>2, FilesStep
<1> QED
  BY <1>2, <1>3, <1>4, <1>5, <1>7, <1>8, <1>9, <1>10, <1>11, <1>12,
     MgrWriters, Zenon

\* The core implements TimeQuality, for every list of sources and every bound:
\* the quality rises on evidence, falls by announced wakes and crashes only,
\* and every change but the DRM one is broadcast with it.
THEOREM ImplementsQuality == Spec => ImplementsTimeQuality
<1>1. Init => Abstract!QualityInit
  <2>1. Init => /\ up = FALSE /\ m_timequality = "UNKNOWN" /\ files = {}
                /\ lastMsg = NoMsg
    BY Zenon DEF Init
  <2>2. NoMsg.quality = "UNKNOWN"
    BY DEF NoMsg
  <2> QED
    BY <2>1, <2>2, Zenon DEF Abstract!QualityInit
<1>2. IInv /\ [Next]_vars => [Abstract!QualityNext]_(Abstract!qualityVars)
  BY QualityStep
<1> QED
  BY <1>1, <1>2, IInvHolds, PTL
  DEF Spec, ImplementsTimeQuality, Abstract!QualitySpec
-----------------------------------------------------------------------------
(* No report is dropped.                                                   *)

\* An event that waits in m_queue waits on when another one is sent, and is
\* the one that is handled or waits on when one is popped.
LEMMA WaitingEvents ==
  ASSUME m_queue \in Seq(Events), NEW x
  PROVE  /\ m_queue' = m_queue => (InQueue(x) => InQueue(x)')
         /\ \A e \in Events :
              m_queue' = Append(m_queue, e) => (InQueue(x) => InQueue(x)')
         /\ m_queue # <<>> /\ m_queue' = Tail(m_queue) =>
              (InQueue(x) => Head(m_queue) = x \/ InQueue(x)')
<1>1. m_queue' = m_queue => (InQueue(x) => InQueue(x)')
  BY DEF InQueue
<1>2. ASSUME NEW e \in Events, m_queue' = Append(m_queue, e), InQueue(x)
      PROVE  InQueue(x)'
  <2>1. PICK k \in 1..Len(m_queue) : m_queue[k] = x
    BY <1>2 DEF InQueue
  <2>2. k \in 1..Len(m_queue') /\ m_queue'[k] = m_queue[k]
    BY <1>2, <2>1
  <2> QED
    BY <2>1, <2>2 DEF InQueue
<1>3. ASSUME m_queue # <<>>, m_queue' = Tail(m_queue), InQueue(x),
             Head(m_queue) # x
      PROVE  InQueue(x)'
  <2>1. PICK k \in 1..Len(m_queue) : m_queue[k] = x
    BY <1>3 DEF InQueue
  <2>2. k # 1
    BY <1>3, <2>1
  <2>3. k - 1 \in 1..Len(m_queue') /\ m_queue'[k - 1] = m_queue[k]
    BY <1>3, <2>1, <2>2
  <2> QED
    BY <2>1, <2>3 DEF InQueue
<1> QED
  BY <1>1, <1>2, <1>3

\* The rows of stateMachine for the two reports, once initialize() is done:
\* where a report has no handler, the state remembers it already.  And the
\* handlers that only assign start from states that remember less.
LEMMA ReportCells ==
  ASSUME NEW s \in States \ {"INIT"}, NEW e \in Events
  PROVE  /\ e = "NTP_AVAILABLE" =>
              \/ HandlerOf(s, e) \in {"ntpAquired", "updateSecureTime"}
              \/ HandlerOf(s, e) = "none" /\ s \in {"NTP_ACQUIRED", "RUNNING"}
         /\ e = "SECURE_TIME_AVAILABLE" =>
              \/ HandlerOf(s, e) \in {"secureTimeAcquired", "updateSecureTime"}
              \/ /\ HandlerOf(s, e) = "none"
                 /\ s \in {"SECURE_TIME_ACQUIRED", "RUNNING"}
         /\ HandlerOf(s, e) \in {"ntpFailed", "ntpAquired", "dttAquired",
                                 "secureTimeAcquired"} =>
              s \in {"NTP_WAIT", "NTP_FAIL", "DTT_ACQUIRED"}
<1> USE DEF HandlerOf, States
<1>1. CASE e = "TIMER_EXPIRY"
  BY <1>1 DEF OnTimer
<1>2. CASE e = "NTP_AVAILABLE"
  BY <1>2 DEF OnNtp
<1>3. CASE e = "SECURE_TIME_AVAILABLE"
  BY <1>3 DEF OnSecure
<1>4. CASE e = "DTT_TIME_AVAILABLE"
  BY <1>4 DEF OnDtt
<1> QED
  BY <1>1, <1>2, <1>3, <1>4 DEF Events

\* What is left of the two reports when the handler h was picked.
LEMMA DispatchedReports ==
  ASSUME IInv, NEW h, Dispatch(h)
  PROVE  /\ InQueue("NTP_AVAILABLE") =>
              \/ InQueue("NTP_AVAILABLE")'
              \/ h \in {"ntpAquired", "updateSecureTime"}
              \/ h = "none" /\ m_state \in {"NTP_ACQUIRED", "RUNNING"}
         /\ InQueue("SECURE_TIME_AVAILABLE") =>
              \/ InQueue("SECURE_TIME_AVAILABLE")'
              \/ h \in {"secureTimeAcquired", "updateSecureTime"}
              \/ h = "none" /\ m_state \in {"SECURE_TIME_ACQUIRED", "RUNNING"}
         /\ h \in {"ntpFailed", "ntpAquired", "dttAquired",
                   "secureTimeAcquired"} =>
              m_state \in {"NTP_WAIT", "NTP_FAIL", "DTT_ACQUIRED"}
         /\ handler = "none"
<1>1. /\ m_state \in States \ {"INIT"} /\ Head(m_queue) \in Events
      /\ HandlerOf(m_state, Head(m_queue)) = h
  <2>1. QualityMatchesState
    BY DEF IInv
  <2> QED
    BY <2>1, DispatchedFacts DEF QualityMatchesState
<1>2. m_queue \in Seq(Events)
  BY DEF IInv, TypeOK
<1>3. m_queue # <<>> /\ m_queue' = Tail(m_queue) /\ handler = "none"
  BY Zenon DEF Dispatch, QueueMutexFree
<1>4. /\ InQueue("NTP_AVAILABLE") =>
           Head(m_queue) = "NTP_AVAILABLE" \/ InQueue("NTP_AVAILABLE")'
      /\ InQueue("SECURE_TIME_AVAILABLE") =>
           \/ Head(m_queue) = "SECURE_TIME_AVAILABLE"
           \/ InQueue("SECURE_TIME_AVAILABLE")'
  BY <1>2, <1>3, WaitingEvents
<1> QED
  BY <1>1, <1>3, <1>4, ReportCells

\* Every step of a process that stays up keeps both reports, but for the wake
\* of a RUNNING device.
LEMMA StepKeepsReports ==
  ASSUME IInv, Next, up, up'
  PROVE  /\ NtpReported => NtpReported'
         /\ SecureReported =>
              SecureReported' \/ (deepsleepoff /\ m_state = "RUNNING")
<1> DEFINE Goal ==
      /\ NtpReported => NtpReported'
      /\ SecureReported =>
           SecureReported' \/ (deepsleepoff /\ m_state = "RUNNING")
<1> USE DEF NtpReported, SecureReported
<1>1. TypeOK /\ m_queue \in Seq(Events) /\ QualityMatchesState
  BY DEF IInv, TypeOK
<1>2. ASSUME UNCHANGED <<m_state, handler>>,
             m_queue' = m_queue \/ \E e \in Events : m_queue' = Append(m_queue, e)
      PROVE  Goal
  BY <1>1, <1>2, WaitingEvents
<1>3. CASE updateTimeStep \/ timerExpiryStep \/ updateClockRealTimeStep
  <2>1. LoopStep
    BY <1>3, Zenon
    DEF updateTimeStep, timerExpiryStep, updateClockRealTimeStep
  <2>2. UNCHANGED <<m_state, handler, m_queue>>
    BY <2>1, Zenon DEF LoopStep, mgrVars
  <2> QED
    BY <1>2, <2>2
<1>4. CASE updateTime \/ timerExpiry \/ updateClockRealTime
  <2>1. UNCHANGED <<m_state, m_queue>> /\ handler # "updateSecureTime"
    BY <1>4 DEF updateTime, timerExpiry, updateClockRealTime, EndLoop, mgrVars
  <2> QED
    BY <1>1, <2>1, WaitingEvents
<1>5. CASE updateSecureTime
  BY <1>5 DEF updateSecureTime
<1>6. CASE IgnoreEvent
  <2>1. Dispatch("none") /\ UNCHANGED <<m_state, handler>>
    BY <1>6, Zenon DEF IgnoreEvent, mgrVars, procVars
  <2> QED
    BY <2>1, DispatchedReports
<1>7. CASE ntpFailed
  <2>1. Dispatch("ntpFailed")
    BY <1>7 DEF ntpFailed
  <2> QED
    BY <2>1, DispatchedReports
<1>8. CASE ntpAquired
  <2>1. Dispatch("ntpAquired") /\ m_state' = "NTP_ACQUIRED"
    BY <1>8 DEF ntpAquired
  <2> QED
    BY <2>1, DispatchedReports
<1>9. CASE dttAquired
  <2>1. Dispatch("dttAquired")
    BY <1>9 DEF dttAquired
  <2> QED
    BY <2>1, DispatchedReports
<1>10. CASE secureTimeAcquired
  <2>1. Dispatch("secureTimeAcquired") /\ m_state' = "SECURE_TIME_ACQUIRED"
    BY <1>10 DEF secureTimeAcquired
  <2> QED
    BY <2>1, DispatchedReports
<1>11. ASSUME NEW h \in LoopHandlers, BeginLoop(h) PROVE Goal
  <2>1. Dispatch(h) /\ handler' = h /\ m_state' = m_state
    BY <1>11 DEF BeginLoop, mgrVars
  <2> QED
    BY <2>1, DispatchedReports DEF LoopHandlers
<1>12. CASE deepsleepoff
  <2>1. UNCHANGED <<m_queue, handler>> /\ handler = "none"
    BY <1>12, Zenon DEF deepsleepoff, StateMutexFree, procVars
  <2>2. CASE m_state = "RUNNING"
    <3>1. m_state' = "NTP_ACQUIRED"
      BY <1>1, <1>12, <2>2 DEF deepsleepoff, ResetOnWake, QualityMatchesState
    <3> QED
      BY <1>12, <2>2, <3>1
  <2>3. CASE m_state # "RUNNING"
    <3>1. m_state' = m_state
      BY <1>1, <1>12, <2>3 DEF deepsleepoff, ResetOnWake, QualityMatchesState
    <3> QED
      BY <1>2, <2>1, <3>1
  <2> QED
    BY <2>2, <2>3
<1>13. CASE Timer
  <2>1. UNCHANGED <<m_state, handler>>
    BY <1>13, Zenon DEF Timer, mgrVars, procVars
  <2>2. m_queue' = Append(m_queue, "TIMER_EXPIRY")
    BY <1>13, Zenon DEF Timer, sendMessage
  <2> QED
    BY <1>2, <2>1, <2>2 DEF Events
<1>14. CASE PathMonitor \/ PathReadFails
  <2>1. UNCHANGED <<m_state, handler>>
    BY <1>14, Zenon DEF PathMonitor, PathScan, PathScanSend, PathWatch,
       PathRead, PathSend, PathReadFails, PathStep, mgrVars, procVars
  <2>2. m_queue' = m_queue \/ m_queue' = Append(m_queue, PathEvent(pathName))
    BY <1>14, Zenon DEF PathMonitor, PathScan, PathScanSend, PathWatch,
       PathRead, PathSend, PathReadFails, sendMessage
  <2>3. PathEvent(pathName) \in Events
    BY <1>1, PathEventType DEF TypeOK
  <2> QED
    BY <1>2, <2>1, <2>2, <2>3
<1>15. CASE NtpSynchronised \/ NtpTouch \/ NtpClockEvent
  <2>1. UNCHANGED <<m_state, handler, m_queue>>
    BY <1>15, Zenon DEF NtpSynchronised, NtpTouch, NtpClockEvent, NtpStep,
       mgrVars, procVars
  <2> QED
    BY <1>2, <2>1
<1>16. CASE Resync \/ External
  <2>1. UNCHANGED <<m_state, handler, m_queue>>
    BY <1>16, Zenon DEF Resync, External, ExternalTouch, ExternalWrite,
       ClockMoves, ExternalStep, mgrVars, procVars
  <2> QED
    BY <1>2, <2>1
<1>17. CASE initialize \/ Crash
  BY <1>17, Zenon DEF initialize, Crash
<1> HIDE DEF NtpReported, SecureReported
<1> QED
  BY <1>3, <1>4, <1>5, <1>6, <1>7, <1>8, <1>9, <1>10, <1>11, <1>12, <1>13,
     <1>14, <1>15, <1>16, <1>17, Zenon DEF Next, Process

\* In whatever order the events, the timer and the wakes arrive, the report of
\* an acquired NTP or secure time is never dropped by the state machine while
\* the process runs; only a wake of a RUNNING device forgets the secure one.
THEOREM ReportsAreNeverDropped == Spec => ReportsAreKept
<1> DEFINE A ==
      up /\ up' =>
        /\ NtpReported => NtpReported'
        /\ SecureReported =>
             SecureReported' \/ (deepsleepoff /\ m_state = "RUNNING")
<1>1. IInv /\ [Next]_vars => [A]_vars
  BY StepKeepsReports
<1>2. ReportsAreKept <=> [][A]_vars
  BY DEF ReportsAreKept
<1> HIDE DEF A
<1> QED
  BY <1>1, <1>2, IInvHolds, PTL DEF Spec

=============================================================================
