-------------------------- MODULE SysTimeMgr_proofs --------------------------
(***************************************************************************)
(* The safety properties of the core of the system time manager, for every *)
(* list of sources, every set of times and every bound.                    *)
(***************************************************************************)
EXTENDS SysTimeMgrProps, TLAPS

-----------------------------------------------------------------------------
(* Types of the operators.                                                 *)

\* What is queued for inotify stays a sequence of inotify events.
LEMMA QueuedType ==
  ASSUME TypeOK, NEW event \in InotifyEvents
  PROVE  Queued(event) \in Seq(InotifyEvents)
<1>1. [mask |-> "IN_Q_OVERFLOW", name |-> ""] \in InotifyEvents
  BY DEF InotifyEvents
<1>2. \A e \in InotifyEvents : Append(inotify, e) \in Seq(InotifyEvents)
  BY DEF TypeOK
<1> QED
  BY <1>1, <1>2 DEF Queued, TypeOK

\* A touched file is one of m_directory's, and makes an inotify event.
LEMMA TouchType ==
  ASSUME TypeOK, NEW name \in Names, notifypathAvailable(name)
  PROVE  files' \subseteq Names /\ inotify' \in Seq(InotifyEvents)
<1>1. [mask |-> "IN_ATTRIB", name |-> name] \in InotifyEvents
  BY DEF InotifyEvents
<1>2. inotify' \in Seq(InotifyEvents)
  BY <1>1, QueuedType DEF notifypathAvailable, TypeOK
<1> QED
  BY <1>2 DEF notifypathAvailable, TypeOK

\* A source returns a time or 0; only the JSON-RPC sources touch a file.
LEMMA SourceResult ==
  ASSUME TypeOK, NEW src \in SourceTypes, NEW r \in getTimeSec(src)
  PROVE  /\ r.time \in Times \cup {0}
         /\ r.touches => src \in {"drm", "dtt"}
<1>1. CASE isreference(src)
  BY <1>1 DEF getTimeSec, isreference, TypeOK
<1>2. CASE src = "regular"
  BY <1>2, TimesAssumption DEF getTimeSec, isreference
<1>3. CASE src = "drm"
  BY <1>3, TimesAssumption DEF getTimeSec, isreference, Rpc
<1>4. CASE src = "dtt"
  BY <1>4, TimesAssumption DEF getTimeSec, isreference, Rpc
<1> QED
  BY <1>1, <1>2, <1>3, <1>4 DEF SourceTypes, isreference

\* What a call of getTimeSec() does to the file system.
LEMMA SideEffectType ==
  ASSUME TypeOK, NEW src \in SourceTypes, NEW r \in getTimeSec(src),
         SideEffect(src, r)
  PROVE  files' \subseteq Names /\ inotify' \in Seq(InotifyEvents)
<1>1. CASE r.touches
  <2>1. src \in Names /\ notifypathAvailable(src)
    BY <1>1, SourceResult DEF SideEffect, Names
  <2> QED
    BY <2>1, TouchType
<1>2. CASE ~r.touches
  BY <1>2 DEF SideEffect, fsVars, TypeOK
<1> QED
  BY <1>1, <1>2

\* The events of the path map.
LEMMA PathEventType == \A name \in Names : PathEvent(name) \in Events
BY DEF Names, PathEvent, Events

\* The labels of the qualities.
LEMMA LabelType == \A q \in Qualities : Label(q) \in Labels
BY DEF Qualities, Label, Labels

\* Popping an event keeps the queue's type.
LEMMA DispatchType ==
  ASSUME TypeOK, NEW h, Dispatch(h)
  PROVE  /\ m_queue' \in Seq(Events)
         /\ Head(m_queue) \in Events
BY DEF Dispatch, TypeOK

\* Sending one does too.
LEMMA SendType ==
  ASSUME TypeOK, NEW event \in Events, sendMessage(event)
  PROVE  m_queue' \in Seq(Events)
BY DEF sendMessage, TypeOK

\* The first event of the inotify queue and what is left after a read.
LEMMA ReadType ==
  ASSUME TypeOK, inotify # <<>>
  PROVE  /\ Head(inotify) \in InotifyEvents
         /\ SubSeq(inotify, EventsPerRead + 1, Len(inotify))
              \in Seq(InotifyEvents)
BY DEF TypeOK, EventsPerRead

\* The file of an IN_ATTRIB event is one of m_directory's.
LEMMA AttribName ==
  \A e \in InotifyEvents : e.mask = "IN_ATTRIB" => e.name \in Names
BY DEF InotifyEvents

\* A handler starts with well-formed local variables.
LEMMA NoLocalsType == NoLocals \in Locals
BY DEF NoLocals, Locals

\* What the loops assign to the local variables keeps their types.
LEMMA LocalsUpdate ==
  ASSUME NEW l \in Locals
  PROVE  /\ [l EXCEPT !.i = @ + 1] \in Locals
         /\ \A t \in Times \cup {0} :
              [l EXCEPT !.locTime = t, !.clock_acquired = TRUE] \in Locals
         /\ \A r, f, d \in Nat :
              [l EXCEPT !.i = @ + 1, !.reftime = r, !.filetime = f,
                        !.drmTime = d] \in Locals
<1>1. l.i + 1 \in Nat \ {0}
  BY DEF Locals
<1>2. TRUE \in BOOLEAN
  OBVIOUS
<1> QED
  BY <1>1, <1>2 DEF Locals

-----------------------------------------------------------------------------
(* The type invariant.                                                     *)

\* The initial state has the types.
LEMMA InitType == Init => TypeOK /\ ScanIsInRange
<1> SUFFICES ASSUME Init PROVE TypeOK /\ ScanIsInRange
  OBVIOUS
<1>1. up \in BOOLEAN /\ clockEvent \in BOOLEAN
  BY Zenon DEF Init
<1>2. loc \in Locals
  BY NoLocalsType DEF Init
<1>3. lastMsg \in TimerMsgs
  BY DEF Init, NoMsg, TimerMsgs, PublishEvents, Qualities, Labels, TimerSrcs
<1>a. /\ crashes = 0 /\ pathK = 1 /\ lastSync = [time |-> 0, drm |-> 0]
      /\ m_queue = <<>> /\ inotify = <<>>
  BY Zenon DEF Init
<1>4. crashes \in Nat /\ pathK \in 1..5 /\ lastSync \in [time : Nat, drm : Nat]
  BY <1>a
<1>5. m_queue \in Seq(Events) /\ inotify \in Seq(InotifyEvents)
  BY <1>a
<1>6. /\ m_state \in States /\ m_timequality \in Qualities
      /\ m_timersrc \in TimerSrcs /\ pathName \in Names
      /\ handler \in LoopHandlers \cup {"none"}
      /\ clock \in Times /\ files \subseteq Names
  BY DEF Init, States, Qualities, TimerSrcs, Names
<1>7. /\ pathPc \in {"down", "scan", "scanSend", "read", "send", "exited"}
      /\ ntpPc \in {"down", "poll", "opened", "closed", "done"}
      /\ powerPc \in {"idle", "resync"}
      /\ ScanIsInRange
  BY DEF Init, ScanIsInRange
<1> QED
  BY <1>1, <1>2, <1>3, <1>4, <1>5, <1>6, <1>7, Zenon DEF TypeOK

\* publishStatus() broadcasts a well-formed TimerMsg.
LEMMA PublishType ==
  ASSUME NEW event \in PublishEvents, NEW message \in Labels,
         m_timequality' \in Qualities, m_timersrc' \in TimerSrcs,
         publishStatus(event, message)
  PROVE  lastMsg' \in TimerMsgs
BY DEF publishStatus, TimerMsgs

\* Every step of processThr keeps the types.
LEMMA ProcessType == TypeOK /\ Process => TypeOK'
<1> SUFFICES ASSUME TypeOK, Process PROVE TypeOK'
  OBVIOUS
<1> USE TimesAssumption DEF TypeOK
<1>1. CASE IgnoreEvent
  <2>1. m_queue' \in Seq(Events)
    BY <1>1, DispatchType DEF IgnoreEvent
  <2> QED
    BY <1>1, <2>1
    DEF IgnoreEvent, Dispatch, mgrVars, procVars, fsVars, pathVars, ntpVars
<1>2. CASE ntpFailed
  <2>1. m_queue' \in Seq(Events)
    BY <1>2, DispatchType DEF ntpFailed
  <2>2. lastMsg' \in TimerMsgs
    BY <1>2, PublishType DEF ntpFailed, PublishEvents, Labels
  <2> QED
    BY <1>2, <2>1, <2>2
    DEF ntpFailed, Dispatch, updateTimeSync, States, procVars, fsVars,
        pathVars, ntpVars
<1>3. CASE ntpAquired
  <2>1. m_queue' \in Seq(Events)
    BY <1>3, DispatchType DEF ntpAquired
  <2>2. m_timequality' \in Qualities /\ m_timersrc' \in TimerSrcs
    BY <1>3 DEF ntpAquired, Qualities, TimerSrcs
  <2>3. lastMsg' \in TimerMsgs
    BY <1>3, <2>2, PublishType DEF ntpAquired, PublishEvents, Labels
  <2> QED
    BY <1>3, <2>1, <2>2, <2>3
    DEF ntpAquired, Dispatch, updateTimeSync, States, procVars, fsVars,
        pathVars, ntpVars
<1>4. CASE dttAquired
  <2>1. m_queue' \in Seq(Events)
    BY <1>4, DispatchType DEF dttAquired
  <2>2. m_timequality' \in Qualities /\ m_timersrc' \in TimerSrcs
    BY <1>4 DEF dttAquired, Qualities, TimerSrcs
  <2>3. lastMsg' \in TimerMsgs
    BY <1>4, <2>2, PublishType DEF dttAquired, PublishEvents, Labels
  <2> QED
    BY <1>4, <2>1, <2>2, <2>3
    DEF dttAquired, Dispatch, updateTimeSync, States, procVars, fsVars,
        pathVars, ntpVars
<1>5. CASE secureTimeAcquired
  <2>1. m_queue' \in Seq(Events)
    BY <1>5, DispatchType DEF secureTimeAcquired
  <2> QED
    BY <1>5, <2>1
    DEF secureTimeAcquired, Dispatch, updateTimeSync, States, Qualities,
        procVars, fsVars, pathVars, ntpVars
<1>6. ASSUME NEW h \in LoopHandlers, BeginLoop(h) PROVE TypeOK'
  <2>1. m_queue' \in Seq(Events) /\ Head(m_queue) \in Events
    BY <1>6, DispatchType DEF BeginLoop
  <2>2. loc' \in Locals
    BY <1>6, <2>1, NoLocalsType DEF BeginLoop, Locals
  <2>3. lastSync' \in [time : Nat, drm : Nat]
    BY <1>6 DEF BeginLoop, updateTimeSync
  <2> QED
    BY <1>6, <2>1, <2>2, <2>3
    DEF BeginLoop, Dispatch, mgrVars, fsVars, pathVars, ntpVars
<1>7. ASSUME NEW src \in SourceTypes, NEW r \in getTimeSec(src),
             SideEffect(src, r), LoopStep, loc' \in Locals
      PROVE  TypeOK'
  <2>1. files' \subseteq Names /\ inotify' \in Seq(InotifyEvents)
    BY <1>7, SideEffectType
  <2> QED
    BY <1>7, <2>1 DEF LoopStep, mgrVars, pathVars, ntpVars
<1>8. ASSUME LoopStep PROVE Sources[loc.i] \in SourceTypes
  BY <1>8, SourcesAssumption DEF LoopStep, Locals
<1>9. CASE updateTimeStep
  <2>1. loc' \in Locals
    BY <1>9, LocalsUpdate DEF updateTimeStep
  <2> QED
    BY <1>7, <1>8, <1>9, <2>1 DEF updateTimeStep
<1>10. CASE timerExpiryStep
  <2>1. PICK r \in getTimeSec(Sources[loc.i]) :
               /\ SideEffect(Sources[loc.i], r)
               /\ loc' = ReadSource(Sources[loc.i], r)
    BY <1>10 DEF timerExpiryStep
  <2>2. r.time \in Nat
    BY <1>8, <1>10, SourceResult, TimesAssumption DEF timerExpiryStep
  <2> DEFINE src == Sources[loc.i]
             ref == IF isreference(src) THEN r.time ELSE loc.reftime
             file == IF ~isreference(src) /\ r.time # 0
                       THEN r.time ELSE loc.filetime
             drm == IF src = "drm" /\ r.time # 0 THEN r.time ELSE loc.drmTime
  <2>3. loc' \in Locals
    <3>1. ref \in Nat /\ file \in Nat /\ drm \in Nat
      BY <2>2 DEF Locals
    <3>2. loc' = [loc EXCEPT !.i = @ + 1, !.reftime = ref, !.filetime = file,
                             !.drmTime = drm]
      BY <2>1, Zenon DEF ReadSource
    <3> HIDE DEF ref, file, drm
    <3> QED
      BY <3>1, <3>2, LocalsUpdate
  <2> QED
    BY <1>7, <1>8, <1>10, <2>1, <2>3 DEF timerExpiryStep
<1>11. CASE updateClockRealTimeStep
  <2>1. PICK r \in getTimeSec(Sources[loc.i]) :
               /\ SideEffect(Sources[loc.i], r)
               /\ loc' = IF isclockProvider(Sources[loc.i])
                              /\ ~loc.clock_acquired
                           THEN [loc EXCEPT !.locTime = r.time,
                                            !.clock_acquired = TRUE]
                           ELSE [loc EXCEPT !.i = @ + 1]
    BY <1>11 DEF updateClockRealTimeStep
  <2>2. r.time \in Times \cup {0}
    BY <1>8, <1>11, SourceResult DEF updateClockRealTimeStep
  <2>3. loc' \in Locals
    BY <2>1, <2>2, LocalsUpdate
  <2> QED
    BY <1>7, <1>8, <1>11, <2>1, <2>3 DEF updateClockRealTimeStep
<1>12. CASE updateTime
  BY <1>12, NoLocalsType
  DEF updateTime, EndLoop, mgrVars, fsVars, pathVars, ntpVars
<1>13. SecureUpdate \in Nat /\ loc.drmTime \in Nat
  BY DEF SecureUpdate, Locals
<1>14. CASE timerExpiry
  BY <1>13, <1>14, NoLocalsType
  DEF timerExpiry, EndLoop, updateTimeSync, mgrVars, fsVars, pathVars,
      ntpVars
<1>15. CASE updateSecureTime
  <2>1. m_timequality' \in Qualities /\ m_timersrc' \in TimerSrcs
    BY <1>15 DEF updateSecureTime, Qualities
  <2>2. lastMsg' \in TimerMsgs
    BY <1>15, <2>1, PublishType DEF updateSecureTime, PublishEvents, Labels
  <2> QED
    BY <1>13, <1>15, <2>1, <2>2, NoLocalsType
    DEF updateSecureTime, EndLoop, updateTimeSync, States, fsVars, pathVars,
        ntpVars
<1>16. CASE updateClockRealTime
  <2>1. loc.locTime \in Times \cup {0}
    BY DEF Locals
  <2>2. clock' \in Times
    BY <1>16, <2>1 DEF updateClockRealTime, ClockAfter
  <2> QED
    BY <1>16, <2>2, NoLocalsType
    DEF updateClockRealTime, EndLoop, updateTimeSync, mgrVars, fsVars,
        pathVars, ntpVars
<1> QED
  BY <1>1, <1>2, <1>3, <1>4, <1>5, <1>6, <1>9, <1>10, <1>11, <1>12, <1>14,
     <1>15, <1>16
  DEF Process

\* Every step of the path monitor keeps the types.
LEMMA PathType ==
  TypeOK /\ ScanIsInRange /\ (PathMonitor \/ PathReadFails) => TypeOK'
<1> SUFFICES ASSUME TypeOK, ScanIsInRange, PathMonitor \/ PathReadFails
             PROVE  TypeOK'
  OBVIOUS
<1> USE DEF TypeOK, PathStep, mgrVars, procVars, ntpVars
<1>1. CASE PathScan
  BY <1>1 DEF PathScan, PathOrder, Names
<1>2. CASE PathScanSend
  <2>1. m_queue' \in Seq(Events)
    BY <1>2, PathEventType, SendType DEF PathScanSend
  <2>2. pathK' \in 1..5
    BY <1>2 DEF PathScanSend, ScanIsInRange
  <2> QED
    BY <1>2, <2>1, <2>2 DEF PathScanSend
<1>3. CASE PathWatch
  BY <1>3 DEF PathWatch
<1>4. CASE PathRead
  <2>1. inotify' \in Seq(InotifyEvents)
    BY <1>4, ReadType DEF PathRead
  <2>2. pathName' \in Names
    BY <1>4, ReadType, AttribName DEF PathRead
  <2> QED
    BY <1>4, <2>1, <2>2 DEF PathRead
<1>5. CASE PathSend
  <2>1. m_queue' \in Seq(Events)
    BY <1>5, PathEventType, SendType DEF PathSend
  <2> QED
    BY <1>5, <2>1 DEF PathSend
<1>6. CASE PathReadFails
  BY <1>6 DEF PathReadFails
<1> QED
  BY <1>1, <1>2, <1>3, <1>4, <1>5, <1>6 DEF PathMonitor

\* So does every step of the other threads and of the environment.
LEMMA OtherType ==
  ASSUME TypeOK,
         \/ initialize \/ Crash \/ Timer
         \/ NtpSynchronised \/ NtpTouch \/ NtpClockEvent
         \/ deepsleepoff \/ Resync \/ External
  PROVE  TypeOK'
<1> USE DEF TypeOK, mgrVars, procVars, fsVars, pathVars, ntpVars
<1>1. CASE initialize
  <2>1. PICK locTime \in SyncTimes : setInitialTime(locTime)
    BY <1>1 DEF initialize
  <2>2. m_timequality' \in Qualities /\ m_timersrc' \in TimerSrcs
    BY <1>1, <2>1 DEF initialize, setInitialTime, Qualities
  <2>3. lastMsg' \in TimerMsgs
    BY <2>1, <2>2, PublishType DEF setInitialTime, PublishEvents, Labels
  <2>4. clock' \in Times
    BY <2>1, TimesAssumption DEF setInitialTime
  <2>5. m_state' \in States
    BY <1>1 DEF initialize, States
  <2>6. up' \in BOOLEAN /\ clockEvent' \in BOOLEAN
    BY <1>1, Zenon DEF initialize
  <2>7. pathK' = 1 /\ pathPc' = "scan" /\ ntpPc' \in {"poll", "done"}
    BY <1>1, Zenon DEF initialize
  <2>8. UNCHANGED <<m_queue, procVars, lastSync, fsVars, pathName, powerPc,
                    crashes>>
    BY <1>1, Zenon DEF initialize
  <2> QED
    BY <2>2, <2>3, <2>4, <2>5, <2>6, <2>7, <2>8
<1>2. CASE Crash
  <2>1. up' \in BOOLEAN /\ clockEvent' \in BOOLEAN
    BY <1>2, Zenon DEF Crash
  <2>2. /\ m_state' \in States /\ m_timequality' \in Qualities
        /\ m_timersrc' \in TimerSrcs /\ pathName' \in Names
    BY <1>2 DEF Crash, States, Qualities, TimerSrcs, Names
  <2>3. loc' \in Locals
    BY <1>2, NoLocalsType DEF Crash
  <2>4. /\ m_queue' = <<>> /\ handler' = "none" /\ inotify' = <<>>
        /\ pathPc' = "down" /\ pathK' = 1 /\ ntpPc' = "down"
        /\ powerPc' = "idle" /\ crashes' = crashes + 1
        /\ UNCHANGED <<lastSync, lastMsg, clock, files>>
    BY <1>2, Zenon DEF Crash
  <2> QED
    BY <2>1, <2>2, <2>3, <2>4
<1>3. CASE Timer
  <2>1. m_queue' \in Seq(Events)
    BY <1>3, SendType DEF Timer, Events
  <2> QED
    BY <1>3, <2>1 DEF Timer
<1>4. CASE NtpSynchronised
  BY <1>4 DEF NtpSynchronised, NtpStep, Names
<1>5. CASE NtpTouch
  <2>1. [mask |-> "IN_ATTRIB", name |-> "ntp"] \in InotifyEvents
    BY DEF InotifyEvents, Names
  <2>2. inotify' \in Seq(InotifyEvents)
    BY <1>5, <2>1, QueuedType DEF NtpTouch
  <2> QED
    BY <1>5, <2>2 DEF NtpTouch, NtpStep
<1>6. CASE NtpClockEvent
  BY <1>6 DEF NtpClockEvent, NtpStep
<1>7. CASE deepsleepoff
  <2>1. m_timequality' \in Qualities /\ m_state' \in States
    BY <1>7 DEF deepsleepoff, ResetOnWake, Qualities, States
  <2>2. m_timersrc' \in TimerSrcs
    BY <1>7 DEF deepsleepoff, TimerSrcs
  <2>3. lastMsg' \in TimerMsgs
    BY <1>7, <2>1, <2>2, LabelType, PublishType
    DEF deepsleepoff, PublishWake, PublishEvents
  <2> QED
    BY <1>7, <2>1, <2>2, <2>3 DEF deepsleepoff
<1>8. CASE Resync
  BY <1>8 DEF Resync
<1>9. CASE ExternalTouch
  <2>1. files' \subseteq Names /\ inotify' \in Seq(InotifyEvents)
    BY <1>9, TouchType, NamesAssumption DEF ExternalTouch
  <2> QED
    BY <1>9, <2>1 DEF ExternalTouch, ExternalStep
<1>10. CASE ExternalWrite
  <2>1. PICK name \in Noise \cap files :
              inotify' = Queued([mask |-> "IN_MODIFY", name |-> name])
    BY <1>10 DEF ExternalWrite
  <2>2. [mask |-> "IN_MODIFY", name |-> name] \in InotifyEvents
    BY NamesAssumption DEF InotifyEvents
  <2>3. inotify' \in Seq(InotifyEvents)
    BY <2>1, <2>2, QueuedType
  <2> QED
    BY <1>10, <2>3 DEF ExternalWrite, ExternalStep
<1>11. CASE ClockMoves
  BY <1>11 DEF ClockMoves, ExternalStep
<1> QED
  BY <1>1, <1>2, <1>3, <1>4, <1>5, <1>6, <1>7, <1>8, <1>9, <1>10, <1>11
  DEF External

\* Only the path monitor, the start and the end of the process move the path
\* monitor; processThr changes neither up nor the other threads.
LEMMA ProcessFrame ==
  Process => UNCHANGED <<up, pathVars, ntpVars, powerPc, crashes>>
<1> SUFFICES ASSUME Process
             PROVE  UNCHANGED <<up, pathVars, ntpVars, powerPc, crashes>>
  OBVIOUS
<1>1. \A h : Dispatch(h) => UNCHANGED <<up, pathVars, ntpVars, powerPc, crashes>>
  BY Zenon DEF Dispatch
<1>2. LoopStep => UNCHANGED <<up, pathVars, ntpVars, powerPc, crashes>>
  BY Zenon DEF LoopStep
<1>3. \A h : EndLoop(h) => UNCHANGED <<up, pathVars, ntpVars, powerPc, crashes>>
  BY Zenon DEF EndLoop
<1> QED
  BY <1>1, <1>2, <1>3, Zenon
  DEF Process, IgnoreEvent, ntpFailed, ntpAquired, dttAquired,
      secureTimeAcquired, BeginLoop, updateTimeStep, timerExpiryStep,
      updateClockRealTimeStep, updateTime, timerExpiry, updateSecureTime,
      updateClockRealTime

\* What the inductive invariant says of types is preserved by every step.
LEMMA NextType ==
  TypeOK /\ ScanIsInRange /\ [Next]_vars => TypeOK' /\ ScanIsInRange'
<1> SUFFICES ASSUME TypeOK, ScanIsInRange, [Next]_vars
             PROVE  TypeOK' /\ ScanIsInRange'
  OBVIOUS
<1>1. CASE UNCHANGED vars
  BY <1>1 DEF vars, TypeOK, ScanIsInRange
<1>2. CASE Next
  <2>1. TypeOK'
    BY <1>2, ProcessType, PathType, OtherType DEF Next
  <2>2. CASE PathMonitor \/ PathReadFails
    BY <2>1, <2>2 DEF PathMonitor, PathScan, PathScanSend, PathWatch,
       PathRead, PathSend, PathReadFails, PathOrder, ScanIsInRange
  <2>3. CASE initialize \/ Crash
    <3>1. pathPc' \in {"scan", "down"}
      BY <2>3, Zenon DEF initialize, Crash
    <3> QED
      BY <2>1, <3>1 DEF ScanIsInRange
  <2>4. CASE UNCHANGED pathVars
    BY <2>1, <2>4 DEF pathVars, ScanIsInRange
  <2>5. Process => UNCHANGED pathVars
    BY ProcessFrame, Zenon
  <2>6. \/ Timer \/ NtpSynchronised \/ NtpTouch \/ NtpClockEvent
        \/ deepsleepoff \/ Resync \/ External
        => UNCHANGED pathVars
    BY Zenon DEF Timer, NtpSynchronised, NtpTouch, NtpClockEvent, NtpStep,
       deepsleepoff, Resync, External, ExternalTouch, ExternalWrite,
       ClockMoves, ExternalStep
  <2> QED
    BY <1>2, <2>1, <2>2, <2>3, <2>4, <2>5, <2>6 DEF Next
<1> QED
  BY <1>1, <1>2

\* The values of every variable, for every behaviour of the core: the queues,
\* the local variables of the handlers and the threads' positions stay within
\* TypeOK.
THEOREM TypeCorrect == Spec => []TypeOK
<1>1. Init => TypeOK /\ ScanIsInRange
  BY InitType
<1>2. TypeOK /\ ScanIsInRange /\ [Next]_vars => TypeOK' /\ ScanIsInRange'
  BY NextType
<1> QED
  BY <1>1, <1>2, PTL DEF Spec

-----------------------------------------------------------------------------
(* The state machine's table.                                              *)

\* The cells of stateMachine the handlers that change m_state stand in.
LEMMA TableCells ==
  ASSUME NEW s \in States, NEW e \in Events
  PROVE  /\ HandlerOf(s, e) = "ntpFailed" => s = "NTP_WAIT"
         /\ HandlerOf(s, e) = "ntpAquired" => e = "NTP_AVAILABLE"
         /\ HandlerOf(s, e) = "dttAquired" =>
              s = "NTP_FAIL" /\ e = "DTT_TIME_AVAILABLE"
         /\ HandlerOf(s, e) = "secureTimeAcquired" =>
              e = "SECURE_TIME_AVAILABLE"
         /\ HandlerOf(s, e) = "updateSecureTime" =>
              \/ s = "NTP_ACQUIRED" /\ e = "SECURE_TIME_AVAILABLE"
              \/ s = "SECURE_TIME_ACQUIRED" /\ e = "NTP_AVAILABLE"
<1> USE DEF HandlerOf, States
<1>1. CASE e = "TIMER_EXPIRY"
  BY <1>1 DEF OnTimer
<1>2. CASE e = "NTP_AVAILABLE"
  BY <1>2 DEF OnNtp
<1>3. CASE e = "SECURE_TIME_AVAILABLE"
  BY <1>3 DEF OnSecure
<1>4. CASE e = "DTT_TIME_AVAILABLE"
  BY <1>4 DEF OnDtt
<1> QED
  BY <1>1, <1>2, <1>3, <1>4 DEF Events

-----------------------------------------------------------------------------
(* Steps of a process that is down, files, and evidence.                   *)

\* While the process is down only systemd and other processes take steps.
LEMMA DownSteps ==
  ASSUME DownIsReset, ~up, Next
  PROVE  initialize \/ External
<1>1. /\ handler = "none" /\ pathPc = "down" /\ ntpPc = "down"
      /\ powerPc = "idle"
  BY Zenon DEF DownIsReset
<1>2. ~Process
  <2>1. \A h : ~Dispatch(h)
    BY Zenon DEF Dispatch, QueueMutexFree
  <2>2. ~LoopStep
    BY <1>1, Zenon DEF LoopStep
  <2>3. \A h : EndLoop(h) => handler = h
    BY Zenon DEF EndLoop
  <2> QED
    BY <1>1, <2>1, <2>2, <2>3
    DEF Process, IgnoreEvent, ntpFailed, ntpAquired, dttAquired,
        secureTimeAcquired, BeginLoop, updateTimeStep, timerExpiryStep,
        updateClockRealTimeStep, updateTime, timerExpiry, updateSecureTime,
        updateClockRealTime
<1>3. ~PathMonitor /\ ~PathReadFails
  BY <1>1 DEF PathMonitor, PathScan, PathScanSend, PathWatch, PathRead,
     PathSend, PathReadFails
<1>4. ~NtpSynchronised /\ ~NtpTouch /\ ~NtpClockEvent /\ ~Resync
  BY <1>1 DEF NtpSynchronised, NtpTouch, NtpClockEvent, Resync
<1>5. ~Crash /\ ~Timer /\ ~deepsleepoff
  BY Zenon DEF Crash, Timer, sendMessage, QueueMutexFree, deepsleepoff,
     StateMutexFree
<1> QED
  BY <1>2, <1>3, <1>4, <1>5 DEF Next

\* Only a crash ends the process.
LEMMA UpSteps ==
  ASSUME up, Next, ~Crash
  PROVE  up'
<1>1. Process => up'
  BY ProcessFrame, Zenon
<1>2. PathMonitor \/ PathReadFails => up'
  BY Zenon DEF PathMonitor, PathScan, PathScanSend, PathWatch, PathRead,
     PathSend, PathReadFails, PathStep
<1>3. NtpSynchronised \/ NtpTouch \/ NtpClockEvent => up'
  BY Zenon DEF NtpSynchronised, NtpTouch, NtpClockEvent, NtpStep
<1>4. initialize \/ Timer \/ deepsleepoff \/ Resync \/ External => up'
  BY Zenon DEF initialize, Timer, deepsleepoff, Resync, External,
     ExternalTouch, ExternalWrite, ClockMoves, ExternalStep
<1> QED
  BY <1>1, <1>2, <1>3, <1>4 DEF Next

\* Nothing removes a file from m_directory.
LEMMA FilesGrow ==
  ASSUME Next
  PROVE  files \subseteq files'
<1>1. \A src, r : SideEffect(src, r) => files \subseteq files'
  BY Zenon DEF SideEffect, notifypathAvailable, fsVars
<1>2. CASE Process
  <2>1. CASE updateTimeStep \/ timerExpiryStep \/ updateClockRealTimeStep
    BY <1>1, <2>1, Zenon
    DEF updateTimeStep, timerExpiryStep, updateClockRealTimeStep
  <2>2. CASE UNCHANGED files
    BY <2>2
  <2>3. \A h : EndLoop(h) => UNCHANGED files
    BY Zenon DEF EndLoop, fsVars
  <2>4. CASE \/ IgnoreEvent \/ ntpFailed \/ ntpAquired \/ dttAquired
             \/ secureTimeAcquired \/ \E h \in LoopHandlers : BeginLoop(h)
    BY <2>2, <2>4, Zenon
    DEF IgnoreEvent, ntpFailed, ntpAquired, dttAquired, secureTimeAcquired,
        BeginLoop, fsVars
  <2> QED
    BY <1>2, <2>1, <2>2, <2>3, <2>4, Zenon
    DEF Process, updateTime, timerExpiry, updateSecureTime,
        updateClockRealTime
<1>3. CASE PathMonitor \/ PathReadFails
  BY <1>3, Zenon DEF PathMonitor, PathScan, PathScanSend, PathWatch,
     PathRead, PathSend, PathReadFails, PathStep
<1>4. CASE NtpSynchronised \/ NtpTouch \/ NtpClockEvent
  BY <1>4, Zenon DEF NtpSynchronised, NtpTouch, NtpClockEvent, fsVars
<1>5. CASE External
  BY <1>5, Zenon DEF External, ExternalTouch, ExternalWrite, ClockMoves,
     notifypathAvailable, fsVars
<1>6. CASE initialize \/ Crash \/ Timer \/ deepsleepoff \/ Resync
  BY <1>6, Zenon DEF initialize, Crash, Timer, deepsleepoff, Resync, fsVars
<1> QED
  BY <1>2, <1>3, <1>4, <1>5, <1>6 DEF Next

\* So what was evidence stays evidence.
LEMMA EvidenceGrows ==
  ASSUME files \subseteq files', NEW e \in Events, Evidence(e)
  PROVE  Evidence(e)'
BY DEF Evidence, Events

\* An event sent for a file of m_directory has its evidence.
LEMMA NameIsEvidence ==
  ASSUME NEW name \in Names, name \in files
  PROVE  Evidence(PathEvent(name))
BY DEF Evidence, PathEvent, Names

\* What is queued for inotify: the event itself only if it names a file.
LEMMA QueuedHasFile ==
  ASSUME TypeOK, InotifyHasFile, files \subseteq files',
         NEW e \in InotifyEvents, e.mask = "IN_ATTRIB" => e.name \in files',
         inotify' = Queued(e)
  PROVE  InotifyHasFile'
<1> DEFINE f == IF Len(inotify) < MaxInotify THEN e
                ELSE [mask |-> "IN_Q_OVERFLOW", name |-> ""]
<1>1. inotify' = inotify \/ inotify' = Append(inotify, f)
  BY DEF Queued
<1>2. f.mask = "IN_ATTRIB" => f.name \in files'
  OBVIOUS
<1>3. inotify \in Seq(InotifyEvents)
  BY DEF TypeOK
<1>4. f \in InotifyEvents
  BY DEF InotifyEvents
<1>5. CASE inotify' = inotify
  BY <1>5 DEF InotifyHasFile
<1>6. CASE inotify' = Append(inotify, f)
  <2> HIDE DEF f
  <2>1. /\ Len(inotify') = Len(inotify) + 1
        /\ \A k \in 1..Len(inotify) : inotify'[k] = inotify[k]
        /\ inotify'[Len(inotify) + 1] = f
    BY <1>3, <1>4, <1>6
  <2>2. Len(inotify) \in Nat
    BY <1>3
  <2> SUFFICES ASSUME NEW k \in 1..Len(inotify'),
                      inotify'[k].mask = "IN_ATTRIB"
               PROVE  inotify'[k].name \in files'
    BY DEF InotifyHasFile
  <2>3. CASE k = Len(inotify) + 1
    BY <1>2, <2>1, <2>3
  <2>4. CASE k \in 1..Len(inotify)
    BY <2>1, <2>4 DEF InotifyHasFile
  <2> QED
    BY <2>1, <2>2, <2>3, <2>4
<1> QED
  BY <1>1, <1>5, <1>6

-----------------------------------------------------------------------------
(* What a step can do to each part of the state.                           *)

\* Who writes m_state, m_timequality and m_timersrc.
LEMMA MgrWriters ==
  ASSUME Next
  PROVE  \/ initialize \/ Crash
         \/ ntpFailed \/ ntpAquired \/ dttAquired \/ secureTimeAcquired
         \/ updateSecureTime \/ deepsleepoff
         \/ UNCHANGED <<up, m_state, m_timequality, m_timersrc, lastMsg>>
<1> DEFINE Kept ==
      UNCHANGED <<up, m_state, m_timequality, m_timersrc, lastMsg>>
<1>1. CASE Process
  <2>1. LoopStep => Kept
    BY Zenon DEF LoopStep, mgrVars
  <2>2. IgnoreEvent \/ (\E h \in LoopHandlers : BeginLoop(h)) => Kept
    BY Zenon DEF IgnoreEvent, BeginLoop, Dispatch, mgrVars
  <2>3. updateTime \/ timerExpiry \/ updateClockRealTime => Kept
    BY Zenon DEF updateTime, timerExpiry, updateClockRealTime, EndLoop,
       mgrVars
  <2> QED
    BY <1>1, <2>1, <2>2, <2>3, Zenon
    DEF Process, updateTimeStep, timerExpiryStep, updateClockRealTimeStep
<1>2. PathMonitor \/ PathReadFails => Kept
  BY Zenon DEF PathMonitor, PathScan, PathScanSend, PathWatch, PathRead,
     PathSend, PathReadFails, PathStep, mgrVars
<1>3. NtpSynchronised \/ NtpTouch \/ NtpClockEvent => Kept
  BY Zenon DEF NtpSynchronised, NtpTouch, NtpClockEvent, NtpStep, mgrVars
<1>4. Timer \/ Resync \/ External => Kept
  BY Zenon DEF Timer, Resync, External, ExternalTouch, ExternalWrite,
     ClockMoves, ExternalStep, mgrVars
<1> QED
  BY <1>1, <1>2, <1>3, <1>4, Zenon DEF Next

\* Who starts, continues and ends a handler.
LEMMA HandlerWriters ==
  ASSUME TypeOK, DownIsReset, Next
  PROVE  \/ handler' = "none"
         \/ \E h \in LoopHandlers : BeginLoop(h)
         \/ /\ handler' = handler /\ loc'.event = loc.event
            /\ UNCHANGED <<up, m_state>>
<1> DEFINE Kept == /\ handler' = handler /\ loc'.event = loc.event
                   /\ UNCHANGED <<up, m_state>>
<1>1. CASE Process
  <2>1. \A h : Dispatch(h) => handler = "none"
    BY Zenon DEF Dispatch, QueueMutexFree
  <2>2. LoopStep => handler' = handler /\ UNCHANGED <<up, m_state>>
    BY Zenon DEF LoopStep, mgrVars
  <2>3. CASE updateTimeStep \/ timerExpiryStep \/ updateClockRealTimeStep
    <3>1. loc'.event = loc.event
      <4>1. CASE updateTimeStep
        BY <4>1 DEF updateTimeStep, TypeOK, Locals
      <4>2. CASE timerExpiryStep
        BY <4>2 DEF timerExpiryStep, ReadSource, TypeOK, Locals
      <4>3. CASE updateClockRealTimeStep
        BY <4>3 DEF updateClockRealTimeStep, TypeOK, Locals
      <4> QED
        BY <2>3, <4>1, <4>2, <4>3
    <3>2. LoopStep
      BY <2>3, Zenon
      DEF updateTimeStep, timerExpiryStep, updateClockRealTimeStep
    <3> QED
      BY <2>2, <3>1, <3>2, Zenon
  <2>4. \A h : EndLoop(h) => handler' = "none"
    BY Zenon DEF EndLoop
  <2>5. CASE \/ IgnoreEvent \/ ntpFailed \/ ntpAquired \/ dttAquired
             \/ secureTimeAcquired
    BY <2>1, <2>5, Zenon
    DEF IgnoreEvent, ntpFailed, ntpAquired, dttAquired, secureTimeAcquired,
        procVars
  <2> QED
    BY <1>1, <2>3, <2>4, <2>5, Zenon
    DEF Process, updateTime, timerExpiry, updateSecureTime,
        updateClockRealTime
<1>2. PathMonitor \/ PathReadFails => Kept
  BY Zenon DEF PathMonitor, PathScan, PathScanSend, PathWatch, PathRead,
     PathSend, PathReadFails, PathStep, mgrVars, procVars
<1>3. NtpSynchronised \/ NtpTouch \/ NtpClockEvent => Kept
  BY Zenon DEF NtpSynchronised, NtpTouch, NtpClockEvent, NtpStep, mgrVars,
     procVars
<1>4. Timer \/ Resync \/ External => Kept
  BY Zenon DEF Timer, Resync, External, ExternalTouch, ExternalWrite,
     ClockMoves, ExternalStep, mgrVars, procVars
<1>5. initialize \/ Crash \/ deepsleepoff => handler' = "none"
  BY Zenon DEF initialize, DownIsReset, Crash, deepsleepoff, StateMutexFree,
     procVars
<1> QED
  BY <1>1, <1>2, <1>3, <1>4, <1>5, Zenon DEF Next

\* Who writes m_queue.
LEMMA QueueWriters ==
  ASSUME Next
  PROVE  \/ m_queue' = <<>>
         \/ \E h : Dispatch(h)
         \/ m_queue' = Append(m_queue, "TIMER_EXPIRY")
         \/ /\ pathPc \in {"scanSend", "send"}
            /\ m_queue' = Append(m_queue, PathEvent(pathName))
         \/ m_queue' = m_queue
<1>1. CASE Process
  <2>1. LoopStep => m_queue' = m_queue
    BY Zenon DEF LoopStep
  <2>2. \A h : EndLoop(h) => m_queue' = m_queue
    BY Zenon DEF EndLoop
  <2> QED
    BY <1>1, <2>1, <2>2, Zenon
    DEF Process, IgnoreEvent, ntpFailed, ntpAquired, dttAquired,
        secureTimeAcquired, BeginLoop, updateTimeStep, timerExpiryStep,
        updateClockRealTimeStep, updateTime, timerExpiry, updateSecureTime,
        updateClockRealTime
<1>2. CASE PathMonitor \/ PathReadFails
  BY <1>2 DEF PathMonitor, PathScan, PathScanSend, PathWatch, PathRead,
     PathSend, PathReadFails, sendMessage
<1>3. CASE NtpSynchronised \/ NtpTouch \/ NtpClockEvent
  BY <1>3, Zenon DEF NtpSynchronised, NtpTouch, NtpClockEvent, NtpStep
<1>4. CASE initialize \/ Crash \/ Timer \/ deepsleepoff \/ Resync \/ External
  BY <1>4, Zenon DEF initialize, Crash, Timer, sendMessage, deepsleepoff,
     Resync, External, ExternalTouch, ExternalWrite, ClockMoves, ExternalStep
<1> QED
  BY <1>1, <1>2, <1>3, <1>4, Zenon DEF Next

-----------------------------------------------------------------------------
(* Each conjunct of the inductive invariant is preserved.                  *)

\* A process that ends leaves nothing behind in memory.
LEMMA NextDownIsReset ==
  ASSUME DownIsReset, Next
  PROVE  DownIsReset'
<1>1. CASE up /\ Crash
  BY <1>1, Zenon DEF Crash, DownIsReset
<1>2. CASE up /\ ~Crash
  BY <1>2, UpSteps, Zenon DEF DownIsReset
<1>3. CASE ~up
  <2>1. CASE initialize
    BY <2>1, Zenon DEF initialize, DownIsReset
  <2>2. CASE External
    <3>1. UNCHANGED <<up, mgrVars, m_queue, procVars, pathVars, ntpVars,
                      powerPc>>
      BY <2>2, Zenon DEF External, ExternalTouch, ExternalWrite, ClockMoves,
         ExternalStep
    <3> QED
      BY <3>1, Zenon
      DEF DownIsReset, mgrVars, procVars, pathVars, ntpVars
  <2> QED
    BY <1>3, <2>1, <2>2, DownSteps
<1> QED
  BY <1>1, <1>2, <1>3

\* The event a handler is dispatched for, and the cell it stands in.
LEMMA DispatchCell ==
  ASSUME TypeOK, NEW h, Dispatch(h)
  PROVE  /\ m_state \in States
         /\ Head(m_queue) \in Events
         /\ HandlerOf(m_state, Head(m_queue)) = h
BY DispatchType DEF Dispatch, TypeOK

\* Whoever writes m_state writes a matching m_timequality.
LEMMA NextQualityMatchesState ==
  ASSUME TypeOK, DownIsReset, QualityMatchesState, Next
  PROVE  QualityMatchesState'
<1>1. CASE initialize
  <2>1. m_timequality = "UNKNOWN" /\ m_state' = "NTP_WAIT"
    BY <1>1, Zenon DEF initialize, DownIsReset
  <2>2. m_timequality' \in {"UNKNOWN", "POOR"}
    BY <1>1, <2>1 DEF initialize, setInitialTime
  <2> QED
    BY <2>1, <2>2 DEF QualityMatchesState
<1>2. CASE Crash
  <2>1. ~up'
    BY <1>2, Zenon DEF Crash
  <2> QED
    BY <2>1, Zenon DEF QualityMatchesState
<1>3. CASE ntpFailed
  <2>1. m_state = "NTP_WAIT"
    BY <1>3, DispatchCell, TableCells DEF ntpFailed
  <2>2. up
    BY <1>3, Zenon DEF ntpFailed, Dispatch, QueueMutexFree
  <2>3. m_timequality \notin {"SECURE", "GOOD"}
    BY <2>1, <2>2 DEF QualityMatchesState
  <2> QED
    BY <1>3, <2>3 DEF ntpFailed, QualityMatchesState
<1>4. CASE ntpAquired
  BY <1>4 DEF ntpAquired, QualityMatchesState
<1>5. CASE dttAquired
  BY <1>5 DEF dttAquired, QualityMatchesState
<1>6. CASE secureTimeAcquired
  BY <1>6 DEF secureTimeAcquired, QualityMatchesState
<1>7. CASE updateSecureTime
  BY <1>7 DEF updateSecureTime, QualityMatchesState
<1>8. CASE deepsleepoff
  <2>1. up
    BY <1>8, Zenon DEF deepsleepoff, StateMutexFree
  <2> QED
    BY <1>8, <2>1 DEF deepsleepoff, ResetOnWake, QualityMatchesState
<1>9. CASE UNCHANGED <<up, m_state, m_timequality, m_timersrc, lastMsg>>
  BY <1>9 DEF QualityMatchesState
<1> QED
  BY <1>1, <1>2, <1>3, <1>4, <1>5, <1>6, <1>7, <1>8, <1>9, MgrWriters

\* A running handler keeps the cell it was picked from.
LEMMA NextHandlerMatchesState ==
  ASSUME TypeOK, DownIsReset, HandlerMatchesState, Next
  PROVE  HandlerMatchesState'
<1>1. CASE handler' = "none"
  BY <1>1, Zenon DEF HandlerMatchesState
<1>2. ASSUME NEW h \in LoopHandlers, BeginLoop(h) PROVE HandlerMatchesState'
  <2>1. up'
    BY <1>2, Zenon DEF BeginLoop, Dispatch, QueueMutexFree
  <2>2. HandlerOf(m_state', Head(m_queue)) = h /\ handler' = h
    BY <1>2, DispatchCell DEF BeginLoop, mgrVars
  <2>3. loc'.event = Head(m_queue)
    BY <1>2 DEF BeginLoop, NoLocals
  <2> QED
    BY <2>1, <2>2, <2>3, Zenon DEF HandlerMatchesState, HandlerOf
<1>3. CASE /\ handler' = handler /\ loc'.event = loc.event
           /\ UNCHANGED <<up, m_state>>
  BY <1>3, Zenon DEF HandlerMatchesState, HandlerOf
<1> QED
  BY <1>1, <1>2, <1>3, HandlerWriters

\* An event that is popped has its evidence, and so have those behind it.
LEMMA PoppedHasEvidence ==
  ASSUME TypeOK, QueueHasEvidence, NEW h, Dispatch(h)
  PROVE  /\ Evidence(Head(m_queue))
         /\ \A k \in 1..Len(m_queue') : /\ m_queue'[k] \in Events
                                       /\ Evidence(m_queue'[k])
<1>1. m_queue \in Seq(Events) /\ m_queue # <<>> /\ m_queue' = Tail(m_queue)
  BY DEF TypeOK, Dispatch
<1>2. Head(m_queue) = m_queue[1] /\ 1 \in 1..Len(m_queue)
  BY <1>1
<1>3. \A k \in 1..Len(m_queue') :
        m_queue'[k] = m_queue[k + 1] /\ k + 1 \in 1..Len(m_queue)
  BY <1>1
<1>4. \A k \in 1..Len(m_queue) : m_queue[k] \in Events /\ Evidence(m_queue[k])
  BY <1>1 DEF QueueHasEvidence
<1> QED
  BY <1>2, <1>3, <1>4

\* What is put into m_queue has its evidence.
LEMMA NextQueueHasEvidence ==
  ASSUME TypeOK, QueueHasEvidence, PathHasFile, Next
  PROVE  QueueHasEvidence'
<1>1. files \subseteq files'
  BY FilesGrow
<1>2. m_queue \in Seq(Events)
  BY DEF TypeOK
<1>3. ASSUME NEW e \in Events, Evidence(e), m_queue' = Append(m_queue, e)
      PROVE  QueueHasEvidence'
  <2>1. \A k \in 1..Len(m_queue') : \/ m_queue'[k] = e
                                   \/ /\ k \in 1..Len(m_queue)
                                      /\ m_queue'[k] = m_queue[k]
    BY <1>2, <1>3
  <2>2. \A k \in 1..Len(m_queue') : /\ m_queue'[k] \in Events
                                   /\ Evidence(m_queue'[k])
    BY <1>2, <1>3, <2>1 DEF QueueHasEvidence
  <2> QED
    BY <1>1, <2>2, EvidenceGrows DEF QueueHasEvidence
<1>4. CASE m_queue' = <<>>
  BY <1>4 DEF QueueHasEvidence
<1>5. ASSUME NEW h, Dispatch(h) PROVE QueueHasEvidence'
  BY <1>1, <1>5, PoppedHasEvidence, EvidenceGrows DEF QueueHasEvidence
<1>6. CASE m_queue' = Append(m_queue, "TIMER_EXPIRY")
  <2>1. "TIMER_EXPIRY" \in Events /\ Evidence("TIMER_EXPIRY")
    BY DEF Events, Evidence
  <2> QED
    BY <1>3, <1>6, <2>1
<1>7. CASE /\ pathPc \in {"scanSend", "send"}
           /\ m_queue' = Append(m_queue, PathEvent(pathName))
  <2>1. pathName \in Names /\ pathName \in files
    BY <1>7 DEF TypeOK, PathHasFile
  <2>2. PathEvent(pathName) \in Events /\ Evidence(PathEvent(pathName))
    BY <2>1, PathEventType, NameIsEvidence
  <2> QED
    BY <1>3, <1>7, <2>2
<1>8. CASE m_queue' = m_queue
  <2>1. \A k \in 1..Len(m_queue) : /\ m_queue[k] \in Events
                                  /\ Evidence(m_queue[k])
    BY <1>2 DEF QueueHasEvidence
  <2> QED
    BY <1>1, <1>8, <2>1, EvidenceGrows DEF QueueHasEvidence
<1> QED
  BY <1>4, <1>5, <1>6, <1>7, <1>8, QueueWriters

\* A handler starts with the evidence of the event it was popped for.
LEMMA NextHandlerHasEvidence ==
  ASSUME TypeOK, DownIsReset, QueueHasEvidence, HandlerHasEvidence, Next
  PROVE  HandlerHasEvidence'
<1>1. files \subseteq files'
  BY FilesGrow
<1>2. CASE handler' = "none"
  BY <1>2 DEF HandlerHasEvidence
<1>3. ASSUME NEW h \in LoopHandlers, BeginLoop(h) PROVE HandlerHasEvidence'
  <2>1. loc'.event = Head(m_queue)
    BY <1>3 DEF BeginLoop, NoLocals
  <2>2. Head(m_queue) \in Events /\ Evidence(Head(m_queue))
    BY <1>3, DispatchType, PoppedHasEvidence DEF BeginLoop
  <2>3. loc'.event \in Events /\ Evidence(loc'.event)
    BY <2>1, <2>2, Zenon DEF Evidence
  <2> QED
    BY <1>1, <2>3, EvidenceGrows DEF HandlerHasEvidence
<1>4. CASE handler' = handler /\ loc'.event = loc.event
  <2>1. CASE handler = "none"
    BY <1>2, <1>4, <2>1
  <2>2. CASE handler # "none"
    <3>1. loc'.event \in Events /\ Evidence(loc'.event)
      BY <1>4, <2>2, Zenon DEF HandlerHasEvidence, Evidence
    <3> QED
      BY <1>1, <3>1, EvidenceGrows DEF HandlerHasEvidence
  <2> QED
    BY <2>1, <2>2
<1> QED
  BY <1>2, <1>3, <1>4, HandlerWriters, Zenon

\* The path monitor holds the name of a file that exists.
LEMMA NextPathHasFile ==
  ASSUME TypeOK, InotifyHasFile, PathHasFile, Next
  PROVE  PathHasFile'
<1>1. files \subseteq files'
  BY FilesGrow
<1>2. CASE PathScan
  BY <1>1, <1>2 DEF PathScan, Exists, PathHasFile
<1>3. CASE PathRead
  <2>1. Head(inotify) = inotify[1] /\ 1 \in 1..Len(inotify)
    BY <1>3 DEF PathRead, TypeOK
  <2>2. pathPc' = "send" => pathName' \in files
    BY <1>3, <2>1 DEF PathRead, InotifyHasFile
  <2>3. pathPc' \in {"read", "send"}
    BY <1>3 DEF PathRead
  <2> QED
    BY <1>1, <2>2, <2>3 DEF PathHasFile
<1>4. CASE PathScanSend \/ PathWatch \/ PathSend \/ PathReadFails
  BY <1>4 DEF PathScanSend, PathWatch, PathSend, PathReadFails, PathHasFile
<1>5. CASE initialize \/ Crash
  <2>1. pathPc' \in {"scan", "down"}
    BY <1>5, Zenon DEF initialize, Crash
  <2> QED
    BY <2>1 DEF PathHasFile
<1>6. CASE UNCHANGED pathVars
  BY <1>1, <1>6 DEF pathVars, PathHasFile
<1>7. Process => UNCHANGED pathVars
  BY ProcessFrame, Zenon
<1>8. \/ Timer \/ NtpSynchronised \/ NtpTouch \/ NtpClockEvent
      \/ deepsleepoff \/ Resync \/ External
      => UNCHANGED pathVars
  BY Zenon DEF Timer, NtpSynchronised, NtpTouch, NtpClockEvent, NtpStep,
     deepsleepoff, Resync, External, ExternalTouch, ExternalWrite,
     ClockMoves, ExternalStep
<1> QED
  BY <1>2, <1>3, <1>4, <1>5, <1>6, <1>7, <1>8 DEF Next, PathMonitor

\* open(O_CREAT) comes before futimens().
LEMMA NextNtpHasFile ==
  ASSUME NtpHasFile, Next
  PROVE  NtpHasFile'
<1>1. files \subseteq files'
  BY FilesGrow
<1>2. CASE NtpSynchronised \/ NtpTouch \/ NtpClockEvent
  BY <1>2 DEF NtpSynchronised, NtpTouch, NtpClockEvent, NtpHasFile
<1>3. CASE initialize \/ Crash
  <2>1. ntpPc' \in {"poll", "done", "down"}
    BY <1>3, Zenon DEF initialize, Crash
  <2> QED
    BY <2>1 DEF NtpHasFile
<1>4. CASE UNCHANGED ntpVars
  BY <1>1, <1>4 DEF ntpVars, NtpHasFile
<1>5. Process => UNCHANGED ntpVars
  BY ProcessFrame, Zenon
<1>6. PathMonitor \/ PathReadFails => UNCHANGED ntpVars
  BY Zenon DEF PathMonitor, PathScan, PathScanSend, PathWatch, PathRead,
     PathSend, PathReadFails, PathStep
<1>7. Timer \/ deepsleepoff \/ Resync \/ External => UNCHANGED ntpVars
  BY Zenon DEF Timer, deepsleepoff, Resync, External, ExternalTouch,
     ExternalWrite, ClockMoves, ExternalStep
<1> QED
  BY <1>2, <1>3, <1>4, <1>5, <1>6, <1>7 DEF Next

\* A touch makes its file before its event.
LEMMA TouchHasFile ==
  ASSUME TypeOK, InotifyHasFile, NEW name \in Names, notifypathAvailable(name)
  PROVE  InotifyHasFile'
<1>1. [mask |-> "IN_ATTRIB", name |-> name] \in InotifyEvents
  BY DEF InotifyEvents
<1>2. CASE inotify' = Queued([mask |-> "IN_ATTRIB", name |-> name])
  <2>1. files \subseteq files'
    BY Zenon DEF notifypathAvailable
  <2>2. CASE name \in files'
    BY <1>1, <1>2, <2>1, <2>2, QueuedHasFile
  <2>3. CASE UNCHANGED inotify
    BY <2>1, <2>3 DEF InotifyHasFile
  <2> QED
    BY <2>2, <2>3, Zenon DEF notifypathAvailable
<1>3. CASE UNCHANGED inotify /\ files \subseteq files'
  BY <1>3 DEF InotifyHasFile
<1> QED
  BY <1>2, <1>3, Zenon DEF notifypathAvailable

\* Whoever adds an IN_ATTRIB event has made its file.
LEMMA NextInotifyHasFile ==
  ASSUME TypeOK, InotifyHasFile, NtpHasFile, Next
  PROVE  InotifyHasFile'
<1>1. files \subseteq files'
  BY FilesGrow
<1>2. CASE UNCHANGED inotify
  BY <1>1, <1>2 DEF InotifyHasFile
<1>3. CASE updateTimeStep \/ timerExpiryStep \/ updateClockRealTimeStep
  <2>1. Sources[loc.i] \in SourceTypes
    <3>1. LoopStep
      BY <1>3, Zenon
      DEF updateTimeStep, timerExpiryStep, updateClockRealTimeStep
    <3> QED
      BY <3>1, SourcesAssumption DEF LoopStep, TypeOK, Locals
  <2>2. PICK r \in getTimeSec(Sources[loc.i]) : SideEffect(Sources[loc.i], r)
    BY <1>3, Zenon
    DEF updateTimeStep, timerExpiryStep, updateClockRealTimeStep
  <2>3. CASE r.touches
    <3>1. /\ Sources[loc.i] \in Names
          /\ notifypathAvailable(Sources[loc.i])
      BY <2>1, <2>2, <2>3, SourceResult DEF SideEffect, Names
    <3> QED
      BY <3>1, TouchHasFile
  <2>4. CASE ~r.touches
    BY <1>2, <2>2, <2>4 DEF SideEffect, fsVars
  <2> QED
    BY <2>3, <2>4
<1>4. CASE PathRead
  <2>1. inotify \in Seq(InotifyEvents) /\ inotify # <<>>
    BY <1>4 DEF TypeOK, PathRead
  <2>2. inotify' = SubSeq(inotify, 9, Len(inotify))
    BY <1>4 DEF PathRead, EventsPerRead
  <2>3. \A k \in 1..Len(inotify') :
          k + 8 \in 1..Len(inotify) /\ inotify'[k] = inotify[k + 8]
    BY <2>1, <2>2
  <2> QED
    BY <1>1, <2>3 DEF InotifyHasFile
<1>5. CASE NtpTouch
  <2>1. [mask |-> "IN_ATTRIB", name |-> "ntp"] \in InotifyEvents
    BY DEF InotifyEvents, Names
  <2>2. "ntp" \in files'
    BY <1>1, <1>5 DEF NtpTouch, NtpHasFile
  <2> QED
    BY <1>1, <1>2, <1>5, <2>1, <2>2, QueuedHasFile DEF NtpTouch
<1>6. CASE ExternalTouch
  BY <1>6, TouchHasFile, NamesAssumption DEF ExternalTouch
<1>7. CASE ExternalWrite
  <2>1. PICK name \in Noise \cap files :
              inotify' = Queued([mask |-> "IN_MODIFY", name |-> name])
    BY <1>7 DEF ExternalWrite
  <2>2. [mask |-> "IN_MODIFY", name |-> name] \in InotifyEvents
    BY NamesAssumption DEF InotifyEvents
  <2> QED
    BY <1>1, <2>1, <2>2, QueuedHasFile
<1>8. CASE Crash \/ PathReadFails
  <2>1. inotify' = <<>>
    BY <1>8, Zenon DEF Crash, PathReadFails
  <2> QED
    BY <2>1 DEF InotifyHasFile
<1>9. \/ PathScan \/ PathScanSend \/ PathWatch \/ PathSend
      \/ initialize \/ Timer \/ NtpSynchronised \/ NtpClockEvent
      \/ deepsleepoff \/ Resync \/ ClockMoves
      => UNCHANGED inotify
  BY Zenon DEF PathScan, PathScanSend, PathWatch, PathSend, initialize,
     Timer, NtpSynchronised, NtpClockEvent, deepsleepoff, Resync, ClockMoves,
     fsVars
<1>10. Process => \/ updateTimeStep \/ timerExpiryStep
                  \/ updateClockRealTimeStep \/ UNCHANGED inotify
  BY Zenon
  DEF Process, IgnoreEvent, ntpFailed, ntpAquired, dttAquired,
      secureTimeAcquired, BeginLoop, updateTime, timerExpiry,
      updateSecureTime, updateClockRealTime, EndLoop, fsVars
<1> QED
  BY <1>2, <1>3, <1>4, <1>5, <1>6, <1>7, <1>8, <1>9, <1>10, Zenon
  DEF Next, PathMonitor, External

\* A state is only entered with the evidence for it.
LEMMA NextQualityHasEvidence ==
  ASSUME TypeOK, HandlerMatchesState, QueueHasEvidence, HandlerHasEvidence,
         QualityMatchesState, QualityHasEvidence, Next
  PROVE  QualityHasEvidence'
<1>1. files \subseteq files'
  BY FilesGrow
<1>2. CASE initialize \/ Crash
  <2>1. m_state' \in {"NTP_WAIT", "INIT"}
    BY <1>2, Zenon DEF initialize, Crash
  <2> QED
    BY <2>1 DEF QualityHasEvidence
<1>3. CASE ntpFailed
  BY <1>3 DEF ntpFailed, QualityHasEvidence
<1>4. CASE ntpAquired
  <2>1. Head(m_queue) = "NTP_AVAILABLE"
    BY <1>4, DispatchCell, TableCells DEF ntpAquired
  <2>2. Evidence("NTP_AVAILABLE")
    BY <1>4, <2>1, PoppedHasEvidence DEF ntpAquired
  <2> QED
    BY <1>1, <1>4, <2>2 DEF ntpAquired, QualityHasEvidence, Evidence
<1>5. CASE dttAquired
  <2>1. Head(m_queue) = "DTT_TIME_AVAILABLE"
    BY <1>5, DispatchCell, TableCells DEF dttAquired
  <2>2. Evidence("DTT_TIME_AVAILABLE")
    BY <1>5, <2>1, PoppedHasEvidence DEF dttAquired
  <2> QED
    BY <1>1, <1>5, <2>2 DEF dttAquired, QualityHasEvidence, Evidence
<1>6. CASE secureTimeAcquired
  <2>1. Head(m_queue) = "SECURE_TIME_AVAILABLE"
    BY <1>6, DispatchCell, TableCells DEF secureTimeAcquired
  <2>2. Evidence("SECURE_TIME_AVAILABLE")
    BY <1>6, <2>1, PoppedHasEvidence DEF secureTimeAcquired
  <2> QED
    BY <1>1, <1>6, <2>2 DEF secureTimeAcquired, QualityHasEvidence, Evidence
<1>7. CASE updateSecureTime
  <2>1. handler = "updateSecureTime"
    BY <1>7 DEF updateSecureTime, EndLoop
  <2>2. /\ loc.event \in Events /\ Evidence(loc.event)
        /\ HandlerOf(m_state, loc.event) = "updateSecureTime"
        /\ m_state \in States
    BY <2>1 DEF HandlerHasEvidence, HandlerMatchesState, TypeOK
  <2>3. \/ m_state = "NTP_ACQUIRED" /\ loc.event = "SECURE_TIME_AVAILABLE"
        \/ m_state = "SECURE_TIME_ACQUIRED" /\ loc.event = "NTP_AVAILABLE"
    BY <2>2, TableCells
  <2>4. files \cap {"ntp", "stt"} # {} /\ "drm" \in files
    BY <2>2, <2>3 DEF Evidence, QualityHasEvidence
  <2> QED
    BY <1>1, <1>7, <2>4 DEF updateSecureTime, QualityHasEvidence
<1>8. CASE deepsleepoff
  <2>1. up
    BY <1>8, Zenon DEF deepsleepoff, StateMutexFree
  <2> QED
    BY <1>1, <1>8, <2>1
    DEF deepsleepoff, ResetOnWake, QualityMatchesState, QualityHasEvidence
<1>9. CASE UNCHANGED m_state
  BY <1>1, <1>9 DEF QualityHasEvidence
<1> QED
  BY <1>2, <1>3, <1>4, <1>5, <1>6, <1>7, <1>8, <1>9, MgrWriters, Zenon

-----------------------------------------------------------------------------
(* The inductive invariant.                                                *)

\* The inductive invariant holds before the first start.
LEMMA InitIInv == Init => IInv
<1> SUFFICES ASSUME Init PROVE IInv
  OBVIOUS
<1>1. TypeOK /\ ScanIsInRange
  BY InitType
<1>2. /\ ~up /\ m_state = "INIT" /\ m_timequality = "UNKNOWN"
      /\ m_timersrc = "Last Known" /\ m_queue = <<>> /\ inotify = <<>>
      /\ handler = "none" /\ pathPc = "down" /\ ntpPc = "down"
      /\ powerPc = "idle"
  BY Zenon DEF Init
<1>3. DownIsReset /\ QualityMatchesState /\ HandlerMatchesState
  BY <1>2, Zenon DEF DownIsReset, QualityMatchesState, HandlerMatchesState
<1>4. SignalsHaveEvidence /\ QualityHasEvidence
  <2>1. Len(m_queue) = 0 /\ Len(inotify) = 0
    BY <1>2
  <2>2. InotifyHasFile /\ QueueHasEvidence
    BY <2>1 DEF InotifyHasFile, QueueHasEvidence
  <2>3. PathHasFile /\ HandlerHasEvidence /\ NtpHasFile
    BY <1>2 DEF PathHasFile, HandlerHasEvidence, NtpHasFile
  <2>4. QualityHasEvidence
    BY <1>2 DEF QualityHasEvidence
  <2> QED
    BY <2>2, <2>3, <2>4 DEF SignalsHaveEvidence
<1> QED
  BY <1>1, <1>3, <1>4 DEF IInv

\* The inductive invariant is preserved by every step.
LEMMA NextIInv == IInv /\ [Next]_vars => IInv'
<1> SUFFICES ASSUME IInv, [Next]_vars PROVE IInv'
  OBVIOUS
<1> USE DEF IInv, SignalsHaveEvidence
<1>1. CASE UNCHANGED vars
  <2>1. TypeOK' /\ ScanIsInRange'
    BY NextType
  <2>2. DownIsReset' /\ QualityMatchesState' /\ HandlerMatchesState'
    BY <1>1, Zenon
    DEF vars, DownIsReset, QualityMatchesState, HandlerMatchesState, HandlerOf
  <2>3. InotifyHasFile' /\ PathHasFile' /\ NtpHasFile' /\ QualityHasEvidence'
    BY <1>1
    DEF vars, InotifyHasFile, PathHasFile, NtpHasFile, QualityHasEvidence
  <2>4. QueueHasEvidence' /\ HandlerHasEvidence'
    BY <1>1, Zenon DEF vars, QueueHasEvidence, HandlerHasEvidence, Evidence
  <2> QED
    BY <2>1, <2>2, <2>3, <2>4
<1>2. CASE Next
  <2>1. TypeOK' /\ ScanIsInRange'
    BY NextType
  <2>2. DownIsReset' /\ QualityMatchesState' /\ HandlerMatchesState'
    BY <1>2, NextDownIsReset, NextQualityMatchesState,
       NextHandlerMatchesState
  <2>3. InotifyHasFile' /\ PathHasFile' /\ NtpHasFile'
    BY <1>2, NextInotifyHasFile, NextPathHasFile, NextNtpHasFile
  <2>4. QueueHasEvidence' /\ HandlerHasEvidence' /\ QualityHasEvidence'
    BY <1>2, NextQueueHasEvidence, NextHandlerHasEvidence,
       NextQualityHasEvidence
  <2> QED
    BY <2>1, <2>2, <2>3, <2>4
<1> QED
  BY <1>1, <1>2

\* The inductive invariant holds of every behaviour.
LEMMA IInvHolds == Spec => []IInv
BY InitIInv, NextIInv, PTL DEF Spec

\* m_state and m_timequality agree in every state of every behaviour, however
\* handlers, wakes, crashes and restarts interleave.
THEOREM QualityAndStateAgree == Spec => []QualityMatchesState
<1>1. IInv => QualityMatchesState
  BY DEF IInv
<1> QED
  BY <1>1, IInvHolds, PTL

\* No thread changes m_state under a handler that calls out over HTTP.
THEOREM HandlerIsNeverStale == Spec => []HandlerMatchesState
<1>1. IInv => HandlerMatchesState
  BY DEF IInv
<1> QED
  BY <1>1, IInvHolds, PTL

\* No quality without the file that stands for its source, whatever is
\* merged, dropped or reordered on the way from the file to the handler.
THEOREM QualityIsEvidenced == Spec => []QualityHasEvidence
<1>1. IInv => QualityHasEvidence
  BY DEF IInv
<1> QED
  BY <1>1, IInvHolds, PTL

=============================================================================
