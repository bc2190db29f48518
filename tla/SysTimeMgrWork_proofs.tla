----------------------- MODULE SysTimeMgrWork_proofs -----------------------
(***************************************************************************)
(* The loop from handlers to files to events to handlers runs out of work, *)
(* for every list of sources and every bound.                              *)
(***************************************************************************)
EXTENDS SysTimeMgr_proofs, FiniteSetTheorems, SequenceTheorems

-----------------------------------------------------------------------------
(* Timer expiries in a queue.                                              *)

\* There are finitely many of them.
LEMMA TimersFinite ==
  ASSUME NEW q \in Seq(Events)
  PROVE  IsFiniteSet(Timers(q)) /\ Cardinality(Timers(q)) \in Nat
<1>1. Len(q) \in Nat
  BY LenProperties
<1>2. IsFiniteSet(1..Len(q))
  BY <1>1, FS_Interval
<1>3. Timers(q) \in SUBSET (1..Len(q))
  BY DEF Timers
<1> QED
  BY <1>2, <1>3, FS_Subset, FS_CardinalityType

\* Sending an event adds one expiry if it is one, and none otherwise.
LEMMA TimersAppend ==
  ASSUME NEW q \in Seq(Events), NEW e \in Events
  PROVE  Cardinality(Timers(Append(q, e))) =
           Cardinality(Timers(q)) + (IF e = "TIMER_EXPIRY" THEN 1 ELSE 0)
<1> DEFINE s == Append(q, e)
<1>1. /\ Len(q) \in Nat /\ Len(s) = Len(q) + 1
      /\ \A i \in 1..Len(q) : s[i] = q[i]
      /\ s[Len(q) + 1] = e
  BY AppendProperties, LenProperties
<1> HIDE DEF s
<1>2. CASE e = "TIMER_EXPIRY"
  <2>1. Timers(s) = Timers(q) \cup {Len(q) + 1}
    BY <1>1, <1>2 DEF Timers
  <2>2. Len(q) + 1 \notin Timers(q)
    BY <1>1 DEF Timers
  <2>3. Cardinality(Timers(q) \cup {Len(q) + 1}) = Cardinality(Timers(q)) + 1
    BY <2>2, TimersFinite, FS_AddElement
  <2> QED
    BY <1>2, <2>1, <2>3 DEF s
<1>3. CASE e # "TIMER_EXPIRY"
  <2>1. Timers(s) = Timers(q)
    BY <1>1, <1>3 DEF Timers
  <2> QED
    BY <1>3, <2>1, TimersFinite DEF s
<1> QED
  BY <1>2, <1>3

\* Popping an event removes one expiry if it is one, and none otherwise.
LEMMA TimersTail ==
  ASSUME NEW q \in Seq(Events), q # <<>>
  PROVE  Cardinality(Timers(Tail(q))) =
           Cardinality(Timers(q)) - (IF Head(q) = "TIMER_EXPIRY" THEN 1 ELSE 0)
<1> DEFINE t == Tail(q)
<1>1. /\ t \in Seq(Events) /\ Len(t) = Len(q) - 1
      /\ \A i \in 1..Len(t) : t[i] = q[i + 1]
      /\ Head(q) = q[1] /\ Len(q) \in Nat \ {0}
  BY HeadTailProperties, EmptySeq, LenProperties
<1> HIDE DEF t
<1> DEFINE R == Timers(q) \ {1}
           f == [k \in Timers(t) |-> k + 1]
<1>2. f \in Bijection(Timers(t), R)
  <2>1. ASSUME NEW k \in Timers(t) PROVE k + 1 \in R
    BY <1>1 DEF Timers
  <2>2. f \in [Timers(t) -> R]
    BY <2>1
  <2>3. \A a, b \in Timers(t) : f[a] = f[b] => a = b
    BY DEF Timers
  <2>4. ASSUME NEW k \in R PROVE \E a \in Timers(t) : f[a] = k
    <3>1. k - 1 \in Timers(t)
      BY <1>1 DEF Timers
    <3>2. f[k - 1] = k
      BY <3>1 DEF Timers
    <3> QED
      BY <3>1, <3>2
  <2> QED
    BY <2>2, <2>3, <2>4 DEF Bijection, Injection, Surjection, IsInjective
<1>3. Cardinality(R) = Cardinality(Timers(t))
  <2>1. ExistsBijection(Timers(t), R)
    BY <1>2 DEF ExistsBijection
  <2> QED
    BY <1>1, <2>1, TimersFinite, FS_Bijection
<1>4. 1 \in Timers(q) <=> Head(q) = "TIMER_EXPIRY"
  BY <1>1 DEF Timers
<1>5. Cardinality(R) =
        IF 1 \in Timers(q) THEN Cardinality(Timers(q)) - 1
        ELSE Cardinality(Timers(q))
  BY TimersFinite, FS_RemoveElement
<1> QED
  BY <1>3, <1>4, <1>5, TimersFinite DEF t

-----------------------------------------------------------------------------
(* The parts of the work.                                                  *)

\* The number of sources and the work of a pass are numbers.
LEMMA PassWorkType ==
  /\ Len(Sources) \in Nat /\ PassWork \in Nat
  /\ PassWork = 4 * (Len(Sources) + 1) + 1
<1>1. Len(Sources) \in Nat
  BY SourcesAssumption, LenProperties
<1> QED
  BY <1>1 DEF PassWork, SignalWork

\* What multiplication has to do with it.
LEMMA Distribute ==
  ASSUME NEW p \in Nat, NEW n \in Nat
  PROVE  p * (n + 1) = p * n + p /\ p * (n - 1) = p * n - p /\ p * n \in Nat
OBVIOUS

\* Sending an event.
LEMMA SendWork ==
  ASSUME TypeOK, NEW e \in Events, m_queue' = Append(m_queue, e)
  PROVE  /\ QueueWork \in Nat
         /\ e = "TIMER_EXPIRY" => QueueWork' = QueueWork + 1 + PassWork
         /\ e # "TIMER_EXPIRY" => QueueWork' = QueueWork + 1
<1>1. m_queue \in Seq(Events)
  BY DEF TypeOK
<1> DEFINE n == Cardinality(Timers(m_queue))
<1>2. Len(m_queue) \in Nat /\ Len(m_queue') = Len(m_queue) + 1
  BY <1>1, AppendProperties, LenProperties
<1>3. n \in Nat
  BY <1>1, TimersFinite
<1>4. Cardinality(Timers(m_queue')) =
        n + (IF e = "TIMER_EXPIRY" THEN 1 ELSE 0)
  BY <1>1, TimersAppend
<1>5. /\ QueueWork = Len(m_queue) + PassWork * n
      /\ QueueWork' = Len(m_queue') + PassWork * Cardinality(Timers(m_queue'))
  BY DEF QueueWork
<1>6. PassWork * (n + 1) = PassWork * n + PassWork /\ PassWork * n \in Nat
  BY <1>3, PassWorkType, Distribute
<1>7. QueueWork \in Nat
  BY <1>2, <1>5, <1>6
<1>8. CASE e = "TIMER_EXPIRY"
  <2>1. Cardinality(Timers(m_queue')) = n + 1
    BY <1>3, <1>4, <1>8
  <2>2. QueueWork' = Len(m_queue) + 1 + (PassWork * n + PassWork)
    BY <1>2, <1>5, <1>6, <2>1
  <2> HIDE DEF n
  <2> QED
    BY <1>2, <1>5, <1>6, <1>7, <1>8, <2>2, PassWorkType
<1>9. CASE e # "TIMER_EXPIRY"
  <2>1. Cardinality(Timers(m_queue')) = n
    BY <1>3, <1>4, <1>9
  <2>2. QueueWork' = Len(m_queue) + 1 + PassWork * n
    BY <1>2, <1>5, <2>1
  <2> HIDE DEF n
  <2> QED
    BY <1>2, <1>5, <1>6, <1>7, <1>9, <2>2
<1> QED
  BY <1>7, <1>8, <1>9

\* Popping one.
LEMMA PopWork ==
  ASSUME TypeOK, m_queue # <<>>, m_queue' = Tail(m_queue)
  PROVE  /\ QueueWork \in Nat
         /\ Head(m_queue) = "TIMER_EXPIRY" =>
              QueueWork' = QueueWork - 1 - PassWork
         /\ Head(m_queue) # "TIMER_EXPIRY" => QueueWork' = QueueWork - 1
<1>1. m_queue \in Seq(Events)
  BY DEF TypeOK
<1> DEFINE n == Cardinality(Timers(m_queue))
<1>2. Len(m_queue) \in Nat /\ Len(m_queue') = Len(m_queue) - 1
  BY <1>1, HeadTailProperties, LenProperties
<1>3. n \in Nat
  BY <1>1, TimersFinite
<1>4. Cardinality(Timers(m_queue')) =
        n - (IF Head(m_queue) = "TIMER_EXPIRY" THEN 1 ELSE 0)
  BY <1>1, TimersTail
<1>5. /\ QueueWork = Len(m_queue) + PassWork * n
      /\ QueueWork' = Len(m_queue') + PassWork * Cardinality(Timers(m_queue'))
  BY DEF QueueWork
<1>6. PassWork * (n - 1) = PassWork * n - PassWork /\ PassWork * n \in Nat
  BY <1>3, PassWorkType, Distribute
<1>7. QueueWork \in Nat
  BY <1>2, <1>5, <1>6
<1>8. CASE Head(m_queue) = "TIMER_EXPIRY"
  <2>1. Cardinality(Timers(m_queue')) = n - 1
    BY <1>3, <1>4, <1>8
  <2>2. QueueWork' = (Len(m_queue) - 1) + (PassWork * n - PassWork)
    BY <1>2, <1>5, <1>6, <2>1
  <2> HIDE DEF n
  <2> QED
    BY <1>2, <1>5, <1>6, <1>7, <1>8, <2>2, PassWorkType
<1>9. CASE Head(m_queue) # "TIMER_EXPIRY"
  <2>1. Cardinality(Timers(m_queue')) = n
    BY <1>3, <1>4, <1>9
  <2>2. QueueWork' = (Len(m_queue) - 1) + PassWork * n
    BY <1>2, <1>5, <2>1
  <2> HIDE DEF n
  <2> QED
    BY <1>2, <1>5, <1>6, <1>7, <1>9, <2>2
<1> QED
  BY <1>7, <1>8, <1>9

\* The inotify queue is as long as a number; what is queued for it adds at
\* most one event.
LEMMA QueuedLength ==
  ASSUME TypeOK, NEW event \in InotifyEvents
  PROVE  Len(inotify) \in Nat /\ Len(Queued(event)) <= Len(inotify) + 1
<1>1. inotify \in Seq(InotifyEvents) /\ Len(inotify) \in Nat
  BY LenProperties DEF TypeOK
<1>2. [mask |-> "IN_Q_OVERFLOW", name |-> ""] \in InotifyEvents
  BY DEF InotifyEvents
<1>3. \A e \in InotifyEvents : Len(Append(inotify, e)) = Len(inotify) + 1
  BY <1>1, AppendProperties
<1> DEFINE e == IF Len(inotify) < MaxInotify THEN event
                ELSE [mask |-> "IN_Q_OVERFLOW", name |-> ""]
<1>4. e \in InotifyEvents
  BY <1>2
<1>5. Queued(event) \in {inotify, Append(inotify, e)}
  BY Zenon DEF Queued
<1> HIDE DEF e
<1> QED
  BY <1>1, <1>3, <1>4, <1>5

\* So does touching a file.
LEMMA TouchLength ==
  ASSUME TypeOK, NEW name \in Names, notifypathAvailable(name)
  PROVE  Len(inotify') <= Len(inotify) + 1
<1>1. [mask |-> "IN_ATTRIB", name |-> name] \in InotifyEvents
  BY DEF InotifyEvents
<1>2. Len(inotify) \in Nat
  BY LenProperties DEF TypeOK
<1> QED
  BY <1>1, <1>2, QueuedLength DEF notifypathAvailable

\* And so does a call of getTimeSec().
LEMMA SideEffectLength ==
  ASSUME TypeOK, NEW src \in SourceTypes, NEW r \in getTimeSec(src),
         SideEffect(src, r)
  PROVE  Len(inotify') <= Len(inotify) + 1
<1>1. Len(inotify) \in Nat
  BY LenProperties DEF TypeOK
<1>2. CASE r.touches
  <2>1. src \in Names /\ notifypathAvailable(src)
    BY <1>2, SourceResult DEF SideEffect, Names
  <2> QED
    BY <2>1, TouchLength
<1>3. CASE ~r.touches
  BY <1>1, <1>3 DEF SideEffect, fsVars
<1> QED
  BY <1>2, <1>3

\* Every part of the work is a number, so none can fall for ever.
LEMMA WorkTypes ==
  ASSUME TypeOK, LoopIsInRange
  PROVE  /\ QueueWork \in Nat /\ SecureWork \in Nat /\ HandlerWork \in Nat
         /\ InotifyWork \in Nat /\ PathWork \in Nat /\ NtpWork \in Nat
         /\ PowerWork \in Nat
<1>1. QueueWork \in Nat
  <2>1. Len(m_queue) \in Nat /\ Cardinality(Timers(m_queue)) \in Nat
    BY TimersFinite, LenProperties DEF TypeOK
  <2>2. PassWork * Cardinality(Timers(m_queue)) \in Nat
    BY <2>1, PassWorkType, Distribute
  <2> QED
    BY <2>1, <2>2 DEF QueueWork
<1>2. SecureWork \in Nat
  BY PassWorkType DEF SecureWork
<1>3. HandlerWork \in Nat
  <2>1. CASE handler = "none"
    BY <2>1 DEF HandlerWork
  <2>2. CASE handler # "none"
    <3>1. Len(Sources) + 1 - loc.i \in Nat
      BY <2>2, PassWorkType DEF LoopIsInRange, TypeOK, Locals
    <3> QED
      BY <2>2, <3>1 DEF HandlerWork, SignalWork
  <2> QED
    BY <2>1, <2>2
<1>4. InotifyWork \in Nat
  BY LenProperties DEF TypeOK, InotifyWork, SignalWork
<1>5. PathWork \in Nat
  BY DEF PathWork, SignalWork, TypeOK
<1>6. NtpWork \in Nat
  BY DEF NtpWork, SignalWork, TypeOK
<1>7. PowerWork \in Nat
  BY DEF PowerWork
<1> QED
  BY <1>1, <1>2, <1>3, <1>4, <1>5, <1>6, <1>7

\* What leaves a part of the state alone leaves its work alone.
LEMMA WorkFrame ==
  /\ UNCHANGED m_queue => QueueWork' = QueueWork
  /\ UNCHANGED <<m_state, handler>> => SecureWork' = SecureWork
  /\ UNCHANGED <<handler, loc>> => HandlerWork' = HandlerWork
  /\ UNCHANGED inotify => InotifyWork' = InotifyWork
  /\ UNCHANGED <<pathPc, pathK>> => PathWork' = PathWork
  /\ UNCHANGED ntpPc => NtpWork' = NtpWork
  /\ UNCHANGED powerPc => PowerWork' = PowerWork
<1>1. UNCHANGED m_queue => QueueWork' = QueueWork
  BY Zenon DEF QueueWork, Timers
<1>2. UNCHANGED <<m_state, handler>> => SecureWork' = SecureWork
  BY DEF SecureWork
<1>3. UNCHANGED <<handler, loc>> => HandlerWork' = HandlerWork
  BY DEF HandlerWork
<1>4. /\ UNCHANGED inotify => InotifyWork' = InotifyWork
      /\ UNCHANGED <<pathPc, pathK>> => PathWork' = PathWork
  BY DEF InotifyWork, PathWork
<1>5. /\ UNCHANGED ntpPc => NtpWork' = NtpWork
      /\ UNCHANGED powerPc => PowerWork' = PowerWork
  BY DEF NtpWork, PowerWork
<1> QED
  BY <1>1, <1>2, <1>3, <1>4, <1>5

\* The work is the sum of its parts, and so is what a step does to it.
LEMMA WorkSum ==
  /\ Work = QueueWork + SecureWork + HandlerWork + InotifyWork
              + PathWork + NtpWork + PowerWork
  /\ Work' = QueueWork' + SecureWork' + HandlerWork' + InotifyWork'
               + PathWork' + NtpWork' + PowerWork'
BY DEF Work

\* Which events start a pass: a timer expiry never starts the secure update,
\* a file event starts nothing else, and nothing starts it in RUNNING.
LEMMA PassCells ==
  ASSUME NEW s \in States, NEW e \in Events, HandlerOf(s, e) \in LoopHandlers
  PROVE  \/ HandlerOf(s, e) = "updateSecureTime" /\ s # "RUNNING"
              /\ e # "TIMER_EXPIRY"
         \/ HandlerOf(s, e) # "updateSecureTime" /\ e = "TIMER_EXPIRY"
<1> USE DEF HandlerOf, States, LoopHandlers
<1>1. CASE e = "TIMER_EXPIRY"
  BY <1>1 DEF OnTimer
<1>2. CASE e = "NTP_AVAILABLE"
  BY <1>2 DEF OnNtp
<1>3. CASE e = "SECURE_TIME_AVAILABLE"
  BY <1>3 DEF OnSecure
<1>4. CASE e = "DTT_TIME_AVAILABLE"
  BY <1>4 DEF OnDtt
<1> QED
  BY <1>1, <1>2, <1>3, <1>4 DEF Events

\* No handler that only assigns stands in RUNNING's row.
LEMMA RunningCells ==
  ASSUME NEW e \in Events
  PROVE  HandlerOf("RUNNING", e) \notin {"ntpFailed", "ntpAquired",
                                         "dttAquired", "secureTimeAcquired"}
<1> USE DEF HandlerOf
<1>1. CASE e = "TIMER_EXPIRY"
  BY <1>1 DEF OnTimer
<1>2. CASE e # "TIMER_EXPIRY"
  BY <1>2 DEF OnNtp, OnSecure, OnDtt, Events
<1> QED
  BY <1>1, <1>2

-----------------------------------------------------------------------------
(* Two facts the argument needs of every state.                            *)

\* What a source does to the local variables of a pass: the next source, or
\* the same one again after the clock provider was read.
LEMMA PassStep ==
  ASSUME TypeOK, updateTimeStep \/ timerExpiryStep \/ updateClockRealTimeStep
  PROVE  /\ LoopStep /\ loc.i \in Nat \ {0} /\ loc.i <= Len(Sources)
         /\ loc.clock_acquired \in BOOLEAN
         /\ \/ loc'.i = loc.i + 1 /\ loc'.clock_acquired = loc.clock_acquired
            \/ loc'.i = loc.i /\ ~loc.clock_acquired /\ loc'.clock_acquired
         /\ \E r \in getTimeSec(Sources[loc.i]) : SideEffect(Sources[loc.i], r)
<1>1. LoopStep /\ loc \in Locals /\ loc.i <= Len(Sources)
  BY Zenon DEF updateTimeStep, timerExpiryStep, updateClockRealTimeStep,
     LoopStep, TypeOK
<1>2. loc.i \in Nat \ {0} /\ loc.clock_acquired \in BOOLEAN
  BY <1>1 DEF Locals
<1>3. \E r \in getTimeSec(Sources[loc.i]) : SideEffect(Sources[loc.i], r)
  BY Zenon DEF updateTimeStep, timerExpiryStep, updateClockRealTimeStep
<1> DEFINE Moves ==
      \/ loc'.i = loc.i + 1 /\ loc'.clock_acquired = loc.clock_acquired
      \/ loc'.i = loc.i /\ ~loc.clock_acquired /\ loc'.clock_acquired
<1>4. CASE updateTimeStep
  BY <1>1, <1>4 DEF updateTimeStep, Locals
<1>5. CASE timerExpiryStep
  BY <1>1, <1>5 DEF timerExpiryStep, ReadSource, Locals
<1>6. CASE updateClockRealTimeStep
  BY <1>1, <1>6 DEF updateClockRealTimeStep, Locals
<1>7. Moves
  BY <1>4, <1>5, <1>6
<1> QED
  BY <1>1, <1>2, <1>3, <1>7, Zenon

\* No step takes a pass beyond the sources.
LEMMA NextLoopIsInRange ==
  ASSUME TypeOK, DownIsReset, LoopIsInRange, Next
  PROVE  LoopIsInRange'
<1>1. CASE updateTimeStep \/ timerExpiryStep \/ updateClockRealTimeStep
  <2>1. loc'.i <= Len(Sources) + 1
    BY <1>1, PassStep, PassWorkType
  <2> QED
    BY <2>1 DEF LoopIsInRange
<1>2. ASSUME NEW h \in LoopHandlers, BeginLoop(h) PROVE LoopIsInRange'
  <2>1. loc'.i = 1
    BY <1>2 DEF BeginLoop, NoLocals
  <2> QED
    BY <2>1, PassWorkType DEF LoopIsInRange
<1>3. CASE handler' = "none"
  BY <1>3 DEF LoopIsInRange
<1>4. CASE UNCHANGED procVars
  BY <1>4 DEF LoopIsInRange, procVars
<1>5. Process => \/ updateTimeStep \/ timerExpiryStep
                 \/ updateClockRealTimeStep
                 \/ \E h \in LoopHandlers : BeginLoop(h)
                 \/ handler' = "none" \/ UNCHANGED procVars
  BY Zenon DEF Process, IgnoreEvent, ntpFailed, ntpAquired, dttAquired,
     secureTimeAcquired, updateTime, timerExpiry, updateSecureTime,
     updateClockRealTime, EndLoop
<1>6. PathMonitor \/ PathReadFails => UNCHANGED procVars
  BY Zenon DEF PathMonitor, PathScan, PathScanSend, PathWatch, PathRead,
     PathSend, PathReadFails, PathStep
<1>7. NtpSynchronised \/ NtpTouch \/ NtpClockEvent => UNCHANGED procVars
  BY Zenon DEF NtpSynchronised, NtpTouch, NtpClockEvent, NtpStep
<1>8. initialize \/ Timer \/ deepsleepoff \/ Resync \/ External
        => UNCHANGED procVars
  BY Zenon DEF initialize, Timer, deepsleepoff, Resync, External,
     ExternalTouch, ExternalWrite, ClockMoves, ExternalStep
<1>9. Crash => handler' = "none"
  BY Zenon DEF Crash
<1> QED
  BY <1>1, <1>2, <1>3, <1>4, <1>5, <1>6, <1>7, <1>8, <1>9, Zenon DEF Next

\* Nothing reaches a kernel queue that is not watched.
LEMMA QueuedIsWatched ==
  ASSUME UnreadIsWatched, UNCHANGED pathPc
  PROVE  /\ \A event : inotify' = Queued(event) => UnreadIsWatched'
         /\ \A name : notifypathAvailable(name) => UnreadIsWatched'
         /\ UNCHANGED inotify => UnreadIsWatched'
<1>1. UNCHANGED inotify => UnreadIsWatched'
  BY DEF UnreadIsWatched, Watching
<1>2. ASSUME NEW event, inotify' = Queued(event) PROVE UnreadIsWatched'
  <2>1. ~Watching => inotify' = inotify
    BY <1>2, Zenon DEF Queued
  <2> QED
    BY <1>1, <2>1 DEF UnreadIsWatched, Watching
<1> QED
  BY <1>1, <1>2, Zenon DEF notifypathAvailable

\* No step leaves a signal in a queue that nobody reads.
LEMMA NextUnreadIsWatched ==
  ASSUME TypeOK, DownIsReset, UnreadIsWatched, Next
  PROVE  UnreadIsWatched'
<1>1. CASE Process
  <2>1. UNCHANGED pathPc
    BY <1>1, ProcessFrame, Zenon DEF pathVars
  <2>2. UNCHANGED inotify \/ \E name : notifypathAvailable(name)
    <3>1. \A src, r : SideEffect(src, r) =>
            UNCHANGED inotify \/ notifypathAvailable(src)
      BY Zenon DEF SideEffect, fsVars
    <3> QED
      BY <1>1, <3>1, Zenon
      DEF Process, IgnoreEvent, ntpFailed, ntpAquired, dttAquired,
          secureTimeAcquired, BeginLoop, updateTimeStep, timerExpiryStep,
          updateClockRealTimeStep, updateTime, timerExpiry, updateSecureTime,
          updateClockRealTime, EndLoop, fsVars
  <2> QED
    BY <2>1, <2>2, QueuedIsWatched
<1>2. CASE PathMonitor \/ PathReadFails
  BY <1>2 DEF PathMonitor, PathScan, PathScanSend, PathWatch, PathRead,
     PathSend, PathReadFails, UnreadIsWatched, Watching
<1>3. CASE NtpSynchronised \/ NtpTouch \/ NtpClockEvent
  <2>1. UNCHANGED pathPc
    BY <1>3, Zenon DEF NtpSynchronised, NtpTouch, NtpClockEvent, NtpStep,
       pathVars
  <2>2. UNCHANGED inotify \/ \E event : inotify' = Queued(event)
    BY <1>3, Zenon DEF NtpSynchronised, NtpTouch, NtpClockEvent, fsVars
  <2> QED
    BY <2>1, <2>2, QueuedIsWatched
<1>4. CASE External
  <2>1. UNCHANGED pathPc
    BY <1>4, Zenon DEF External, ExternalTouch, ExternalWrite, ClockMoves,
       ExternalStep, pathVars
  <2>2. \/ UNCHANGED inotify
        \/ \E event : inotify' = Queued(event)
        \/ \E name : notifypathAvailable(name)
    BY <1>4, Zenon DEF External, ExternalTouch, ExternalWrite, ClockMoves,
       fsVars
  <2> QED
    BY <2>1, <2>2, QueuedIsWatched
<1>5. CASE initialize
  <2>1. pathPc = "down" /\ UNCHANGED inotify
    BY <1>5, Zenon DEF initialize, DownIsReset, fsVars
  <2> QED
    BY <2>1 DEF UnreadIsWatched, Watching
<1>6. CASE Crash
  <2>1. inotify' = <<>>
    BY <1>6, Zenon DEF Crash
  <2> QED
    BY <2>1 DEF UnreadIsWatched
<1>7. CASE Timer \/ deepsleepoff \/ Resync
  <2>1. UNCHANGED <<pathPc, inotify>>
    BY <1>7, Zenon DEF Timer, deepsleepoff, Resync, pathVars, fsVars
  <2> QED
    BY <2>1, QueuedIsWatched
<1> QED
  BY <1>1, <1>2, <1>3, <1>4, <1>5, <1>6, <1>7 DEF Next

\* Both hold of every behaviour.
LEMMA WorkInvHolds == Spec => [](IInv /\ LoopIsInRange /\ UnreadIsWatched)
<1> DEFINE Inv == LoopIsInRange /\ UnreadIsWatched
<1>1. Init => Inv
  <2>1. Init => handler = "none" /\ inotify = <<>>
    BY Zenon DEF Init
  <2> QED
    BY <2>1 DEF LoopIsInRange, UnreadIsWatched
<1>2. IInv /\ Inv /\ [Next]_vars => Inv'
  <2> SUFFICES ASSUME IInv, Inv, [Next]_vars PROVE Inv'
    OBVIOUS
  <2>1. CASE UNCHANGED vars
    BY <2>1 DEF vars, LoopIsInRange, UnreadIsWatched, Watching
  <2>2. CASE Next
    BY <2>2, NextLoopIsInRange, NextUnreadIsWatched DEF IInv
  <2> QED
    BY <2>1, <2>2
<1> QED
  BY <1>1, <1>2, IInvHolds, PTL DEF Spec

-----------------------------------------------------------------------------
(* What each step does to the work.                                        *)

\* A handler that only assigns, or no handler: the event is gone, and m_state
\* is not taken out of RUNNING.
LEMMA AssignWork ==
  ASSUME TypeOK, LoopIsInRange,
         \/ IgnoreEvent \/ ntpFailed \/ ntpAquired \/ dttAquired
         \/ secureTimeAcquired
  PROVE  Work' < Work
<1>1. PICK h : Dispatch(h) /\ UNCHANGED <<procVars, fsVars>>
                 /\ (UNCHANGED m_state \/ h \in {"ntpFailed", "ntpAquired",
                                     "dttAquired", "secureTimeAcquired"})
  BY Zenon DEF IgnoreEvent, ntpFailed, ntpAquired, dttAquired,
     secureTimeAcquired, mgrVars
<1>2. m_queue # <<>> /\ m_queue' = Tail(m_queue)
  BY <1>1, Zenon DEF Dispatch
<1>3. QueueWork' <= QueueWork - 1 /\ QueueWork' \in Int
  BY <1>2, PopWork, PassWorkType
<1>4. SecureWork' <= SecureWork /\ SecureWork' \in Int
  <2>1. handler' = handler
    BY <1>1, Zenon DEF procVars
  <2>2. CASE UNCHANGED m_state
    BY <2>1, <2>2, PassWorkType DEF SecureWork
  <2>3. CASE h \in {"ntpFailed", "ntpAquired", "dttAquired",
                    "secureTimeAcquired"}
    <3>1. m_state # "RUNNING"
      BY <1>1, <2>3, DispatchCell, RunningCells
    <3> QED
      BY <2>1, <3>1, PassWorkType DEF SecureWork
  <2> QED
    BY <1>1, <2>2, <2>3
<1>5. /\ UNCHANGED <<handler, loc>> /\ UNCHANGED inotify
      /\ UNCHANGED <<pathPc, pathK>> /\ UNCHANGED ntpPc /\ UNCHANGED powerPc
  BY <1>1, Zenon DEF Dispatch, procVars, fsVars, pathVars, ntpVars
<1>6. /\ HandlerWork' = HandlerWork /\ InotifyWork' = InotifyWork
      /\ PathWork' = PathWork /\ NtpWork' = NtpWork /\ PowerWork' = PowerWork
  BY <1>5, WorkFrame
<1> QED
  BY <1>3, <1>4, <1>6, WorkTypes, WorkSum

\* The start of a pass is paid for by the timer expiry that is popped, or by
\* the one secure update that is left.
LEMMA BeginWork ==
  ASSUME TypeOK, LoopIsInRange, NEW h \in LoopHandlers, BeginLoop(h)
  PROVE  Work' < Work
<1>1. /\ Dispatch(h) /\ handler = "none" /\ handler' = h
      /\ UNCHANGED <<m_state, inotify, ntpPc, powerPc>>
      /\ UNCHANGED <<pathPc, pathK>>
      /\ m_queue # <<>> /\ m_queue' = Tail(m_queue)
  BY Zenon DEF BeginLoop, Dispatch, QueueMutexFree, mgrVars, fsVars, ntpVars,
     pathVars
<1>2. /\ QueueWork \in Nat
      /\ Head(m_queue) = "TIMER_EXPIRY" =>
           QueueWork' = QueueWork - 1 - PassWork
      /\ Head(m_queue) # "TIMER_EXPIRY" => QueueWork' = QueueWork - 1
  BY <1>1, PopWork
<1>3. HandlerWork = 0 /\ HandlerWork' = PassWork
  <2>1. loc'.i = 1 /\ loc'.clock_acquired = FALSE
    BY DEF BeginLoop, NoLocals
  <2>2. h # "none"
    BY DEF LoopHandlers
  <2> QED
    BY <1>1, <2>1, <2>2, PassWorkType DEF HandlerWork, PassWork, SignalWork
<1>4. \/ /\ h = "updateSecureTime" /\ m_state # "RUNNING"
         /\ Head(m_queue) # "TIMER_EXPIRY"
      \/ h # "updateSecureTime" /\ Head(m_queue) = "TIMER_EXPIRY"
  BY <1>1, DispatchCell, PassCells
<1>5. QueueWork' + SecureWork' + HandlerWork'
        = QueueWork + SecureWork + HandlerWork - 1
  <2>1. CASE h = "updateSecureTime"
    <3>1. SecureWork = PassWork /\ SecureWork' = 0
      BY <1>1, <1>4, <2>1 DEF SecureWork
    <3>2. QueueWork' = QueueWork - 1
      BY <1>2, <1>4, <2>1
    <3> QED
      BY <1>2, <1>3, <3>1, <3>2, PassWorkType
  <2>2. CASE h # "updateSecureTime"
    <3>1. SecureWork' = SecureWork
      BY <1>1, <2>2 DEF SecureWork
    <3>2. QueueWork' = QueueWork - 1 - PassWork
      BY <1>2, <1>4, <2>2
    <3> QED
      BY <1>2, <1>3, <3>1, <3>2, PassWorkType, WorkTypes
  <2> QED
    BY <2>1, <2>2
<1>6. /\ InotifyWork' = InotifyWork
      /\ PathWork' = PathWork /\ NtpWork' = NtpWork /\ PowerWork' = PowerWork
  BY <1>1, WorkFrame
<1> QED
  BY <1>5, <1>6, WorkTypes, WorkSum

\* A source costs its step and at most the signal it makes.
LEMMA SourceWork ==
  ASSUME TypeOK, TypeOK', LoopIsInRange,
         updateTimeStep \/ timerExpiryStep \/ updateClockRealTimeStep
  PROVE  Work' < Work
<1>1. /\ LoopStep /\ loc.i \in Nat \ {0} /\ loc.i <= Len(Sources)
      /\ loc.clock_acquired \in BOOLEAN
      /\ \/ loc'.i = loc.i + 1 /\ loc'.clock_acquired = loc.clock_acquired
         \/ loc'.i = loc.i /\ ~loc.clock_acquired /\ loc'.clock_acquired
  BY PassStep
<1>2. /\ handler # "none" /\ UNCHANGED m_queue
      /\ UNCHANGED <<m_state, handler>> /\ UNCHANGED <<pathPc, pathK>>
      /\ UNCHANGED ntpPc /\ UNCHANGED powerPc
  BY <1>1, Zenon DEF LoopStep, mgrVars, pathVars, ntpVars
<1>3. HandlerWork' = HandlerWork - 4
  <2> DEFINE left == Len(Sources) + 1 - loc.i
  <2>1. left \in Nat /\ Len(Sources) + 1 - loc'.i \in {left, left - 1}
    BY <1>1, PassWorkType
  <2>2. HandlerWork = 4 * (left + (IF loc.clock_acquired THEN 0 ELSE 1)) + 1
    BY <1>2 DEF HandlerWork, SignalWork
  <2>3. HandlerWork' = 4 * (Len(Sources) + 1 - loc'.i
                             + (IF loc'.clock_acquired THEN 0 ELSE 1)) + 1
    BY <1>2 DEF HandlerWork, SignalWork
  <2>4. CASE loc'.i = loc.i + 1 /\ loc'.clock_acquired = loc.clock_acquired
    <3>1. CASE loc.clock_acquired
      <4>1. loc'.clock_acquired
        BY <2>4, <3>1, Zenon
      <4> QED
        BY <1>1, <2>2, <2>3, <2>4, <3>1, <4>1, PassWorkType
    <3>2. CASE ~loc.clock_acquired
      <4>1. ~loc'.clock_acquired
        BY <2>4, <3>2, Zenon
      <4> QED
        BY <1>1, <2>2, <2>3, <2>4, <3>2, <4>1, PassWorkType
    <3> QED
      BY <3>1, <3>2
  <2>5. CASE loc'.i = loc.i /\ ~loc.clock_acquired /\ loc'.clock_acquired
    BY <1>1, <2>2, <2>3, <2>5, PassWorkType
  <2> QED
    BY <1>1, <2>4, <2>5
<1>4. InotifyWork' \in Nat /\ InotifyWork' <= InotifyWork + 3
  <2>1. PICK r \in getTimeSec(Sources[loc.i]) : SideEffect(Sources[loc.i], r)
    BY PassStep
  <2>2. Sources[loc.i] \in SourceTypes
    BY <1>1, SourcesAssumption
  <2>3. Len(inotify') <= Len(inotify) + 1
    BY <2>1, <2>2, SideEffectLength
  <2> QED
    BY <2>3, LenProperties DEF TypeOK, InotifyWork, SignalWork
<1>5. /\ QueueWork' = QueueWork /\ SecureWork' = SecureWork
      /\ PathWork' = PathWork /\ NtpWork' = NtpWork /\ PowerWork' = PowerWork
  BY <1>2, WorkFrame
<1> QED
  BY <1>3, <1>4, <1>5, WorkTypes, WorkSum

\* The end of a pass leaves nothing of it.
LEMMA EndWork ==
  ASSUME TypeOK, LoopIsInRange,
         updateTime \/ timerExpiry \/ updateSecureTime \/ updateClockRealTime
  PROVE  Work' < Work
<1>1. /\ handler # "none" /\ handler' = "none"
      /\ UNCHANGED m_queue /\ UNCHANGED inotify
      /\ UNCHANGED <<pathPc, pathK>> /\ UNCHANGED ntpPc /\ UNCHANGED powerPc
  <2>1. PICK h \in LoopHandlers : EndLoop(h)
    BY Zenon DEF updateTime, timerExpiry, updateSecureTime,
       updateClockRealTime, LoopHandlers
  <2>2. h # "none"
    BY DEF LoopHandlers
  <2> QED
    BY <2>1, <2>2, Zenon DEF EndLoop, fsVars, pathVars, ntpVars
<1>2. HandlerWork >= 1 /\ HandlerWork' = 0
  <2>1. Len(Sources) + 1 - loc.i \in Nat
    BY <1>1, PassWorkType DEF LoopIsInRange, TypeOK, Locals
  <2> QED
    BY <1>1, <2>1 DEF HandlerWork, SignalWork
<1>3. SecureWork' <= SecureWork /\ SecureWork' \in Int
  <2>1. CASE updateSecureTime
    <3>1. m_state' = "RUNNING" /\ handler = "updateSecureTime"
      BY <2>1, Zenon DEF updateSecureTime, EndLoop
    <3> QED
      BY <3>1 DEF SecureWork
  <2>2. CASE updateTime \/ timerExpiry \/ updateClockRealTime
    <3>1. UNCHANGED m_state /\ handler # "updateSecureTime"
      BY <2>2 DEF updateTime, timerExpiry, updateClockRealTime, EndLoop,
         mgrVars
    <3> QED
      BY <1>1, <3>1, PassWorkType DEF SecureWork
  <2> QED
    BY <2>1, <2>2
<1>4. /\ QueueWork' = QueueWork /\ InotifyWork' = InotifyWork
      /\ PathWork' = PathWork /\ NtpWork' = NtpWork /\ PowerWork' = PowerWork
  BY <1>1, WorkFrame
<1> QED
  BY <1>2, <1>3, <1>4, WorkTypes, WorkSum

\* Every step of processThr lowers the work.
LEMMA ProcessWork ==
  ASSUME TypeOK, TypeOK', LoopIsInRange, Process
  PROVE  Work' < Work
BY AssignWork, BeginWork, SourceWork, EndWork DEF Process

\* What the path monitor, and a step of another thread, leaves alone.
LEMMA PathFrame ==
  ASSUME PathMonitor \/ PathReadFails
  PROVE  /\ SecureWork' = SecureWork /\ HandlerWork' = HandlerWork
         /\ NtpWork' = NtpWork /\ PowerWork' = PowerWork
<1>1. /\ UNCHANGED <<m_state, handler>> /\ UNCHANGED <<handler, loc>>
      /\ UNCHANGED ntpPc /\ UNCHANGED powerPc
  BY Zenon DEF PathMonitor, PathScan, PathScanSend, PathWatch, PathRead,
     PathSend, PathReadFails, PathStep, mgrVars, procVars, ntpVars
<1> QED
  BY <1>1, WorkFrame

\* The path monitor handles every signal once: reading it, sending its event
\* and going on take a step of their own each.
LEMMA PathMonitorWork ==
  ASSUME TypeOK, TypeOK', ScanIsInRange, LoopIsInRange,
         PathMonitor \/ PathReadFails
  PROVE  Work' < Work
<1>1. /\ QueueWork \in Nat /\ InotifyWork \in Nat /\ PathWork \in Nat
      /\ pathK \in 1..5 /\ pathName \in Names
  BY WorkTypes DEF TypeOK
<1>2. \A name \in Names : PathEvent(name) \in Events \ {"TIMER_EXPIRY"}
  BY DEF Names, PathEvent, Events
<1>3. sendMessage(PathEvent(pathName)) => QueueWork' = QueueWork + 1
  BY <1>1, <1>2, SendWork DEF sendMessage
<1>4. /\ QueueWork' \in Int /\ InotifyWork' \in Int /\ PathWork' \in Int
      /\ QueueWork' + InotifyWork' + PathWork'
           <= QueueWork + InotifyWork + PathWork - 1
  <2>1. CASE PathScan
    <3>1. QueueWork' = QueueWork /\ InotifyWork' = InotifyWork
      BY <2>1, WorkFrame DEF PathScan
    <3>2. PathWork' = PathWork - 2 \/ PathWork' = PathWork - 4
      BY <1>1, <2>1 DEF PathScan, PathWork, PathOrder
    <3> QED
      BY <1>1, <3>1, <3>2
  <2>2. CASE PathScanSend
    <3>1. QueueWork' = QueueWork + 1 /\ InotifyWork' = InotifyWork
      BY <1>3, <2>2, WorkFrame DEF PathScanSend
    <3>2. PathWork' = PathWork - 2
      BY <1>1, <2>2 DEF PathScanSend, PathWork, ScanIsInRange
    <3> QED
      BY <1>1, <3>1, <3>2
  <2>3. CASE PathWatch
    <3>1. QueueWork' = QueueWork /\ InotifyWork' = InotifyWork
      BY <2>3, WorkFrame DEF PathWatch
    <3>2. PathWork' = PathWork - 1 \/ PathWork' = PathWork - 2
      BY <1>1, <2>3 DEF PathWatch, PathWork, PathOrder
    <3> QED
      BY <1>1, <3>1, <3>2
  <2>4. CASE PathRead
    <3>1. QueueWork' = QueueWork
      BY <2>4, WorkFrame DEF PathRead
    <3>2. InotifyWork' <= InotifyWork - 3 /\ InotifyWork' \in Nat
      <4>1. /\ inotify \in Seq(InotifyEvents) /\ inotify # <<>>
            /\ inotify' = SubSeq(inotify, 9, Len(inotify))
        BY <2>4 DEF PathRead, EventsPerRead, TypeOK
      <4>2. Len(inotify) \in Nat /\ Len(inotify) >= 1
        BY <4>1, LenProperties, EmptySeq
      <4>3. Len(inotify') <= Len(inotify) - 1 /\ Len(inotify') \in Nat
        BY <4>1, <4>2
      <4> QED
        BY <4>2, <4>3 DEF InotifyWork, SignalWork
    <3>3. PathWork = 1 /\ (PathWork' = 1 \/ PathWork' = 3)
      BY <2>4 DEF PathRead, PathWork, SignalWork
    <3> QED
      BY <1>1, <3>1, <3>2, <3>3
  <2>5. CASE PathSend
    <3>1. QueueWork' = QueueWork + 1 /\ InotifyWork' = InotifyWork
      BY <1>3, <2>5, WorkFrame DEF PathSend
    <3>2. PathWork = 3 /\ PathWork' = 1
      BY <2>5 DEF PathSend, PathWork, SignalWork
    <3> QED
      BY <1>1, <3>1, <3>2
  <2>6. CASE PathReadFails
    <3>1. QueueWork' = QueueWork /\ InotifyWork' = 0
      BY <2>6, WorkFrame DEF PathReadFails, InotifyWork, SignalWork
    <3>2. PathWork = 1 /\ PathWork' = 0
      BY <2>6 DEF PathReadFails, PathWork
    <3> QED
      BY <1>1, <3>1, <3>2
  <2> QED
    BY <2>1, <2>2, <2>3, <2>4, <2>5, <2>6 DEF PathMonitor
<1> QED
  BY <1>4, PathFrame, WorkTypes, WorkSum

\* The NTP monitor makes one signal, and only gets closer to its end.
LEMMA NtpMonitorWork ==
  ASSUME TypeOK, TypeOK', LoopIsInRange,
         NtpSynchronised \/ NtpTouch \/ NtpClockEvent
  PROVE  Work' < Work
<1>1. /\ UNCHANGED m_queue /\ UNCHANGED <<m_state, handler>>
      /\ UNCHANGED <<handler, loc>> /\ UNCHANGED <<pathPc, pathK>>
      /\ UNCHANGED powerPc
  BY Zenon DEF NtpSynchronised, NtpTouch, NtpClockEvent, NtpStep, mgrVars,
     procVars, pathVars
<1>2. /\ QueueWork' = QueueWork /\ SecureWork' = SecureWork
      /\ HandlerWork' = HandlerWork /\ PathWork' = PathWork
      /\ PowerWork' = PowerWork
  BY <1>1, WorkFrame
<1>3. InotifyWork + NtpWork - 1 >= InotifyWork' + NtpWork'
      /\ InotifyWork' \in Nat /\ NtpWork' \in Nat
  <2>1. CASE NtpSynchronised
    <3>1. InotifyWork' = InotifyWork
      BY <2>1, WorkFrame DEF NtpSynchronised
    <3>2. NtpWork = 6 /\ NtpWork' \in {5, 1}
      BY <2>1 DEF NtpSynchronised, NtpWork, SignalWork
    <3> QED
      BY <3>1, <3>2, WorkTypes
  <2>2. CASE NtpTouch
    <3>1. InotifyWork' <= InotifyWork + 3 /\ InotifyWork' \in Nat
      <4>1. [mask |-> "IN_ATTRIB", name |-> "ntp"] \in InotifyEvents
        BY DEF InotifyEvents, Names
      <4>2. Len(inotify) \in Nat /\ Len(inotify') \in Nat
        BY LenProperties DEF TypeOK
      <4>3. Len(inotify') <= Len(inotify) + 1
        BY <2>2, <4>1, <4>2, QueuedLength DEF NtpTouch
      <4> QED
        BY <4>2, <4>3 DEF InotifyWork, SignalWork
    <3>2. NtpWork = 5 /\ NtpWork' = 1
      BY <2>2 DEF NtpTouch, NtpWork, SignalWork
    <3> QED
      BY <3>1, <3>2, WorkTypes
  <2>3. CASE NtpClockEvent
    <3>1. InotifyWork' = InotifyWork
      BY <2>3, WorkFrame DEF NtpClockEvent, fsVars
    <3>2. NtpWork = 1 /\ NtpWork' = 0
      BY <2>3 DEF NtpClockEvent, NtpWork
    <3> QED
      BY <3>1, <3>2, WorkTypes
  <2> QED
    BY <2>1, <2>2, <2>3
<1> QED
  BY <1>2, <1>3, WorkTypes, WorkSum

\* The start of the process and the tail of deepsleepoff() only use up work.
LEMMA StartAndResyncWork ==
  ASSUME TypeOK, LoopIsInRange, DownIsReset, initialize \/ Resync
  PROVE  Work' < Work
<1>1. CASE initialize
  <2>1. /\ pathPc = "down" /\ ntpPc = "down" /\ handler = "none"
        /\ m_state = "INIT" /\ m_state' = "NTP_WAIT"
        /\ pathPc' = "scan" /\ pathK' = 1 /\ ntpPc' \in {"poll", "done"}
        /\ UNCHANGED m_queue /\ UNCHANGED <<handler, loc>>
        /\ UNCHANGED inotify /\ UNCHANGED powerPc
    BY <1>1, Zenon DEF initialize, DownIsReset, procVars, fsVars
  <2>2. /\ QueueWork' = QueueWork /\ HandlerWork' = HandlerWork
        /\ InotifyWork' = InotifyWork /\ PowerWork' = PowerWork
    BY <2>1, WorkFrame
  <2>3. SecureWork' = SecureWork
    BY <2>1 DEF SecureWork
  <2>4. PathWork = 19 /\ PathWork' = 18 /\ NtpWork = 7 /\ NtpWork' \in {6, 0}
    BY <2>1 DEF PathWork, NtpWork, SignalWork
  <2> QED
    BY <2>2, <2>3, <2>4, WorkTypes, WorkSum
<1>2. CASE Resync
  <2>1. /\ UNCHANGED m_queue /\ UNCHANGED <<m_state, handler>>
        /\ UNCHANGED <<handler, loc>> /\ UNCHANGED inotify
        /\ UNCHANGED <<pathPc, pathK>> /\ UNCHANGED ntpPc
    BY <1>2, Zenon DEF Resync, mgrVars, procVars, fsVars, pathVars, ntpVars
  <2>2. /\ QueueWork' = QueueWork /\ SecureWork' = SecureWork
        /\ HandlerWork' = HandlerWork /\ InotifyWork' = InotifyWork
        /\ PathWork' = PathWork /\ NtpWork' = NtpWork
    BY <2>1, WorkFrame
  <2>3. PowerWork = 1 /\ PowerWork' = 0
    BY <1>2 DEF Resync, PowerWork
  <2> QED
    BY <2>2, <2>3, WorkTypes, WorkSum
<1> QED
  BY <1>1, <1>2

-----------------------------------------------------------------------------
(* What comes from outside adds a fixed amount of work.                    *)

\* A touched or written file adds at most one signal.
LEMMA ExternalWork ==
  ASSUME TypeOK, TypeOK', LoopIsInRange, External
  PROVE  Work' <= Work + SignalWork
<1>1. /\ UNCHANGED m_queue /\ UNCHANGED <<m_state, handler>>
      /\ UNCHANGED <<handler, loc>> /\ UNCHANGED <<pathPc, pathK>>
      /\ UNCHANGED ntpPc /\ UNCHANGED powerPc
  BY Zenon DEF External, ExternalTouch, ExternalWrite, ClockMoves,
     ExternalStep, mgrVars, procVars, pathVars, ntpVars
<1>2. /\ QueueWork' = QueueWork /\ SecureWork' = SecureWork
      /\ HandlerWork' = HandlerWork /\ PathWork' = PathWork
      /\ NtpWork' = NtpWork /\ PowerWork' = PowerWork
  BY <1>1, WorkFrame
<1>3. Len(inotify) \in Nat /\ Len(inotify') \in Nat
  BY LenProperties DEF TypeOK
<1>4. Len(inotify') <= Len(inotify) + 1
  <2>1. CASE ExternalTouch
    BY <2>1, TouchLength, NamesAssumption DEF ExternalTouch
  <2>2. CASE ExternalWrite
    <3>1. PICK name \in Names :
            inotify' = Queued([mask |-> "IN_MODIFY", name |-> name])
      BY <2>2, NamesAssumption DEF ExternalWrite
    <3>2. [mask |-> "IN_MODIFY", name |-> name] \in InotifyEvents
      BY DEF InotifyEvents
    <3> QED
      BY <3>1, <3>2, QueuedLength
  <2>3. CASE ClockMoves
    BY <1>3, <2>3 DEF ClockMoves, fsVars
  <2> QED
    BY <2>1, <2>2, <2>3 DEF External
<1>5. InotifyWork' <= InotifyWork + 3 /\ InotifyWork' \in Nat
  BY <1>3, <1>4 DEF InotifyWork, SignalWork
<1> QED
  BY <1>2, <1>5, WorkTypes, WorkSum DEF SignalWork

\* A timer expiry adds itself and one pass.
LEMMA TimerWork ==
  ASSUME TypeOK, LoopIsInRange, Timer
  PROVE  Work' <= Work + PassWork + 1
<1>1. /\ UNCHANGED <<m_state, handler>> /\ UNCHANGED <<handler, loc>>
      /\ UNCHANGED inotify /\ UNCHANGED <<pathPc, pathK>>
      /\ UNCHANGED ntpPc /\ UNCHANGED powerPc
      /\ m_queue' = Append(m_queue, "TIMER_EXPIRY")
  BY Zenon DEF Timer, sendMessage, mgrVars, procVars, fsVars, pathVars,
     ntpVars
<1>2. /\ SecureWork' = SecureWork /\ HandlerWork' = HandlerWork
      /\ InotifyWork' = InotifyWork /\ PathWork' = PathWork
      /\ NtpWork' = NtpWork /\ PowerWork' = PowerWork
  BY <1>1, WorkFrame
<1>3. QueueWork' = QueueWork + 1 + PassWork
  BY <1>1, SendWork DEF Events
<1>4. PassWork \in Nat
  BY PassWorkType
<1> QED
  BY <1>2, <1>3, <1>4, WorkTypes, WorkSum

\* A wake adds its tail and makes one more secure update possible.
LEMMA WakeWork ==
  ASSUME TypeOK, LoopIsInRange, deepsleepoff
  PROVE  Work' <= Work + PassWork + 1
<1>1. /\ UNCHANGED m_queue /\ UNCHANGED <<handler, loc>>
      /\ UNCHANGED inotify /\ UNCHANGED <<pathPc, pathK>> /\ UNCHANGED ntpPc
      /\ powerPc = "idle" /\ powerPc' = "resync"
  BY Zenon DEF deepsleepoff, procVars, fsVars, pathVars, ntpVars
<1>2. /\ QueueWork' = QueueWork /\ HandlerWork' = HandlerWork
      /\ InotifyWork' = InotifyWork /\ PathWork' = PathWork
      /\ NtpWork' = NtpWork
  BY <1>1, WorkFrame
<1>3. PowerWork = 0 /\ PowerWork' = 1
  BY <1>1 DEF PowerWork
<1>4. /\ SecureWork = 0 \/ SecureWork = PassWork
      /\ SecureWork' = 0 \/ SecureWork' = PassWork
  BY DEF SecureWork
<1>5. PassWork \in Nat
  BY PassWorkType
<1> QED
  BY <1>2, <1>3, <1>4, <1>5, WorkTypes, WorkSum

-----------------------------------------------------------------------------
(* The theorems.                                                           *)

\* However the threads are scheduled, every step of the time manager itself
\* lowers the work that is left, and a touched file, a timer expiry or a wake
\* adds a fixed amount of it: the loop from handlers to files to events and
\* back cannot feed itself.
THEOREM WorkAlwaysRunsOut == Spec => WorkRunsOut
<1> DEFINE A == \/ Work' < Work
                \/ External /\ Work' <= Work + SignalWork
                \/ Timer /\ Work' <= Work + PassWork + 1
                \/ deepsleepoff /\ Work' <= Work + PassWork + 1
                \/ Crash
<1>1. IInv /\ IInv' /\ LoopIsInRange /\ [Next]_vars => [A]_vars
  <2> SUFFICES ASSUME IInv, IInv', LoopIsInRange, Next PROVE A
    OBVIOUS
  <2>1. TypeOK /\ TypeOK' /\ DownIsReset /\ ScanIsInRange
    BY DEF IInv
  <2>2. Process \/ PathMonitor \/ PathReadFails => Work' < Work
    BY <2>1, ProcessWork, PathMonitorWork
  <2>3. NtpSynchronised \/ NtpTouch \/ NtpClockEvent => Work' < Work
    BY <2>1, NtpMonitorWork
  <2>4. initialize \/ Resync => Work' < Work
    BY <2>1, StartAndResyncWork
  <2>5. /\ External => Work' <= Work + SignalWork
        /\ Timer => Work' <= Work + PassWork + 1
        /\ deepsleepoff => Work' <= Work + PassWork + 1
    BY <2>1, ExternalWork, TimerWork, WakeWork
  <2> QED
    BY <2>2, <2>3, <2>4, <2>5, Zenon DEF Next
<1>2. WorkRunsOut <=> [][A]_vars
  BY DEF WorkRunsOut
<1> HIDE DEF A
<1> QED
  BY <1>1, <1>2, WorkInvHolds, PTL DEF Spec

\* The work that is left is always a natural number, so it cannot fall for
\* ever: a pass never runs beyond the sources it was started over.
THEOREM WorkIsANumber == Spec => [](Work \in Nat)
<1>1. IInv /\ LoopIsInRange => Work \in Nat
  BY WorkTypes, WorkSum DEF IInv
<1> QED
  BY <1>1, WorkInvHolds, PTL

\* Whenever there is work left between the files and the handlers, a thread
\* has the locks, the room and the input for its next step: no signal waits
\* where nobody looks, and no sender waits for a queue that nobody empties.
THEOREM NoWorkIsStranded == Spec => []WorkHasAWorker
<1>1. IInv /\ UnreadIsWatched => WorkHasAWorker
  <2> SUFFICES ASSUME IInv, UnreadIsWatched, ~Quiet
               PROVE  /\ up
                      /\ \/ handler # "none"
                         \/ QueueMutexFree /\ StateMutexFree /\ m_queue # <<>>
                         \/ pathPc = "read" /\ inotify # <<>>
                         \/ /\ pathPc \in {"scanSend", "send"}
                            /\ QueueMutexFree /\ Len(m_queue) < MaxQueue
    BY Zenon DEF WorkHasAWorker
  <2>1. inotify # <<>> => pathPc \in {"read", "send"}
    BY DEF UnreadIsWatched, Watching
  <2>2. up
    <3>1. ~up => m_queue = <<>> /\ handler = "none" /\ pathPc = "down"
      BY Zenon DEF IInv, DownIsReset
    <3> QED
      BY <2>1, <3>1 DEF Quiet
  <2>3. m_queue = <<>> => Len(m_queue) < MaxQueue
    BY BoundsAssumption
  <2> QED
    BY <2>1, <2>2, <2>3 DEF Quiet, QueueMutexFree, StateMutexFree
<1> QED
  BY <1>1, WorkInvHolds, PTL

=============================================================================
