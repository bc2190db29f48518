-------------------------- MODULE SysTimeMgrProps --------------------------
(***************************************************************************)
(* What the core of the system time manager is expected to guarantee.      *)
(***************************************************************************)
EXTENDS SysTimeMgr, FiniteSets

TimerMsgs == [event : PublishEvents \cup {"none"}, quality : Qualities,
              message : Labels, timerSrc : TimerSrcs]
InotifyEvents == [mask : {"IN_ATTRIB", "IN_MODIFY"}, name : Names]
                   \cup [mask : {"IN_Q_OVERFLOW"}, name : {""}]
Locals == [event : Events \cup {"none"}, i : Nat \ {0},
           reftime : Nat, filetime : Nat, locTime : Times \cup {0},
           clock_acquired : BOOLEAN, drmTime : Nat]

\* The type invariant: the values every variable of the model takes.
TypeOK ==
  /\ up \in BOOLEAN
  /\ m_state \in States /\ m_timequality \in Qualities
  /\ m_timersrc \in TimerSrcs
  /\ m_queue \in Seq(Events)
  /\ handler \in LoopHandlers \cup {"none"}
  /\ loc \in Locals
  /\ lastSync \in [time : Nat, drm : Nat]
  /\ lastMsg \in TimerMsgs
  /\ clock \in Times
  /\ files \subseteq Names
  /\ inotify \in Seq(InotifyEvents)
  /\ pathPc \in {"down", "scan", "scanSend", "read", "send", "exited"}
  /\ pathK \in 1..5 /\ pathName \in Names
  /\ ntpPc \in {"down", "poll", "opened", "closed", "done"}
  /\ clockEvent \in BOOLEAN
  /\ powerPc \in {"idle", "resync"}
  /\ crashes \in Nat

-----------------------------------------------------------------------------
(* State machine and quality.                                              *)

\* m_state and m_timequality, assigned separately by the handlers and by
\* deepsleepoff(), never contradict each other: SECURE exactly in RUNNING,
\* GOOD exactly in the three states that hold one acquired time.
QualityMatchesState ==
  up => /\ m_timequality = "SECURE" <=> m_state = "RUNNING"
        /\ m_timequality = "GOOD" <=>
             m_state \in {"NTP_ACQUIRED", "DTT_ACQUIRED",
                          "SECURE_TIME_ACQUIRED"}
        /\ m_state # "INIT"

\* The handler runStateMachine() picked is still the one stateMachine holds
\* for the current state and the event: nobody changes m_state between the
\* lookup and the end of a handler that calls out over HTTP.
HandlerMatchesState ==
  handler # "none" => up /\ HandlerOf(m_state, loc.event) = handler

\* No quality without its evidence, through the file system, the inotify
\* queue, the path monitor and m_queue: an NTP state is only reached after
\* the ntp or stt file was made, a DTT state after dtt, a secure one after drm.
QualityHasEvidence ==
  /\ m_state \in {"NTP_ACQUIRED", "RUNNING"} => files \cap {"ntp", "stt"} # {}
  /\ m_state \in {"SECURE_TIME_ACQUIRED", "RUNNING"} => "drm" \in files
  /\ m_state = "DTT_ACQUIRED" => "dtt" \in files

\* A time once acquired is kept until the process ends: no late timer expiry,
\* reordered event or wake takes the quality back to POOR or UNKNOWN, and only
\* a wake takes SECURE back to GOOD, telling the subscribers in the same step.
AcquiredTimeIsKept ==
  [][up /\ up' =>
       /\ m_timequality \in {"GOOD", "SECURE"} =>
            m_timequality' \in {"GOOD", "SECURE"}
       /\ m_timequality = "SECURE" /\ m_timequality' # "SECURE" =>
            lastMsg'.event = "DEEP_SLEEP_ON" /\ lastMsg'.quality = "GOOD"]_vars

\* The event is on its way to its handler.
InQueue(event) == \E k \in 1..Len(m_queue) : m_queue[k] = event

\* The reference time, or the secure time, was reported: the event waits, or
\* one of its handlers runs, or m_state remembers it.
NtpReported ==
  \/ InQueue("NTP_AVAILABLE") \/ handler = "updateSecureTime"
  \/ m_state \in {"NTP_ACQUIRED", "RUNNING"}
SecureReported ==
  \/ InQueue("SECURE_TIME_AVAILABLE") \/ handler = "updateSecureTime"
  \/ m_state \in {"SECURE_TIME_ACQUIRED", "RUNNING"}

\* Whatever the order in which NTP, secure time, broadcast time, timer expiries
\* and wakes meet the state machine, the report of an acquired NTP or secure
\* time is never dropped: an event that finds no handler, or finds another
\* state than the sender saw, is one m_state remembers already.  Only the wake
\* of a RUNNING device forgets the secure time, on purpose, and never NTP.
ReportsAreKept ==
  [][up /\ up' =>
       /\ NtpReported => NtpReported'
       /\ SecureReported =>
            SecureReported' \/ (deepsleepoff /\ m_state = "RUNNING")]_vars

-----------------------------------------------------------------------------
(* What other processes are told.                                          *)

\* A subscriber that only listens to broadcasts and a client that polls with
\* TIMER_STATUS_MSG see the same quality, label and source, once an initial
\* time was found, in every state but SECURE_TIME_ACQUIRED.
BroadcastIsCurrent ==
  up /\ m_timequality # "UNKNOWN" /\ m_state # "SECURE_TIME_ACQUIRED" =>
    /\ lastMsg.quality = getTimeStatus.quality
    /\ lastMsg.message = getTimeStatus.message
    /\ lastMsg.timerSrc = getTimeStatus.timerSrc

Rank(q) == CASE q = "SECURE" -> 2 [] q = "GOOD" -> 1 [] OTHER -> 0

\* Where the time syncs always know an initial time, a running time manager
\* never leaves subscribers believing in a better quality than it has, across
\* wakes, crashes and restarts.
NeverOverstated ==
  up /\ 0 \notin SyncTimes => Rank(lastMsg.quality) <= Rank(m_timequality)

Abstract == INSTANCE TimeQuality WITH
  Files <- Names, alive <- up, quality <- m_timequality,
  told <- lastMsg.quality, evidence <- files

\* The core implements TimeQuality: through all its threads, queues, late
\* events, wakes and crashes, every change of the quality that a process can
\* see is one of the announced and evidenced changes listed there.
ImplementsTimeQuality == Abstract!QualitySpec

-----------------------------------------------------------------------------
(* The time that is saved as secure.                                       *)

OnlyDrmVouches ==
  \A j \in 1..Len(Sources) : Sources[j] \in {"ntp", "stt", "drm"}

\* With drm as the only source besides the references, a time later than the
\* first ten minutes of the epoch is handed to the time syncs only if the DRM
\* service reported a time in the same pass over the sources and the reference
\* is at most 600 s ahead of it.
SecureTimeIsVouched ==
  OnlyDrmVouches =>
    (lastSync.time > 600 =>
       lastSync.drm # 0 /\ lastSync.time - lastSync.drm <= 600)

-----------------------------------------------------------------------------
(* Liveness.                                                               *)

\* A restarted process finds its way back: if the drm and ntp files exist
\* when the path monitor starts, RUNNING is reached, whatever the timer, other
\* touches and wakes put in between (or the process is killed again).
RestartRecovers ==
  (pathPc = "scan" /\ pathK = 1 /\ {"drm", "ntp"} \subseteq files)
    ~> (m_state = "RUNNING" \/ ~up)


\* A device that never gets NTP still gets a GOOD time from its plugins, as
\* long as the timer fires.
FallbackIsReached ==
  TimerFairness => (up ~> (m_timequality \in {"GOOD", "SECURE"} \/ ~up))

Quiet == m_queue = <<>> /\ handler = "none" /\ inotify = <<>>
           /\ pathPc \notin {"scanSend", "send"}

\* Handlers touch files, touched files become events and events run handlers:
\* that loop dies out.  Unless something from outside keeps happening, the
\* time manager comes to rest again and again.
Settles ==
  []<>Quiet \/ []<><<Timer \/ External \/ deepsleepoff \/ Crash>>_vars

-----------------------------------------------------------------------------
(* Why it settles: the work that is left.  A signal from a file costs a    *)
(* step in the kernel's queue, in the path monitor and in m_queue; a pass  *)
(* over the sources costs, for every source, a step and the signal of the  *)
(* file it may touch.                                                      *)

SignalWork == 3
PassWork == (SignalWork + 1) * (Len(Sources) + 1) + 1

Timers(q) == {k \in 1..Len(q) : q[k] = "TIMER_EXPIRY"}

\* Every event in m_queue is popped, and a timer expiry may start a pass.
QueueWork == Len(m_queue) + PassWork * Cardinality(Timers(m_queue))

\* A file event can start a pass only once: it ends in RUNNING.
SecureWork ==
  IF m_state = "RUNNING" \/ handler = "updateSecureTime" THEN 0 ELSE PassWork

\* What is left of a pass; the clock provider is called once more.
HandlerWork ==
  IF handler = "none" THEN 0
  ELSE (SignalWork + 1) * ((Len(Sources) + 1 - loc.i)
                             + (IF loc.clock_acquired THEN 0 ELSE 1)) + 1

PathWork ==
  CASE pathPc = "scan" -> 4 * (5 - pathK) + 2
    [] pathPc = "scanSend" -> 4 * (5 - pathK)
    [] pathPc = "send" -> SignalWork
    [] pathPc = "read" -> 1
    [] pathPc = "down" -> 19
    [] OTHER -> 0

NtpWork ==
  CASE ntpPc = "down" -> SignalWork + 4
    [] ntpPc = "poll" -> SignalWork + 3
    [] ntpPc = "opened" -> SignalWork + 2
    [] ntpPc = "closed" -> 1
    [] OTHER -> 0

PowerWork == IF powerPc = "resync" THEN 1 ELSE 0

InotifyWork == SignalWork * Len(inotify)

Work ==
  QueueWork + SecureWork + HandlerWork + InotifyWork + PathWork + NtpWork
    + PowerWork

\* Every step lowers the work that is left, unless it comes from outside; and
\* what comes from outside adds a fixed amount of work: one signal for a
\* touched file, one pass over the sources for a timer expiry or a wake.  So
\* the loop from handlers to files to events ends after a number of steps
\* that is known beforehand, however the threads are scheduled.
WorkRunsOut ==
  [][\/ Work' < Work
     \/ External /\ Work' <= Work + SignalWork
     \/ Timer /\ Work' <= Work + PassWork + 1
     \/ deepsleepoff /\ Work' <= Work + PassWork + 1
     \/ Crash]_vars

\* A pass does not run beyond the sources.
LoopIsInRange == handler # "none" => loc.i <= Len(Sources) + 1

\* Nothing is left in the kernel's queue that no thread reads.
UnreadIsWatched == inotify # <<>> => Watching

\* What is left has somebody to do it: when the time manager is not at rest,
\* it is up, and processThr is in a pass, or has an event to pop and both
\* mutexes are free, or the path monitor has something to read, or something
\* to send and both m_queue_mutex and room in m_queue.
WorkHasAWorker ==
  ~Quiet =>
    /\ up
    /\ \/ handler # "none"
       \/ QueueMutexFree /\ StateMutexFree /\ m_queue # <<>>
       \/ pathPc = "read" /\ inotify # <<>>
       \/ /\ pathPc \in {"scanSend", "send"}
          /\ QueueMutexFree /\ Len(m_queue) < MaxQueue

-----------------------------------------------------------------------------
(* The inductive invariant behind the safety properties.                   *)

\* While the process is down, its memory and its threads are gone.
DownIsReset ==
  ~up => /\ m_state = "INIT" /\ m_timequality = "UNKNOWN"
         /\ m_timersrc = "Last Known"
         /\ m_queue = <<>> /\ handler = "none"
         /\ pathPc = "down" /\ ntpPc = "down" /\ powerPc = "idle"

\* The path monitor sends an event for the map entry it found.
ScanIsInRange ==
  pathPc = "scanSend" => pathK <= 4 /\ pathName = PathOrder[pathK]

\* The file whose touch an event stands for
Evidence(event) ==
  CASE event = "NTP_AVAILABLE" -> files \cap {"ntp", "stt"} # {}
    [] event = "SECURE_TIME_AVAILABLE" -> "drm" \in files
    [] event = "DTT_TIME_AVAILABLE" -> "dtt" \in files
    [] OTHER -> TRUE

\* Every signal on its way from a file to a handler has its file: in the
\* kernel's queue, in the hands of the path monitor, in m_queue, in a handler
\* that runs, and between the open() and the futimens() of the NTP monitor.
InotifyHasFile ==
  \A k \in 1..Len(inotify) :
    inotify[k].mask = "IN_ATTRIB" => inotify[k].name \in files
PathHasFile == pathPc \in {"scanSend", "send"} => pathName \in files
QueueHasEvidence == \A k \in 1..Len(m_queue) : Evidence(m_queue[k])
HandlerHasEvidence ==
  handler # "none" => loc.event \in Events /\ Evidence(loc.event)
NtpHasFile == ntpPc = "opened" => "ntp" \in files
SignalsHaveEvidence ==
  /\ InotifyHasFile /\ PathHasFile
  /\ QueueHasEvidence /\ HandlerHasEvidence
  /\ NtpHasFile

IInv ==
  /\ TypeOK
  /\ DownIsReset
  /\ ScanIsInRange
  /\ QualityMatchesState
  /\ HandlerMatchesState
  /\ SignalsHaveEvidence
  /\ QualityHasEvidence

\* What subscribers heard last, by state: needed for BroadcastIsCurrent and
\* NeverOverstated.
InitialTimeIsKnown == up /\ 0 \notin SyncTimes => m_timequality # "UNKNOWN"
UnpublishedIsUnderstated ==
  up /\ 0 \notin SyncTimes /\ m_state = "SECURE_TIME_ACQUIRED" =>
    lastMsg.quality \in {"POOR", "GOOD"}
BroadcastInv ==
  BroadcastIsCurrent /\ InitialTimeIsKnown /\ UnpublishedIsUnderstated

\* With drm as the only source besides the references, the other time
\* timerExpiry() compares with is the one the DRM service reported.
VouchInv == OnlyDrmVouches => loc.filetime = loc.drmTime

=============================================================================
