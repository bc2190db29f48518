----------------------------- MODULE SysTimeMgr -----------------------------
(***************************************************************************)
(* The core of the system time manager (systimemgr.cpp): the state machine *)
(* of the time quality and the threads that feed it.                       *)
(*                                                                         *)
(*   processThr        pops one event and runs its handler                 *)
(*   timerThr          sends TIMER_EXPIRY every ten minutes                *)
(*   pathThr           sends an event for every file of m_directory        *)
(*                     that exists at start, then for every touched file   *)
(*   ntpSyncMonitorThr touches m_directory/ntp once, when the kernel clock *)
(*                     is synchronised (chrony builds only)                *)
(*   the power thread  calls deepsleepoff() on a wake                      *)
(*                                                                         *)
(* processMsg() holds m_queue_mutex, and runStateMachine() g_state_mutex,  *)
(* for the whole of a handler.  A handler that only assigns is one step.   *)
(* A handler that loops over m_timerSrc calls out over HTTP for every      *)
(* source, so it is one step per source; both mutexes are held exactly     *)
(* while handler # "none".                                                 *)
(*                                                                         *)
(* The process can be killed at any point; systemd restarts it             *)
(* (Restart=always).  Files, the clock and what subscribers last heard     *)
(* survive.                                                                *)
(***************************************************************************)
EXTENDS Integers, Sequences

CONSTANTS
  Sources,        \* m_timerSrc: the types of the configured sources, in order
  Times,          \* the values the system clock can show
  SyncTimes,      \* what getTime() of the last configured ITimeSync can return
  DrmTimes,       \* what a successful DRMActivationService call can return
  DttTimes,       \* what a successful MediaSystem call can return
  FileTimes,      \* what a "regular" source can return
  PluginsMayFail, \* the JSON-RPC calls of the drm and dtt sources may fail
  ChronyEnabled,  \* m_chronyRfcEnabled
  IoMayFail,      \* inotify and file system calls may fail
  Touchable,      \* the files of m_directory other processes touch
  Noise,          \* the files of m_directory other processes write to
  MaxQueue,       \* bound: a sender waits while m_queue is that long
  MaxInotify,     \* fs.inotify.max_queued_events
  MaxCrashes      \* bound on the number of times the process is killed

States == {"INIT", "NTP_WAIT", "NTP_FAIL", "NTP_ACQUIRED", "DTT_ACQUIRED",
           "SECURE_TIME_ACQUIRED", "RUNNING"}
Events == {"TIMER_EXPIRY", "NTP_AVAILABLE", "DTT_TIME_AVAILABLE",
           "SECURE_TIME_AVAILABLE"}
Qualities == {"POOR", "GOOD", "SECURE", "UNKNOWN"}
Labels == {"Poor", "Good", "Secure", "Unknown"}
TimerSrcs == {"Last Known", "NTP", "DTT"}
PublishEvents == {"TIME_INITIAL", "NTP_FAIL", "NTP_SUCCESS", "DTT_SUCCESS",
                  "SECURE_TIME_SUCCESS", "DEEP_SLEEP_ON"}
SourceTypes == {"ntp", "stt", "regular", "drm", "dtt"}
Names == {"drm", "dtt", "ntp", "stt"}

ASSUME SourcesAssumption == Sources \in Seq(SourceTypes)
ASSUME TimesAssumption ==
  /\ Times \subseteq Nat \ {0}
  /\ Times # {}
  /\ SyncTimes \subseteq Times \cup {0}
  /\ DrmTimes \subseteq Times \cup {0}
  /\ DttTimes \subseteq Times \cup {0}
  /\ FileTimes \subseteq Times \cup {0}
ASSUME FlagsAssumption ==
  /\ PluginsMayFail \in BOOLEAN
  /\ ChronyEnabled \in BOOLEAN
  /\ IoMayFail \in BOOLEAN
ASSUME NamesAssumption == Touchable \subseteq Names /\ Noise \subseteq Names
ASSUME BoundsAssumption ==
  /\ MaxQueue \in Nat \ {0}
  /\ MaxInotify \in Nat \ {0}
  /\ MaxCrashes \in Nat

VARIABLES
  up,            \* the process runs and initialize() is done
  m_state, m_timequality, m_timersrc,
  m_queue,       \* the events sent and not yet popped
  handler,       \* the looping handler processThr is in, "none" if it is not
  loc,           \* the event being handled and the handler's local variables
  lastSync,      \* the last call of updateTimeSync (see below)
  lastMsg,       \* the last broadcast TimerMsg, as subscribers know it
  clock,         \* CLOCK_REALTIME, in seconds
  files,         \* the files that exist in m_directory
  inotify,       \* the kernel's queue of the inotify descriptor
  pathPc, pathK, \* pathThr: where it is, and which map entry it scans
  pathName,      \* pathThr: the file whose event it is about to send
  ntpPc,         \* ntpSyncMonitorThr: where it is
  clockEvent,    \* /tmp/clock-event exists
  powerPc,       \* the power thread: "resync" in the tail of deepsleepoff()
  crashes        \* how many times the process was killed

mgrVars == <<m_state, m_timequality, m_timersrc>>
procVars == <<handler, loc>>
fsVars == <<files, inotify>>
pathVars == <<pathPc, pathK, pathName>>
ntpVars == <<ntpPc, clockEvent>>
lifeVars == <<up, crashes>>
vars == <<up, m_state, m_timequality, m_timersrc, m_queue, handler, loc,
          lastSync, lastMsg, clock, files, inotify, pathPc, pathK, pathName,
          ntpPc, clockEvent, powerPc, crashes>>

-----------------------------------------------------------------------------
(* The tables built by initialize().                                       *)

\* stateMachine[state][event], by event; "none" where the map has no entry
\* Mutant: the row NTP_FAIL/TIMER_EXPIRY is missing
OnTimerM1(s) ==
  CASE s = "RUNNING" -> "timerExpiry"
    [] s = "NTP_WAIT" -> "ntpFailed"
    [] s \in {"NTP_ACQUIRED", "SECURE_TIME_ACQUIRED"} -> "updateTime"
    [] s = "DTT_ACQUIRED" -> "updateClockRealTime"
    [] OTHER -> "none"
OnTimer(s) ==
  CASE s = "RUNNING" -> "timerExpiry"
    [] s = "NTP_WAIT" -> "ntpFailed"
    [] s \in {"NTP_ACQUIRED", "NTP_FAIL", "SECURE_TIME_ACQUIRED"}
         -> "updateTime"
    [] s = "DTT_ACQUIRED" -> "updateClockRealTime"
    [] OTHER -> "none"

\* Mutant: the row SECURE_TIME_ACQUIRED/NTP_AVAILABLE is missing
OnNtpM1(s) ==
  IF s \in {"NTP_WAIT", "NTP_FAIL", "DTT_ACQUIRED"} THEN "ntpAquired"
  ELSE "none"
OnNtp(s) ==
  CASE s \in {"NTP_WAIT", "NTP_FAIL", "DTT_ACQUIRED"} -> "ntpAquired"
    [] s = "SECURE_TIME_ACQUIRED" -> "updateSecureTime"
    [] OTHER -> "none"

\* Mutant: the time is updated again whenever the drm file is touched
OnSecureM1(s) ==
  CASE s \in {"NTP_WAIT", "NTP_FAIL", "DTT_ACQUIRED"} -> "secureTimeAcquired"
    [] s \in {"NTP_ACQUIRED", "RUNNING"} -> "updateSecureTime"
    [] OTHER -> "none"
\* Mutant: broadcast time is taken for a reference
OnSecureM2(s) ==
  CASE s \in {"NTP_WAIT", "NTP_FAIL"} -> "secureTimeAcquired"
    [] s \in {"NTP_ACQUIRED", "DTT_ACQUIRED"} -> "updateSecureTime"
    [] OTHER -> "none"
OnSecure(s) ==
  CASE s \in {"NTP_WAIT", "NTP_FAIL", "DTT_ACQUIRED"} -> "secureTimeAcquired"
    [] s = "NTP_ACQUIRED" -> "updateSecureTime"
    [] OTHER -> "none"

OnDtt(s) == IF s = "NTP_FAIL" THEN "dttAquired" ELSE "none"

HandlerOf(s, e) ==
  CASE e = "TIMER_EXPIRY" -> OnTimer(s)
    [] e = "NTP_AVAILABLE" -> OnNtp(s)
    [] e = "SECURE_TIME_AVAILABLE" -> OnSecure(s)
    [] e = "DTT_TIME_AVAILABLE" -> OnDtt(s)

\* The handlers that loop over m_timerSrc
LoopHandlers == {"updateTime", "timerExpiry", "updateSecureTime",
                 "updateClockRealTime"}

\* m_pathEventMap, and the order in which a std::map iterates over it
PathEvent(name) ==
  CASE name \in {"ntp", "stt"} -> "NTP_AVAILABLE"
    [] name = "drm" -> "SECURE_TIME_AVAILABLE"
    [] name = "dtt" -> "DTT_TIME_AVAILABLE"
PathOrder == <<"drm", "dtt", "ntp", "stt">>

\* The string that goes with a quality, in getTimeStatus() and deepsleepoff()
Label(q) ==
  CASE q = "POOR" -> "Poor"
    [] q = "GOOD" -> "Good"
    [] q = "SECURE" -> "Secure"
    [] OTHER -> "Unknown"

-----------------------------------------------------------------------------
(* Locks, messages, time syncs and broadcasts.                             *)

NoLocals == [event |-> "none", i |-> 1, reftime |-> 0, filetime |-> 0,
             locTime |-> 0, clock_acquired |-> FALSE, drmTime |-> 0]

\* processThr releases g_state_mutex and m_queue_mutex between two events
\* Mutant: a caller that does not take g_state_mutex
StateMutexFreeM1 == up
StateMutexFree == up /\ handler = "none"
QueueMutexFree == up /\ handler = "none"

sendMessage(event) ==
  /\ QueueMutexFree
  /\ Len(m_queue) < MaxQueue
  /\ m_queue' = Append(m_queue, event)

\* i->updateTime(time) for every ITimeSync.  drm is not in the code: it
\* records what the drm source reported in the handler that made the call.
updateTimeSync(time, drm) == lastSync' = [time |-> time, drm |-> drm]

NoMsg == [event |-> "none", quality |-> "UNKNOWN", message |-> "Unknown",
          timerSrc |-> "Last Known"]

\* publishStatus(): quality and source are the ones the members have by then
publishStatus(event, message) ==
  lastMsg' = [event |-> event, quality |-> m_timequality',
              message |-> message, timerSrc |-> m_timersrc']

\* getTimeStatus(): what a TIMER_STATUS_MSG query is answered, under
\* g_state_mutex
getTimeStatus == [quality |-> m_timequality, message |-> Label(m_timequality),
                  timerSrc |-> m_timersrc]

-----------------------------------------------------------------------------
(* The kernel's side of m_directory (inotify(7)).                          *)

Watching == pathPc \in {"read", "send"}

\* An event equal to the last one queued is merged into it; past the limit
\* an overflow event takes the place of what is dropped.
Queued(event) ==
  LET e == IF Len(inotify) < MaxInotify THEN event
           ELSE [mask |-> "IN_Q_OVERFLOW", name |-> ""]
  IN  IF ~Watching \/ (inotify # <<>> /\ inotify[Len(inotify)] = e)
      THEN inotify ELSE Append(inotify, e)

\* open(O_CREAT) and futimens() of a file of m_directory; either may fail,
\* and nobody is told
notifypathAvailable(name) ==
  \/ /\ files' = files \cup {name}
     /\ inotify' = Queued([mask |-> "IN_ATTRIB", name |-> name])
  \/ /\ IoMayFail
     /\ files' \in {files, files \cup {name}}
     /\ UNCHANGED inotify

\* The 272-byte buffer of runPathMonitor() has room for that many events of
\* the names in m_directory (16 bytes and a name padded to 16)
EventsPerRead == 8

-----------------------------------------------------------------------------
(* The time sources (ITimeSrc).                                            *)

isreference(src) == src \in {"ntp", "stt"}
isclockProvider(src) == src = "dtt"

Rpc(times) ==
  [time : times, touches : {TRUE}]
    \cup (IF PluginsMayFail THEN [time : {0}, touches : {FALSE}] ELSE {})

\* The possible outcomes of getTimeSec() of a source
getTimeSec(src) ==
  CASE isreference(src) -> [time : {clock}, touches : {FALSE}]
    [] src = "regular" -> [time : FileTimes, touches : {FALSE}]
    [] src = "drm" -> Rpc(DrmTimes)
    [] src = "dtt" -> Rpc(DttTimes)

\* The side effect of an outcome r of getTimeSec()
SideEffect(src, r) ==
  IF r.touches THEN notifypathAvailable(src) ELSE UNCHANGED fsVars

-----------------------------------------------------------------------------
(* main(): get_instance(), initialize(), run().                            *)

Init ==
  /\ up = FALSE
  /\ m_state = "INIT" /\ m_timequality = "UNKNOWN" /\ m_timersrc = "Last Known"
  /\ m_queue = <<>> /\ handler = "none" /\ loc = NoLocals
  /\ lastSync = [time |-> 0, drm |-> 0] /\ lastMsg = NoMsg
  /\ clock \in Times /\ files = {} /\ inotify = <<>>
  /\ pathPc = "down" /\ pathK = 1 /\ pathName = "drm"
  /\ ntpPc = "down" /\ clockEvent = FALSE
  /\ powerPc = "idle" /\ crashes = 0

\* setInitialTime(): locTime is what the last ITimeSync returns; the clock
\* is only ever moved forward, and clock_settime() may fail
setInitialTime(locTime) ==
  IF locTime = 0
    THEN UNCHANGED <<m_timequality, lastMsg, clock>>
    ELSE /\ m_timequality' = "POOR"
         /\ IF clock > locTime THEN UNCHANGED clock
            ELSE clock' \in {locTime} \cup (IF IoMayFail THEN {clock} ELSE {})
         /\ publishStatus("TIME_INITIAL", "Poor")

\* initialize() holds g_state_mutex from its first line to its last; run()
\* then starts the threads
initialize ==
  /\ ~up
  /\ up' = TRUE
  /\ UNCHANGED m_timersrc
  /\ \E locTime \in SyncTimes : setInitialTime(locTime)
  /\ m_state' = "NTP_WAIT"
  /\ pathPc' = "scan" /\ pathK' = 1
  /\ ntpPc' = IF ChronyEnabled THEN "poll" ELSE "done"
  /\ UNCHANGED <<m_queue, procVars, lastSync, fsVars, pathName, clockEvent,
                 powerPc, crashes>>

\* The process is killed (or a thread lets an exception escape) and its
\* memory is lost
Crash ==
  /\ up /\ crashes < MaxCrashes
  /\ up' = FALSE /\ crashes' = crashes + 1
  /\ m_state' = "INIT" /\ m_timequality' = "UNKNOWN"
  /\ m_timersrc' = "Last Known"
  /\ m_queue' = <<>> /\ handler' = "none" /\ loc' = NoLocals
  /\ inotify' = <<>> /\ pathPc' = "down" /\ pathK' = 1 /\ pathName' = "drm"
  /\ ntpPc' = "down" /\ powerPc' = "idle"
  /\ UNCHANGED <<lastSync, lastMsg, clock, files, clockEvent>>

-----------------------------------------------------------------------------
(* processThr: processMsg() and runStateMachine().                         *)

\* Pop the first event, for which the current state has handler h
Dispatch(h) ==
  /\ QueueMutexFree /\ StateMutexFree
  /\ m_queue # <<>>
  /\ HandlerOf(m_state, Head(m_queue)) = h
  /\ m_queue' = Tail(m_queue)
  /\ UNCHANGED <<up, pathVars, ntpVars, powerPc, crashes>>

\* "There is no Event Processing available in this state"
IgnoreEvent ==
  /\ Dispatch("none")
  /\ UNCHANGED <<mgrVars, procVars, lastSync, lastMsg, clock, fsVars>>

ntpFailed ==
  /\ Dispatch("ntpFailed")
  /\ updateTimeSync(0, 0)
  /\ m_state' = "NTP_FAIL"
  /\ UNCHANGED <<m_timequality, m_timersrc>>
  /\ publishStatus("NTP_FAIL", "Poor")
  /\ UNCHANGED <<procVars, clock, fsVars>>

ntpAquired ==
  /\ Dispatch("ntpAquired")
  /\ updateTimeSync(0, 0)
  /\ m_timequality' = "GOOD" /\ m_state' = "NTP_ACQUIRED"
  /\ m_timersrc' = "NTP"
  /\ publishStatus("NTP_SUCCESS", "Good")
  /\ UNCHANGED <<procVars, clock, fsVars>>

\* Mutant: published before m_timersrc is assigned
dttAquiredM1 ==
  /\ Dispatch("dttAquired")
  /\ updateTimeSync(0, 0)
  /\ m_timequality' = "GOOD" /\ m_state' = "DTT_ACQUIRED"
  /\ m_timersrc' = "DTT"
  /\ lastMsg' = [event |-> "DTT_SUCCESS", quality |-> "GOOD",
                 message |-> "Good", timerSrc |-> m_timersrc]
  /\ UNCHANGED <<procVars, clock, fsVars>>
dttAquired ==
  /\ Dispatch("dttAquired")
  /\ updateTimeSync(0, 0)
  /\ m_timequality' = "GOOD" /\ m_state' = "DTT_ACQUIRED"
  /\ m_timersrc' = "DTT"
  /\ publishStatus("DTT_SUCCESS", "Good")
  /\ UNCHANGED <<procVars, clock, fsVars>>

secureTimeAcquired ==
  /\ Dispatch("secureTimeAcquired")
  /\ updateTimeSync(0, 0)
  /\ m_timequality' = "GOOD" /\ m_state' = "SECURE_TIME_ACQUIRED"
  /\ UNCHANGED <<m_timersrc, lastMsg, procVars, clock, fsVars>>

\* A handler that loops over m_timerSrc starts; updateTime() calls
\* updateTimeSync(0) before its loop, the others after it
BeginLoop(h) ==
  /\ Dispatch(h)
  /\ handler' = h
  /\ loc' = [NoLocals EXCEPT !.event = Head(m_queue)]
  /\ IF h = "updateTime" THEN updateTimeSync(0, 0) ELSE UNCHANGED lastSync
  /\ UNCHANGED <<mgrVars, lastMsg, clock, fsVars>>

\* One iteration of the loop, for source Sources[loc.i]
LoopStep ==
  /\ handler # "none"
  /\ loc.i <= Len(Sources)
  /\ UNCHANGED <<up, mgrVars, m_queue, handler, lastSync, lastMsg, clock,
                 pathVars, ntpVars, powerPc, crashes>>

\* updateTime(): it->checkTime()
updateTimeStep ==
  /\ handler = "updateTime"
  /\ LoopStep
  /\ \E r \in getTimeSec(Sources[loc.i]) : SideEffect(Sources[loc.i], r)
  /\ loc' = [loc EXCEPT !.i = @ + 1]

\* timerExpiry(), also called by updateSecureTime(): the last reference and
\* the last non-zero other time win
ReadSource(src, r) ==
  [loc EXCEPT !.i = @ + 1,
              !.reftime = IF isreference(src) THEN r.time ELSE @,
              !.filetime = IF ~isreference(src) /\ r.time # 0
                             THEN r.time ELSE @,
              !.drmTime = IF src = "drm" /\ r.time # 0 THEN r.time ELSE @]

timerExpiryStep ==
  /\ handler \in {"timerExpiry", "updateSecureTime"}
  /\ LoopStep
  /\ \E r \in getTimeSec(Sources[loc.i]) :
       /\ SideEffect(Sources[loc.i], r)
       /\ loc' = ReadSource(Sources[loc.i], r)

\* updateClockRealTime(): the first clock provider is read, then checked,
\* every other source is only checked
updateClockRealTimeStep ==
  /\ handler = "updateClockRealTime"
  /\ LoopStep
  /\ \E r \in getTimeSec(Sources[loc.i]) :
       /\ SideEffect(Sources[loc.i], r)
       /\ loc' = IF isclockProvider(Sources[loc.i]) /\ ~loc.clock_acquired
                   THEN [loc EXCEPT !.locTime = r.time,
                                    !.clock_acquired = TRUE]
                   ELSE [loc EXCEPT !.i = @ + 1]

\* What is after the loop
EndLoop(h) ==
  /\ handler = h
  /\ loc.i > Len(Sources)
  /\ handler' = "none" /\ loc' = NoLocals
  /\ UNCHANGED <<up, m_queue, fsVars, pathVars, ntpVars, powerPc, crashes>>

updateTime ==
  /\ EndLoop("updateTime")
  /\ UNCHANGED <<mgrVars, lastSync, lastMsg, clock>>

\* The time timerExpiry() hands to the syncs
\* Mutant: the difference is taken the other way round
SecureUpdateM1 == IF loc.filetime - loc.reftime <= 600 THEN loc.reftime ELSE 0
SecureUpdate == IF loc.reftime - loc.filetime <= 600 THEN loc.reftime ELSE 0

timerExpiry ==
  /\ EndLoop("timerExpiry")
  /\ updateTimeSync(SecureUpdate, loc.drmTime)
  /\ UNCHANGED <<mgrVars, lastMsg, clock>>

updateSecureTime ==
  /\ EndLoop("updateSecureTime")
  /\ updateTimeSync(SecureUpdate, loc.drmTime)
  /\ m_state' = "RUNNING" /\ m_timequality' = "SECURE"
  /\ UNCHANGED m_timersrc
  /\ publishStatus("SECURE_TIME_SUCCESS", "Secure")
  /\ UNCHANGED clock

\* Mutant: the clock is set although no time was available
ClockAfterM1 == {loc.locTime}
\* clock_settime() if a time was available; it may fail
ClockAfter ==
  IF loc.locTime = 0 THEN {clock}
  ELSE {loc.locTime} \cup (IF IoMayFail THEN {clock} ELSE {})

updateClockRealTime ==
  /\ EndLoop("updateClockRealTime")
  /\ clock' \in ClockAfter
  /\ updateTimeSync(0, 0)
  /\ UNCHANGED <<mgrVars, lastMsg>>

Process ==
  \/ IgnoreEvent
  \/ ntpFailed \/ ntpAquired \/ dttAquired \/ secureTimeAcquired
  \/ \E h \in LoopHandlers : BeginLoop(h)
  \/ updateTimeStep \/ timerExpiryStep \/ updateClockRealTimeStep
  \/ updateTime \/ timerExpiry \/ updateSecureTime \/ updateClockRealTime

-----------------------------------------------------------------------------
(* The other threads.                                                      *)

\* timerThr: runTimer()
Timer ==
  /\ sendMessage("TIMER_EXPIRY")
  /\ UNCHANGED <<up, mgrVars, procVars, lastSync, lastMsg, clock, fsVars,
                 pathVars, ntpVars, powerPc, crashes>>

\* pathThr: runPathMonitor().  What its steps leave alone.
PathStep ==
  UNCHANGED <<up, mgrVars, procVars, lastSync, lastMsg, clock, files,
              ntpVars, powerPc, crashes>>

\* Mutant: an event is sent for every entry of the map
ExistsM1(name) == TRUE
\* ifstream f(fname); f.good()
Exists(name) == name \in files

\* for (iter = m_pathEventMap.begin() ...)
PathScan ==
  /\ pathPc = "scan" /\ pathK <= Len(PathOrder)
  /\ IF Exists(PathOrder[pathK])
       THEN /\ pathPc' = "scanSend" /\ pathName' = PathOrder[pathK]
            /\ UNCHANGED pathK
       ELSE /\ pathK' = pathK + 1
            /\ UNCHANGED <<pathPc, pathName>>
  /\ UNCHANGED <<m_queue, inotify>>
  /\ PathStep

PathScanSend ==
  /\ pathPc = "scanSend"
  /\ sendMessage(PathEvent(pathName))
  /\ pathPc' = "scan" /\ pathK' = pathK + 1
  /\ UNCHANGED <<pathName, inotify>>
  /\ PathStep

\* inotify_init() and inotify_add_watch(); the thread returns if one fails
PathWatch ==
  /\ pathPc = "scan" /\ pathK > Len(PathOrder)
  /\ pathPc' \in {"read"} \cup (IF IoMayFail THEN {"exited"} ELSE {})
  /\ UNCHANGED <<pathK, pathName, m_queue, inotify>>
  /\ PathStep

\* read() returns every event that fits; only the first one is looked at
PathRead ==
  /\ pathPc = "read" /\ inotify # <<>>
  /\ inotify' = SubSeq(inotify, EventsPerRead + 1, Len(inotify))
  /\ IF Head(inotify).mask = "IN_ATTRIB"
       THEN pathPc' = "send" /\ pathName' = Head(inotify).name
       ELSE UNCHANGED <<pathPc, pathName>>
  /\ UNCHANGED <<pathK, m_queue>>
  /\ PathStep

PathSend ==
  /\ pathPc = "send"
  /\ sendMessage(PathEvent(pathName))
  /\ pathPc' = "read"
  /\ UNCHANGED <<pathK, pathName, inotify>>
  /\ PathStep

\* read() fails: "Failed to read. Exiting".  The descriptor stays open, but
\* nobody reads it any more: what the kernel keeps for it is dropped.
PathReadFails ==
  /\ IoMayFail
  /\ pathPc = "read"
  /\ pathPc' = "exited" /\ inotify' = <<>>
  /\ UNCHANGED <<pathK, pathName, m_queue>>
  /\ PathStep

PathMonitor ==
  PathScan \/ PathScanSend \/ PathWatch \/ PathRead \/ PathSend

\* ntpSyncMonitorThr: runNTPSyncMonitor().  What its steps leave alone.
NtpStep ==
  UNCHANGED <<up, mgrVars, m_queue, procVars, lastSync, lastMsg, clock,
              pathVars, powerPc, crashes>>

\* adjtimex() reports a synchronised clock and open(O_CREAT) makes the file;
\* if it fails, futimens() is skipped
NtpSynchronised ==
  /\ ntpPc = "poll"
  /\ \/ ntpPc' = "opened" /\ files' = files \cup {"ntp"}
     \/ IoMayFail /\ ntpPc' = "closed" /\ UNCHANGED files
  /\ UNCHANGED <<inotify, clockEvent>>
  /\ NtpStep

\* futimens(): IN_ATTRIB, unless it fails
NtpTouch ==
  /\ ntpPc = "opened" /\ ntpPc' = "closed"
  /\ \/ inotify' = Queued([mask |-> "IN_ATTRIB", name |-> "ntp"])
     \/ IoMayFail /\ UNCHANGED inotify
  /\ UNCHANGED <<files, clockEvent>>
  /\ NtpStep

\* /tmp/clock-event is made, the thread returns
NtpClockEvent ==
  /\ ntpPc = "closed" /\ ntpPc' = "done"
  /\ \/ clockEvent' = TRUE
     \/ IoMayFail /\ UNCHANGED clockEvent
  /\ UNCHANGED fsVars
  /\ NtpStep

\* Mutant: m_state is not reset with the quality
ResetOnWakeM1 ==
  /\ m_timequality' = IF m_timequality = "SECURE" THEN "GOOD"
                      ELSE m_timequality
  /\ UNCHANGED m_state
\* Mutant: everything acquired is forgotten
ResetOnWakeM2 == m_timequality' = "POOR" /\ m_state' = "NTP_WAIT"
\* SECURE is reset to GOOD and RUNNING to NTP_ACQUIRED
ResetOnWake ==
  IF m_timequality = "SECURE"
    THEN m_timequality' = "GOOD" /\ m_state' = "NTP_ACQUIRED"
    ELSE UNCHANGED <<m_timequality, m_state>>

\* Mutant: the reset is not published
PublishWakeM1 == UNCHANGED lastMsg
PublishWake == publishStatus("DEEP_SLEEP_ON", Label(m_timequality'))

\* The power thread: powerhandler("DEEP_SLEEP_OFF"), deepsleepoff() up to the
\* end of its critical section
deepsleepoff ==
  /\ powerPc = "idle"
  /\ StateMutexFree
  /\ ResetOnWake
  /\ m_timersrc' = "Last Known"
  /\ PublishWake
  /\ powerPc' = "resync"
  /\ UNCHANGED <<up, m_queue, procVars, lastSync, clock, fsVars, pathVars,
                 ntpVars, crashes>>

\* The rest of deepsleepoff(), without the lock: timesyncd is restarted, or
\* chronyd bursts and steps the clock, or neither service is active
Resync ==
  /\ powerPc = "resync" /\ powerPc' = "idle"
  /\ clock' \in Times
  /\ UNCHANGED <<up, mgrVars, m_queue, procVars, lastSync, lastMsg, fsVars,
                 pathVars, ntpVars, crashes>>

-----------------------------------------------------------------------------
(* Other processes: timesyncd, the DRM and broadcast services, the user.   *)

ExternalStep ==
  UNCHANGED <<up, mgrVars, m_queue, procVars, lastSync, lastMsg, pathVars,
              ntpVars, powerPc, crashes>>

\* Another process touches a file of m_directory
ExternalTouch ==
  /\ \E name \in Touchable : notifypathAvailable(name)
  /\ UNCHANGED clock
  /\ ExternalStep

\* Another process writes to a file of m_directory that exists
ExternalWrite ==
  /\ \E name \in Noise \cap files :
       inotify' = Queued([mask |-> "IN_MODIFY", name |-> name])
  /\ UNCHANGED <<files, clock>>
  /\ ExternalStep

\* Time passes, or another process sets the clock
ClockMoves ==
  /\ clock' \in Times
  /\ UNCHANGED fsVars
  /\ ExternalStep

External == ExternalTouch \/ ExternalWrite \/ ClockMoves

-----------------------------------------------------------------------------
Next ==
  \/ initialize \/ Crash
  \/ Process \/ Timer
  \/ PathMonitor \/ PathReadFails
  \/ NtpSynchronised \/ NtpTouch \/ NtpClockEvent
  \/ deepsleepoff \/ Resync
  \/ External

Spec == Init /\ [][Next]_vars

\* Every thread that can take a step eventually takes one and systemd
\* restarts the process.  A thread that waits for m_queue_mutex gets it in
\* the end: processThr releases it after every event.  Nothing obliges files
\* to be touched, plugins to answer, the clock to be synchronised, the device
\* to sleep or the process to be killed.
ThreadFairness ==
  /\ WF_vars(initialize)
  /\ WF_vars(Process)
  /\ WF_vars(PathMonitor) /\ SF_vars(PathScanSend) /\ SF_vars(PathSend)
  /\ WF_vars(NtpTouch) /\ WF_vars(NtpClockEvent)
  /\ WF_vars(Resync)

\* No promise about the timer: what happens between two expiries
ThreadSpec == Spec /\ ThreadFairness

\* The ten-minute timer keeps firing, and gets m_queue_mutex in the end
TimerFairness == SF_vars(Timer)

FairSpec == ThreadSpec /\ TimerFairness

=============================================================================
