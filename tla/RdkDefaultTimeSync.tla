------------------------- MODULE RdkDefaultTimeSync -------------------------
(***************************************************************************)
(* The default ITimeSync (systimerfactory/rdkdefaulttimesync.cpp): the     *)
(* last known good time, kept in m_currentTime and in a text file, and     *)
(* what the time manager makes of it at startup (setInitialTime()).        *)
(*                                                                         *)
(* setInitialTime() reads the clock, compares it and then sets it: another *)
(* process may set the clock between the two calls.                        *)
(*                                                                         *)
(* updateTime() opens its file with ios::out, which truncates it, and then *)
(* writes and closes it: two steps, and the power can fail between them.   *)
(***************************************************************************)
EXTENDS Integers

CONSTANTS
  BuildTime,   \* BUILD_TIME of /version.txt, 0 if there is none
  Clocks,      \* the values CLOCK_REALTIME is set to by time services
  PowerOn,     \* what CLOCK_REALTIME shows after the power comes back
  WriteMayFail, \* the file may not be opened, or the disk is full
  SettimeMayFail, \* clock_settime() may fail
  MaxTime      \* bound on the times of the model

ASSUME TimeSyncAssumption ==
  /\ BuildTime \in Nat
  /\ Clocks \subseteq Nat
  /\ PowerOn \in Nat
  /\ WriteMayFail \in BOOLEAN
  /\ SettimeMayFail \in BOOLEAN
  /\ MaxTime \in Nat

VARIABLES
  phase,         \* of the process: "down", setInitialTime() at clock_gettime()
                 \* ("check") and at clock_settime() ("set"), "running"
  currenttime,   \* setInitialTime(): the clock as it was read, 0 outside of it
  file,          \* what a read of the file yields: 0 if absent or empty
  m_currentTime,
  clock,         \* CLOCK_REALTIME
  updatetime,    \* updateTime(): the value to be written, -1 outside of it
  saved          \* the last value that was completely written (not in the code)

vars == <<phase, currenttime, file, m_currentTime, clock, updatetime, saved>>

Init ==
  /\ phase = "down" /\ currenttime = 0 /\ file = 0 /\ m_currentTime = 0
  /\ clock = PowerOn /\ updatetime = -1 /\ saved = 0

\* getTime(): the later one of the file's time and the build time
getTime == IF file > BuildTime THEN file ELSE BuildTime

Alive == phase # "down"

\* initialize() calls setInitialTime(), which asks for the time (it is also
\* m_currentTime now) and returns if that is 0
Start ==
  /\ ~Alive
  /\ m_currentTime' = getTime
  /\ phase' = IF getTime = 0 THEN "running" ELSE "check"
  /\ UNCHANGED <<currenttime, file, clock, updatetime, saved>>

\* Mutant: the clock is set whether or not it is ahead
CheckClockM1 ==
  /\ phase = "check"
  /\ currenttime' = clock /\ phase' = "set"
  /\ UNCHANGED <<file, m_currentTime, clock, updatetime, saved>>
\* The clock is read and compared; a clock that is ahead is left alone
CheckClock ==
  /\ phase = "check"
  /\ \/ clock > m_currentTime /\ phase' = "running" /\ UNCHANGED currenttime
     \/ clock <= m_currentTime /\ phase' = "set" /\ currenttime' = clock
  /\ UNCHANGED <<file, m_currentTime, clock, updatetime, saved>>

\* clock_settime() sets the clock, whatever it shows by now, or fails, which
\* is only logged
SetClock ==
  /\ phase = "set"
  /\ phase' = "running" /\ currenttime' = 0
  /\ \/ clock' = m_currentTime
     \/ SettimeMayFail /\ UNCHANGED clock
  /\ UNCHANGED <<file, m_currentTime, updatetime, saved>>

\* Mutant: the current time follows the clock back
AdvanceM1(time) == time
\* m_currentTime after an update: advanced to the given time, or by ten
\* minutes if that would move it back
Advance(time) ==
  IF time >= m_currentTime THEN time ELSE m_currentTime + 600

\* Mutant: what is written is the time of the next period
ToWriteM1(time) == time + 600
\* timefile << updatetime: the time given, not m_currentTime
ToWrite(time) == time

\* updateTime(locTime) up to the ofstream constructor, which truncates the
\* file.  0 stands for the current CLOCK_REALTIME.
BeginUpdate(locTime) ==
  LET time == IF locTime = 0 THEN clock ELSE locTime
  IN  /\ phase = "running" /\ updatetime = -1
      /\ Advance(time) <= MaxTime
      /\ m_currentTime' = Advance(time)
      /\ \/ updatetime' = ToWrite(time) /\ file' = 0
         \/ WriteMayFail /\ UNCHANGED <<updatetime, file>>
      /\ UNCHANGED <<phase, currenttime, clock, saved>>

\* Mutant: the value is gone before it is written
EndUpdateM1 ==
  /\ updatetime # -1
  /\ updatetime' = -1
  /\ file' = updatetime' /\ saved' = updatetime'
  /\ UNCHANGED <<phase, currenttime, m_currentTime, clock>>
\* The value reaches the file, or the disk is full and it stays empty
EndUpdate ==
  /\ updatetime # -1
  /\ updatetime' = -1
  /\ \/ file' = updatetime /\ saved' = updatetime
     \/ WriteMayFail /\ UNCHANGED <<file, saved>>
  /\ UNCHANGED <<phase, currenttime, m_currentTime, clock>>

\* timerExpiry() and the other handlers call updateTimeSync() with 0 or with
\* a reference time, which is a clock reading
updateTime == \E locTime \in {0} \cup Clocks : BeginUpdate(locTime)

\* NTP, DTT or a user sets the clock, in either direction
ClockStep ==
  /\ clock' \in Clocks
  /\ UNCHANGED <<phase, currenttime, file, m_currentTime, updatetime, saved>>

\* The process is killed; the clock runs on
Kill ==
  /\ Alive
  /\ phase' = "down" /\ currenttime' = 0
  /\ m_currentTime' = 0 /\ updatetime' = -1
  /\ UNCHANGED <<file, clock, saved>>

\* The device loses power and its clock
PowerLoss ==
  /\ phase' = "down" /\ currenttime' = 0
  /\ m_currentTime' = 0 /\ updatetime' = -1
  /\ clock' = PowerOn
  /\ UNCHANGED <<file, saved>>

Next ==
  \/ Start \/ CheckClock \/ SetClock
  \/ updateTime \/ EndUpdate
  \/ ClockStep \/ Kill \/ PowerLoss

Spec == Init /\ [][Next]_vars

-----------------------------------------------------------------------------
\* The type invariant: times are natural numbers and -1 marks the time
\* between two calls of updateTime().
TypeOK ==
  /\ phase \in {"down", "check", "set", "running"}
  /\ currenttime \in Nat
  /\ file \in Nat /\ m_currentTime \in Nat /\ clock \in Nat
  /\ updatetime \in Nat \cup {-1} /\ saved \in Nat

\* updateTime() never moves m_currentTime back while the process lives,
\* whatever the clock and the references do.
CurrentTimeIsMonotone ==
  [][Alive /\ Alive' => m_currentTime' >= m_currentTime]_vars

\* The file is never ahead of m_currentTime, although the two get different
\* values, neither after a restart nor between the truncation and the write:
\* a restart cannot jump past what the running process believed.
FileIsNotAhead ==
  Alive => /\ file <= m_currentTime
           /\ updatetime <= m_currentTime
           /\ BuildTime <= m_currentTime

\* When setInitialTime() leaves the clock alone because it is ahead, or sets
\* it, the clock is not before the build of the software or the time in the
\* file, whatever was lost; and a setting does not move it back behind what
\* was read, so that all it can undo is a step that came between
\* clock_gettime() and clock_settime().  (Nothing is claimed when
\* clock_settime() failed: the clock stays then.)
StartIsNotInThePast ==
  [][ /\ phase \in {"check", "set"} /\ phase' = "running"
      /\ phase = "check" \/ clock' # clock
      => clock' >= BuildTime /\ clock' >= file /\ clock' >= currenttime ]_vars

-----------------------------------------------------------------------------
(* Refuted by a run.                                                       *)

\* clock-file/spec.md: the time is persisted so that a last known good time
\* is available on the next boot.  (Not after a power loss between the
\* truncation of the file and the write.)
LastKnownGoodSurvives ==
  [][~Alive /\ Alive' => m_currentTime' >= saved]_vars
=============================================================================
