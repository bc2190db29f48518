---------------------------- MODULE ChronyControl ----------------------------
(***************************************************************************)
(* Who tells chronyd what, and when.  Two threads issue chronyctl commands *)
(* without a common lock:                                                  *)
(*                                                                         *)
(*   the processing thread of the network status source, in                *)
(*     processInternetOnline() (systimerfactory/networkstatussrc.cpp)      *)
(*   the power thread, in the part of deepsleepoff() (systimemgr.cpp) that *)
(*     follows its critical section                                        *)
(*                                                                         *)
(* Every command is a step of its own; a command may take seconds, and in  *)
(* between chronyd, the services and the clock change.                     *)
(***************************************************************************)
EXTENDS Integers

CONSTANTS
  ChronyEnabled, \* m_chronyRfcEnabled
  Offsets        \* what the error of the system clock can be, in milliseconds

ASSUME ChronyAssumption ==
  ChronyEnabled \in BOOLEAN /\ Offsets \subseteq Int /\ 0 \in Offsets

VARIABLES
  initialised, \* chronyctl_init() was called and succeeded
  timesyncd,   \* systemd-timesyncd.service is active
  chronyd,     \* chronyd.service: "inactive"; "silent", active but not
               \* answering; "nosources", "unselected" or "selected"
  offset,      \* the error of the system clock
  clockEvent,  \* /tmp/clock-event exists: the first sync of this boot is done
  netPc,       \* processInternetOnline(): the command it is about to give
  powerPc,     \* the tail of deepsleepoff(): the same
  sawSelected  \* history: chronyd had a selected source at some time since
               \* processInternetOnline() was called

chronyVars == <<initialised, timesyncd, chronyd, offset, clockEvent, netPc,
                powerPc, sawSelected>>

\* OFFSET_STEP_THRESHOLD_S
Threshold == 1000

\* Mutant: the sign is not dropped
fabsM1(d) == d
fabs(d) == IF d < 0 THEN -d ELSE d

\* initialize(): an error of chronyctl_init() is only logged
ChronyInit ==
  /\ initialised \in (IF ChronyEnabled THEN BOOLEAN ELSE {FALSE})
  /\ timesyncd \in BOOLEAN /\ chronyd = "inactive" /\ offset \in Offsets
  /\ clockEvent = FALSE
  /\ netPc = "idle" /\ powerPc = "idle" /\ sawSelected = FALSE

-----------------------------------------------------------------------------
(* The chronyctl library.                                                  *)

IsActive == chronyd # "inactive"
Answers == initialised /\ chronyd \notin {"inactive", "silent"}

\* chronyctl_waitsync() succeeds if it sees a selected source in its 20
\* tries; with a source selected it can still have run out of tries before
WaitsyncResults ==
  IF Answers /\ chronyd = "selected" THEN {TRUE, FALSE} ELSE {FALSE}

\* chronyctl_makestep() without a selected source fails or sets the clock to
\* anything.  A failure with one is only logged by both callers, and is a
\* chronyd that fell silent just before (ChronydChanges)
chronyctl_makestep ==
  IF Answers
    THEN offset' \in (IF chronyd = "selected" THEN {0} ELSE Offsets)
    ELSE UNCHANGED offset

-----------------------------------------------------------------------------
(* processInternetOnline().                                                *)

\* What a step of it leaves alone
NetStep ==
  UNCHANGED <<initialised, timesyncd, chronyd, clockEvent, powerPc>>

\* Mutant: chronyd is commanded before the first sync
FirstStepM1 == "selectable"
\* access("/tmp/clock-event")
FirstStep == IF clockEvent THEN "selectable" ELSE "isActive"

NetBegin ==
  /\ ChronyEnabled
  /\ netPc = "idle" /\ netPc' = FirstStep
  /\ sawSelected' = (chronyd = "selected")
  /\ UNCHANGED offset
  /\ NetStep

\* Case A: chronyd is not active
NetIsActive ==
  /\ netPc = "isActive"
  /\ netPc' = IF IsActive THEN "count" ELSE "return"
  /\ UNCHANGED <<offset, sawSelected>>
  /\ NetStep

\* Mutant: taken for offline if there are sources
NoSourcesM1 == Answers /\ chronyd \in {"unselected", "selected"}
\* chronyctl_get_source_count() succeeds with 0
NoSources == Answers /\ chronyd = "nosources"

\* Case B: the count fails or is not 0.  Case C: it is 0
NetCount ==
  /\ netPc = "count"
  /\ netPc' = IF NoSources THEN "online" ELSE "return"
  /\ UNCHANGED <<offset, sawSelected>>
  /\ NetStep

\* chronyctl_online(): what chronyd makes of it is up to it
NetOnline ==
  /\ netPc = "online" /\ netPc' = "return"
  /\ UNCHANGED <<offset, sawSelected>>
  /\ NetStep

\* chronyctl_has_selectable_source(); a failure counts as no
NetSelectable ==
  /\ netPc = "selectable"
  /\ netPc' = IF Answers /\ chronyd = "selected" THEN "offset" ELSE "burst"
  /\ UNCHANGED <<offset, sawSelected>>
  /\ NetStep

\* chronyctl_burst(): a failure is only logged
NetBurst ==
  /\ netPc = "burst" /\ netPc' = "waitsync"
  /\ UNCHANGED <<offset, sawSelected>>
  /\ NetStep

\* Mutant: makestep in any case, like deepsleepoff()
AfterWaitsyncM1(synced) == "makestep"
\* "makestep MUST NOT run if waitsync times out"
AfterWaitsync(synced) == IF synced THEN "makestep" ELSE "return"

NetWaitsync ==
  /\ netPc = "waitsync"
  /\ \E synced \in WaitsyncResults : netPc' = AfterWaitsync(synced)
  /\ UNCHANGED <<offset, sawSelected>>
  /\ NetStep

\* chronyctl_get_system_time_offset(); 0.0 if it fails
NetOffset ==
  /\ netPc = "offset"
  /\ netPc' = IF fabs(IF Answers THEN offset ELSE 0) > Threshold
                THEN "makestep" ELSE "return"
  /\ UNCHANGED <<offset, sawSelected>>
  /\ NetStep

NetMakestep ==
  /\ netPc = "makestep" /\ netPc' = "return"
  /\ chronyctl_makestep
  /\ UNCHANGED sawSelected
  /\ NetStep

processInternetOnline ==
  \/ NetIsActive \/ NetCount \/ NetOnline \/ NetSelectable \/ NetBurst
  \/ NetWaitsync \/ NetOffset \/ NetMakestep

\* processInternetOnline() returns
NetReturn ==
  /\ netPc = "return" /\ netPc' = "idle"
  /\ UNCHANGED <<offset, sawSelected>>
  /\ NetStep

-----------------------------------------------------------------------------
(* The tail of deepsleepoff(), on the power thread.                        *)

PowerStep ==
  UNCHANGED <<initialised, timesyncd, chronyd, clockEvent, netPc, sawSelected>>

\* deepsleepoff() leaves its critical section
Wake ==
  /\ powerPc = "idle" /\ powerPc' = "isTimesyncd"
  /\ UNCHANGED offset
  /\ PowerStep

PowerIsTimesyncd ==
  /\ powerPc = "isTimesyncd"
  /\ powerPc' = IF timesyncd THEN "restart" ELSE "isChronyd"
  /\ UNCHANGED offset
  /\ PowerStep

\* systemctl reset-failed and restart: timesyncd sets the clock, or not yet
PowerRestart ==
  /\ powerPc = "restart" /\ powerPc' = "idle"
  /\ offset' \in {offset, 0}
  /\ PowerStep

\* Neither service is active: nothing is done
PowerIsChronyd ==
  /\ powerPc = "isChronyd"
  /\ powerPc' = IF IsActive THEN "burst" ELSE "idle"
  /\ UNCHANGED offset
  /\ PowerStep

PowerBurst ==
  /\ powerPc = "burst" /\ powerPc' = "waitsync"
  /\ UNCHANGED offset
  /\ PowerStep

\* Mutant: makestep only if waitsync succeeded
AfterWakeWaitsyncM1(synced) == IF synced THEN "makestep" ELSE "idle"
\* A failure of waitsync is only logged
AfterWakeWaitsync(synced) == "makestep"

PowerWaitsync ==
  /\ powerPc = "waitsync"
  /\ \E synced \in WaitsyncResults : powerPc' = AfterWakeWaitsync(synced)
  /\ UNCHANGED offset
  /\ PowerStep

PowerMakestep ==
  /\ powerPc = "makestep" /\ powerPc' = "idle"
  /\ chronyctl_makestep
  /\ PowerStep

deepsleepoffTail ==
  \/ PowerIsTimesyncd \/ PowerRestart \/ PowerIsChronyd
  \/ PowerBurst \/ PowerWaitsync \/ PowerMakestep

-----------------------------------------------------------------------------
(* chronyd, systemd, the clock, and the NTP sync monitor thread.           *)

ChronydChanges ==
  /\ chronyd' \in {"inactive", "silent", "nosources", "unselected",
                   "selected"} \ {chronyd}
  /\ sawSelected' = (sawSelected \/ chronyd' = "selected")
  /\ UNCHANGED <<initialised, timesyncd, offset, clockEvent, netPc, powerPc>>

TimesyncdChanges ==
  /\ timesyncd' = ~timesyncd
  /\ UNCHANGED <<initialised, chronyd, offset, clockEvent, netPc, powerPc,
                 sawSelected>>

ClockDrifts ==
  /\ offset' \in Offsets \ {offset}
  /\ UNCHANGED <<initialised, timesyncd, chronyd, clockEvent, netPc, powerPc,
                 sawSelected>>

\* runNTPSyncMonitor() makes /tmp/clock-event, which nobody deletes
FirstSync ==
  /\ ChronyEnabled /\ ~clockEvent
  /\ clockEvent' = TRUE
  /\ UNCHANGED <<initialised, timesyncd, chronyd, offset, netPc, powerPc,
                 sawSelected>>

-----------------------------------------------------------------------------
\* Everything but the beginning and the end of a call of
\* processInternetOnline()
ChronyLocal ==
  \/ NetIsActive \/ NetCount \/ NetOnline \/ NetSelectable \/ NetBurst
  \/ NetWaitsync \/ NetOffset \/ NetMakestep
  \/ Wake \/ PowerIsTimesyncd \/ PowerRestart \/ PowerIsChronyd
  \/ PowerBurst \/ PowerWaitsync \/ PowerMakestep
  \/ ChronydChanges \/ TimesyncdChanges \/ ClockDrifts \/ FirstSync

ChronyNext == ChronyLocal \/ NetBegin \/ NetReturn

ChronySpec == ChronyInit /\ [][ChronyNext]_chronyVars

\* Every command returns: systemctl answers, chronyctl has timeouts
ChronyFairness ==
  /\ WF_chronyVars(processInternetOnline)
  /\ WF_chronyVars(NetReturn)
  /\ WF_chronyVars(deepsleepoffTail)

-----------------------------------------------------------------------------
(* Properties.                                                             *)

\* The type invariant of the chrony commands.
ChronyTypeOK ==
  /\ initialised \in BOOLEAN /\ timesyncd \in BOOLEAN
  /\ chronyd \in {"inactive", "silent", "nosources", "unselected", "selected"}
  /\ offset \in Offsets
  /\ clockEvent \in BOOLEAN
  /\ netPc \in {"idle", "isActive", "count", "online", "selectable", "burst",
                "waitsync", "offset", "makestep", "return"}
  /\ powerPc \in {"idle", "isTimesyncd", "restart", "isChronyd", "burst",
                  "waitsync", "makestep"}
  /\ sawSelected \in BOOLEAN

\* processInternetOnline() steps the clock only after the first sync of this
\* boot, and only if chronyd had a reference to step to at some time during
\* that call, whatever the power thread does to chronyd meanwhile.
NetworkStepIsJustified == netPc = "makestep" => clockEvent /\ sawSelected

\* Behind it: a call that saw a selected source did so after it began, and
\* the branch that may step is only entered after the first sync.
ChronyInv ==
  /\ ChronyTypeOK
  /\ netPc \in {"selectable", "burst", "waitsync", "offset", "makestep"}
       => clockEvent
  /\ netPc \in {"offset", "makestep"} => sawSelected
  /\ netPc # "idle" /\ chronyd = "selected" => sawSelected

Within == -Threshold <= offset /\ offset <= Threshold
Synced == initialised /\ ~timesyncd /\ chronyd = "selected"

\* After a wake the clock is put right: if chronyd has a reference from then
\* on, an error above the threshold does not outlive the wake.
WakeCorrects ==
  (powerPc = "isTimesyncd" /\ []Synced) ~> Within

\* The commands a correction of the clock still has to give, in the branch of
\* processInternetOnline() that has a reference and in the tail of
\* deepsleepoff() unless it has turned to timesyncd.
NetLeft ==
  CASE netPc = "selectable" -> 3
    [] netPc = "offset" -> 2
    [] netPc = "makestep" -> 1
    [] OTHER -> 0
PowerLeft ==
  CASE powerPc = "isTimesyncd" -> 5
    [] powerPc = "isChronyd" -> 4
    [] powerPc = "burst" -> 3
    [] powerPc = "waitsync" -> 2
    [] powerPc = "makestep" -> 1
    [] OTHER -> 0

\* While chronyd has a reference, each command of either thread brings its
\* correction nearer to the end, whatever the other thread and the clock do in
\* between, and at its end the error is within the threshold: neither thread
\* leaves by another way, on either side of zero or at the threshold itself.
CorrectionAdvances ==
  [][Synced =>
       /\ NetLeft > 0 =>
            \/ netPc' = netPc
            \/ NetLeft' < NetLeft /\ (NetLeft' = 0 => Within')
       /\ PowerLeft > 0 =>
            \/ powerPc' = powerPc
            \/ PowerLeft' < PowerLeft /\ (PowerLeft' = 0 => Within')]_chronyVars

=============================================================================
