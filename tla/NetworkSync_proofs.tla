------------------------- MODULE NetworkSync_proofs -------------------------
(***************************************************************************)
(* The chrony commands: processInternetOnline() steps the clock only when  *)
(* that is justified, and composing the two modules preserves what each of *)
(* them guarantees.                                                        *)
(***************************************************************************)
EXTENDS NetworkSync, NetworkStatus_proofs

\* No command runs before the first call.
LEMMA ChronyInitInv == ChronyInit => ChronyInv
  BY ChronyAssumption DEF ChronyInit, ChronyInv, ChronyTypeOK

\* Whatever makestep does, the error of the clock stays one of Offsets.
LEMMA MakestepType ==
  ASSUME offset \in Offsets, chronyctl_makestep
  PROVE  offset' \in Offsets
  BY ChronyAssumption DEF chronyctl_makestep

\* Every command of processInternetOnline() keeps the invariant: selected
\* sources were seen since the call began, and the branch that may step is
\* only entered with /tmp/clock-event.
LEMMA NetCommandsInv ==
  ASSUME ChronyInv, NetBegin \/ processInternetOnline \/ NetReturn
  PROVE  ChronyInv'
<1> USE DEF ChronyInv, ChronyTypeOK, NetStep
<1>1. CASE NetBegin BY <1>1 DEF NetBegin, FirstStep
<1>2. CASE NetIsActive BY <1>2 DEF NetIsActive
<1>3. CASE NetCount BY <1>3 DEF NetCount
<1>4. CASE NetOnline BY <1>4 DEF NetOnline
<1>5. CASE NetSelectable BY <1>5 DEF NetSelectable
<1>6. CASE NetBurst BY <1>6 DEF NetBurst
<1>7. CASE NetWaitsync
      BY <1>7 DEF NetWaitsync, WaitsyncResults, AfterWaitsync
<1>8. CASE NetOffset BY <1>8 DEF NetOffset
<1>9. CASE NetMakestep BY <1>9, MakestepType DEF NetMakestep
<1>10. CASE NetReturn BY <1>10 DEF NetReturn
<1> QED
    BY <1>1, <1>2, <1>3, <1>4, <1>5, <1>6, <1>7, <1>8, <1>9, <1>10
    DEF processInternetOnline

\* So does every command of the power thread.
LEMMA PowerCommandsInv ==
  ASSUME ChronyInv, Wake \/ deepsleepoffTail
  PROVE  ChronyInv'
<1> USE DEF ChronyInv, ChronyTypeOK, PowerStep
<1>1. CASE Wake BY <1>1 DEF Wake
<1>2. CASE PowerIsTimesyncd BY <1>2 DEF PowerIsTimesyncd
<1>3. CASE PowerRestart BY <1>3, ChronyAssumption DEF PowerRestart
<1>4. CASE PowerIsChronyd BY <1>4 DEF PowerIsChronyd
<1>5. CASE PowerBurst BY <1>5 DEF PowerBurst
<1>6. CASE PowerWaitsync BY <1>6 DEF PowerWaitsync, AfterWakeWaitsync
<1>7. CASE PowerMakestep BY <1>7, MakestepType DEF PowerMakestep
<1> QED
    BY <1>1, <1>2, <1>3, <1>4, <1>5, <1>6, <1>7 DEF deepsleepoffTail

\* And so does everything around them.
LEMMA SurroundingsInv ==
  ASSUME ChronyInv,
         \/ ChronydChanges \/ TimesyncdChanges \/ ClockDrifts \/ FirstSync
         \/ UNCHANGED chronyVars
  PROVE  ChronyInv'
<1> USE DEF ChronyInv, ChronyTypeOK
<1>1. CASE ChronydChanges BY <1>1 DEF ChronydChanges
<1>2. CASE TimesyncdChanges BY <1>2 DEF TimesyncdChanges
<1>3. CASE ClockDrifts BY <1>3 DEF ClockDrifts
<1>4. CASE FirstSync BY <1>4 DEF FirstSync
<1>5. CASE UNCHANGED chronyVars BY <1>5 DEF chronyVars
<1> QED BY <1>1, <1>2, <1>3, <1>4, <1>5

\* The invariant is inductive.
LEMMA ChronyNextInv == ChronyInv /\ [ChronyNext]_chronyVars => ChronyInv'
  BY NetCommandsInv, PowerCommandsInv, SurroundingsInv
  DEF ChronyNext, ChronyLocal, processInternetOnline, deepsleepoffTail

\* The inductive invariant of the chrony commands.
THEOREM ChronyInvariant == ChronySpec => []ChronyInv
  BY ChronyInitInv, ChronyNextInv, PTL DEF ChronySpec

\* A behaviour of the two together is one of each.
LEMMA SyncImplementsNet == SyncSpec => NetSpec
<1>1. SyncInit => NetInit BY DEF SyncInit
<1>2. [SyncNext]_syncVars => [NetNext]_netVars
      BY DEF SyncNext, NetNext, syncVars
<1> QED BY <1>1, <1>2, PTL DEF SyncSpec, NetSpec

LEMMA SyncImplementsChrony == SyncSpec => ChronySpec
<1>1. SyncInit => ChronyInit BY DEF SyncInit
<1>2. [SyncNext]_syncVars => [ChronyNext]_chronyVars
      BY DEF SyncNext, ChronyNext, syncVars
<1> QED BY <1>1, <1>2, PTL DEF SyncSpec, ChronySpec

\* The network thread never steps the clock before the first sync of a boot or
\* without a reference seen during the call, whatever chronyd, systemd and the
\* power thread do in between.
THEOREM NetworkStepsAreJustified == SyncSpec => []NetworkStepIsJustified
<1>1. ChronyInv => NetworkStepIsJustified
      BY DEF ChronyInv, NetworkStepIsJustified
<1> QED BY <1>1, ChronyInvariant, SyncImplementsChrony, PTL

\* Composed, the source still latches every transition, loses no wakeup and
\* comes nearer to the end of a shutdown with every step of its own threads.
THEOREM ComposedSourceKeepsPromises ==
  SyncSpec => [](UpIsLatched /\ NoLostWakeup) /\ ShutdownAdvances
  BY UpIsAlwaysLatched, WakeupsAreNotLost, ShutdownAlwaysAdvances,
     SyncImplementsNet, PTL

\* The part of SyncTypeOK that relates the two modules
Coupled ==
  /\ netPc # "idle" => procPc \in {"online", "stopped"}
  /\ procPc = "online" => netPc # "idle"

\* No step of one module leaves the other behind.
LEMMA CoupledNext ==
  ASSUME Coupled, NetTypeOK, ChronyTypeOK, [SyncNext]_syncVars
  PROVE  Coupled'
<1>1. CASE NetLocal /\ UNCHANGED chronyVars
  <2>1. netPc' = netPc BY <1>1 DEF chronyVars
  <2>2. /\ procPc' = "online" => procPc = "online"
        /\ procPc \in {"online", "stopped"} =>
             procPc' \in {"online", "stopped"}
        BY <1>1
        DEF NetLocal, Notification, handle_internetStatusChange, notify_one,
            threadVars, ProcBlock, ProcStop, ProcSpuriousWakeup, SubCheck,
            SubCreate, SubSucceeds, SubFails, SubRetry, SubTimeout,
            SubSpuriousWakeup, SubStep, StopRequest, StopNotify, notify_all,
            StopClient, StopAborts
  <2>3. CASE procPc' = "online" BY <2>1, <2>2, <2>3 DEF Coupled
  <2>4. CASE procPc' # "online" BY <2>1, <2>2, <2>4 DEF Coupled
  <2> QED BY <2>3, <2>4
<1>2. CASE ChronyLocal /\ UNCHANGED netVars
  <2>1. procPc' = procPc BY <1>2 DEF netVars
  <2>2. netPc' # "idle" <=> netPc # "idle"
        BY <1>2
        DEF ChronyLocal, NetStep, PowerStep, NetIsActive, NetCount, NetOnline,
            NetSelectable, NetBurst, NetWaitsync, AfterWaitsync, NetOffset,
            NetMakestep, Wake, PowerIsTimesyncd, PowerRestart, PowerIsChronyd,
            PowerBurst, PowerWaitsync, PowerMakestep, ChronydChanges,
            TimesyncdChanges, ClockDrifts, FirstSync
  <2> QED BY <2>1, <2>2 DEF Coupled
<1>3. CASE ProcBegin /\ NetBegin
      BY <1>3 DEF ProcBegin, NetBegin, FirstStep, Coupled
<1>4. CASE ProcReturn /\ NetReturn
      BY <1>4 DEF ProcReturn, NetReturn, Coupled
<1>5. CASE UNCHANGED syncVars
      BY <1>5 DEF syncVars, netVars, chronyVars, Coupled
<1> QED BY <1>1, <1>2, <1>3, <1>4, <1>5 DEF SyncNext

\* Both modules keep their types, and the processing thread is in
\* processInternetOnline() exactly while its commands run.
THEOREM SyncTypeCorrect == SyncSpec => []SyncTypeOK
<1>1. SyncInit => Coupled
      BY DEF SyncInit, NetInit, ChronyInit, Coupled
<1>2. ChronyInv => ChronyTypeOK BY DEF ChronyInv
<1>3. SyncTypeOK <=> NetTypeOK /\ ChronyTypeOK /\ Coupled
      BY DEF SyncTypeOK, Coupled
<1>4. Coupled /\ NetTypeOK /\ ChronyTypeOK /\ [SyncNext]_syncVars => Coupled'
      BY CoupledNext
<1> QED
    BY <1>1, <1>2, <1>3, <1>4, NetworkTypeCorrect, ChronyInvariant,
       SyncImplementsNet, SyncImplementsChrony, PTL
    DEF SyncSpec

-----------------------------------------------------------------------------
(* Corrections of the clock.                                               *)

\* Each thread gives its commands in order, and its last one is given only
\* with the clock within the threshold or leaves it there.
LEMMA CommandsAdvance ==
  ASSUME ChronyTypeOK, Synced
  PROVE  /\ NetLeft > 0 /\ (NetSelectable \/ NetOffset \/ NetMakestep) =>
              NetLeft' < NetLeft /\ (NetLeft' = 0 => Within')
         /\ PowerLeft > 0 /\ deepsleepoffTail =>
              PowerLeft' < PowerLeft /\ (PowerLeft' = 0 => Within')
<1>1. Answers /\ chronyd = "selected"
  BY DEF Synced, Answers
<1>2. offset \in Int
  BY ChronyAssumption DEF ChronyTypeOK
<1>3. NetSelectable => NetLeft = 3 /\ NetLeft' = 2
  BY <1>1 DEF NetSelectable, NetLeft
<1>4. NetOffset => NetLeft = 2 /\ (NetLeft' = 1 \/ (NetLeft' = 0 /\ Within'))
  BY <1>1, <1>2 DEF NetOffset, NetLeft, fabs, Within, Threshold
<1>5. chronyctl_makestep => Within'
  BY <1>1 DEF chronyctl_makestep, Within, Threshold
<1>6. NetMakestep => NetLeft = 1 /\ NetLeft' = 0 /\ Within'
  BY <1>5 DEF NetMakestep, NetLeft
<1>7. PowerIsTimesyncd => PowerLeft = 5 /\ PowerLeft' = 4
  BY DEF Synced, PowerIsTimesyncd, PowerLeft
<1>8. PowerIsChronyd => PowerLeft = 4 /\ PowerLeft' = 3
  BY <1>1 DEF PowerIsChronyd, PowerLeft, IsActive
<1>9. PowerBurst => PowerLeft = 3 /\ PowerLeft' = 2
  BY DEF PowerBurst, PowerLeft
<1>10. PowerWaitsync => PowerLeft = 2 /\ PowerLeft' = 1
  BY DEF PowerWaitsync, AfterWakeWaitsync, PowerLeft
<1>11. PowerMakestep => PowerLeft = 1 /\ PowerLeft' = 0 /\ Within'
  BY <1>5 DEF PowerMakestep, PowerLeft
<1>12. PowerRestart => PowerLeft = 0
  BY DEF PowerRestart, PowerLeft
<1> QED
  BY <1>3, <1>4, <1>6, <1>7, <1>8, <1>9, <1>10, <1>11, <1>12
  DEF deepsleepoffTail

\* While chronyd has a reference, a correction begun by the network thread or
\* by a wake only moves on, and ends with the error within the threshold, for
\* every set of errors and whatever the two threads do to each other.
THEOREM CorrectionsAlwaysAdvance == SyncSpec => CorrectionAdvances
<1> DEFINE A ==
      Synced =>
        /\ NetLeft > 0 =>
             \/ netPc' = netPc
             \/ NetLeft' < NetLeft /\ (NetLeft' = 0 => Within')
        /\ PowerLeft > 0 =>
             \/ powerPc' = powerPc
             \/ PowerLeft' < PowerLeft /\ (PowerLeft' = 0 => Within')
<1>1. ChronyInv /\ [ChronyNext]_chronyVars => [A]_chronyVars
  <2> SUFFICES ASSUME ChronyInv, ChronyNext PROVE A
    OBVIOUS
  <2>1. ChronyTypeOK
    BY DEF ChronyInv
  <2>2. CASE NetSelectable \/ NetOffset \/ NetMakestep
    <3>1. powerPc' = powerPc
      BY <2>2, Zenon DEF NetSelectable, NetOffset, NetMakestep, NetStep
    <3> QED
      BY <2>1, <2>2, <3>1, CommandsAdvance
  <2>3. CASE \/ NetIsActive \/ NetCount \/ NetOnline \/ NetBurst
             \/ NetWaitsync \/ NetBegin \/ NetReturn
    <3>1. powerPc' = powerPc
      BY <2>3, Zenon DEF NetIsActive, NetCount, NetOnline, NetBurst,
         NetWaitsync, NetBegin, NetReturn, NetStep
    <3>2. NetLeft = 0
      BY <2>3 DEF NetIsActive, NetCount, NetOnline, NetBurst, NetWaitsync,
         NetBegin, NetReturn, NetLeft
    <3> QED
      BY <3>1, <3>2
  <2>4. CASE deepsleepoffTail
    <3>1. netPc' = netPc
      BY <2>4, Zenon DEF deepsleepoffTail, PowerIsTimesyncd, PowerRestart,
         PowerIsChronyd, PowerBurst, PowerWaitsync, PowerMakestep, PowerStep
    <3> QED
      BY <2>1, <2>4, <3>1, CommandsAdvance
  <2>5. CASE Wake
    <3>1. netPc' = netPc /\ PowerLeft = 0
      BY <2>5 DEF Wake, PowerStep, PowerLeft
    <3> QED
      BY <3>1
  <2>6. CASE ChronydChanges \/ TimesyncdChanges \/ ClockDrifts \/ FirstSync
    <3>1. UNCHANGED <<netPc, powerPc>>
      BY <2>6, Zenon DEF ChronydChanges, TimesyncdChanges, ClockDrifts,
         FirstSync
    <3> QED
      BY <3>1
  <2> QED
    BY <2>2, <2>3, <2>4, <2>5, <2>6, Zenon
    DEF ChronyNext, ChronyLocal, deepsleepoffTail
<1>2. CorrectionAdvances <=> [][A]_chronyVars
  BY DEF CorrectionAdvances
<1> HIDE DEF A
<1> QED
  BY <1>1, <1>2, ChronyInvariant, SyncImplementsChrony, PTL DEF ChronySpec
=============================================================================
