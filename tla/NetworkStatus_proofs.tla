------------------------ MODULE NetworkStatus_proofs ------------------------
(***************************************************************************)
(* No report of internet is lost and no wakeup goes to the wrong thread,   *)
(* for every order of the threads, the reports and the shutdown.           *)
(***************************************************************************)
EXTENDS NetworkStatus, TLAPS

\* Initially nothing was reported and nobody waits.
LEMMA NetInitInv == NetInit => NetInv
  BY DEF NetInit, NetInv, NetTypeOK, ClientHasOwner, StatusIsTracked,
         StopIsRequested, UpIsLatched, NoLostWakeup

\* What a report says, normalised, is fully_connected exactly if its text is
\* one of the connected ones.
LEMMA NormalisedStatus ==
  ASSUME NEW params \in Params
  PROVE  /\ tolower(StatusOf(params)) \in {"", "fully_connected", "no_internet"}
         /\ tolower(StatusOf(params)) = "fully_connected" <=>
              \/ params.status \in ConnectedTexts
              \/ /\ params.status = "absent"
                 /\ params.internetStatus \in ConnectedTexts
<1>1. /\ params.status \in Texts \cup {"absent"}
      /\ params.internetStatus \in Texts \cup {"absent"}
      BY DEF Params
<1>2. \A text \in Texts \cup {""} :
        /\ tolower(text) \in {"", "fully_connected", "no_internet"}
        /\ tolower(text) = "fully_connected" <=> text \in ConnectedTexts
      BY DEF Texts, ConnectedTexts, tolower
<1>3. /\ "absent" \notin Texts /\ "" \notin ConnectedTexts
      /\ "absent" \notin ConnectedTexts
      BY DEF Texts, ConnectedTexts
<1> QED BY <1>1, <1>2, <1>3 DEF StatusOf

\* A report keeps the invariant.  The subscription thread is not waiting when
\* the handler is called, so notify_one() wakes the processing thread if that
\* one waits.
LEMMA NotificationInv == NetInv /\ Notification => NetInv'
<1> SUFFICES ASSUME NetInv, Notification PROVE NetInv'
    OBVIOUS
<1>1. PICK params \in Params : handle_internetStatusChange(params)
      BY DEF Notification
<1> DEFINE n == tolower(StatusOf(params))
           connected == \/ params.status \in ConnectedTexts
                        \/ /\ params.status = "absent"
                           /\ params.internetStatus \in ConnectedTexts
<1>2. /\ n \in {"", "fully_connected", "no_internet"}
      /\ n = "fully_connected" <=> connected
      /\ connected \in BOOLEAN
      BY NormalisedStatus
<1>3. /\ lastStatus' = n
      /\ reportedUp' = connected
      /\ unserved' = (unserved \/ (connected /\ ~reportedUp))
      BY <1>1 DEF handle_internetStatusChange, Tracked
<1>4. /\ thunder_client = "live" /\ subPc # "blocked"
      /\ UNCHANGED <<stopProcessing, thunder_client, stopPc>>
      BY DEF Notification, NetInv, ClientHasOwner
<1> HIDE DEF n, connected
<1>5. CASE n # "fully_connected" \/ n = lastStatus
  <2>1. UNCHANGED <<internetUpPending, procPc, subPc>>
        BY <1>1, <1>5
        DEF handle_internetStatusChange, threadVars, n
  <2>2. unserved' = unserved
        BY <1>2, <1>3, <1>5 DEF NetInv, StatusIsTracked, NetTypeOK
  <2>4. NetTypeOK'
        BY <1>2, <1>3, <1>4, <2>1, <2>2 DEF NetInv, NetTypeOK
  <2>5. StatusIsTracked'
        BY <1>2, <1>3 DEF StatusIsTracked
  <2>6. ClientHasOwner' /\ StopIsRequested'
        BY <1>4, <2>1, <2>2 DEF NetInv, ClientHasOwner, StopIsRequested
  <2>7. UpIsLatched' /\ NoLostWakeup'
        BY <1>4, <2>1, <2>2 DEF NetInv, UpIsLatched, NoLostWakeup
  <2> QED BY <2>4, <2>5, <2>6, <2>7 DEF NetInv
<1>6. CASE ~(n # "fully_connected" \/ n = lastStatus)
  <2>1. internetUpPending' = TRUE /\ notify_one
        BY <1>1, <1>6 DEF handle_internetStatusChange, n
  <2>2. /\ procPc' = IF procPc = "blocked" THEN "test" ELSE procPc
        /\ subPc' = subPc
        BY <1>4, <2>1 DEF notify_one, threadVars
  <2>3. unserved' = TRUE
        BY <1>2, <1>3, <1>6 DEF NetInv, StatusIsTracked, NetTypeOK
  <2>4. NetTypeOK'
        BY <1>2, <1>3, <1>4, <2>1, <2>2, <2>3 DEF NetInv, NetTypeOK
  <2>5. StatusIsTracked'
        BY <1>2, <1>3 DEF StatusIsTracked
  <2>6. ClientHasOwner' /\ StopIsRequested'
        BY <1>4, <2>1, <2>2, <2>3 DEF NetInv, ClientHasOwner, StopIsRequested
  <2>7. UpIsLatched' /\ NoLostWakeup'
        BY <1>4, <2>1, <2>2, <2>3 DEF NetInv, UpIsLatched, NoLostWakeup
  <2> QED BY <2>4, <2>5, <2>6, <2>7 DEF NetInv
<1> QED BY <1>5, <1>6

\* Every step of the two threads keeps it.
LEMMA ThreadsInv ==
  ASSUME NetInv,
         \/ ProcBlock \/ ProcStop \/ ProcSpuriousWakeup \/ ProcBegin
         \/ ProcReturn \/ SubCheck \/ SubCreate \/ SubSucceeds \/ SubFails
         \/ SubRetry \/ SubTimeout \/ SubSpuriousWakeup
  PROVE  NetInv'
<1> USE DEF NetInv, NetTypeOK, ClientHasOwner, StatusIsTracked,
            StopIsRequested, UpIsLatched, NoLostWakeup, netHistory, threadVars
<1>1. CASE ProcBlock BY <1>1 DEF ProcBlock
<1>2. CASE ProcStop BY <1>2 DEF ProcStop
<1>3. CASE ProcSpuriousWakeup BY <1>3 DEF ProcSpuriousWakeup
<1>4. CASE ProcBegin BY <1>4 DEF ProcBegin
<1>5. CASE ProcReturn BY <1>5 DEF ProcReturn, ReturnLatch
<1>6. CASE SubCheck BY <1>6 DEF SubCheck, SubStep
<1>7. CASE SubCreate BY <1>7 DEF SubCreate, SubStep
<1>8. CASE SubSucceeds BY <1>8 DEF SubSucceeds, SubStep
<1>9. CASE SubFails BY <1>9 DEF SubFails, SubStep, ClientAfterFailure
<1>10. CASE SubRetry BY <1>10 DEF SubRetry, SubStep
<1>11. CASE SubTimeout BY <1>11 DEF SubTimeout, SubStep
<1>12. CASE SubSpuriousWakeup BY <1>12 DEF SubSpuriousWakeup, SubStep
<1> QED
    BY <1>1, <1>2, <1>3, <1>4, <1>5, <1>6, <1>7, <1>8, <1>9, <1>10, <1>11,
       <1>12

\* Every step of the destructor keeps it.
LEMMA StopInv ==
  ASSUME NetInv, StopRequest \/ StopNotify \/ StopClient \/ StopAborts
  PROVE  NetInv'
<1> USE DEF NetInv, NetTypeOK, ClientHasOwner, StatusIsTracked,
            StopIsRequested, UpIsLatched, NoLostWakeup, netHistory, threadVars
<1>1. CASE StopRequest BY <1>1 DEF StopRequest
<1>2. CASE StopNotify BY <1>2 DEF StopNotify, notify_all
<1>3. CASE StopClient BY <1>3 DEF StopClient
<1>4. CASE StopAborts BY <1>4 DEF StopAborts
<1> QED BY <1>1, <1>2, <1>3, <1>4

\* A step that changes nothing keeps it.
LEMMA NetStutter == NetInv /\ UNCHANGED netVars => NetInv'
<1> SUFFICES ASSUME NetInv, UNCHANGED netVars PROVE NetInv'
    OBVIOUS
<1> USE DEF netVars, NetInv
<1>1. NetTypeOK'
  <2>1. /\ internetUpPending' = internetUpPending
        /\ stopProcessing' = stopProcessing
        /\ reportedUp' = reportedUp /\ unserved' = unserved
        OBVIOUS
  <2>2. /\ UNCHANGED <<lastStatus, thunder_client, procPc, subPc, stopPc>>
        OBVIOUS
  <2>3. /\ internetUpPending' \in BOOLEAN /\ stopProcessing' \in BOOLEAN
        /\ reportedUp' \in BOOLEAN /\ unserved' \in BOOLEAN
        BY <2>1, Zenon DEF NetTypeOK
  <2> QED BY <2>2, <2>3 DEF NetTypeOK
<1>2. ClientHasOwner' BY DEF ClientHasOwner
<1>3. StatusIsTracked' BY DEF StatusIsTracked
<1>4. StopIsRequested' BY DEF StopIsRequested
<1>5. UpIsLatched' BY DEF UpIsLatched
<1>6. NoLostWakeup' BY DEF NoLostWakeup
<1> QED BY <1>1, <1>2, <1>3, <1>4, <1>5, <1>6

\* The invariant is inductive.
LEMMA NetNextInv == NetInv /\ [NetNext]_netVars => NetInv'
<1> SUFFICES ASSUME NetInv, NetNext PROVE NetInv'
    BY NetStutter
<1>1. CASE Notification BY <1>1, NotificationInv
<1>2. CASE \/ ProcBlock \/ ProcStop \/ ProcSpuriousWakeup \/ ProcBegin
           \/ ProcReturn \/ SubCheck \/ SubCreate \/ SubSucceeds \/ SubFails
           \/ SubRetry \/ SubTimeout \/ SubSpuriousWakeup
      BY <1>2, ThreadsInv
<1>3. CASE StopRequest \/ StopNotify \/ StopClient \/ StopAborts
      BY <1>3, StopInv
<1> QED BY <1>1, <1>2, <1>3 DEF NetNext, NetLocal

\* The inductive invariant of the network status source.
THEOREM NetworkInvariant == NetSpec => []NetInv
  BY NetInitInv, NetNextInv, PTL DEF NetSpec

\* The types of the network status source are kept.
THEOREM NetworkTypeCorrect == NetSpec => []NetTypeOK
<1>1. NetInv => NetTypeOK BY DEF NetInv
<1> QED BY <1>1, NetworkInvariant, PTL

\* The latch of handle_internetStatusChange() stands exactly for a transition
\* to connected that no run of processInternetOnline() has followed.
THEOREM UpIsAlwaysLatched == NetSpec => []UpIsLatched
<1>1. NetInv => UpIsLatched BY DEF NetInv
<1> QED BY <1>1, NetworkInvariant, PTL

\* With one condition variable for two threads, and notify_one() in the
\* callback, neither thread sleeps through what it waits for.
THEOREM WakeupsAreNotLost == NetSpec => []NoLostWakeup
<1>1. NetInv => NoLostWakeup BY DEF NetInv
<1> QED BY <1>1, NetworkInvariant, PTL

-----------------------------------------------------------------------------
(* The shutdown.                                                           *)

\* What each part still has to do is a number.
LEMMA LeftTypes ==
  /\ ProcLeft \in Nat /\ SubLeft \in Nat /\ StopLeft \in Nat
  /\ ProcLeft' \in Nat /\ SubLeft' \in Nat /\ StopLeft' \in Nat
BY DEF ProcLeft, SubLeft, StopLeft

\* If no part has more to do and one has less, less is left of the shutdown.
LEMMA LeftAdds ==
  /\ ProcLeft' <= ProcLeft /\ SubLeft' <= SubLeft /\ StopLeft' <= StopLeft
     => ShutdownLeft' <= ShutdownLeft
  /\ /\ ProcLeft' <= ProcLeft /\ SubLeft' <= SubLeft /\ StopLeft' <= StopLeft
     /\ ProcLeft' < ProcLeft \/ SubLeft' < SubLeft \/ StopLeft' < StopLeft
     => ShutdownLeft' < ShutdownLeft
<1>1. /\ ShutdownLeft = ProcLeft + SubLeft + StopLeft
      /\ ShutdownLeft' = ProcLeft' + SubLeft' + StopLeft'
  BY DEF ShutdownLeft
<1>2. \A a, b, c, x, y, z \in Nat :
        a <= x /\ b <= y /\ c <= z =>
          /\ a + b + c <= x + y + z
          /\ a < x \/ b < y \/ c < z => a + b + c < x + y + z
  OBVIOUS
<1> QED
  BY <1>1, <1>2, LeftTypes, Zenon

\* It depends on where the part is.
LEMMA LeftFrame ==
  /\ UNCHANGED procPc => ProcLeft' = ProcLeft
  /\ UNCHANGED subPc => SubLeft' = SubLeft
  /\ UNCHANGED stopPc => StopLeft' = StopLeft
BY DEF ProcLeft, SubLeft, StopLeft

\* A report that comes in during a shutdown wakes a thread or changes nothing.
LEMMA NotificationAdvances ==
  ASSUME NetInv, stopProcessing, Notification
  PROVE  stopProcessing' /\ ShutdownLeft' <= ShutdownLeft
<1>1. PICK params \in Params : handle_internetStatusChange(params)
  BY DEF Notification
<1>2. notify_one \/ UNCHANGED threadVars
  BY <1>1, Zenon DEF handle_internetStatusChange
<1>3. UNCHANGED <<stopProcessing, stopPc>>
  BY Zenon DEF Notification
<1>4. ProcLeft' <= ProcLeft /\ SubLeft' <= SubLeft
  BY <1>2 DEF notify_one, threadVars, ProcLeft, SubLeft
<1>5. StopLeft' = StopLeft
  BY <1>3, LeftFrame
<1>6. ShutdownLeft' <= ShutdownLeft
  BY <1>4, <1>5, LeftTypes, LeftAdds
<1> QED
  BY <1>3, <1>6, Zenon

\* A step of one of the threads during a shutdown brings it closer to its end.
LEMMA ThreadAdvances ==
  ASSUME NetInv, stopProcessing,
         \/ ProcBlock \/ ProcStop \/ ProcSpuriousWakeup \/ ProcBegin
         \/ ProcReturn \/ SubCheck \/ SubCreate \/ SubSucceeds \/ SubFails
         \/ SubRetry \/ SubTimeout \/ SubSpuriousWakeup
  PROVE  stopProcessing' /\ ShutdownLeft' < ShutdownLeft
<1>1. UNCHANGED <<stopProcessing, stopPc>>
  BY Zenon DEF ProcBlock, ProcStop, ProcSpuriousWakeup, ProcBegin, ProcReturn,
     SubCheck, SubCreate, SubSucceeds, SubFails, SubRetry, SubTimeout,
     SubSpuriousWakeup, SubStep
<1>2. ASSUME \/ ProcBlock \/ ProcStop \/ ProcSpuriousWakeup \/ ProcBegin
             \/ ProcReturn
      PROVE  ShutdownLeft' < ShutdownLeft
  <2>1. SubLeft' = SubLeft /\ StopLeft' = StopLeft
    <3>1. UNCHANGED subPc
      BY <1>2, Zenon DEF ProcBlock, ProcStop, ProcSpuriousWakeup, ProcBegin,
         ProcReturn
    <3> QED
      BY <1>1, <3>1, LeftFrame
  <2>2. \/ procPc = "test" /\ procPc' = "stopped"
        \/ procPc \in {"blocked", "online"} /\ procPc' = "test"
    BY <1>2, Zenon DEF ProcBlock, ProcStop, ProcSpuriousWakeup, ProcBegin,
       ProcReturn
  <2>3. ProcLeft' < ProcLeft
    BY <2>2 DEF ProcLeft
  <2> QED
    BY <2>1, <2>3, LeftTypes, LeftAdds
<1>3. ASSUME \/ SubCheck \/ SubCreate \/ SubSucceeds \/ SubFails
             \/ SubRetry \/ SubTimeout \/ SubSpuriousWakeup
      PROVE  ShutdownLeft' < ShutdownLeft
  <2>1. ProcLeft' = ProcLeft /\ StopLeft' = StopLeft
    <3>1. UNCHANGED procPc
      BY <1>3, Zenon DEF SubCheck, SubCreate, SubSucceeds, SubFails, SubRetry,
         SubTimeout, SubSpuriousWakeup, SubStep
    <3> QED
      BY <1>1, <3>1, LeftFrame
  <2>2. \/ subPc \in {"check", "retry", "blocked"} /\ subPc' = "stopped"
        \/ subPc = "create" /\ subPc' = "subscribe"
        \/ subPc = "subscribe" /\ subPc' \in {"subscribed", "retry"}
        \/ subPc = "blocked" /\ subPc' = "retry"
    BY <1>3, Zenon DEF SubCheck, SubCreate, SubSucceeds, SubFails, SubRetry,
       SubTimeout, SubSpuriousWakeup
  <2>3. SubLeft' < SubLeft
    BY <2>2 DEF SubLeft
  <2> QED
    BY <2>1, <2>3, LeftTypes, LeftAdds
<1>4. ShutdownLeft' < ShutdownLeft
  BY <1>2, <1>3, Zenon
<1> QED
  BY <1>1, <1>4, Zenon

\* So does a step of the destructor.
LEMMA StopAdvances ==
  ASSUME NetInv, stopProcessing,
         StopRequest \/ StopNotify \/ StopClient \/ StopAborts
  PROVE  stopProcessing' /\ ShutdownLeft' < ShutdownLeft
<1>1. ~StopRequest
  <2>1. stopPc # "none"
    BY DEF NetInv, StopIsRequested
  <2> QED
    BY <2>1, Zenon DEF StopRequest
<1>2. ASSUME StopNotify PROVE ShutdownLeft' < ShutdownLeft
  <2>1. StopLeft = 2 /\ StopLeft' = 1
    BY <1>2 DEF StopNotify, StopLeft
  <2>2. ProcLeft' <= ProcLeft /\ SubLeft' <= SubLeft
    BY <1>2 DEF StopNotify, notify_all, ProcLeft, SubLeft
  <2> QED
    BY <2>1, <2>2, LeftTypes, LeftAdds
<1>3. ASSUME StopClient PROVE ShutdownLeft' < ShutdownLeft
  <2>1. UNCHANGED <<procPc, subPc>>
    BY <1>3, Zenon DEF StopClient, threadVars
  <2>2. ProcLeft' = ProcLeft /\ SubLeft' = SubLeft
    BY <2>1, LeftFrame
  <2>3. StopLeft = 1 /\ StopLeft' = 0
    BY <1>3 DEF StopClient, StopLeft
  <2> QED
    BY <2>2, <2>3, LeftTypes, LeftAdds
<1>4. ASSUME StopAborts PROVE ShutdownLeft' < ShutdownLeft
  <2>1. StopLeft' = StopLeft
    BY <1>4, LeftFrame, Zenon DEF StopAborts
  <2>2. ProcLeft' = 0 /\ SubLeft = 2 /\ SubLeft' = 0
    BY <1>4 DEF StopAborts, ProcLeft, SubLeft
  <2> QED
    BY <2>1, <2>2, LeftTypes, LeftAdds
<1>5. stopProcessing'
  BY <1>1, Zenon DEF StopNotify, StopClient, StopAborts
<1> QED
  BY <1>1, <1>2, <1>3, <1>4, <1>5, Zenon

\* Whatever the threads, the reports and the destructor do, a shutdown that
\* was requested gets closer to its end with every step but a report's, and
\* never gets farther from it: with NoLostWakeup, by which no thread that
\* still has steps to take waits for a wakeup, it ends.
THEOREM ShutdownAlwaysAdvances == NetSpec => ShutdownAdvances
<1> DEFINE A == stopProcessing =>
                  /\ stopProcessing'
                  /\ \/ ShutdownLeft' < ShutdownLeft
                     \/ Notification /\ ShutdownLeft' <= ShutdownLeft
<1>1. NetInv /\ [NetNext]_netVars => [A]_netVars
  <2> SUFFICES ASSUME NetInv, NetNext, stopProcessing
               PROVE  /\ stopProcessing'
                      /\ \/ ShutdownLeft' < ShutdownLeft
                         \/ Notification /\ ShutdownLeft' <= ShutdownLeft
    BY Zenon
  <2>1. CASE Notification
    BY <2>1, NotificationAdvances
  <2>2. CASE \/ ProcBlock \/ ProcStop \/ ProcSpuriousWakeup \/ ProcBegin
             \/ ProcReturn \/ SubCheck \/ SubCreate \/ SubSucceeds
             \/ SubFails \/ SubRetry \/ SubTimeout \/ SubSpuriousWakeup
    BY <2>2, ThreadAdvances
  <2>3. CASE StopRequest \/ StopNotify \/ StopClient \/ StopAborts
    BY <2>3, StopAdvances
  <2> QED
    BY <2>1, <2>2, <2>3 DEF NetNext, NetLocal
<1>2. ShutdownAdvances <=> [][A]_netVars
  BY DEF ShutdownAdvances
<1> HIDE DEF A
<1> QED
  BY <1>1, <1>2, NetworkInvariant, PTL DEF NetSpec

\* Nothing else ends the processing thread, not even a late report.
LEMMA LeavesForShutdownNext ==
  ASSUME NetInv, LeavesForShutdown, [NetNext]_netVars
  PROVE  LeavesForShutdown'
<1> USE DEF LeavesForShutdown
<1>1. CASE UNCHANGED netVars
  BY <1>1, Zenon DEF netVars
<1>2. CASE Notification
  <2>1. UNCHANGED stopProcessing
    BY <1>2, Zenon DEF Notification
  <2>2. procPc' = procPc \/ procPc' = "test"
    BY <1>2, Zenon DEF Notification, handle_internetStatusChange, notify_one,
       threadVars
  <2> QED
    BY <2>1, <2>2
<1>3. CASE ProcBlock \/ ProcSpuriousWakeup \/ ProcBegin \/ ProcReturn
  <2>1. procPc' \in {"blocked", "test", "online"}
    BY <1>3 DEF ProcBlock, ProcSpuriousWakeup, ProcBegin, ProcReturn
  <2> QED
    BY <2>1
<1>4. CASE ProcStop
  BY <1>4, Zenon DEF ProcStop
<1>5. CASE \/ SubCheck \/ SubCreate \/ SubSucceeds \/ SubFails \/ SubRetry
           \/ SubTimeout \/ SubSpuriousWakeup
  <2>1. UNCHANGED <<procPc, stopProcessing>>
    BY <1>5, Zenon DEF SubCheck, SubCreate, SubSucceeds, SubFails, SubRetry,
       SubTimeout, SubSpuriousWakeup, SubStep
  <2> QED
    BY <2>1, Zenon
<1>6. CASE StopRequest
  BY <1>6, Zenon DEF StopRequest
<1>7. CASE StopNotify \/ StopClient \/ StopAborts
  <2>1. stopPc # "none" /\ UNCHANGED stopProcessing
    BY <1>7 DEF StopNotify, StopClient, StopAborts
  <2>2. stopProcessing
    BY <2>1, Zenon DEF NetInv, StopIsRequested
  <2> QED
    BY <2>1, <2>2, Zenon
<1> QED
  BY <1>1, <1>2, <1>3, <1>4, <1>5, <1>6, <1>7, Zenon DEF NetNext, NetLocal

\* A transition that waits finds the processing thread awake, and a shutdown
\* that is not over finds somebody who can take its next step: with the rank
\* above, neither can be stuck.
THEOREM SomebodyIsAwake == NetSpec => []AwakeUntilDone
<1>1. NetInit => LeavesForShutdown
  BY DEF NetInit, LeavesForShutdown
<1>2. NetInv /\ LeavesForShutdown => AwakeUntilDone
  <2> SUFFICES ASSUME NetInv, LeavesForShutdown PROVE AwakeUntilDone
    OBVIOUS
  <2>1. /\ procPc \in {"test", "blocked", "online", "stopped"}
        /\ subPc \in {"check", "create", "subscribe", "retry", "blocked",
                      "subscribed", "stopped"}
        /\ stopPc \in {"none", "notify", "client", "done"}
    BY DEF NetInv, NetTypeOK
  <2>2. unserved => procPc # "blocked"
    BY Zenon DEF NetInv, UpIsLatched, NoLostWakeup
  <2>3. stopProcessing => stopPc # "none"
    BY Zenon DEF NetInv, StopIsRequested
  <2>4. stopProcessing /\ stopPc # "notify" =>
          procPc # "blocked" /\ subPc # "blocked"
    BY Zenon DEF NetInv, NoLostWakeup
  <2>5. procPc = "stopped" => stopProcessing
    BY Zenon DEF LeavesForShutdown
  <2> QED
    BY <2>1, <2>2, <2>3, <2>4, <2>5 DEF AwakeUntilDone
<1>3. NetInv /\ LeavesForShutdown /\ [NetNext]_netVars => LeavesForShutdown'
  BY LeavesForShutdownNext
<1> QED
  BY <1>1, <1>2, <1>3, NetworkInvariant, PTL DEF NetSpec
=============================================================================
