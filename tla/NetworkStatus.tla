---------------------------- MODULE NetworkStatus ----------------------------
(***************************************************************************)
(* The network status source (systimerfactory/networkstatussrc.cpp).  Its  *)
(* actors:                                                                 *)
(*                                                                         *)
(*   subscription thread  subscribes to onInternetStatusChange, again and  *)
(*                        again until it succeeds                          *)
(*   Thunder's I/O thread calls handle_internetStatusChange(), which sets  *)
(*                        the latch internetUpPending                      *)
(*   processing thread    waits for the latch, clears it and runs          *)
(*                        processInternetOnline() (module ChronyControl)   *)
(*   the destructor       sets stopProcessing, at the end of the process   *)
(*                                                                         *)
(* Both threads wait on one condition variable.  Its mutex is held by      *)
(* everybody who reads or writes the flags, so the test of a flag and the  *)
(* blocking that follows it are one step.  notify_one() wakes whichever    *)
(* waiter it likes.  thunder_client is not protected by the mutex.         *)
(***************************************************************************)
EXTENDS Integers

CONSTANTS
  SubscribeMayFail, \* Subscribe() may fail
  MayStop           \* the destructor may run while the threads do

ASSUME NetworkAssumption == SubscribeMayFail \in BOOLEAN /\ MayStop \in BOOLEAN

VARIABLES
  internetUpPending, stopProcessing, \* NetworkSharedState
  lastStatus,
  thunder_client,  \* "none", or "live" with the handler registered
  procPc,          \* the processing thread
  subPc,           \* the subscription thread
  stopPc,          \* the destructor
  reportedUp,      \* history: the last report delivered was a connected one
  unserved         \* history: a connected transition was reported and
                   \* processInternetOnline() has not started since

threadVars == <<procPc, subPc>>
netHistory == <<reportedUp, unserved>>
netVars == <<internetUpPending, stopProcessing, lastStatus, thunder_client,
             procPc, subPc, stopPc, reportedUp, unserved>>

NetInit ==
  /\ internetUpPending = FALSE /\ stopProcessing = FALSE /\ lastStatus = ""
  /\ thunder_client = "none"
  /\ procPc = "test" /\ subPc = "check" /\ stopPc = "none"
  /\ reportedUp = FALSE /\ unserved = FALSE

-----------------------------------------------------------------------------
(* handle_internetStatusChange(), on Thunder's I/O thread.                 *)

\* The value of a field of the notification; "absent" if it has no such label
ConnectedTexts == {"FULLY_CONNECTED", "fully_connected"}
Texts == ConnectedTexts \cup {"NO_INTERNET"}
Params == [status : Texts \cup {"absent"},
           internetStatus : Texts \cup {"absent"}]

\* Mutant: the older label is not understood
StatusOfM1(params) == IF params.status # "absent" THEN params.status ELSE ""
StatusOf(params) ==
  IF params.status # "absent" THEN params.status
  ELSE IF params.internetStatus # "absent" THEN params.internetStatus
  ELSE ""

\* Mutant: the text is compared as it comes
tolowerM1(text) == text
tolower(text) ==
  CASE text \in ConnectedTexts -> "fully_connected"
    [] text = "NO_INTERNET" -> "no_internet"
    [] OTHER -> text

\* Mutant: only a connected status is remembered
TrackedM1(normalizedStatus) ==
  IF normalizedStatus = "fully_connected" THEN normalizedStatus ELSE lastStatus
\* "always track latest state, even non-connected"
Tracked(normalizedStatus) == normalizedStatus

\* cv.notify_one(): one of the threads that wait, if any
notify_one ==
  \/ procPc = "blocked" /\ procPc' = "test" /\ UNCHANGED subPc
  \/ subPc = "blocked" /\ subPc' = "retry" /\ UNCHANGED procPc
  \/ procPc # "blocked" /\ subPc # "blocked" /\ UNCHANGED threadVars

handle_internetStatusChange(params) ==
  LET normalizedStatus == tolower(StatusOf(params))
      connected == \/ params.status \in ConnectedTexts
                   \/ /\ params.status = "absent"
                      /\ params.internetStatus \in ConnectedTexts
  IN  /\ lastStatus' = Tracked(normalizedStatus)
      /\ IF normalizedStatus # "fully_connected"
              \/ normalizedStatus = lastStatus
           THEN UNCHANGED <<internetUpPending, threadVars>>
           ELSE internetUpPending' = TRUE /\ notify_one
      /\ reportedUp' = connected
      /\ unserved' = (unserved \/ (connected /\ ~reportedUp))

\* NetworkManager notifies a registered handler
Notification ==
  /\ thunder_client = "live"
  /\ \E params \in Params : handle_internetStatusChange(params)
  /\ UNCHANGED <<stopProcessing, thunder_client, stopPc>>

-----------------------------------------------------------------------------
(* runEventProcessingLoop(), on nwEventProcessThrd.                        *)

\* while (!internetUpPending && !stopProcessing) cv.wait(lock)
ProcBlock ==
  /\ procPc = "test" /\ ~internetUpPending /\ ~stopProcessing
  /\ procPc' = "blocked"
  /\ UNCHANGED <<internetUpPending, stopProcessing, lastStatus,
                 thunder_client, subPc, stopPc, netHistory>>

ProcStop ==
  /\ procPc = "test" /\ stopProcessing
  /\ procPc' = "stopped"
  /\ UNCHANGED <<internetUpPending, stopProcessing, lastStatus,
                 thunder_client, subPc, stopPc, netHistory>>

\* Mutant: the call is handed to another thread
ProcBeginM1 ==
  /\ procPc = "test" /\ internetUpPending /\ ~stopProcessing
  /\ internetUpPending' = FALSE /\ unserved' = FALSE
  /\ UNCHANGED <<stopProcessing, lastStatus, thunder_client, threadVars, stopPc,
                 reportedUp>>
\* The latch is cleared before the call
ProcBegin ==
  /\ procPc = "test" /\ internetUpPending /\ ~stopProcessing
  /\ internetUpPending' = FALSE /\ unserved' = FALSE
  /\ procPc' = "online"
  /\ UNCHANGED <<stopProcessing, lastStatus, thunder_client, subPc, stopPc,
                 reportedUp>>

\* Mutant: the latch is cleared after the call
ReturnLatchM1 == internetUpPending' = FALSE
ReturnLatch == UNCHANGED internetUpPending

\* processInternetOnline() returns
ProcReturn ==
  /\ procPc = "online" /\ procPc' = "test"
  /\ ReturnLatch
  /\ UNCHANGED <<stopProcessing, lastStatus, thunder_client, subPc, stopPc,
                 netHistory>>

ProcSpuriousWakeup ==
  /\ procPc = "blocked" /\ procPc' = "test"
  /\ UNCHANGED <<internetUpPending, stopProcessing, lastStatus,
                 thunder_client, subPc, stopPc, netHistory>>

ProcLoop == ProcBlock \/ ProcStop \/ ProcBegin

-----------------------------------------------------------------------------
(* subscribeToInternetEvent(), on nwEventSubscribeThrd.                    *)

SubStep ==
  UNCHANGED <<internetUpPending, stopProcessing, lastStatus, procPc, stopPc,
              netHistory>>

\* Mutant: stopProcessing is not tested before an attempt
SubCheckM1 ==
  /\ subPc = "check" /\ subPc' = "create"
  /\ UNCHANGED thunder_client
  /\ SubStep
\* The test of stopProcessing at the top of the loop
SubCheck ==
  /\ subPc = "check"
  /\ subPc' = IF stopProcessing THEN "stopped" ELSE "create"
  /\ UNCHANGED thunder_client
  /\ SubStep

\* A new client if there is none, and the call of Subscribe(): from now on
\* the handler may be called
SubCreate ==
  /\ subPc = "create" /\ subPc' = "subscribe"
  /\ thunder_client' = "live"
  /\ SubStep

SubSucceeds ==
  /\ subPc = "subscribe" /\ subPc' = "subscribed"
  /\ UNCHANGED thunder_client
  /\ SubStep

\* Mutant: the client of a failed attempt is kept for the next one
ClientAfterFailureM1 == thunder_client
\* delete thunder_client
ClientAfterFailure == "none"

SubFails ==
  /\ SubscribeMayFail
  /\ subPc = "subscribe" /\ subPc' = "retry"
  /\ thunder_client' = ClientAfterFailure
  /\ SubStep

\* while (!stopProcessing) cv.wait_until(lock, deadline)
SubRetry ==
  /\ subPc = "retry"
  /\ subPc' = IF stopProcessing THEN "stopped" ELSE "blocked"
  /\ UNCHANGED thunder_client
  /\ SubStep

\* cv_status::timeout: on to the next attempt, unless shutdown was requested
SubTimeout ==
  /\ subPc = "blocked"
  /\ subPc' = IF stopProcessing THEN "stopped" ELSE "check"
  /\ UNCHANGED thunder_client
  /\ SubStep

SubSpuriousWakeup ==
  /\ subPc = "blocked" /\ subPc' = "retry"
  /\ UNCHANGED thunder_client
  /\ SubStep

SubLoop == SubCheck \/ SubCreate \/ SubSucceeds \/ SubFails \/ SubRetry

-----------------------------------------------------------------------------
(* ~NetworkStatusSrc().                                                    *)

\* stopProcessing = true, under the mutex
StopRequest ==
  /\ MayStop
  /\ stopPc = "none" /\ stopPc' = "notify"
  /\ stopProcessing' = TRUE
  /\ UNCHANGED <<internetUpPending, lastStatus, thunder_client, threadVars,
                 netHistory>>

\* Mutant: notify_one() in the destructor
notify_allM1 == notify_one
\* cv.notify_all()
notify_all ==
  /\ procPc' = IF procPc = "blocked" THEN "test" ELSE procPc
  /\ subPc' = IF subPc = "blocked" THEN "retry" ELSE subPc

StopNotify ==
  /\ stopPc = "notify" /\ stopPc' = "client"
  /\ notify_all
  /\ UNCHANGED <<internetUpPending, stopProcessing, lastStatus,
                 thunder_client, netHistory>>

\* Unsubscribe() and delete, if there is a client by now
StopClient ==
  /\ stopPc = "client" /\ stopPc' = "done"
  /\ thunder_client' = "none"
  /\ UNCHANGED <<internetUpPending, stopProcessing, lastStatus, threadVars,
                 netHistory>>

\* The destructor deleted the client under a call of Subscribe(), which is
\* undefined: the call returns anything, or the process dies, here
StopAborts ==
  /\ stopPc = "done" /\ subPc = "subscribe" /\ thunder_client = "none"
  /\ procPc' = "stopped" /\ subPc' = "stopped"
  /\ UNCHANGED <<internetUpPending, stopProcessing, lastStatus,
                 thunder_client, stopPc, netHistory>>

-----------------------------------------------------------------------------
\* All of the source but the beginning and the end of a call of
\* processInternetOnline()
NetLocal ==
  \/ Notification
  \/ ProcBlock \/ ProcStop \/ ProcSpuriousWakeup
  \/ SubCheck \/ SubCreate \/ SubSucceeds \/ SubFails \/ SubRetry
  \/ SubTimeout \/ SubSpuriousWakeup
  \/ StopRequest \/ StopNotify \/ StopClient \/ StopAborts

NetNext == NetLocal \/ ProcBegin \/ ProcReturn

NetSpec == NetInit /\ [][NetNext]_netVars

\* The threads run, Subscribe() and the chrony commands return (they have
\* timeouts).  Nothing is assumed of notifications, of spurious wakeups, of
\* the retry interval or of the order in which waiters are woken.
NetFairness ==
  /\ WF_netVars(ProcLoop) /\ WF_netVars(ProcReturn)
  /\ WF_netVars(SubLoop)
  /\ WF_netVars(StopNotify) /\ WF_netVars(StopClient)

NetFairSpec == NetSpec /\ NetFairness

-----------------------------------------------------------------------------
(* Properties.                                                             *)

\* The type invariant of the network status source.
NetTypeOK ==
  /\ internetUpPending \in BOOLEAN /\ stopProcessing \in BOOLEAN
  /\ lastStatus \in {"", "fully_connected", "no_internet"}
  /\ thunder_client \in {"none", "live"}
  /\ procPc \in {"test", "blocked", "online", "stopped"}
  /\ subPc \in {"check", "create", "subscribe", "retry", "blocked",
                "subscribed", "stopped"}
  /\ stopPc \in {"none", "notify", "client", "done"}
  /\ reportedUp \in BOOLEAN /\ unserved \in BOOLEAN

\* The latch is set exactly when internet came up, by what was reported and in
\* whatever spelling, and no run of processInternetOnline() has started since:
\* up-down-up is not lost, not even during a run, a repeated up starts no run.
UpIsLatched == internetUpPending <=> unserved

\* The two threads share a condition variable and the callback wakes one of
\* them, yet no thread sleeps through what it waits for: the processing thread
\* is never blocked with the latch set, and neither is with a shutdown
\* requested, unless the destructor is about to call notify_all().
NoLostWakeup ==
  /\ procPc = "blocked" => ~internetUpPending
  /\ stopProcessing /\ stopPc # "notify" =>
       procPc # "blocked" /\ subPc # "blocked"

\* Whenever internet came up, processInternetOnline() runs.
UpIsServed == unserved ~> (~unserved \/ stopProcessing)

\* A shutdown ends both threads, without waiting for the retry interval.
ShutdownCompletes ==
  stopProcessing
    ~> (procPc = "stopped" /\ subPc \in {"subscribed", "stopped"})

\* How far a shutdown still has to go: the steps each thread and the
\* destructor can take at most once stopProcessing is set.
ProcLeft ==
  CASE procPc \in {"blocked", "online"} -> 2
    [] procPc = "test" -> 1
    [] OTHER -> 0
SubLeft ==
  CASE subPc = "create" -> 3
    [] subPc \in {"subscribe", "blocked"} -> 2
    [] subPc \in {"check", "retry"} -> 1
    [] OTHER -> 0
StopLeft ==
  CASE stopPc = "notify" -> 2
    [] stopPc = "client" -> 1
    [] OTHER -> 0
ShutdownLeft == ProcLeft + SubLeft + StopLeft

\* A shutdown only advances: once stopProcessing is set it stays set, no step
\* of a thread starts another attempt, another run of processInternetOnline()
\* or another wait, and a report that still comes in does not set it back.
\* Seven steps of theirs after the request, at the latest, the threads and the
\* destructor have returned.
ShutdownAdvances ==
  [][stopProcessing =>
       /\ stopProcessing'
       /\ \/ ShutdownLeft' < ShutdownLeft
          \/ Notification /\ ShutdownLeft' <= ShutdownLeft]_netVars

\* Who takes the next step: while a transition to connected waits to be served,
\* the processing thread is awake; and until a shutdown is over, the destructor
\* is on its way or a thread is at a step that needs no wakeup.
AwakeUntilDone ==
  /\ unserved /\ ~stopProcessing => procPc \in {"test", "online"}
  /\ stopProcessing =>
       \/ stopPc \in {"notify", "client"}
       \/ procPc \in {"test", "online"}
       \/ subPc \in {"check", "create", "subscribe", "retry"}
       \/ /\ stopPc = "done" /\ procPc = "stopped"
          /\ subPc \in {"subscribed", "stopped"}

-----------------------------------------------------------------------------
(* The inductive invariant behind the safety properties.                   *)

\* A handler can only be called while the subscription thread is in
\* Subscribe() or has succeeded: never while it waits for its next attempt.
ClientHasOwner ==
  thunder_client = "live" => subPc \in {"subscribe", "subscribed"}

\* lastStatus is the normalised form of the last report.
StatusIsTracked == reportedUp <=> lastStatus = "fully_connected"

StopIsRequested == stopProcessing <=> stopPc # "none"

NetInv ==
  /\ NetTypeOK
  /\ ClientHasOwner
  /\ StatusIsTracked
  /\ StopIsRequested
  /\ UpIsLatched
  /\ NoLostWakeup

\* The processing thread leaves its loop for a shutdown only.
LeavesForShutdown == procPc = "stopped" => stopProcessing

=============================================================================
