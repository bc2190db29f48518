--------------------------- MODULE PowerController ---------------------------
(***************************************************************************)
(* The power controller subscriber                                         *)
(* (systimerfactory/ipowercontrollersubscriber.cpp).  Its actors:          *)
(*                                                                         *)
(*   main          subscribe(): starts the event thread, connects and      *)
(*                 registers the callback, or leaves that to a thread that *)
(*                 tries until it succeeds                                 *)
(*   the library   calls sysTimeMgrPwrEventHandler() for a power change,   *)
(*                 which queues it under m_pwrEvtQueueLock and then calls  *)
(*                 notify_one() without any lock                           *)
(*   event thread  waits for the queue to become non-empty under another   *)
(*                 mutex, m_pwrEvtMutexLock, then empties it               *)
(*   the destructor  notifies, clears the queue, joins the event thread    *)
(*                                                                         *)
(* condition_variable::wait(lock, pred) tests pred and, if it is false,    *)
(* releases the lock and blocks in one atomic step; the test and the       *)
(* blocking are two steps, and the notifier's lock is another one.         *)
(***************************************************************************)
EXTENDS Integers, Sequences

CONSTANTS
  RegisterMayFail, \* PowerController_RegisterPowerModeChangedCallback() may
  MayDestroy,      \* the destructor may run
  MaxPwrQueue      \* bound: no power change while m_pwrEvtQueue is that long

ASSUME PowerAssumption ==
  /\ RegisterMayFail \in BOOLEAN
  /\ MayDestroy \in BOOLEAN
  /\ MaxPwrQueue \in Nat \ {0}

VARIABLES
  device,        \* the power state the library reported last
  connPc,        \* subscribe() and the connect thread
  registered,    \* the callback is registered
  cbPc,          \* the callback: "notify" between queueing and notify_one()
  m_pwrEvtQueue,
  evtPc,         \* the event thread
  evt,           \* sysTimeMgrPwrEvent
  lastCall,      \* the last call of powerhandler()
  deinitPc       \* the destructor

powerVars == <<device, connPc, registered, cbPc, m_pwrEvtQueue, evtPc, evt,
               lastCall, deinitPc>>

NoEvent == [cur |-> "UNKNOWN", new |-> "UNKNOWN"]

\* The changes accepted and not yet reported
Pending == IF evtPc = "handle" THEN <<evt>> \o m_pwrEvtQueue ELSE m_pwrEvtQueue

\* The destructor drops what waits in DeinitClear
Life == IF deinitPc \in {"join", "terminated"} THEN "destroyed" ELSE "in use"

Feed == INSTANCE PowerFeed WITH life <- Life, pending <- Pending

PowerInit ==
  /\ device = "ON" /\ connPc = "idle" /\ registered = FALSE
  /\ cbPc = "idle" /\ m_pwrEvtQueue = <<>>
  /\ evtPc = "none" /\ evt = NoEvent /\ lastCall = "none"
  /\ deinitPc = "none"

-----------------------------------------------------------------------------
(* subscribe() and the connect thread.                                     *)

\* A registration that fails is logged and not tried again
Register ==
  /\ connPc' = "done"
  /\ registered' \in {TRUE} \cup (IF RegisterMayFail THEN {FALSE} ELSE {})

\* PowerController_Init(), sysTimeMgrInitPwrEvt(), then the first connect
subscribe ==
  /\ connPc = "idle" /\ deinitPc = "none"
  /\ evtPc' = "check"
  /\ \/ Register
     \/ connPc' = "retry" /\ UNCHANGED registered
  /\ UNCHANGED <<device, cbPc, m_pwrEvtQueue, evt, lastCall, deinitPc>>

\* sysTimeMgrPwrConnectHandlingThreadFunc(): a connect that fails, then
\* usleep(), changes nothing
sysTimeMgrPwrConnectHandlingThreadFunc ==
  /\ connPc = "retry"
  /\ Register
  /\ UNCHANGED <<device, cbPc, m_pwrEvtQueue, evtPc, evt, lastCall, deinitPc>>

-----------------------------------------------------------------------------
(* sysTimeMgrPwrEventHandler(), on the library's thread.                   *)

\* Mutant: the new change replaces the ones that wait
EnqueueM1(change) == m_pwrEvtQueue' = <<change>>
Enqueue(change) == m_pwrEvtQueue' = Append(m_pwrEvtQueue, change)

\* A power change; one that is not registered for is lost
PowerChange ==
  /\ cbPc = "idle" /\ Len(m_pwrEvtQueue) < MaxPwrQueue
  /\ \E new \in Feed!PowerStates \ {device} :
       /\ device' = new
       /\ IF registered
            THEN Enqueue([cur |-> device, new |-> new]) /\ cbPc' = "notify"
            ELSE UNCHANGED <<m_pwrEvtQueue, cbPc>>
  /\ UNCHANGED <<connPc, registered, evtPc, evt, lastCall, deinitPc>>

\* Mutant: notify_one() is forgotten
WokenM1 == evtPc
\* notify_one() wakes the event thread if it is blocked, and is lost if not
Woken == IF evtPc = "blocked" THEN "check" ELSE evtPc

Notify ==
  /\ cbPc = "notify" /\ cbPc' = "idle"
  /\ evtPc' = Woken
  /\ UNCHANGED <<device, connPc, registered, m_pwrEvtQueue, evt, lastCall,
                 deinitPc>>

-----------------------------------------------------------------------------
(* sysTimeMgrPwrEventHandlingThreadFunc().                                 *)

EventStep ==
  UNCHANGED <<device, connPc, registered, cbPc, deinitPc>>

\* The predicate of wait(), under m_pwrEvtMutexLock only
Check ==
  /\ evtPc = "check"
  /\ evtPc' = IF m_pwrEvtQueue # <<>> THEN "drain" ELSE "falls asleep"
  /\ UNCHANGED <<m_pwrEvtQueue, evt, lastCall>>
  /\ EventStep

\* Release m_pwrEvtMutexLock and block
Block ==
  /\ evtPc = "falls asleep" /\ evtPc' = "blocked"
  /\ UNCHANGED <<m_pwrEvtQueue, evt, lastCall>>
  /\ EventStep

SpuriousWakeup ==
  /\ evtPc = "blocked" /\ evtPc' = "check"
  /\ UNCHANGED <<m_pwrEvtQueue, evt, lastCall>>
  /\ EventStep

\* while(!m_pwrEvtQueue.empty()), under m_pwrEvtQueueLock
Drain ==
  /\ evtPc = "drain"
  /\ IF m_pwrEvtQueue = <<>>
       THEN evtPc' = "check" /\ UNCHANGED <<m_pwrEvtQueue, evt>>
       ELSE /\ evt' = Head(m_pwrEvtQueue)
            /\ m_pwrEvtQueue' = Tail(m_pwrEvtQueue)
            /\ evtPc' = "handle"
  /\ UNCHANGED lastCall
  /\ EventStep

\* Mutant: a wake from OFF is reported like one from deep sleep
sysTimeMgrHandlePwrEventDataM1(currentState, newState) ==
  CASE newState \in {"OFF", "DEEP_SLEEP"} -> "DEEP_SLEEP_ON"
    [] newState \in {"ON", "LIGHT_SLEEP", "STANDBY"}
         /\ currentState \in {"OFF", "DEEP_SLEEP"} -> "DEEP_SLEEP_OFF"
    [] OTHER -> "none"
\* Mutant: powerhandler() is called in the default case too
sysTimeMgrHandlePwrEventDataM2(currentState, newState) ==
  CASE newState \in {"OFF", "DEEP_SLEEP"} -> "DEEP_SLEEP_ON"
    [] newState \in {"ON", "LIGHT_SLEEP", "STANDBY"}
         /\ currentState = "DEEP_SLEEP" -> "DEEP_SLEEP_OFF"
    [] OTHER -> "UNKNOWN"
\* The switch of sysTimeMgrHandlePwrEventData(): the call for a change, or
\* "none"
sysTimeMgrHandlePwrEventData(currentState, newState) ==
  CASE newState \in {"OFF", "DEEP_SLEEP"} -> "DEEP_SLEEP_ON"
    [] newState \in {"ON", "LIGHT_SLEEP", "STANDBY"}
         /\ currentState = "DEEP_SLEEP" -> "DEEP_SLEEP_OFF"
    [] OTHER -> "none"

\* invokepowerhandler(), without a lock
Handle ==
  /\ evtPc = "handle" /\ evtPc' = "drain"
  /\ LET call == sysTimeMgrHandlePwrEventData(evt.cur, evt.new)
     IN  lastCall' = IF call = "none" THEN lastCall ELSE call
  /\ evt' = NoEvent
  /\ UNCHANGED m_pwrEvtQueue
  /\ EventStep

EventThread == Check \/ Block \/ Drain \/ Handle

-----------------------------------------------------------------------------
(* ~IpowerControllerSubscriber() and sysTimeMgrDeinitPwrEvt().             *)

\* Notify, with m_pwrEvtMutexLock
DeinitNotify ==
  /\ MayDestroy /\ deinitPc = "none"
  /\ evtPc \notin {"check", "falls asleep"}
  /\ deinitPc' = "clear"
  /\ evtPc' = Woken
  /\ UNCHANGED <<device, connPc, registered, cbPc, m_pwrEvtQueue, evt,
                 lastCall>>

\* m_pwrEvtQueue = std::queue<...>(), with m_pwrEvtQueueLock
DeinitClear ==
  /\ deinitPc = "clear" /\ deinitPc' = "join"
  /\ m_pwrEvtQueue' = <<>>
  /\ UNCHANGED <<device, connPc, registered, cbPc, evtPc, evt, lastCall>>

\* join() returns at once if the event thread was never started, and the loop
\* of the event thread has no exit; then the callback is unregistered and
\* PowerController_Term() called
DeinitJoin ==
  /\ deinitPc = "join" /\ evtPc = "none"
  /\ deinitPc' = "terminated" /\ registered' = FALSE
  /\ UNCHANGED <<device, connPc, cbPc, m_pwrEvtQueue, evtPc, evt, lastCall>>

-----------------------------------------------------------------------------
PowerNext ==
  \/ subscribe \/ sysTimeMgrPwrConnectHandlingThreadFunc
  \/ PowerChange \/ Notify
  \/ Check \/ Block \/ SpuriousWakeup \/ Drain \/ Handle
  \/ DeinitNotify \/ DeinitClear \/ DeinitJoin

PowerSpec == PowerInit /\ [][PowerNext]_powerVars

\* The threads run, and the service is reachable in the end; nothing obliges
\* the power state to change, a thread to wake up spuriously or the
\* subscriber to be destroyed
PowerFairSpec ==
  /\ PowerSpec
  /\ WF_powerVars(subscribe)
  /\ WF_powerVars(sysTimeMgrPwrConnectHandlingThreadFunc)
  /\ WF_powerVars(Notify)
  /\ WF_powerVars(EventThread)
  /\ WF_powerVars(DeinitClear) /\ WF_powerVars(DeinitJoin)

-----------------------------------------------------------------------------
\* The type invariant of the subscriber.
TypeOK ==
  /\ device \in Feed!PowerStates
  /\ connPc \in {"idle", "retry", "done"} /\ registered \in BOOLEAN
  /\ cbPc \in {"idle", "notify"}
  /\ m_pwrEvtQueue \in Seq(Feed!Changes) /\ Len(m_pwrEvtQueue) <= MaxPwrQueue
  /\ evtPc \in {"none", "check", "falls asleep", "blocked", "drain", "handle"}
  /\ evt \in Feed!Changes
  /\ lastCall \in Feed!Calls \cup {"none"}
  /\ deinitPc \in {"none", "clear", "join", "terminated"}

\* The queue, the two mutexes and the callback together behave like an IARM
\* subscriber that calls powerhandler() directly: no change is reported twice,
\* out of order or as another call, and none that was queued is lost but by
\* the destructor, when it clears the queue.
ReportsLikeIarm == Feed!FeedSpec

\* Two wakes are never reported without a sleep between them, however many
\* changes wait in the queue: deepsleepoff() runs once per deep sleep.
WakeNeedsSleep ==
  [][Handle /\ deinitPc = "none"
       /\ sysTimeMgrHandlePwrEventData(evt.cur, evt.new) = "DEEP_SLEEP_OFF"
     => lastCall # "DEEP_SLEEP_OFF"]_powerVars

\* A change that got stuck is only late: the next one that finds the event
\* thread blocked sets it to work, on the oldest change first.
NextChangeWakes ==
  (evtPc = "blocked" /\ cbPc = "notify" /\ m_pwrEvtQueue # <<>>)
    ~> (evtPc = "handle" \/ deinitPc # "none")

-----------------------------------------------------------------------------
(* The inductive invariant behind WakeNeedsSleep.                          *)

\* Each change starts where the one before it ended, and the last one ended
\* in state d.
ChainedTo(q, d) ==
  /\ \A i \in 1..(Len(q) - 1) : q[i].new = q[i + 1].cur
  /\ q # <<>> => q[Len(q)].new = d

\* Where the first change of a queue starts; in d if there is none.
StartOf(q, d) == IF q = <<>> THEN d ELSE Head(q).cur

\* Where the next change to be handled starts.
NextStart ==
  IF evtPc = "handle" THEN evt.cur ELSE StartOf(m_pwrEvtQueue, device)

\* The changes not yet handled lead from one state to the next up to the
\* state of the device.
ChangesChain ==
  /\ ChainedTo(m_pwrEvtQueue, device)
  /\ evtPc = "handle" => evt.new = StartOf(m_pwrEvtQueue, device)

\* As long as a wake is the last call, the next change does not start in deep
\* sleep.
AwakeSinceWake == lastCall = "DEEP_SLEEP_OFF" => NextStart # "DEEP_SLEEP"

\* Without a callback there is nothing to handle, and no second registration.
NothingBeforeRegistration ==
  /\ connPc # "done" => ~registered
  /\ ~registered =>
       m_pwrEvtQueue = <<>> /\ evtPc # "handle" /\ lastCall = "none"

WakeInv ==
  deinitPc = "none" =>
    ChangesChain /\ AwakeSinceWake /\ NothingBeforeRegistration

-----------------------------------------------------------------------------
(* Refuted by a run.                                                       *)

\* The comment in sysTimeMgrPwrEventHandlingThreadFunc(): the thread waits
\* until the queue is not empty, so what is queued is handled.  (Not if it is
\* queued and notified between the test of the predicate and the blocking.)
QueuedIsHandled == m_pwrEvtQueue # <<>> ~> m_pwrEvtQueue = <<>>
=============================================================================
