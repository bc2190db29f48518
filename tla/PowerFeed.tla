------------------------------ MODULE PowerFeed ------------------------------
(***************************************************************************)
(* What a power subscriber promises the time manager: every power change   *)
(* it accepts is turned into at most one call of powerhandler(), one at a  *)
(* time and in the order of the changes.  Which call it is, is taken from  *)
(* the IARM subscriber (systimerfactory/iarmpowersubscriber.cpp), which    *)
(* calls straight from its event handler; the power controller subscriber  *)
(* (module PowerController), with its queue and its threads, must make the *)
(* same calls.  Nothing is lost while the subscriber is in use: only its   *)
(* destructor drops changes, once.                                         *)
(***************************************************************************)
EXTENDS Naturals, Sequences

PowerStates == {"UNKNOWN", "OFF", "STANDBY", "ON", "LIGHT_SLEEP", "DEEP_SLEEP"}
Changes == [cur : PowerStates, new : PowerStates]
Calls == {"DEEP_SLEEP_ON", "DEEP_SLEEP_OFF"}

VARIABLES
  life,     \* of the subscriber: "in use", "destroyed" from the moment on when
            \* its destructor has dropped what waited
  pending,  \* the changes accepted and not yet reported
  lastCall  \* the last call of powerhandler(), "none" before the first

feedVars == <<life, pending, lastCall>>

\* IarmPowerSubscriber::powereventHandler(): the call for a change, or "none"
powereventHandler(change) ==
  IF change.new \in {"OFF", "DEEP_SLEEP"} THEN "DEEP_SLEEP_ON"
  ELSE IF change.cur = "DEEP_SLEEP"
            /\ change.new \in {"ON", "LIGHT_SLEEP", "STANDBY"}
         THEN "DEEP_SLEEP_OFF"
  ELSE "none"

FeedInit == life = "in use" /\ pending = <<>> /\ lastCall = "none"

Accept ==
  /\ \E change \in Changes : pending' = Append(pending, change)
  /\ UNCHANGED <<life, lastCall>>

Report ==
  /\ pending # <<>>
  /\ pending' = Tail(pending)
  /\ LET call == powereventHandler(Head(pending))
     IN  lastCall' = IF call = "none" THEN lastCall ELSE call
  /\ UNCHANGED life

\* The subscriber is destroyed, once: what is not being reported is dropped
Discard ==
  /\ life = "in use" /\ life' = "destroyed"
  /\ \E n \in 0..1 : n <= Len(pending) /\ pending' = SubSeq(pending, 1, n)
  /\ UNCHANGED lastCall

FeedSpec == FeedInit /\ [][Accept \/ Report \/ Discard]_feedVars
=============================================================================
