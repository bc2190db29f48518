----------------------------- MODULE NetworkSync -----------------------------
(***************************************************************************)
(* The network status source and the chrony commands together: a call of   *)
(* processInternetOnline() by the processing thread (NetworkStatus) is a   *)
(* run of its commands (ChronyControl), next to the power thread's.  The   *)
(* threads of the network status source only exist in a chrony build.      *)
(***************************************************************************)
EXTENDS NetworkStatus, ChronyControl

syncVars == <<netVars, chronyVars>>

SyncInit == NetInit /\ ChronyInit

\* One component moves, or both at the beginning and the end of the call
SyncNext ==
  \/ ChronyEnabled /\ NetLocal /\ UNCHANGED chronyVars
  \/ ChronyLocal /\ UNCHANGED netVars
  \/ ProcBegin /\ NetBegin
  \/ ProcReturn /\ NetReturn

SyncSpec == SyncInit /\ [][SyncNext]_syncVars

\* The fairness of both components, for the steps they take here
SyncFairSpec ==
  /\ SyncSpec
  /\ WF_syncVars(ChronyEnabled /\ (ProcBlock \/ ProcStop)
                   /\ UNCHANGED chronyVars)
  /\ WF_syncVars(ProcBegin /\ NetBegin)
  /\ WF_syncVars(ProcReturn /\ NetReturn)
  /\ WF_syncVars(ChronyEnabled /\ SubLoop /\ UNCHANGED chronyVars)
  /\ WF_syncVars(ChronyEnabled /\ (StopNotify \/ StopClient)
                   /\ UNCHANGED chronyVars)
  /\ WF_syncVars(processInternetOnline /\ UNCHANGED netVars)
  /\ WF_syncVars(deepsleepoffTail /\ UNCHANGED netVars)

-----------------------------------------------------------------------------
(* Properties of the two together.                                         *)

\* Each component keeps its types, and the processing thread is in
\* processInternetOnline() exactly while its commands run.
SyncTypeOK ==
  /\ NetTypeOK /\ ChronyTypeOK
  /\ netPc # "idle" => procPc \in {"online", "stopped"}
  /\ procPc = "online" => netPc # "idle"

\* Internet comes up after the first sync, and chronyd has a reference from
\* then on: an error of the clock above the threshold does not last, be it
\* because this run, one already under way, or a wake steps it.
OnlineCorrects ==
  (unserved /\ clockEvent /\ []Synced) ~> (Within \/ stopProcessing)

\* A device that booted offline: internet comes up before the first sync,
\* chronyd runs and has no sources, and chronyctl_online() is called.
OfflineBootIsOnlined ==
  (unserved /\ [](~clockEvent /\ initialised /\ chronyd = "nosources"))
    ~> (netPc = "online" \/ stopProcessing)
=============================================================================
