-------------------------- MODULE SysTimeMgrClaims --------------------------
(***************************************************************************)
(* What the documents and comments of the repository say of the core and   *)
(* the code does not do.  Every formula here is refuted by a run.          *)
(***************************************************************************)
EXTENDS SysTimeMgr

\* Readme.md: if the drift between secure time and NTP time is greater than
\* ten minutes, the time syncs are updated with 0.  (timerExpiry() compares
\* the signed difference, so a reference far behind is saved.)
DriftIsTwoSided ==
  lastSync.time # 0 /\ lastSync.drm # 0 =>
    /\ lastSync.time - lastSync.drm <= 600
    /\ lastSync.drm - lastSync.time <= 600

\* The comment in runNTPSyncMonitor(): the path monitor reliably dispatches
\* NTP_AVAILABLE.  (Not if the file is touched after the scan at startup and
\* before the watch: the monitor thread never touches it again.)
NtpSyncIsDispatched ==
  ntpPc = "done" ~> m_state \in {"NTP_ACQUIRED", "RUNNING"}

\* secure-time/spec.md: a change of the timestamps of the drm file must
\* trigger the secure time acquisition flow.  (Not if the kernel holds an
\* event of another file in front of it: read() returns both, and only the
\* first is looked at.  On a DTT device every pass over the sources touches
\* the dtt file and then the drm file.)
DrmTouchTriggers ==
  (\E k \in DOMAIN inotify :
       inotify[k] = [mask |-> "IN_ATTRIB", name |-> "drm"])
    ~> (\/ \E k \in DOMAIN m_queue : m_queue[k] = "SECURE_TIME_AVAILABLE"
        \/ ~up)
=============================================================================
