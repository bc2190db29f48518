---------------------------- MODULE TimeQuality ----------------------------
(***************************************************************************)
(* What the system time manager promises the processes that depend on it:  *)
(* how the quality of the time may change, on what evidence, and when they *)
(* are told.  Threads, queues and the state machine are left out; module   *)
(* SysTimeMgrProps shows that the core implements this.                    *)
(***************************************************************************)
CONSTANT Files \* the files that stand for an acquired time

VARIABLES
  alive,    \* the time manager runs
  quality,  \* what a query is answered
  told,     \* the quality last broadcast
  evidence  \* the files made so far

qualityVars == <<alive, quality, told, evidence>>

QualityInit ==
  /\ alive = FALSE /\ quality = "UNKNOWN" /\ told = "UNKNOWN"
  /\ evidence = {}

\* A time saved at an earlier boot is Poor, and announced
Start ==
  /\ ~alive /\ alive' = TRUE
  /\ \/ quality' = "POOR" /\ told' = "POOR"
     \/ UNCHANGED <<quality, told>>
  /\ UNCHANGED evidence

\* There is no time yet, and everybody hears so
Fail ==
  /\ alive /\ quality \in {"POOR", "UNKNOWN"}
  /\ told' = quality
  /\ UNCHANGED <<alive, quality, evidence>>

\* NTP or the broadcast has a time
Acquire ==
  /\ alive /\ quality # "SECURE"
  /\ evidence \cap {"ntp", "stt", "dtt"} # {}
  /\ quality' = "GOOD" /\ told' = "GOOD"
  /\ UNCHANGED <<alive, evidence>>

\* The DRM service has a time, which nobody is told
AcquireSilently ==
  /\ alive /\ quality # "SECURE"
  /\ "drm" \in evidence
  /\ quality' = "GOOD"
  /\ UNCHANGED <<alive, told, evidence>>

\* Secure only on top of Good, with a reference and the DRM service
Secure ==
  /\ alive /\ quality = "GOOD"
  /\ "drm" \in evidence /\ evidence \cap {"ntp", "stt"} # {}
  /\ quality' = "SECURE" /\ told' = "SECURE"
  /\ UNCHANGED <<alive, evidence>>

\* After deep sleep nothing is secure, and everybody hears what is left
WakeUp ==
  /\ alive
  /\ quality' = IF quality = "SECURE" THEN "GOOD" ELSE quality
  /\ told' = quality'
  /\ UNCHANGED <<alive, evidence>>

Die ==
  /\ alive' = FALSE /\ quality' = "UNKNOWN"
  /\ UNCHANGED <<told, evidence>>

\* Evidence does not go away
Witnessed ==
  /\ \E name \in Files : evidence' = evidence \cup {name}
  /\ UNCHANGED <<alive, quality, told>>

QualityNext ==
  \/ Start \/ Die \/ Witnessed
  \/ Fail \/ Acquire \/ AcquireSilently \/ Secure \/ WakeUp

QualitySpec == QualityInit /\ [][QualityNext]_qualityVars
=============================================================================
