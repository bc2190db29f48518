---------------------------- MODULE MCSysTimeMgr ----------------------------
(* Instances of the core of the system time manager for TLC.               *)
EXTENDS SysTimeMgrProps, SysTimeMgrClaims

\* The source lists of a DTT device, of devices without a tuner and of one
\* that has NTP only
NtpDttDrm == <<"ntp", "dtt", "drm">>
NtpDrm == <<"ntp", "drm">>
SttRegularDrm == <<"stt", "regular", "drm">>
OnlyNtp == <<"ntp">>
=============================================================================
