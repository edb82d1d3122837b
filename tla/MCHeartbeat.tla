---------------------------- MODULE MCHeartbeat ----------------------------
(* One reliable and one unreliable node; the unit of time is 15 s, so the  *)
(* code's periods are exact: 30 s = 2, 60 s = 4, 2 min = 8.  RetrySleep    *)
(* (5 s) is rounded up to one unit.                                        *)
EXTENDS Heartbeat
=============================================================================
