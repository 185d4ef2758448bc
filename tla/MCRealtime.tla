----------------------------- MODULE MCRealtime -----------------------------
(* Small instances of the realtime component: the .cfg files give its         *)
(* constants their values.                                                    *)
EXTENDS RealtimeProps
=============================================================================
