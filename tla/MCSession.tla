----------------------------- MODULE MCSession -----------------------------
(* Instance of Session for TLC.                                            *)
EXTENDS Session

(* Both goroutine profiles and two delta profiles; mutex is disabled.      *)
SomeKinds == {"goroutine", "goroutineleak", "block", "heap"}
=============================================================================
