---------------------------- MODULE MCEventLoop ----------------------------
(***************************************************************************)
(* EventLoop with identities that TLC may exchange.  No definition of the   *)
(* specification or of its safety properties tells two connections of one   *)
(* kind, or two Timers, apart; liveness is checked without this.            *)
(***************************************************************************)
EXTENDS EventLoop, TLC

Identities == Permutations(SConn) \cup Permutations(CConn) \cup Permutations(Timer)
=============================================================================
