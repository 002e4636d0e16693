-------------------------- MODULE MCSessionManager --------------------------
(* Small instance of SessionManager for TLC.                               *)
EXTENDS SessionManager, TLC

AddrSymmetry == Permutations(Addr)
=============================================================================
