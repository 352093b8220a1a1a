---------------------------- MODULE MCTcpNetwork ----------------------------
(***************************************************************************)
(* TcpNetwork for TLC.                                                     *)
(***************************************************************************)
EXTENDS TcpRefinement

============================================================================
