------------------------------ MODULE MCLifecycle ------------------------------
(***************************************************************************)
(* Small instance of Lifecycle.                                             *)
(***************************************************************************)
EXTENDS Lifecycle

CONSTANTS h1, h2, w1
=============================================================================
