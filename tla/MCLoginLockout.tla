--------------------------- MODULE MCLoginLockout ---------------------------
(***************************************************************************)
(* Instances of LoginLockout for TLC.                                      *)
(***************************************************************************)
EXTENDS LoginLockout, TLC
=============================================================================
