----------------------------- MODULE MCLockBase -----------------------------
(* LockBase with a base that is still gaining speed when it is pinned again. *)
EXTENDS LockBase
=============================================================================
