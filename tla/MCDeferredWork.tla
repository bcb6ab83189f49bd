--------------------------- MODULE MCDeferredWork ---------------------------
(* Channel objects for model checking DeferredWork. *)
EXTENDS DeferredWork

CONSTANTS o1, o2, o3
=============================================================================
