----------------------------- MODULE MCModelCatalog -----------------------------
(* Two callers of one Client. *)
EXTENDS ModelCatalog, TLC

CONSTANTS x1, x2, c1, c2, a1

Callers == {c1, c2}
CallTransports == {x1, x2}
OneEach == (c1 :> x1) @@ (c2 :> x2)

ReadableDisk == FaultKinds \ {"load", "wipe", "crash"}
=============================================================================
