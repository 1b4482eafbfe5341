--------------------------- MODULE MCCodexTransport ---------------------------
(* Small instances of CodexTransport. *)
EXTENDS CodexTransport, TLC

CONSTANTS x1, x2, g1, g2, g3, a1

(* Two processes, one of them with two goroutines. *)
TwoTransports == {x1, x2}
ThreeGoroutines == {g1, g2, g3}
TwoPlusOne == (g1 :> x1) @@ (g2 :> x1) @@ (g3 :> x2)

(* One goroutine in each of two processes. *)
TwoGoroutines == {g1, g3}
OneEach == (g1 :> x1) @@ (g3 :> x2)

(* One process that has auth.json to itself. *)
OneTransport == {x1}
AllOne == (g1 :> x1) @@ (g2 :> x1) @@ (g3 :> x1)
BothOne == (g1 :> x1) @@ (g3 :> x1)

SymmetryTwoPlusOne == Permutations({g1, g2})

CleanFaults == FaultKinds \ {"dirty"}
=============================================================================
