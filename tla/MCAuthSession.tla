------------------------------ MODULE MCAuthSession ------------------------------
(* Small instances of AuthSession: one or two transports of one goroutine, *)
(* one or two users, two accounts.                                         *)
EXTENDS AuthSession, TLC

CONSTANTS x1, x2, g1, g2, u1, u2, a1, a2

OneTransport == {x1}
OneGoroutine == {g1}
AllOne == g1 :> x1

TwoTransports == {x1, x2}
TwoGoroutines == {g1, g2}
OneEach == (g1 :> x1) @@ (g2 :> x2)

(* The accounts may be renamed, and the transports with their goroutines.  *)
SymmetryAccounts == Permutations({a1, a2})
Swap == (x1 :> x2) @@ (x2 :> x1) @@ (g1 :> g2) @@ (g2 :> g1)
SymmetrySession == SymmetryAccounts \cup {Swap @@ p : p \in SymmetryAccounts}

(* All but the history that nothing here reads. *)
SessionView == <<serverVars, disk, mem, up, leader, pc, locals, sessionVars>>
=============================================================================
