----------------------------- MODULE MCBrowserLogin -----------------------------
(* Two logins that compete for the port. *)
EXTENDS BrowserLogin, TLC

CONSTANTS l1, l2

TwoLogins == {l1, l2}

(* The browsers that l1 and l2 opened, and someone who denies. *)
MCArrivals == [state : TwoLogins, brings : {"code"}] \cup [state : {Other}, brings : {"error"}]

SymmetryLogins == Permutations({l1, l2})
=============================================================================
