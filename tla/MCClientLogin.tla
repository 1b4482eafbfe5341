----------------------------- MODULE MCClientLogin -----------------------------
(* One login.  Callbacks bring its own state with a code, or an error; the *)
(* device endpoint names no interval, a short one, a longer one, or one    *)
(* that no Duration holds.  Two ticks to the second, a Duration of seven   *)
(* bits.                                                                   *)
EXTENDS ClientLogin

CONSTANT l1

MCArrivals == [state : {l1}, brings : {"code"}] \cup [state : {Other}, brings : {"error"}]

MCIntervals == {0, 1, 3, 40}
=============================================================================
