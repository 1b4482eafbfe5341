----------------------------- MODULE MCDeviceLogin -----------------------------
(* One login; two ticks to the second, a Duration of seven bits.  The      *)
(* endpoint names no interval, a short one, a longer one, or one that no   *)
(* Duration holds.                                                         *)
EXTENDS DeviceLogin

MCIntervals == {0, 1, 3, 40}
=============================================================================
