------------------------------- MODULE AuthStore -------------------------------
(***************************************************************************)
(* What the credential store promises its callers, whatever threads and    *)
(* processes share auth.json.  Every request takes effect at one instant   *)
(* between its call and its return, or not at all:                         *)
(*   - a request that answers "ok" took effect exactly once;               *)
(*   - a request that answers "error" took effect at most once;            *)
(*   - a killed process takes its pending requests with it, and the store  *)
(*     is as the requests that took effect left it;                        *)
(*   - a power loss leaves the contents of some instant no older than the  *)
(*     last flush, never a mixture of two contents.                        *)
(***************************************************************************)
EXTENDS AuthFile

CONSTANTS Thread, Requests

VARIABLES
  store,    \* the contents every caller agrees on, or Corrupt
  safe,     \* the contents that are sure to survive a power loss
  phase,    \* phase[t]: where t's request stands; "ok" and "error" are answers
  request,  \* request[t]: the request t is making
  value     \* value[t]: what a Load took from the store

vars == <<store, safe, phase, request, value>>

Init ==
  /\ store \in Contents \cup {Corrupt}
  /\ safe = store
  /\ phase = [t \in Thread |-> "idle"]
  /\ request = [t \in Thread |-> LoadRequest]
  /\ value = [t \in Thread |-> Empty]

Call(t, r) ==
  /\ phase[t] = "idle"
  /\ phase' = [phase EXCEPT ![t] = "called"]
  /\ request' = [request EXCEPT ![t] = r]
  /\ UNCHANGED <<store, safe, value>>

(* A Load never takes effect on contents that cannot be parsed.            *)
Apply(t) ==
  /\ phase[t] = "called"
  /\ phase' = [phase EXCEPT ![t] = "applied"]
  /\ IF request[t].kind = "load"
       THEN /\ store # Corrupt
            /\ value' = [value EXCEPT ![t] = store]
            /\ UNCHANGED store
       ELSE /\ store' = Edited(request[t], Parsed(store))
            /\ UNCHANGED value
  /\ UNCHANGED <<safe, request>>

Answer(t) ==
  /\ \/ phase[t] = "applied" /\ phase' = [phase EXCEPT ![t] = "ok"]
     \/ phase[t] \in {"called", "applied"} /\ phase' = [phase EXCEPT ![t] = "error"]
  /\ UNCHANGED <<store, safe, request, value>>

Return(t) ==
  /\ phase[t] \in {"ok", "error"}
  /\ phase' = [phase EXCEPT ![t] = "idle"]
  /\ request' = [request EXCEPT ![t] = LoadRequest]
  /\ value' = [value EXCEPT ![t] = Empty]
  /\ UNCHANGED <<store, safe>>

Flush == safe' = store /\ UNCHANGED <<store, phase, request, value>>

Abandon(S) ==
  /\ phase' = [t \in Thread |-> IF t \in S THEN "idle" ELSE phase[t]]
  /\ request' = [t \in Thread |-> IF t \in S THEN LoadRequest ELSE request[t]]
  /\ value' = [t \in Thread |-> IF t \in S THEN Empty ELSE value[t]]

Crash == \E S \in SUBSET Thread : Abandon(S) /\ UNCHANGED <<store, safe>>

PowerLoss == Abandon(Thread) /\ store' \in {store, safe} /\ safe' = store'

Next ==
  \/ \E t \in Thread :
       (\E r \in Requests : Call(t, r)) \/ Apply(t) \/ Answer(t) \/ Return(t)
  \/ Flush \/ Crash \/ PowerLoss

Spec == Init /\ [][Next]_vars
=============================================================================
