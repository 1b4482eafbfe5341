------------------------------ MODULE DeviceLogin ------------------------------
(***************************************************************************)
(* The device login (login_device.go): one call of LoginDevice asks for a  *)
(* user code, shows it, and polls until the user has authorized it, the    *)
(* caller cancels, or devicePollCap has passed.  Time is in ticks.         *)
(*                                                                         *)
(* pc names what the login does next:                                      *)
(*   idle     the caller's code       poll      the answer to a poll       *)
(*   init     deviceInit              exchange  ExchangeCode               *)
(*   prompt   show the user code      save      saveCreds                  *)
(*   wait     select at the timer     done                                 *)
(***************************************************************************)
EXTENDS Integers

CONSTANTS
  Intervals,   \* the intervals the endpoint may name; 0 for what is no number
  Default,     \* the interval taken for 0 or less (5)
  Second,      \* time.Second
  Margin,      \* deviceSafetyMargin
  Cap,         \* devicePollCap
  Word         \* time.Duration has this many values

ASSUME DeviceLoginAssumption ==
  /\ Intervals \subseteq Int
  /\ {Default, Second, Cap, Word} \subseteq Nat \ {0}
  /\ Word % 2 = 0
  /\ Margin \in Nat

VARIABLES
  pc,
  interval,   \* the interval named by the endpoint
  timer,      \* ticks until the timer fires; 0 when it has
  capLeft,    \* ticks until innerCtx's deadline
  ctx,        \* the caller's context is done
  result,     \* "none", "ok", or the kind of error
  quiet       \* history: ticks since the prompt or the last answer

vars == <<pc, interval, timer, capLeft, ctx, result, quiet>>

parsePollInterval(i) == IF i > 0 THEN i ELSE Default

(* What Duration arithmetic makes of n. *)
Duration(n) == ((n + Word \div 2) % Word) - Word \div 2

(* The pause the login should make, and the one it makes.                  *)
Wanted == parsePollInterval(interval) * Second + Margin
MaxDuration == Word \div 2 - 1

(* Operators named Bad... are the next definition with a plausible bug; the *)
(* specification does not use them.                                        *)
BadpollInterval == Duration(parsePollInterval(interval) * Second)

pollInterval == Duration(Duration(parsePollInterval(interval) * Second) + Margin)

(* A timer set to a negative duration fires at once. *)
SetTimer == timer' = IF pollInterval > 0 THEN pollInterval ELSE 0

BadinnerDone == ctx

innerDone == ctx \/ capLeft = 0

Init ==
  /\ pc = "idle"
  /\ interval = 0
  /\ timer = 0
  /\ capLeft = Cap
  /\ ctx = FALSE
  /\ result = "none"
  /\ quiet = 0

Goto(l) == pc' = l /\ UNCHANGED result
Return(r) == pc' = "done" /\ result' = r
-----------------------------------------------------------------------------
LoginDevice ==
  /\ pc = "idle"
  /\ Goto("init")
  /\ UNCHANGED <<interval, timer, capLeft, ctx, quiet>>

(* A user code that fails userCodeRe is an error too. *)
DeviceInit ==
  /\ pc = "init"
  /\ \/ interval' \in Intervals /\ Goto("prompt")
     \/ Return("error") /\ UNCHANGED interval
  /\ UNCHANGED <<timer, capLeft, ctx, quiet>>

Prompt ==
  /\ pc = "prompt"
  /\ \/ SetTimer /\ Goto("wait")
     \/ Return("error") /\ UNCHANGED timer
  /\ UNCHANGED <<interval, capLeft, ctx, quiet>>

BadStop ==
  /\ pc = "wait" /\ innerDone
  /\ Return(IF ctx THEN "ctx.Err()" ELSE "none")
  /\ UNCHANGED <<interval, timer, capLeft, ctx, quiet>>

(* When the timer has fired too, select takes either case.                 *)
Stop ==
  /\ pc = "wait" /\ innerDone
  /\ Return(IF ctx THEN "ctx.Err()" ELSE "device_code_expired")
  /\ UNCHANGED <<interval, timer, capLeft, ctx, quiet>>

(* devicePollOnce: with a context that is done nothing is sent.            *)
SendPoll ==
  /\ pc = "wait" /\ timer = 0
  /\ IF innerDone THEN Return("ctx.Err()") ELSE Goto("poll")
  /\ UNCHANGED <<interval, timer, capLeft, ctx, quiet>>

(* 403, or 404 which says nothing. *)
Pending ==
  /\ pc = "poll"
  /\ SetTimer
  /\ quiet' = 0
  /\ Goto("wait")
  /\ UNCHANGED <<interval, capLeft, ctx>>

(* 200 with a code; no answer, or one that is not understood; any other    *)
(* status, whatever it says; no answer before the context is done.         *)
Answered ==
  /\ pc = "poll"
  /\ \/ Goto("exchange")
     \/ Return("device_poll_failed")
     \/ Return("device_code_expired")
     \/ innerDone /\ Return("ctx.Err()")
  /\ UNCHANGED <<interval, timer, capLeft, ctx, quiet>>

(* With the caller's context: the cap no longer matters.                   *)
Exchange ==
  /\ pc = "exchange"
  /\ Goto("save") \/ Return("error")
  /\ UNCHANGED <<interval, timer, capLeft, ctx, quiet>>

Save ==
  /\ pc = "save"
  /\ Return("ok") \/ Return("error")
  /\ UNCHANGED <<interval, timer, capLeft, ctx, quiet>>
-----------------------------------------------------------------------------
Cancel ==
  /\ pc \notin {"idle", "done"}
  /\ ctx' = TRUE
  /\ UNCHANGED <<pc, interval, timer, capLeft, result, quiet>>

Less(n) == IF n = 0 THEN 0 ELSE n - 1

(* Time passes once the prompt is out; nothing asks for it beyond the cap. *)
Tick ==
  /\ pc \in {"wait", "poll"} /\ capLeft > 0
  /\ capLeft' = capLeft - 1
  /\ timer' = Less(timer)
  /\ quiet' = quiet + 1
  /\ UNCHANGED <<pc, interval, ctx, result>>

Step == DeviceInit \/ Prompt \/ Stop \/ SendPoll \/ Pending \/ Answered \/ Exchange \/ Save

Next == LoginDevice \/ Step \/ Cancel \/ Tick

Spec == Init /\ [][Next]_vars
-----------------------------------------------------------------------------
TypeOK ==
  /\ pc \in {"idle", "init", "prompt", "wait", "poll", "exchange", "save", "done"}
  /\ interval \in Intervals \cup {0}
  /\ timer \in 0..MaxDuration
  /\ capLeft \in 0..Cap
  /\ ctx \in BOOLEAN
  /\ result \in {"none", "ok", "error", "ctx.Err()", "device_code_expired",
                 "device_poll_failed"}
  /\ quiet \in 0..Cap
  /\ result = "none" <=> pc # "done"

(* "Polls the token endpoint at (interval+3)s" (login_device.go:102): from *)
(* the prompt or an answer to the next poll the endpoint is left alone for *)
(* as long as it has asked for, and the margin, however long a poll takes  *)
(* and whatever the interval was, if a Duration can hold it.               *)
PollsSpaced ==
  [][SendPoll /\ pc' = "poll" /\ Wanted <= MaxDuration => quiet >= Wanted]_vars

(* The cap "fires and returns *DeviceError{Code: device_code_expired} even *)
(* when the caller's context has no deadline" (login_device_test.go:514):  *)
(* who has not cancelled does not get the bare error of a context.         *)
ExpiryIsTyped == ~ctx => result # "ctx.Err()"
=============================================================================
