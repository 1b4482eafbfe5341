------------------------------ MODULE BrowserLogin ------------------------------
(***************************************************************************)
(* The browser login (login_browser.go) with its callback server           *)
(* (callback.go): logins of one machine compete for port 1455 on two       *)
(* loopback addresses; each runs its login goroutine, a goroutine that     *)
(* serves each listener, one that watches the context and one for each     *)
(* callback, joined by channels of capacity 1 and a sync.Once.             *)
(*                                                                         *)
(* pc[l] names what the login goroutine does next:                         *)
(*   idle      the caller's code     select    wait for a channel          *)
(*   bind4     net.Listen, IPv4      exchange  ExchangeCode, saveCreds     *)
(*   bind6     net.Listen, IPv6      return    the deferred shutdown()     *)
(*   start     start the goroutines  drain     srv.Shutdown waits          *)
(*   open      openBrowserFn         await     another runs the sync.Once  *)
(***************************************************************************)
EXTENDS Naturals, FiniteSets

CONSTANTS
  Login,    \* calls of LoginBrowser; each has its own state parameter
  Other,    \* any other program that uses the port
  Nobody,   \* the holder of a free port
  Absent,   \* the holder of a port on an address the host does not have
  Arrivals, \* the callbacks that may arrive
  MaxServed \* bound: the callbacks in one login's handler at a time

Family == {"v4", "v6"}

(* What a GET /auth/callback brings: a state parameter, and a code or      *)
(* something else (?error=, no code).                                      *)
Callback == [state : Login \cup {Other}, brings : {"code", "error"}]

ASSUME BrowserLoginAssumption ==
  /\ Login \cap {Other, Nobody, Absent} = {}
  /\ Cardinality({Other, Nobody, Absent}) = 3
  /\ Arrivals \subseteq Callback
  /\ MaxServed \in Nat \ {0}

VARIABLES
  port,      \* port[f]: who holds port 1455 on the loopback address of family f
  pc,
  ctx,       \* the logins whose caller has cancelled
  serve,     \* serve[l][f]: the goroutine in serveOn
  watcher,   \* watcher[l]: the goroutine that waits for innerCtx
  once,      \* once[l]: shutdownOnce
  requests,  \* requests[l]: callbacks in the handler
  codeCh,    \* codeCh[l]: {} or the state whose code is in the channel
  errCh,     \* errCh[l]: the number of errors in the channel
  code       \* code[l]: {} or the state whose code the login exchanges

channels == <<requests, codeCh, errCh>>
goroutines == <<serve, watcher, once>>
vars == <<port, pc, ctx, goroutines, channels, code>>

Goto(l, s) == pc' = [pc EXCEPT ![l] = s]
Listening(l) == {f \in Family : port[f] = l}
Freed(ports) == [f \in Family |-> IF f \in ports THEN Nobody ELSE port[f]]

Init ==
  /\ port \in [Family -> {Nobody, Other, Absent}] /\ port["v4"] # Absent
  /\ pc = [l \in Login |-> "idle"]
  /\ ctx = {}
  /\ serve = [l \in Login |-> [f \in Family |-> "none"]]
  /\ watcher = [l \in Login |-> "none"]
  /\ once = [l \in Login |-> "unused"]
  /\ requests = [l \in Login |-> {}]
  /\ codeCh = [l \in Login |-> {}]
  /\ errCh = [l \in Login |-> 0]
  /\ code = [l \in Login |-> {}]
-----------------------------------------------------------------------------
LoginBrowser(l) ==
  /\ pc[l] = "idle"
  /\ Goto(l, "bind4")
  /\ UNCHANGED <<port, ctx, goroutines, channels, code>>

(* Operators named Bad... are the next definition with a plausible bug; the *)
(* specification does not use them.                                        *)
BadBind4(l) ==
  /\ pc[l] = "bind4"
  /\ \/ /\ port["v4"] = Nobody
        /\ port' = [port EXCEPT !["v4"] = l]
        /\ Goto(l, "bind6")
     \/ Goto(l, "bind6") /\ UNCHANGED port
  /\ UNCHANGED <<ctx, goroutines, channels, code>>

(* PortInUseError, or any other error of net.Listen: the login is over.    *)
Bind4(l) ==
  /\ pc[l] = "bind4"
  /\ \/ /\ port["v4"] = Nobody
        /\ port' = [port EXCEPT !["v4"] = l]
        /\ Goto(l, "bind6")
     \/ Goto(l, "done") /\ UNCHANGED port
  /\ UNCHANGED <<ctx, goroutines, channels, code>>

(* In use: the IPv4 listener is closed again.  Any other error (no IPv6,   *)
(* no file descriptor left, no permission): IPv4 alone, whoever has the    *)
(* IPv6 address or takes it later.                                         *)
Bind6(l) ==
  /\ pc[l] = "bind6"
  /\ \/ /\ port["v6"] = Nobody
        /\ port' = [port EXCEPT !["v6"] = l]
        /\ Goto(l, "start")
     \/ /\ port["v6"] \notin {Nobody, Absent}
        /\ port' = [port EXCEPT !["v4"] = Nobody]
        /\ Goto(l, "done")
     \/ /\ Goto(l, "start")
        /\ UNCHANGED port
  /\ UNCHANGED <<ctx, goroutines, channels, code>>

Start(l) ==
  /\ pc[l] = "start"
  /\ serve' = [serve EXCEPT ![l] =
       [f \in Family |-> IF port[f] = l THEN "starting" ELSE "none"]]
  /\ watcher' = [watcher EXCEPT ![l] = "waiting"]
  /\ Goto(l, "open")
  /\ UNCHANGED <<port, ctx, once, channels, code>>

OpenBrowser(l) ==
  /\ pc[l] = "open"
  /\ Goto(l, "select")
  /\ UNCHANGED <<port, ctx, goroutines, channels, code>>

(* Whichever case is ready; when several are, any.  innerCtx is done when  *)
(* the caller cancels or browserLoginTimeout has passed: at any time.      *)
Select(l) ==
  /\ pc[l] = "select"
  /\ \/ /\ codeCh[l] # {}
        /\ code' = [code EXCEPT ![l] = codeCh[l]]
        /\ codeCh' = [codeCh EXCEPT ![l] = {}]
        /\ Goto(l, "exchange")
        /\ UNCHANGED errCh
     \/ /\ errCh[l] > 0
        /\ errCh' = [errCh EXCEPT ![l] = @ - 1]
        /\ Goto(l, "return")
        /\ UNCHANGED <<codeCh, code>>
     \/ /\ Goto(l, "return")
        /\ UNCHANGED <<codeCh, errCh, code>>
  /\ UNCHANGED <<port, ctx, goroutines, requests>>

(* The code is exchanged for tokens and they are saved, or one of them     *)
(* fails (AuthSession has this part).                                      *)
Exchange(l) ==
  /\ pc[l] = "exchange"
  /\ code' = [code EXCEPT ![l] = {}]
  /\ Goto(l, "return")
  /\ UNCHANGED <<port, ctx, goroutines, channels>>

(* srv.Shutdown closes the listeners that Serve has registered so far, and *)
(* those calls of Serve return.                                            *)
BeginShutdown(l) ==
  LET registered == {f \in Listening(l) : serve[l][f] = "serving"} IN
  /\ once[l] = "unused"
  /\ once' = [once EXCEPT ![l] = "running"]
  /\ port' = Freed(registered)
  /\ serve' = [serve EXCEPT ![l] =
       [f \in Family |-> IF f \in registered THEN "done" ELSE serve[l][f]]]

(* shutdownFn, deferred; sync.Once makes its second caller wait.           *)
Shutdown(l) ==
  /\ pc[l] = "return"
  /\ IF once[l] = "unused"
       THEN BeginShutdown(l) /\ Goto(l, "drain")
       ELSE Goto(l, "await") /\ UNCHANGED <<port, once, serve>>
  /\ UNCHANGED <<ctx, watcher, channels, code>>

(* Shutdown ends when every handler has, or at callbackShutdownTimeout.    *)
Drained(l) ==
  /\ pc[l] = "drain"
  /\ once' = [once EXCEPT ![l] = "done"]
  /\ Goto(l, "done")
  /\ UNCHANGED <<port, ctx, serve, watcher, channels, code>>

Await(l) ==
  /\ pc[l] = "await" /\ once[l] = "done"
  /\ Goto(l, "done")
  /\ UNCHANGED <<port, ctx, goroutines, channels, code>>
-----------------------------------------------------------------------------
(* srv.Serve registers its listener, or finds the server shut down and     *)
(* closes it.                                                              *)
ServeStart(l, f) ==
  /\ serve[l][f] = "starting"
  /\ IF once[l] = "unused"
       THEN serve' = [serve EXCEPT ![l][f] = "serving"] /\ UNCHANGED port
       ELSE serve' = [serve EXCEPT ![l][f] = "done"] /\ port' = Freed({f})
  /\ UNCHANGED <<pc, ctx, watcher, once, channels, code>>

BadSendErr(l) == errCh' = [errCh EXCEPT ![l] = @ + 1]

(* select with a default: an error that finds the channel full is dropped. *)
SendErr(l) == errCh' = [errCh EXCEPT ![l] = 1]

(* A listener fails by itself; Serve closes it.                            *)
ServeError(l, f) ==
  /\ serve[l][f] = "serving" /\ once[l] = "unused"
  /\ serve' = [serve EXCEPT ![l][f] = "done"]
  /\ port' = Freed({f})
  /\ SendErr(l)
  /\ UNCHANGED <<pc, ctx, watcher, once, requests, codeCh, code>>

BadWatch(l) ==
  /\ watcher[l] = "waiting"
  /\ l \in ctx
  /\ IF once[l] = "unused"
       THEN BeginShutdown(l) /\ watcher' = [watcher EXCEPT ![l] = "drain"]
       ELSE watcher' = [watcher EXCEPT ![l] = "await"] /\ UNCHANGED <<port, once, serve>>
  /\ UNCHANGED <<pc, ctx, channels, code>>

(* The watcher wakes when the caller cancels, and when shutdownFn runs.    *)
Watch(l) ==
  /\ watcher[l] = "waiting"
  /\ l \in ctx \/ once[l] # "unused"
  /\ IF once[l] = "unused"
       THEN BeginShutdown(l) /\ watcher' = [watcher EXCEPT ![l] = "drain"]
       ELSE watcher' = [watcher EXCEPT ![l] = "await"] /\ UNCHANGED <<port, once, serve>>
  /\ UNCHANGED <<pc, ctx, channels, code>>

WatchEnd(l) ==
  /\ \/ watcher[l] = "drain" /\ once' = [once EXCEPT ![l] = "done"]
     \/ watcher[l] = "await" /\ once[l] = "done" /\ UNCHANGED once
  /\ watcher' = [watcher EXCEPT ![l] = "done"]
  /\ UNCHANGED <<port, pc, ctx, serve, channels, code>>

BadHandle(l, r) ==
  /\ r \in requests[l]
  /\ requests' = [requests EXCEPT ![l] = @ \ {r}]
  /\ IF r.brings = "code"
       THEN /\ codeCh' = [codeCh EXCEPT ![l] = IF @ = {} THEN {r.state} ELSE @]
            /\ UNCHANGED errCh
       ELSE SendErr(l) /\ UNCHANGED codeCh
  /\ UNCHANGED <<port, pc, ctx, goroutines, code>>

(* makeCallbackHandler: one send, without blocking, to one of the channels.*)
Handle(l, r) ==
  /\ r \in requests[l]
  /\ requests' = [requests EXCEPT ![l] = @ \ {r}]
  /\ IF r.state = l /\ r.brings = "code"
       THEN /\ codeCh' = [codeCh EXCEPT ![l] = IF @ = {} THEN {r.state} ELSE @]
            /\ UNCHANGED errCh
       ELSE SendErr(l) /\ UNCHANGED codeCh
  /\ UNCHANGED <<port, pc, ctx, goroutines, code>>
-----------------------------------------------------------------------------
(* A GET reaches whoever serves one of the two addresses: a browser that   *)
(* was sent there by this login or by another, or any program.             *)
Arrive(l, r) ==
  /\ \E f \in Listening(l) : serve[l][f] = "serving"
  /\ Cardinality(requests[l]) < MaxServed
  /\ requests' = [requests EXCEPT ![l] = @ \cup {r}]
  /\ UNCHANGED <<port, pc, ctx, goroutines, codeCh, errCh, code>>

Cancel(l) ==
  /\ pc[l] \notin {"idle", "done"}
  /\ ctx' = ctx \cup {l}
  /\ UNCHANGED <<port, pc, goroutines, channels, code>>

(* Another program takes the port, or lets it go.                          *)
Foreign(f) ==
  /\ \/ port[f] = Nobody /\ port' = [port EXCEPT ![f] = Other]
     \/ port[f] = Other /\ port' = [port EXCEPT ![f] = Nobody]
  /\ UNCHANGED <<pc, ctx, goroutines, channels, code>>

LoginStep(l) ==
  \/ Bind4(l) \/ Bind6(l) \/ Start(l) \/ OpenBrowser(l) \/ Select(l)
  \/ Exchange(l) \/ Shutdown(l) \/ Drained(l) \/ Await(l)

ServerStep(l) ==
  \/ \E f \in Family : ServeStart(l, f)
  \/ Watch(l) \/ WatchEnd(l)

Next ==
  \/ \E l \in Login :
       \/ LoginBrowser(l) \/ LoginStep(l) \/ ServerStep(l)
       \/ \E f \in Family : ServeError(l, f)
       \/ \E r \in Arrivals : Handle(l, r) \/ Arrive(l, r)
       \/ Cancel(l)
  \/ \E f \in Family : Foreign(f)

Spec == Init /\ [][Next]_vars

(* Goroutines that can run are run, each on its own; the timer in Select   *)
(* fires in the end.                                                       *)
Fairness ==
  \A l \in Login :
    /\ WF_vars(LoginStep(l))
    /\ WF_vars(Watch(l) \/ WatchEnd(l))
    /\ \A f \in Family : WF_vars(ServeStart(l, f))
    /\ \A r \in Arrivals : WF_vars(Handle(l, r))
-----------------------------------------------------------------------------
(* The code channel has capacity 1. *)
ChannelTypeOK ==
  \A l \in Login : \A ch \in {codeCh[l], code[l]} :
    ch \subseteq Login \cup {Other} /\ Cardinality(ch) <= 1

TypeOK ==
  /\ port \in [Family -> Login \cup {Other, Nobody, Absent}]
  /\ pc \in [Login -> {"idle", "bind4", "bind6", "start", "open", "select",
                       "exchange", "return", "drain", "await", "done"}]
  /\ ctx \subseteq Login
  /\ serve \in [Login -> [Family -> {"none", "starting", "serving", "done"}]]
  /\ watcher \in [Login -> {"none", "waiting", "drain", "await", "done"}]
  /\ once \in [Login -> {"unused", "running", "done"}]
  /\ requests \in [Login -> SUBSET Arrivals]
  /\ errCh \in [Login -> 0..1]
  /\ ChannelTypeOK

(* The code a login exchanges was brought back with its own state          *)
(* parameter: not by a browser that another login sent to the port, which  *)
(* may reach this login's server once that login has given the port up.    *)
ExchangesOwnCode == \A l \in Login : code[l] \subseteq {l}

(* The login waits for its callback, and nothing has happened yet that     *)
(* ends the wait: no error is in its channel, nobody has cancelled.        *)
Receives(l) == pc[l] \in {"open", "select"} /\ errCh[l] = 0 /\ once[l] = "unused"

(* A login that receives can be reached: the IPv4 address is its own, and  *)
(* the IPv6 address if it could be bound.  So at most one login receives,  *)
(* although each may do without IPv6 and any listener may fail; no login   *)
(* waits on when its listener is gone (callback.go:53-55, 113-116).  (An   *)
(* IPv6 address that could not be bound may be another program's, and a    *)
(* browser that tries it first brings the code there, callback.go:75.)     *)
ReceivesAlone ==
  \A l \in Login : Receives(l) =>
    /\ port["v4"] = l
    /\ serve[l]["v6"] # "none" => port["v6"] = l
    /\ \A k \in Login \ {l} : ~Receives(k)

(* A login that has returned, with whatever result, leaves nothing behind: *)
(* both ports are given back and all its goroutines end.                   *)
NothingLeaks ==
  \A l \in Login : pc[l] = "done" ~>
    /\ Listening(l) = {} /\ requests[l] = {}
    /\ watcher[l] \in {"none", "done"}
    /\ \A f \in Family : serve[l][f] \in {"none", "done"}
=============================================================================
