------------------------------ MODULE ClientLogin ------------------------------
(***************************************************************************)
(* Client.Login (public.go): one call, which takes the browser flow or the *)
(* device flow and stays with it, a browser login that fails included.     *)
(* The two flows share nothing but the caller: the device flow has the     *)
(* variables of DeviceLogin, the browser flow those declared here.         *)
(***************************************************************************)
EXTENDS DeviceLogin, FiniteSets

CONSTANTS
  login,                                       \* the call
  Other, Nobody, Absent, Arrivals, MaxServed   \* see BrowserLogin

VARIABLES
  route,   \* "none" until Login has chosen, then "browser" or "device"
  port, browserPC, browserCtx, serve, watcher, once, requests, codeCh, errCh, code

Browser == INSTANCE BrowserLogin WITH
  Login <- {login}, pc <- browserPC, ctx <- browserCtx

(* BrowserLoginAssumption of the one browser login. *)
ASSUME ClientLoginAssumption ==
  /\ login \notin {Other, Nobody, Absent}
  /\ Cardinality({Other, Nobody, Absent}) = 3
  /\ Arrivals \subseteq Browser!Callback
  /\ MaxServed \in Nat \ {0}

browserVars == <<port, browserPC, browserCtx, serve, watcher, once, requests,
                 codeCh, errCh, code>>
allVars == <<route, browserVars, vars>>

ClientInit == route = "none" /\ Browser!Init /\ Init

(* forceDevice, or browserAvailableCheck() # nil: the device flow.         *)
ByDevice ==
  /\ route = "none"
  /\ route' = "device"
  /\ LoginDevice
  /\ UNCHANGED browserVars

ByBrowser ==
  /\ route = "none"
  /\ route' = "browser"
  /\ Browser!LoginBrowser(login)
  /\ UNCHANGED vars

BrowserFlow == route = "browser" /\ Browser!Next /\ UNCHANGED <<route, vars>>

DeviceFlow == route = "device" /\ Next /\ UNCHANGED <<route, browserVars>>

ClientNext == ByDevice \/ ByBrowser \/ BrowserFlow \/ DeviceFlow

(* The flow that was taken runs when it can; a poll ends with an answer or *)
(* at tokenHTTPTimeout, and time passes.                                   *)
FairClientSpec ==
  /\ ClientInit /\ [][ClientNext]_allVars
  /\ Browser!Fairness
  /\ WF_allVars(DeviceFlow /\ Step) /\ WF_allVars(DeviceFlow /\ Tick)
-----------------------------------------------------------------------------
ClientTypeOK ==
  /\ route \in {"none", "browser", "device"}
  /\ Browser!TypeOK /\ TypeOK
  /\ route # "browser" => browserPC[login] = "idle"
  /\ route # "device" => pc = "idle"

(* Login returns, whichever flow it has taken: although the user never     *)
(* authorizes, no callback comes, the caller never cancels, and whatever   *)
(* fails or comes twice (login_browser.go:90, login_device.go:149).        *)
EitherReturns == route # "none" ~> browserPC[login] = "done" \/ pc = "done"

(* BrowserLogin!NothingLeaks: a browser login that has returned gives back *)
(* both ports and ends all its goroutines (callback.go:99-130).            *)
NothingLeaks == Browser!NothingLeaks
=============================================================================
