--------------------------- MODULE ClientLoginProofs ---------------------------
(* Theorems about DeviceLogin, for every set of intervals, every margin    *)
(* and cap, and every width of a Duration; and that Client.Login           *)
(* implements each of its flows: on the route it has taken its steps are   *)
(* steps of that flow, and the other flow stands still.  So what is proved *)
(* of LoginBrowser and of LoginDevice holds of Login.                      *)
EXTENDS ClientLogin, TLAPS

(* The timer does not fire before the wanted pause has passed. *)
PauseInv == pc = "wait" /\ Wanted <= MaxDuration => quiet + timer >= Wanted

(* Time is counted from the prompt on, and stands still at the cap. *)
ClockInv ==
  /\ quiet + capLeft <= Cap
  /\ pc \in {"idle", "init", "prompt"} => quiet = 0

IInv == TypeOK /\ PauseInv /\ ClockInv
-----------------------------------------------------------------------------
LEMMA WordFacts ==
  /\ Word \in Nat /\ Word > 0
  /\ Word \div 2 \in Nat
  /\ Word = 2 * (Word \div 2)
  /\ MaxDuration \in Nat
  BY DeviceLoginAssumption DEF MaxDuration

(* A Duration is an integer of its width, and n itself when that holds n. *)
LEMMA DurationRange ==
  ASSUME NEW n \in Int
  PROVE  Duration(n) \in Int /\ Duration(n) <= MaxDuration
<1> DEFINE half == Word \div 2
           m == n + half
<1>1. half \in Nat /\ Word = 2 * half /\ Word > 0
  BY WordFacts
<1> HIDE DEF half
<1>2. m \in Int
  BY <1>1
<1> HIDE DEF m
<1>3. m % Word \in 0..Word - 1
  BY <1>1, <1>2
<1>4. (m % Word) - half \in Int /\ (m % Word) - half <= half - 1
  BY <1>1, <1>3
<1> QED
  BY <1>4 DEF Duration, MaxDuration, m, half

LEMMA DurationExact ==
  ASSUME NEW n \in 0..MaxDuration
  PROVE  Duration(n) = n
<1> DEFINE half == Word \div 2
           m == n + half
<1>1. half \in Nat /\ Word = 2 * half /\ Word > 0
  BY WordFacts
<1>2. n \in Nat /\ n <= half - 1
  BY <1>1 DEF MaxDuration
<1> HIDE DEF half
<1>3. m \in 0..Word - 1
  BY <1>1, <1>2
<1> HIDE DEF m
<1>4. m % Word = m
  BY <1>1, <1>3
<1>5. (m % Word) - half = n
  BY <1>1, <1>2, <1>4 DEF m
<1> QED
  BY <1>5 DEF Duration, m, half

LEMMA IntervalFacts ==
  ASSUME TypeOK
  PROVE  /\ parsePollInterval(interval) * Second \in Nat
         /\ Wanted = parsePollInterval(interval) * Second + Margin
         /\ Wanted \in Nat
<1>1. parsePollInterval(interval) \in Nat
  BY DeviceLoginAssumption DEF TypeOK, parsePollInterval
<1>2. parsePollInterval(interval) * Second \in Nat
  BY <1>1, DeviceLoginAssumption
<1> QED
  BY <1>2, DeviceLoginAssumption DEF Wanted

LEMMA PauseRange ==
  ASSUME TypeOK
  PROVE  pollInterval \in Int /\ pollInterval <= MaxDuration
<1> DEFINE seconds == parsePollInterval(interval) * Second
<1>1. Duration(seconds) \in Int
  BY IntervalFacts, DurationRange
<1>2. Duration(seconds) + Margin \in Int
  BY <1>1, DeviceLoginAssumption
<1> QED
  BY <1>2, DurationRange DEF pollInterval

(* The pause that is made is the wanted one, if a Duration can hold it. *)
LEMMA PauseExact ==
  ASSUME TypeOK, Wanted <= MaxDuration
  PROVE  pollInterval = Wanted
<1> DEFINE seconds == parsePollInterval(interval) * Second
<1>1. seconds \in 0..MaxDuration /\ Wanted \in 0..MaxDuration
  BY IntervalFacts, WordFacts, DeviceLoginAssumption
<1>2. Duration(seconds) = seconds /\ Duration(Wanted) = Wanted
  BY <1>1, DurationExact
<1> QED
  BY <1>2 DEF pollInterval, Wanted

LEMMA SetTimerFacts ==
  ASSUME TypeOK, SetTimer
  PROVE  /\ timer' \in 0..MaxDuration
         /\ Wanted <= MaxDuration => timer' = Wanted
<1>1. timer' \in 0..MaxDuration
  BY PauseRange, WordFacts DEF SetTimer
<1>2. Wanted <= MaxDuration => timer' = Wanted
  BY PauseExact, IntervalFacts DEF SetTimer
<1> QED
  BY <1>1, <1>2
-----------------------------------------------------------------------------
LEMMA InitIInv == Init => IInv
<1> SUFFICES ASSUME Init PROVE IInv
  OBVIOUS
<1>1. Cap \in Nat
  BY DeviceLoginAssumption
<1>2. timer \in 0..MaxDuration /\ capLeft \in 0..Cap /\ quiet \in 0..Cap
  BY <1>1, WordFacts DEF Init
<1>3. TypeOK
  BY <1>2 DEF Init, TypeOK
<1>4. PauseInv /\ ClockInv
  BY <1>1 DEF Init, PauseInv, ClockInv
<1> QED
  BY <1>3, <1>4 DEF IInv

LEMMA IInvStep == IInv /\ [Next]_vars => IInv'
<1> SUFFICES ASSUME IInv, [Next]_vars PROVE IInv'
  OBVIOUS
<1> USE WordFacts, DeviceLoginAssumption
    DEF IInv, TypeOK, PauseInv, ClockInv, Goto, Return
<1>0. Wanted \in Nat
  BY IntervalFacts
<1>w. interval' = interval => Wanted' = Wanted
  BY DEF Wanted, parsePollInterval
<1>1. CASE LoginDevice
  BY <1>1, <1>0, <1>w DEF LoginDevice
<1>2. CASE DeviceInit
  BY <1>2, <1>0, <1>w DEF DeviceInit
<1>3. CASE Prompt
  BY <1>3, <1>0, <1>w, SetTimerFacts DEF Prompt
<1>4. CASE Stop
  BY <1>4, <1>0, <1>w DEF Stop
<1>5. CASE SendPoll
  BY <1>5, <1>0, <1>w DEF SendPoll
<1>6. CASE Pending
  BY <1>6, <1>0, <1>w, SetTimerFacts DEF Pending
<1>7. CASE Answered
  BY <1>7, <1>0, <1>w DEF Answered
<1>8. CASE Exchange
  BY <1>8, <1>0, <1>w DEF Exchange
<1>9. CASE Save
  BY <1>9, <1>0, <1>w DEF Save
<1>10. CASE Cancel
  BY <1>10, <1>0, <1>w DEF Cancel
<1>11. CASE Tick
  BY <1>11, <1>0, <1>w DEF Tick, Less
<1>12. CASE UNCHANGED vars
  BY <1>12, <1>0, <1>w DEF vars
<1> QED
  BY <1>1, <1>2, <1>3, <1>4, <1>5, <1>6, <1>7, <1>8, <1>9, <1>10, <1>11, <1>12
  DEF Next, Step

(* Every state of the program has the inductive invariant. *)
THEOREM Correct == Spec => []IInv
  BY InitIInv, IInvStep, PTL DEF Spec

(* The variables keep their types: the timer is never set to more than a   *)
(* Duration holds, and a result is set exactly when the login is done.     *)
THEOREM TypeCorrect == Spec => []TypeOK
<1>1. IInv => TypeOK
  BY DEF IInv
<1> QED
  BY Correct, <1>1, PTL

(* No poll is sent before the endpoint's interval and the margin have      *)
(* passed since the prompt or the last answer, whatever the interval is    *)
(* that a Duration can hold (login_device.go:102).                         *)
THEOREM Spacing == Spec => PollsSpaced
<1> DEFINE SpacedStep ==
      SendPoll /\ pc' = "poll" /\ Wanted <= MaxDuration => quiet >= Wanted
<1>1. IInv => SpacedStep
  BY IntervalFacts DEF IInv, TypeOK, PauseInv, SendPoll
<1> QED
  BY Correct, <1>1, PTL DEF PollsSpaced
-----------------------------------------------------------------------------
(* From here on about Client.Login, and about the flow of LoginBrowser as  *)
(* it is in a client.                                                      *)
BrowserProofs == INSTANCE BrowserLoginProofs WITH
  Login <- {login}, pc <- browserPC, ctx <- browserCtx

(* The flow that was not taken has not begun. *)
RouteInv ==
  /\ route \in {"none", "browser", "device"}
  /\ route # "browser" => browserPC[login] = "idle"
  /\ route # "device" => pc = "idle"
-----------------------------------------------------------------------------
(* Browser and BrowserProofs name the operators of FiniteSets anew. *)
LEMMA SameCardinality ==
  ASSUME NEW S
  PROVE  /\ Browser!Cardinality(S) = Cardinality(S)
         /\ BrowserProofs!Cardinality(S) = Cardinality(S)
  BY DEF Cardinality, Browser!Cardinality, BrowserProofs!Cardinality

LEMMA BrowserAssumption == BrowserProofs!BrowserLoginAssumption
<1>1. {login} \cap {Other, Nobody, Absent} = {}
  BY ClientLoginAssumption
<1>2. Cardinality({Other, Nobody, Absent}) = 3
  BY ClientLoginAssumption
<1>3. Arrivals \subseteq BrowserProofs!Callback
  BY ClientLoginAssumption DEF Browser!Callback, BrowserProofs!Callback
<1>4. MaxServed \in Nat \ {0}
  BY ClientLoginAssumption
<1> QED
  BY <1>1, <1>2, <1>3, <1>4, SameCardinality
  DEF BrowserProofs!BrowserLoginAssumption

(* Browser and BrowserProofs are the same flow under two names. *)
LEMMA SameInit == Browser!Init => BrowserProofs!Init
  BY DEF Browser!Init, BrowserProofs!Init, Browser!Family, BrowserProofs!Family

LEMMA SameNext == Browser!Next => BrowserProofs!Next
<1> USE DEF Browser!Goto, BrowserProofs!Goto, Browser!Family, BrowserProofs!Family,
            Browser!goroutines, BrowserProofs!goroutines,
            Browser!channels, BrowserProofs!channels
<1>1. Browser!LoginBrowser(login) => BrowserProofs!LoginBrowser(login)
  BY DEF Browser!LoginBrowser, BrowserProofs!LoginBrowser
<1>2. Browser!Bind4(login) => BrowserProofs!Bind4(login)
  BY DEF Browser!Bind4, BrowserProofs!Bind4
<1>3. Browser!Bind6(login) => BrowserProofs!Bind6(login)
  BY DEF Browser!Bind6, BrowserProofs!Bind6
<1>4. Browser!Start(login) => BrowserProofs!Start(login)
  BY DEF Browser!Start, BrowserProofs!Start
<1>5. Browser!OpenBrowser(login) => BrowserProofs!OpenBrowser(login)
  BY DEF Browser!OpenBrowser, BrowserProofs!OpenBrowser
<1>6. Browser!Select(login) => BrowserProofs!Select(login)
  BY DEF Browser!Select, BrowserProofs!Select
<1>7. Browser!Exchange(login) => BrowserProofs!Exchange(login)
  BY DEF Browser!Exchange, BrowserProofs!Exchange
<1>8. Browser!Shutdown(login) => BrowserProofs!Shutdown(login)
  BY DEF Browser!Shutdown, BrowserProofs!Shutdown, Browser!BeginShutdown,
     BrowserProofs!BeginShutdown, Browser!Freed, BrowserProofs!Freed,
     Browser!Listening, BrowserProofs!Listening
<1>9. Browser!Drained(login) => BrowserProofs!Drained(login)
  BY DEF Browser!Drained, BrowserProofs!Drained
<1>10. Browser!Await(login) => BrowserProofs!Await(login)
  BY DEF Browser!Await, BrowserProofs!Await
<1>11. Browser!Watch(login) => BrowserProofs!Watch(login)
  BY DEF Browser!Watch, BrowserProofs!Watch, Browser!BeginShutdown,
     BrowserProofs!BeginShutdown, Browser!Freed, BrowserProofs!Freed,
     Browser!Listening, BrowserProofs!Listening
<1>12. Browser!WatchEnd(login) => BrowserProofs!WatchEnd(login)
  BY DEF Browser!WatchEnd, BrowserProofs!WatchEnd
<1>13. Browser!Cancel(login) => BrowserProofs!Cancel(login)
  BY DEF Browser!Cancel, BrowserProofs!Cancel
<1>14. ASSUME NEW f \in Browser!Family, Browser!ServeStart(login, f)
      PROVE  BrowserProofs!ServeStart(login, f)
  BY <1>14
  DEF Browser!ServeStart, BrowserProofs!ServeStart, Browser!Freed,
      BrowserProofs!Freed
<1>15. ASSUME NEW f \in Browser!Family, Browser!ServeError(login, f)
      PROVE  BrowserProofs!ServeError(login, f)
  BY <1>15
  DEF Browser!ServeError, BrowserProofs!ServeError, Browser!Freed,
      BrowserProofs!Freed, Browser!SendErr, BrowserProofs!SendErr
<1>16. ASSUME NEW r \in Arrivals, Browser!Handle(login, r)
      PROVE  BrowserProofs!Handle(login, r)
  BY <1>16
  DEF Browser!Handle, BrowserProofs!Handle, Browser!SendErr,
      BrowserProofs!SendErr
<1>17. ASSUME NEW r \in Arrivals, Browser!Arrive(login, r)
      PROVE  BrowserProofs!Arrive(login, r)
  BY <1>17, SameCardinality
  DEF Browser!Arrive, BrowserProofs!Arrive, Browser!Listening,
      BrowserProofs!Listening
<1>18. ASSUME NEW f \in Browser!Family, Browser!Foreign(f) PROVE BrowserProofs!Foreign(f)
  BY <1>18 DEF Browser!Foreign, BrowserProofs!Foreign
<1> QED
  BY <1>1, <1>2, <1>3, <1>4, <1>5, <1>6, <1>7, <1>8, <1>9, <1>10, <1>11,
     <1>12, <1>13, <1>14, <1>15, <1>16, <1>17, <1>18
  DEF Browser!Next, BrowserProofs!Next, Browser!LoginStep, BrowserProofs!LoginStep,
      Browser!ServerStep, BrowserProofs!ServerStep
-----------------------------------------------------------------------------
(* The device flow of a client is a device login. *)
THEOREM ImplementsDeviceLogin == FairClientSpec => Spec
<1>1. ClientInit => Init
  BY DEF ClientInit
<1>2. ClientNext => Next \/ UNCHANGED vars
  BY DEF ClientNext, ByDevice, ByBrowser, BrowserFlow, DeviceFlow, Next
<1>3. UNCHANGED allVars => UNCHANGED vars
  BY DEF allVars
<1>4. [ClientNext]_allVars => [Next]_vars
  BY <1>2, <1>3
<1> QED
  BY <1>1, <1>4, PTL DEF FairClientSpec, Spec

(* The browser flow of a client is a browser login. *)
THEOREM ImplementsBrowserLogin == FairClientSpec => BrowserProofs!Spec
<1>1. ClientInit => BrowserProofs!Init
  BY SameInit DEF ClientInit
<1>2. ClientNext => BrowserProofs!Next \/ UNCHANGED browserVars
  <2>1. ByBrowser => Browser!Next
    BY DEF ByBrowser, Browser!Next
  <2> QED
    BY <2>1, SameNext DEF ClientNext, ByDevice, BrowserFlow, DeviceFlow
<1>3. UNCHANGED browserVars => UNCHANGED BrowserProofs!vars
  BY DEF browserVars, BrowserProofs!vars, BrowserProofs!goroutines,
     BrowserProofs!channels
<1>4. [ClientNext]_allVars => [BrowserProofs!Next]_(BrowserProofs!vars)
  BY <1>2, <1>3 DEF allVars
<1> QED
  BY <1>1, <1>4, PTL DEF FairClientSpec, BrowserProofs!Spec

LEMMA RouteStays == FairClientSpec => []RouteInv
<1>1. ClientInit => RouteInv
  BY DEF ClientInit, RouteInv, Init, Browser!Init
<1>2. RouteInv /\ [ClientNext]_allVars => RouteInv'
  BY DEF RouteInv, ClientNext, ByDevice, ByBrowser, BrowserFlow, DeviceFlow,
     allVars, browserVars, vars
<1> QED
  BY <1>1, <1>2, PTL DEF FairClientSpec

(* The variables of both flows keep their types, and the flow that Login   *)
(* has not taken never begins.                                             *)
THEOREM ClientTypeCorrect == FairClientSpec => []ClientTypeOK
<1>1. FairClientSpec => []TypeOK
  BY ImplementsDeviceLogin, TypeCorrect, PTL
<1>2. FairClientSpec => []BrowserProofs!TypeOK
  BY ImplementsBrowserLogin, BrowserProofs!TypeCorrect, BrowserAssumption, PTL
<1>3. BrowserProofs!TypeOK => Browser!TypeOK
  BY SameCardinality
  DEF Browser!TypeOK, BrowserProofs!TypeOK, Browser!ChannelTypeOK,
      BrowserProofs!ChannelTypeOK, Browser!Family, BrowserProofs!Family
<1>4. TypeOK /\ Browser!TypeOK /\ RouteInv => ClientTypeOK
  BY DEF ClientTypeOK, RouteInv
<1> QED
  BY <1>1, <1>2, <1>3, <1>4, RouteStays, PTL

(* A client's device login leaves the endpoint alone between two polls for *)
(* as long as it was asked to, if a Duration can hold that time            *)
(* (login_device.go:102).                                                  *)
THEOREM ClientSpacing == FairClientSpec => PollsSpaced
  BY ImplementsDeviceLogin, Spacing, PTL

(* A client's browser login exchanges only a code that came with its own   *)
(* state parameter.                                                        *)
THEOREM ClientOwnCode == FairClientSpec => []BrowserProofs!ExchangesOwnCode
  BY ImplementsBrowserLogin, BrowserProofs!OwnCode, BrowserAssumption, PTL
=============================================================================
