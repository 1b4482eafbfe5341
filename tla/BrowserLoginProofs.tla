--------------------------- MODULE BrowserLoginProofs ---------------------------
(* Theorems about BrowserLogin, for every number of logins, every set of   *)
(* callbacks that may arrive and every bound on the handlers at work.      *)
EXTENDS BrowserLogin, TLAPS, FiniteSetTheorems

BeforeStart == {"idle", "bind4", "bind6", "start"}
Bound(l, f) == serve[l][f] \in {"starting", "serving"}

(* Until its goroutines are started a login has none of them, and nothing  *)
(* has shut its server down.                                               *)
FreshInv ==
  \A l \in Login : pc[l] \in BeforeStart =>
    watcher[l] = "none" /\ once[l] = "unused" /\ \A f \in Family : serve[l][f] = "none"

(* Who has a listener: the login between its two binds, the login about to *)
(* start, and whoever has a goroutine in serveOn.                          *)
PortInv ==
  \A l \in Login :
    /\ pc[l] \in {"bind6", "start"} => port["v4"] = l
    /\ \A f \in Family : Bound(l, f) => port[f] = l

(* What is in a login's channel, or was taken out of it, came with the     *)
(* login's own state parameter.                                            *)
CodeInv ==
  /\ codeCh \in [Login -> SUBSET Login]
  /\ code \in [Login -> SUBSET Login]
  /\ \A l \in Login : codeCh[l] \subseteq {l} /\ code[l] \subseteq {l}

(* While a login receives no listener of its own has failed, and it has    *)
(* the one for IPv4.                                                       *)
ReceiveInv ==
  \A l \in Login : Receives(l) => Bound(l, "v4") /\ serve[l]["v6"] # "done"

IInv == TypeOK /\ FreshInv /\ PortInv /\ CodeInv /\ ReceiveInv
-----------------------------------------------------------------------------
LEMMA PairSize ==
  ASSUME NEW a, NEW b
  PROVE  Cardinality({a, b}) <= 2
<1>1. IsFiniteSet({a}) /\ Cardinality({a}) = 1
  BY FS_Singleton
<1>2. {a, b} = {a} \cup {b}
  OBVIOUS
<1> QED
  BY <1>1, <1>2, FS_AddElement

LEMMA HoldersDiffer ==
  /\ Other \notin Login /\ Nobody \notin Login /\ Absent \notin Login
  /\ Other # Nobody /\ Other # Absent /\ Nobody # Absent
<1> DEFINE Holders == {Other, Nobody, Absent}
<1>0. ~ (Cardinality(Holders) <= 2)
  BY BrowserLoginAssumption
<1>1. CASE Other = Nobody
  <2>1. Holders = {Other, Absent}
    BY <1>1
  <2>2. Cardinality({Other, Absent}) <= 2
    BY PairSize
  <2> QED
    BY <2>1, <2>2, <1>0
<1>2. CASE Other = Absent
  <2>1. Holders = {Other, Nobody}
    BY <1>2
  <2>2. Cardinality({Other, Nobody}) <= 2
    BY PairSize
  <2> QED
    BY <2>1, <2>2, <1>0
<1>3. CASE Nobody = Absent
  <2>1. Holders = {Other, Nobody}
    BY <1>3
  <2>2. Cardinality({Other, Nobody}) <= 2
    BY PairSize
  <2> QED
    BY <2>1, <2>2, <1>0
<1> QED
  BY <1>1, <1>2, <1>3, BrowserLoginAssumption

(* A channel of capacity 1 that only its own login's code gets into. *)
LEMMA ChannelSize ==
  ASSUME NEW l \in Login, NEW ch \in SUBSET {l}
  PROVE  ch \subseteq Login \cup {Other} /\ Cardinality(ch) <= 1
<1>1. ch = {} \/ ch = {l}
  OBVIOUS
<1>2. Cardinality({}) = 0 /\ Cardinality({l}) = 1
  BY FS_EmptySet, FS_Singleton
<1>3. Cardinality(ch) = 0 \/ Cardinality(ch) = 1
  BY <1>1, <1>2
<1> QED
  BY <1>1, <1>3

-----------------------------------------------------------------------------
(* A code enters a channel only with the state parameter of its login.     *)
LEMMA CodeStep ==
  ASSUME CodeInv, [Next]_vars
  PROVE  CodeInv'
<1> USE DEF CodeInv, channels, SendErr
<1>1. ASSUME NEW l \in Login, LoginBrowser(l) PROVE CodeInv'
  BY <1>1 DEF LoginBrowser
<1>2. ASSUME NEW l \in Login, Bind4(l) PROVE CodeInv'
  BY <1>2 DEF Bind4
<1>3. ASSUME NEW l \in Login, Bind6(l) PROVE CodeInv'
  BY <1>3 DEF Bind6
<1>4. ASSUME NEW l \in Login, Start(l) PROVE CodeInv'
  BY <1>4 DEF Start
<1>5. ASSUME NEW l \in Login, OpenBrowser(l) PROVE CodeInv'
  BY <1>5 DEF OpenBrowser
<1>6. ASSUME NEW l \in Login, Select(l) PROVE CodeInv'
  BY <1>6 DEF Select
<1>7. ASSUME NEW l \in Login, Exchange(l) PROVE CodeInv'
  BY <1>7 DEF Exchange
<1>8. ASSUME NEW l \in Login, Shutdown(l) PROVE CodeInv'
  BY <1>8 DEF Shutdown
<1>9. ASSUME NEW l \in Login, Drained(l) PROVE CodeInv'
  BY <1>9 DEF Drained
<1>10. ASSUME NEW l \in Login, Await(l) PROVE CodeInv'
  BY <1>10 DEF Await
<1>11. ASSUME NEW l \in Login, NEW f \in Family, ServeStart(l, f) PROVE CodeInv'
  BY <1>11 DEF ServeStart
<1>12. ASSUME NEW l \in Login, Watch(l) PROVE CodeInv'
  BY <1>12 DEF Watch
<1>13. ASSUME NEW l \in Login, WatchEnd(l) PROVE CodeInv'
  BY <1>13 DEF WatchEnd
<1>14. ASSUME NEW l \in Login, NEW f \in Family, ServeError(l, f) PROVE CodeInv'
  BY <1>14 DEF ServeError
<1>15. ASSUME NEW l \in Login, NEW r \in Arrivals, Handle(l, r) PROVE CodeInv'
  BY <1>15 DEF Handle
<1>16. ASSUME NEW l \in Login, NEW r \in Arrivals, Arrive(l, r) PROVE CodeInv'
  BY <1>16 DEF Arrive
<1>17. ASSUME NEW l \in Login, Cancel(l) PROVE CodeInv'
  BY <1>17 DEF Cancel
<1>18. ASSUME NEW f \in Family, Foreign(f) PROVE CodeInv'
  BY <1>18 DEF Foreign
<1>19. CASE UNCHANGED vars
  BY <1>19 DEF vars, goroutines, channels
<1> QED
  BY <1>1, <1>2, <1>3, <1>4, <1>5, <1>6, <1>7, <1>8, <1>9, <1>10, <1>11,
     <1>12, <1>13, <1>14, <1>15, <1>16, <1>17, <1>18, <1>19
  DEF Next, LoginStep, ServerStep

(* Only Start starts goroutines; once and watcher change after it.         *)
LEMMA FreshStep ==
  ASSUME TypeOK, FreshInv, [Next]_vars
  PROVE  FreshInv'
<1> USE DEF FreshInv, TypeOK, goroutines, Goto, BeforeStart
<1>1. ASSUME NEW l \in Login, LoginBrowser(l) PROVE FreshInv'
  BY <1>1 DEF LoginBrowser
<1>2. ASSUME NEW l \in Login, Bind4(l) PROVE FreshInv'
  BY <1>2 DEF Bind4
<1>3. ASSUME NEW l \in Login, Bind6(l) PROVE FreshInv'
  BY <1>3 DEF Bind6
<1>4. ASSUME NEW l \in Login, Start(l) PROVE FreshInv'
  BY <1>4 DEF Start
<1>5. ASSUME NEW l \in Login, OpenBrowser(l) PROVE FreshInv'
  BY <1>5 DEF OpenBrowser
<1>6. ASSUME NEW l \in Login, Select(l) PROVE FreshInv'
  BY <1>6 DEF Select
<1>7. ASSUME NEW l \in Login, Exchange(l) PROVE FreshInv'
  BY <1>7 DEF Exchange
<1>8. ASSUME NEW l \in Login, Shutdown(l) PROVE FreshInv'
  BY <1>8 DEF Shutdown, BeginShutdown, Freed, Listening
<1>9. ASSUME NEW l \in Login, Drained(l) PROVE FreshInv'
  BY <1>9 DEF Drained
<1>10. ASSUME NEW l \in Login, Await(l) PROVE FreshInv'
  BY <1>10 DEF Await
<1>11. ASSUME NEW l \in Login, NEW f \in Family, ServeStart(l, f) PROVE FreshInv'
  <2>1. \A k \in Login : serve'[k] # serve[k] => k = l
    BY <1>11 DEF ServeStart
  <2>2. pc[l] \notin BeforeStart
    BY <1>11 DEF ServeStart
  <2> QED
    BY <1>11, <2>1, <2>2 DEF ServeStart
<1>12. ASSUME NEW l \in Login, Watch(l) PROVE FreshInv'
  BY <1>12 DEF Watch, BeginShutdown, Freed, Listening
<1>13. ASSUME NEW l \in Login, WatchEnd(l) PROVE FreshInv'
  BY <1>13 DEF WatchEnd
<1>14. ASSUME NEW l \in Login, NEW f \in Family, ServeError(l, f) PROVE FreshInv'
  BY <1>14 DEF ServeError
<1>15. ASSUME NEW l \in Login, NEW r \in Arrivals, Handle(l, r) PROVE FreshInv'
  BY <1>15 DEF Handle
<1>16. ASSUME NEW l \in Login, NEW r \in Arrivals, Arrive(l, r) PROVE FreshInv'
  BY <1>16 DEF Arrive
<1>17. ASSUME NEW l \in Login, Cancel(l) PROVE FreshInv'
  BY <1>17 DEF Cancel
<1>18. ASSUME NEW f \in Family, Foreign(f) PROVE FreshInv'
  BY <1>18 DEF Foreign
<1>19. CASE UNCHANGED vars
  BY <1>19 DEF vars, goroutines, channels
<1> QED
  BY <1>1, <1>2, <1>3, <1>4, <1>5, <1>6, <1>7, <1>8, <1>9, <1>10, <1>11,
     <1>12, <1>13, <1>14, <1>15, <1>16, <1>17, <1>18, <1>19
  DEF Next, LoginStep, ServerStep

LEMMA BeginType ==
  ASSUME TypeOK, NEW l \in Login, BeginShutdown(l)
  PROVE  /\ port' \in [Family -> Login \cup {Other, Nobody, Absent}]
         /\ once' \in [Login -> {"unused", "running", "done"}]
         /\ serve' \in [Login -> [Family -> {"none", "starting", "serving", "done"}]]
<1> DEFINE registered == {f \in Listening(l) : serve[l][f] = "serving"}
           ends == [f \in Family |-> IF f \in registered THEN "done" ELSE serve[l][f]]
<1>1. serve[l] \in [Family -> {"none", "starting", "serving", "done"}]
  BY DEF TypeOK
<1>2. ends \in [Family -> {"none", "starting", "serving", "done"}]
  BY <1>1
<1>3. serve' = [serve EXCEPT ![l] = ends] /\ port' = Freed(registered)
  BY DEF BeginShutdown
<1>4. once' = [once EXCEPT ![l] = "running"]
  BY DEF BeginShutdown
<1> HIDE DEF registered, ends
<1> QED
  BY <1>2, <1>3, <1>4 DEF TypeOK, Freed

(* The types of the variables; CodeInv bounds the channels.                *)
LEMMA TypeStep ==
  ASSUME TypeOK, ChannelTypeOK', [Next]_vars
  PROVE  TypeOK'
<1> USE DEF TypeOK, goroutines, channels, Goto, SendErr
<1>1. ASSUME NEW l \in Login, LoginBrowser(l) PROVE TypeOK'
  BY <1>1 DEF LoginBrowser
<1>2. ASSUME NEW l \in Login, Bind4(l) PROVE TypeOK'
  <2>1. port' \in [Family -> Login \cup {Other, Nobody, Absent}]
    BY <1>2 DEF Bind4
  <2>2. pc' \in [Login -> {"idle", "bind4", "bind6", "start", "open", "select",
                        "exchange", "return", "drain", "await", "done"}]
    BY <1>2 DEF Bind4
  <2> QED
    BY <1>2, <2>1, <2>2 DEF Bind4
<1>3. ASSUME NEW l \in Login, Bind6(l) PROVE TypeOK'
  <2>1. port' \in [Family -> Login \cup {Other, Nobody, Absent}]
    BY <1>3 DEF Bind6
  <2>2. pc' \in [Login -> {"idle", "bind4", "bind6", "start", "open", "select",
                        "exchange", "return", "drain", "await", "done"}]
    BY <1>3 DEF Bind6
  <2> QED
    BY <1>3, <2>1, <2>2 DEF Bind6
<1>4. ASSUME NEW l \in Login, Start(l) PROVE TypeOK'
  BY <1>4 DEF Start
<1>5. ASSUME NEW l \in Login, OpenBrowser(l) PROVE TypeOK'
  BY <1>5 DEF OpenBrowser
<1>6. ASSUME NEW l \in Login, Select(l) PROVE TypeOK'
  <2>1. pc' \in [Login -> {"idle", "bind4", "bind6", "start", "open", "select",
                        "exchange", "return", "drain", "await", "done"}]
    BY <1>6 DEF Select
  <2>2. errCh' \in [Login -> 0..1]
    BY <1>6 DEF Select
  <2> QED
    BY <1>6, <2>1, <2>2 DEF Select
<1>7. ASSUME NEW l \in Login, Exchange(l) PROVE TypeOK'
  BY <1>7 DEF Exchange
<1>8. ASSUME NEW l \in Login, Shutdown(l) PROVE TypeOK'
  <2>1. pc' \in [Login -> {"idle", "bind4", "bind6", "start", "open", "select",
                        "exchange", "return", "drain", "await", "done"}]
    <3>1. pc' = [pc EXCEPT ![l] = "drain"] \/ pc' = [pc EXCEPT ![l] = "await"]
      BY <1>8 DEF Shutdown
    <3> QED
      BY <3>1
  <2>2. CASE BeginShutdown(l)
    BY <1>8, <2>1, <2>2, BeginType DEF Shutdown
  <2>3. CASE UNCHANGED <<port, once, serve>>
    BY <1>8, <2>1, <2>3 DEF Shutdown
  <2> QED
    BY <1>8, <2>2, <2>3 DEF Shutdown
<1>9. ASSUME NEW l \in Login, Drained(l) PROVE TypeOK'
  BY <1>9 DEF Drained
<1>10. ASSUME NEW l \in Login, Await(l) PROVE TypeOK'
  BY <1>10 DEF Await
<1>11. ASSUME NEW l \in Login, NEW f \in Family, ServeStart(l, f) PROVE TypeOK'
  <2>1. port' \in [Family -> Login \cup {Other, Nobody, Absent}]
    BY <1>11 DEF ServeStart, Freed
  <2>2. serve' \in [Login -> [Family -> {"none", "starting", "serving", "done"}]]
    <3>1. \A s \in {"serving", "done"} : [serve[l] EXCEPT ![f] = s]
            \in [Family -> {"none", "starting", "serving", "done"}]
      OBVIOUS
    <3> QED
      BY <1>11, <3>1 DEF ServeStart
  <2> QED
    BY <1>11, <2>1, <2>2 DEF ServeStart, Freed
<1>12. ASSUME NEW l \in Login, Watch(l) PROVE TypeOK'
  <2>1. CASE BeginShutdown(l)
    BY <1>12, <2>1, BeginType DEF Watch
  <2>2. CASE UNCHANGED <<port, once, serve>>
    BY <1>12, <2>2 DEF Watch
  <2> QED
    BY <1>12, <2>1, <2>2 DEF Watch
<1>13. ASSUME NEW l \in Login, WatchEnd(l) PROVE TypeOK'
  <2>1. watcher' \in [Login -> {"none", "waiting", "drain", "await", "done"}]
    BY <1>13 DEF WatchEnd
  <2>2. once' \in [Login -> {"unused", "running", "done"}]
    BY <1>13 DEF WatchEnd
  <2> QED
    BY <1>13, <2>1, <2>2 DEF WatchEnd
<1>14. ASSUME NEW l \in Login, NEW f \in Family, ServeError(l, f) PROVE TypeOK'
  BY <1>14 DEF ServeError, BeginShutdown, Freed, Listening
<1>15. ASSUME NEW l \in Login, NEW r \in Arrivals, Handle(l, r) PROVE TypeOK'
  <2>1. requests' \in [Login -> SUBSET Arrivals]
    BY <1>15 DEF Handle
  <2>2. errCh' \in [Login -> 0..1]
    BY <1>15 DEF Handle
  <2> QED
    BY <1>15, <2>1, <2>2 DEF Handle
<1>16. ASSUME NEW l \in Login, NEW r \in Arrivals, Arrive(l, r) PROVE TypeOK'
  BY <1>16 DEF Arrive
<1>17. ASSUME NEW l \in Login, Cancel(l) PROVE TypeOK'
  BY <1>17 DEF Cancel
<1>18. ASSUME NEW f \in Family, Foreign(f) PROVE TypeOK'
  BY <1>18 DEF Foreign
<1>19. CASE UNCHANGED vars
  BY <1>19 DEF vars, goroutines, channels
<1> HIDE DEF TypeOK
<1> QED
  BY <1>1, <1>2, <1>3, <1>4, <1>5, <1>6, <1>7, <1>8, <1>9, <1>10, <1>11,
     <1>12, <1>13, <1>14, <1>15, <1>16, <1>17, <1>18, <1>19
  DEF Next, LoginStep, ServerStep

(* A listener is closed by its own login alone, whose serveOn ends with it.*)
LEMMA PortStep ==
  ASSUME TypeOK, FreshInv, PortInv, [Next]_vars
  PROVE  PortInv'
<1> USE HoldersDiffer
    DEF PortInv, FreshInv, TypeOK, Bound, Family, goroutines, Goto, BeforeStart
<1>1. ASSUME NEW l \in Login, LoginBrowser(l) PROVE PortInv'
  BY <1>1 DEF LoginBrowser
<1>2. ASSUME NEW l \in Login, Bind4(l) PROVE PortInv'
  BY <1>2 DEF Bind4
<1>3. ASSUME NEW l \in Login, Bind6(l) PROVE PortInv'
  BY <1>3 DEF Bind6
<1>4. ASSUME NEW l \in Login, Start(l) PROVE PortInv'
  BY <1>4 DEF Start
<1>5. ASSUME NEW l \in Login, OpenBrowser(l) PROVE PortInv'
  BY <1>5 DEF OpenBrowser
<1>6. ASSUME NEW l \in Login, Select(l) PROVE PortInv'
  BY <1>6 DEF Select
<1>7. ASSUME NEW l \in Login, Exchange(l) PROVE PortInv'
  BY <1>7 DEF Exchange
<1>8. ASSUME NEW l \in Login, Shutdown(l) PROVE PortInv'
  BY <1>8 DEF Shutdown, BeginShutdown, Freed, Listening
<1>9. ASSUME NEW l \in Login, Drained(l) PROVE PortInv'
  BY <1>9 DEF Drained
<1>10. ASSUME NEW l \in Login, Await(l) PROVE PortInv'
  BY <1>10 DEF Await
<1>11. ASSUME NEW l \in Login, NEW f \in Family, ServeStart(l, f) PROVE PortInv'
  BY <1>11 DEF ServeStart, BeginShutdown, Freed, Listening
<1>12. ASSUME NEW l \in Login, Watch(l) PROVE PortInv'
  BY <1>12 DEF Watch, BeginShutdown, Freed, Listening
<1>13. ASSUME NEW l \in Login, WatchEnd(l) PROVE PortInv'
  BY <1>13 DEF WatchEnd
<1>14. ASSUME NEW l \in Login, NEW f \in Family, ServeError(l, f) PROVE PortInv'
  BY <1>14 DEF ServeError, BeginShutdown, Freed, Listening
<1>15. ASSUME NEW l \in Login, NEW r \in Arrivals, Handle(l, r) PROVE PortInv'
  BY <1>15 DEF Handle
<1>16. ASSUME NEW l \in Login, NEW r \in Arrivals, Arrive(l, r) PROVE PortInv'
  BY <1>16 DEF Arrive
<1>17. ASSUME NEW l \in Login, Cancel(l) PROVE PortInv'
  BY <1>17 DEF Cancel
<1>18. ASSUME NEW f \in Family, Foreign(f) PROVE PortInv'
  BY <1>18 DEF Foreign
<1>19. CASE UNCHANGED vars
  BY <1>19 DEF vars, goroutines, channels
<1> QED
  BY <1>1, <1>2, <1>3, <1>4, <1>5, <1>6, <1>7, <1>8, <1>9, <1>10, <1>11,
     <1>12, <1>13, <1>14, <1>15, <1>16, <1>17, <1>18, <1>19
  DEF Next, LoginStep, ServerStep

(* A listener that fails puts an error into the channel, which stays there *)
(* until the login takes it and stops waiting.                             *)
LEMMA ReceiveStep ==
  ASSUME TypeOK, FreshInv, PortInv, ReceiveInv, [Next]_vars
  PROVE  ReceiveInv'
<1> USE HoldersDiffer
    DEF ReceiveInv, Receives, SendErr, channels, PortInv, FreshInv, TypeOK, Bound, Family, goroutines, Goto,
        BeforeStart
<1>1. ASSUME NEW l \in Login, LoginBrowser(l) PROVE ReceiveInv'
  BY <1>1 DEF LoginBrowser
<1>2. ASSUME NEW l \in Login, Bind4(l) PROVE ReceiveInv'
  BY <1>2 DEF Bind4
<1>3. ASSUME NEW l \in Login, Bind6(l) PROVE ReceiveInv'
  BY <1>3 DEF Bind6
<1>4. ASSUME NEW l \in Login, Start(l) PROVE ReceiveInv'
  BY <1>4 DEF Start
<1>5. ASSUME NEW l \in Login, OpenBrowser(l) PROVE ReceiveInv'
  BY <1>5 DEF OpenBrowser
<1>6. ASSUME NEW l \in Login, Select(l) PROVE ReceiveInv'
  BY <1>6 DEF Select
<1>7. ASSUME NEW l \in Login, Exchange(l) PROVE ReceiveInv'
  BY <1>7 DEF Exchange
<1>8. ASSUME NEW l \in Login, Shutdown(l) PROVE ReceiveInv'
  BY <1>8 DEF Shutdown, BeginShutdown, Freed, Listening
<1>9. ASSUME NEW l \in Login, Drained(l) PROVE ReceiveInv'
  BY <1>9 DEF Drained
<1>10. ASSUME NEW l \in Login, Await(l) PROVE ReceiveInv'
  BY <1>10 DEF Await
<1>11. ASSUME NEW l \in Login, NEW f \in Family, ServeStart(l, f) PROVE ReceiveInv'
  BY <1>11 DEF ServeStart, BeginShutdown, Freed, Listening
<1>12. ASSUME NEW l \in Login, Watch(l) PROVE ReceiveInv'
  BY <1>12 DEF Watch, BeginShutdown, Freed, Listening
<1>13. ASSUME NEW l \in Login, WatchEnd(l) PROVE ReceiveInv'
  BY <1>13 DEF WatchEnd
<1>14. ASSUME NEW l \in Login, NEW f \in Family, ServeError(l, f) PROVE ReceiveInv'
  BY <1>14 DEF ServeError, BeginShutdown, Freed, Listening
<1>15. ASSUME NEW l \in Login, NEW r \in Arrivals, Handle(l, r) PROVE ReceiveInv'
  BY <1>15 DEF Handle
<1>16. ASSUME NEW l \in Login, NEW r \in Arrivals, Arrive(l, r) PROVE ReceiveInv'
  BY <1>16 DEF Arrive
<1>17. ASSUME NEW l \in Login, Cancel(l) PROVE ReceiveInv'
  BY <1>17 DEF Cancel
<1>18. ASSUME NEW f \in Family, Foreign(f) PROVE ReceiveInv'
  BY <1>18 DEF Foreign
<1>19. CASE UNCHANGED vars
  BY <1>19 DEF vars, goroutines, channels
<1> QED
  BY <1>1, <1>2, <1>3, <1>4, <1>5, <1>6, <1>7, <1>8, <1>9, <1>10, <1>11,
     <1>12, <1>13, <1>14, <1>15, <1>16, <1>17, <1>18, <1>19
  DEF Next, LoginStep, ServerStep
-----------------------------------------------------------------------------
LEMMA InitIInv == Init => IInv
<1> SUFFICES ASSUME Init PROVE IInv
  OBVIOUS
<1>1. FreshInv /\ PortInv /\ CodeInv /\ ReceiveInv
  BY DEF Init, FreshInv, PortInv, CodeInv, ReceiveInv, Receives, Bound
<1>2. ChannelTypeOK
  BY <1>1, ChannelSize DEF CodeInv, ChannelTypeOK
<1> QED
  BY <1>1, <1>2 DEF Init, IInv, TypeOK

LEMMA IInvStep == IInv /\ [Next]_vars => IInv'
<1> SUFFICES ASSUME IInv, [Next]_vars PROVE IInv'
  OBVIOUS
<1>1. CodeInv' /\ FreshInv' /\ PortInv' /\ ReceiveInv'
  BY CodeStep, FreshStep, PortStep, ReceiveStep DEF IInv
<1>2. CodeInv' => ChannelTypeOK'
  BY ChannelSize DEF CodeInv, ChannelTypeOK
<1>3. TypeOK'
  BY <1>1, <1>2, TypeStep DEF IInv
<1> QED
  BY <1>1, <1>3 DEF IInv

(* Every state of the program has the inductive invariant.                 *)
THEOREM Correct == Spec => []IInv
  BY InitIInv, IInvStep, PTL DEF Spec

(* The variables keep their types: no channel ever holds two codes or two  *)
(* errors, so that no send to it blocks (callback.go).                     *)
THEOREM TypeCorrect == Spec => []TypeOK
<1>1. IInv => TypeOK
  BY DEF IInv
<1> QED
  BY Correct, <1>1, PTL

(* A login exchanges only the code that came back with its own state       *)
(* parameter, however many logins share the port one after the other.      *)
THEOREM OwnCode == Spec => []ExchangesOwnCode
<1>1. IInv => ExchangesOwnCode
  BY DEF IInv, CodeInv, ExchangesOwnCode
<1> QED
  BY Correct, <1>1, PTL

(* A login that still receives has the addresses that it bound, IPv4 in    *)
(* any case, and no other login receives meanwhile, whichever listeners    *)
(* could not be bound or have failed.                                      *)
THEOREM WaitsAlone == Spec => []ReceivesAlone
<1>1. IInv => ReceivesAlone
  <2> SUFFICES ASSUME IInv, NEW l \in Login, Receives(l)
               PROVE  /\ port["v4"] = l
                      /\ serve[l]["v6"] # "none" => port["v6"] = l
                      /\ \A k \in Login \ {l} : ~Receives(k)
    BY DEF ReceivesAlone
  <2>1. \A k \in Login : Receives(k) => port["v4"] = k
    BY DEF IInv, ReceiveInv, PortInv, Family
  <2>2. serve[l] \in [Family -> {"none", "starting", "serving", "done"}]
    BY DEF IInv, TypeOK
  <2>3. serve[l]["v6"] # "none" => Bound(l, "v6")
    BY <2>2 DEF IInv, ReceiveInv, Bound, Family
  <2>4. serve[l]["v6"] # "none" => port["v6"] = l
    BY <2>3 DEF IInv, PortInv, Family
  <2> QED
    BY <2>1, <2>4
<1> QED
  BY Correct, <1>1, PTL
=============================================================================
