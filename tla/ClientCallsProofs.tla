--------------------------- MODULE ClientCallsProofs ---------------------------
(***************************************************************************)
(* Theorems about ClientCalls: what single calls return, for every input   *)
(* of their type.                                                          *)
(***************************************************************************)
EXTENDS ClientCalls, ClientCallsLemmas

LEMMA Uncalled == CallInit => call.f = "none"
  BY DEF CallInit, NoCall

LEMMA Returned ==
  ASSUME NEW f, NEW x, NEW r, Returns(f, x, r)
  PROVE  call'.f = f /\ call'.x = x /\ ret' = r
  BY DEF Returns

(* Only the step that ends a call sets what it returns. *)
LEMMA OneCall ==
  ASSUME [CallNext]_callVars
  PROVE  /\ call'.f = "ClassifyCodexError" => Classify   \/ UNCHANGED <<call, ret>>
         /\ call'.f = "IsCodexAllowed"   => Allow          \/ UNCHANGED <<call, ret>>
         /\ call'.f = "use entry"        => UseEntry       \/ UNCHANGED <<call, ret>>
         /\ call'.f = "ask"              => AskStale       \/ UNCHANGED <<call, ret>>
         /\ call'.f = "HTTPClient"       => SendRequest    \/ UNCHANGED <<call, ret>>
         /\ call'.f = "ListModels"       => SendListModels \/ UNCHANGED <<call, ret>>
         /\ call'.f = "decode"           => DecodeCatalog  \/ UNCHANGED <<call, ret>>
         /\ call'.f = "ExtractAccountID" => Extract        \/ UNCHANGED <<call, ret>>
<1>1. CASE UNCHANGED callVars
  BY <1>1 DEF callVars
<1>2. CASE Classify
  BY <1>2 DEF Classify, Returns
<1>3. CASE Allow
  BY <1>3 DEF Allow, Returns
<1>4. CASE UseEntry
  <2>1. \E x, r : Returns("use entry", x, r)
    BY <1>4 DEF UseEntry
  <2>2. call'.f = "use entry"
    BY <2>1, Returned
  <2> QED
    BY <1>4, <2>2
<1>5. CASE AskStale
  BY <1>5 DEF AskStale, Returns
<1>6. CASE SendRequest
  BY <1>6 DEF SendRequest, Returns
<1>7. CASE SendListModels
  BY <1>7 DEF SendListModels, Returns
<1>8. CASE DecodeCatalog
  BY <1>8 DEF DecodeCatalog, Returns
<1>9. CASE Extract
  BY <1>9 DEF Extract, Returns
<1>10. CASE GenerateVerifier \/ Read \/ ReadFails \/ Take
  <2>1. call'.f = "GenerateVerifier"
    BY <1>10 DEF GenerateVerifier, Read, ReadFails, Take, Generating
  <2> QED
    BY <2>1
<1> QED
  BY <1>1, <1>2, <1>3, <1>4, <1>5, <1>6, <1>7, <1>8, <1>9, <1>10 DEF CallNext
-----------------------------------------------------------------------------
(* An error is classed by the first code in it, in the order of joining    *)
(* and wrapping, whatever its tree, but for the errors that errors.As      *)
(* passes over (classifier.go:62).                                         *)
THEOREM FirstCode == CallSpec => []FirstCodeInOrder
<1>1. CallInit => FirstCodeInOrder
  BY Uncalled DEF FirstCodeInOrder
<1>2. FirstCodeInOrder /\ [CallNext]_callVars => FirstCodeInOrder'
  <2> SUFFICES ASSUME FirstCodeInOrder, [CallNext]_callVars,
                      call'.f = "ClassifyCodexError"
               PROVE  FirstCodeInOrder'
    BY DEF FirstCodeInOrder
  <2>1. CASE UNCHANGED <<call, ret>>
    BY <2>1 DEF FirstCodeInOrder
  <2>2. CASE Classify
    <3>1. PICK parent \in Parents, joined \in [Node -> BOOLEAN], code \in [Node -> Code] :
            LET t == [parent |-> parent, joined |-> joined, code |-> code]
            IN /\ IsTree(parent, joined)
               /\ Returns("ClassifyCodexError", t, ClassifyCodexError(t))
      BY <2>2 DEF Classify
    <3> DEFINE t == [parent |-> parent, joined |-> joined, code |-> code]
    <3>2. Tree(t)
      BY <3>1, ClientCallsAssumption DEF Tree
    <3>3. call'.x = t /\ ret' = ClassifyCodexError(t)
      BY <3>1, Returned
    <3> HIDE DEF t
    <3>4. ClassifyCodexError(t) = ClassOf(t)
      BY <3>2, ClassifiedByFirst
    <3> QED
      BY <3>3, <3>4, Zenon DEF FirstCodeInOrder
  <2> QED
    BY <2>1, <2>2, OneCall
<1> QED
  BY <1>1, <1>2, PTL DEF CallSpec
-----------------------------------------------------------------------------
LEMMA AtoiIsNat ==
  ASSUME NEW digits \in Seq(0..9)
  PROVE  Atoi(digits) \in Nat
<1>1. PICK value \in [0..Len(digits) -> Nat] : value[Len(digits)] = Atoi(digits)
  BY AtoiSteps
<1>2. Len(digits) \in 0..Len(digits)
  OBVIOUS
<1> QED
  BY <1>1, <1>2

LEMMA NewerAllowed ==
  ASSUME NEW m \in Model, m \notin Licensed, IsCodexAllowed(m),
         NEW n \in Model, Later(n, m), Fits(n.major), Fits(n.minor)
  PROVE  IsCodexAllowed(n)
<1> DEFINE M == Atoi(m.major)  N == Atoi(n.major)
           k == Atoi(m.minor)  l == Atoi(n.minor)
<1>1. /\ m.major \in Seq(0..9) /\ m.minor \in Seq(0..9)
      /\ n.major \in Seq(0..9) /\ n.minor \in Seq(0..9)
  BY DEF Model, Digits
<1>2. M \in Nat /\ N \in Nat /\ k \in Nat /\ l \in Nat
  BY <1>1, AtoiIsNat
<1>3. M > 5 \/ (M = 5 /\ k > 4)
  BY DEF IsCodexAllowed
<1>4. N > M \/ (N >= M /\ l > k)
  BY <1>1, GreaterCounts, NotGreaterCounts DEF Later
<1>5. N > 5 \/ (N = 5 /\ l > 4)
  <2> HIDE DEF M, N, k, l
  <2> QED
    BY <1>2, <1>3, <1>4
<1> QED
  BY <1>5 DEF IsCodexAllowed

(* A model that is allowed by its version stays allowed in every later     *)
(* one, however many digits the versions have, as long as the numbers fit  *)
(* an int (models.go:24).                                                  *)
THEOREM NewerStays == CallSpec => []NewerStaysAllowed
<1>1. CallInit => NewerStaysAllowed
  BY Uncalled DEF NewerStaysAllowed
<1>2. NewerStaysAllowed /\ [CallNext]_callVars => NewerStaysAllowed'
  <2> SUFFICES ASSUME NewerStaysAllowed, [CallNext]_callVars, call'.f = "IsCodexAllowed"
               PROVE  NewerStaysAllowed'
    BY DEF NewerStaysAllowed
  <2>1. CASE UNCHANGED <<call, ret>>
    BY <2>1 DEF NewerStaysAllowed
  <2>2. CASE Allow
    <3>1. PICK m \in Models : Returns("IsCodexAllowed", m, IsCodexAllowed(m))
      BY <2>2 DEF Allow
    <3>2. call'.x = m /\ ret' = IsCodexAllowed(m)
      BY <3>1, Returned
    <3>3. ASSUME IsCodexAllowed(m), m \notin Licensed, NEW n \in Models,
                 Later(n, m), Fits(n.major), Fits(n.minor)
          PROVE  IsCodexAllowed(n)
      <4>1. m \in Model /\ n \in Model
        BY ClientCallsAssumption
      <4> QED
        BY <3>3, <4>1, NewerAllowed
    <3> QED
      BY <3>2, <3>3, Zenon DEF NewerStaysAllowed
  <2> QED
    BY <2>1, <2>2, OneCall
<1> QED
  BY <1>1, <1>2, PTL DEF CallSpec
-----------------------------------------------------------------------------
LEMMA Decoded ==
  ASSUME NEW resp, resp.models \in Seq(modelCatalogWireEntry)
  PROVE  LET models  == resp.models
             flawed  == {i \in DOMAIN models : models[i].flaw # ""}
             decoded == decodeModelCatalogResponse(resp)
         IN /\ Unreadable(resp) # "" \/ flawed # {} => decoded.err # ""
            /\ Unreadable(resp) = "" /\ flawed = {} =>
                 decoded.err = "" /\ decoded.models = SliceStable(Shown(models))
<1> DEFINE models == resp.models
           nothing == ""
           why == Unreadable(resp)
           flawed == {i \in DOMAIN models : models[i].flaw # nothing}
           sorted == SliceStable(Shown(models))
           decoded == decodeModelCatalogResponse(resp)
<1>1. decoded = CASE why # nothing -> [err |-> why, models |-> <<>>]
                  [] why = nothing /\ flawed # {} ->
                       [err |-> models[Min(flawed)].flaw, models |-> <<>>]
                  [] OTHER -> [err |-> nothing, models |-> sorted]
  BY DEF decodeModelCatalogResponse, convertModelCatalogEntry
<1>2. flawed \in SUBSET Nat
  <2>1. DOMAIN models \subseteq Nat
    BY DEF models
  <2> HIDE DEF models
  <2> QED
    BY <2>1
<1>3. flawed # {} => Min(flawed) \in flawed
  <2> HIDE DEF flawed
  <2> QED
    BY <1>2, MinIn
<1>4. flawed # {} => models[Min(flawed)].flaw # nothing
  BY <1>3
<1> SUFFICES /\ why # nothing \/ flawed # {} => decoded.err # nothing
             /\ why = nothing /\ flawed = {} =>
                  decoded.err = nothing /\ decoded.models = sorted
  OBVIOUS
<1> HIDE DEF models, nothing, why, flawed, sorted, decoded
<1> QED
  BY <1>1, <1>4

(* What is returned for an answer of the models route. *)
Sorted(resp, decoded) ==
  LET models == resp.models
      shown  == {i \in DOMAIN models : models[i].visibility = "list"}
      order  == [k \in DOMAIN decoded.models |-> decoded.models[k].slug]
  IN IF Unreadable(resp) # "" \/ \E i \in DOMAIN models : models[i].flaw # ""
     THEN decoded.err # ""
     ELSE /\ decoded.err = "" /\ Range(order) = shown
          /\ \A j, k \in DOMAIN order : j < k =>
               \/ models[order[j]].priority < models[order[k]].priority
               \/ /\ models[order[j]].priority = models[order[k]].priority
                  /\ order[j] < order[k]

LEMMA SortedDecoded ==
  ASSUME NEW resp \in Responses
  PROVE  Sorted(resp, decodeModelCatalogResponse(resp))
<1> DEFINE models  == resp.models
           decoded == decodeModelCatalogResponse(resp)
           order   == [k \in DOMAIN decoded.models |-> decoded.models[k].slug]
           nothing == ""
           refused == \/ Unreadable(resp) # nothing
                      \/ \E i \in DOMAIN models : models[i].flaw # nothing
           inOrder == /\ Range(order) = {i \in DOMAIN models : models[i].visibility = "list"}
                      /\ \A j, k \in DOMAIN order : j < k =>
                           \/ models[order[j]].priority < models[order[k]].priority
                           \/ /\ models[order[j]].priority = models[order[k]].priority
                              /\ order[j] < order[k]
<1>1. /\ models \in Seq(modelCatalogWireEntry)
      /\ \A i \in 1..Len(models) : models[i].slug = i
  BY ClientCallsAssumption
<1>2. /\ refused => decoded.err # nothing
      /\ ~refused => decoded.err = nothing /\ decoded.models = SliceStable(Shown(models))
  BY <1>1, Decoded
<1>3. ~refused => inOrder
  <2> SUFFICES ASSUME ~refused PROVE inOrder
    OBVIOUS
  <2>1. decoded.models = SliceStable(Shown(models))
    BY <1>2
  <2> HIDE DEF decoded, models, refused
  <2> QED
    BY <1>1, <2>1, CatalogInOrder
<1>4. IF refused THEN decoded.err # nothing ELSE decoded.err = nothing /\ inOrder
  BY <1>2, <1>3
<1> HIDE DEF decoded
<1> QED
  BY <1>4, Zenon DEF Sorted, decoded

(* A catalog that is returned has every visible model once, by priority    *)
(* and then in the server's order, however many there are; a flawed entry  *)
(* fails the call although it is hidden (catalog.go:179-190).              *)
THEOREM CatalogSorted == CallSpec => []CatalogSortedStably
<1>0. CatalogSortedStably <=> (call.f = "decode" => Sorted(call.x, ret))
  BY DEF CatalogSortedStably, Sorted
<1>1. CallInit => CatalogSortedStably
  BY Uncalled DEF CatalogSortedStably
<1>2. CatalogSortedStably /\ [CallNext]_callVars => CatalogSortedStably'
  <2>0. CatalogSortedStably' <=> (call'.f = "decode" => Sorted(call'.x, ret'))
    BY DEF CatalogSortedStably, Sorted
  <2> SUFFICES ASSUME CatalogSortedStably, [CallNext]_callVars, call'.f = "decode"
               PROVE  Sorted(call'.x, ret')
    BY <2>0
  <2>1. CASE UNCHANGED <<call, ret>>
    BY <1>0, <2>1
  <2>2. CASE DecodeCatalog
    <3>1. PICK resp \in Responses : Returns("decode", resp, decodeModelCatalogResponse(resp))
      BY <2>2 DEF DecodeCatalog
    <3>2. call'.x = resp /\ ret' = decodeModelCatalogResponse(resp)
      BY <3>1, Returned
    <3> QED
      BY <3>2, SortedDecoded
  <2> QED
    BY <2>1, <2>2, OneCall
<1> QED
  BY <1>1, <1>2, PTL DEF CallSpec
-----------------------------------------------------------------------------
(* What a request leaves of an entry, and when it asks the endpoint. *)
LEMMA StatusFacts ==
  ASSUME NEW entry, NEW now
  PROVE  /\ Status(entry, now).LoggedIn = (entry # NoEntry /\ entry.refresh # "")
         /\ Status(entry, now).Stale =
              (entry # NoEntry /\ entry.refresh # "" /\ ~isValid(entry, now))
<1>1. Status(entry, now).LoggedIn = (entry # NoEntry /\ entry.refresh # "")
  BY DEF Status
<1>2. Status(entry, now).Stale =
        (entry # NoEntry /\ entry.refresh # "" /\ ~isValid(entry, now))
  BY Zenon DEF Status
<1> QED
  BY <1>1, <1>2

LEMMA RefreshKept ==
  ASSUME NEW a, NEW refresh, refresh # "", NEW now
  PROVE  RefreshToken(a, refresh, now).refresh # ""
  BY DEF RefreshToken, credentialsFromResponse

LEMMA RequestFacts ==
  ASSUME NEW a, NEW entry, NEW now
  PROVE  LET before == Status(entry, now)
             did    == Request(a, entry, now)
         IN /\ before.LoggedIn => did.posts = before.Stale
            /\ before.LoggedIn /\ ~before.Stale => did.err = NoError
            /\ ~before.LoggedIn => ~did.posts
            /\ Status(did.entry, now).LoggedIn
                 = (before.LoggedIn /\ did.err.code # "invalid_grant")
<1> DEFINE before == Status(entry, now)
           did == Request(a, entry, now)
           kept == RefreshToken(a, entry.refresh, now)
           err == postFormError(a)
<1>1. CASE entry = NoEntry
  <2>1. did.posts = FALSE /\ did.entry = NoEntry /\ before.LoggedIn = FALSE
    BY <1>1, StatusFacts DEF Request
  <2> QED
    BY <1>1, <2>1
<1>2. CASE entry # NoEntry /\ isValid(entry, now)
  <2>1. did.posts = FALSE /\ did.err = NoError /\ did.entry = entry /\ before.Stale = FALSE
    BY <1>2, StatusFacts DEF Request
  <2>2. did.err.code # "invalid_grant"
    BY <2>1 DEF NoError
  <2>3. before.LoggedIn \in BOOLEAN
    BY StatusFacts
  <2> QED
    BY <2>1, <2>2, <2>3
<1>3. CASE entry # NoEntry /\ ~isValid(entry, now) /\ entry.refresh = ""
  <2>1. did.posts = FALSE /\ did.entry = entry /\ before.LoggedIn = FALSE
    BY <1>3, StatusFacts DEF Request
  <2> QED
    BY <2>1
<1>4. CASE entry # NoEntry /\ ~isValid(entry, now) /\ entry.refresh # ""
  <2>1. before.LoggedIn = TRUE /\ before.Stale = TRUE
    BY <1>4, StatusFacts
  <2>2. /\ did.err = err /\ did.posts = TRUE
        /\ did.entry = CASE err = NoError -> kept
                         [] err.code = "invalid_grant" -> NoEntry
                         [] OTHER -> entry
    BY <1>4 DEF Request
  <2>3. kept.refresh # "" /\ kept # NoEntry
    <3>1. kept.refresh # ""
      BY <1>4, RefreshKept
    <3>2. NoEntry.refresh = ""
      BY DEF NoEntry
    <3> QED
      BY <3>1, <3>2
  <2>4. Status(did.entry, now).LoggedIn = (err.code # "invalid_grant")
    <3>1. CASE err = NoError
      <4>1. did.entry = kept /\ err.code # "invalid_grant"
        BY <2>2, <3>1 DEF NoError
      <4> QED
        BY <2>3, <4>1, StatusFacts
    <3>2. CASE err # NoError /\ err.code = "invalid_grant"
      <4>1. did.entry = NoEntry
        BY <2>2, <3>2
      <4> QED
        BY <3>2, <4>1, StatusFacts
    <3>3. CASE err # NoError /\ err.code # "invalid_grant"
      <4>1. did.entry = entry
        BY <2>2, <3>3
      <4> QED
        BY <1>4, <3>3, <4>1, StatusFacts
    <3> QED
      BY <3>1, <3>2, <3>3
  <2> QED
    BY <2>1, <2>2, <2>4
<1> QED
  BY <1>1, <1>2, <1>3, <1>4

(* Status and the next request agree on whether the user is logged in and  *)
(* whether the token is stale, and no answer but invalid_grant logs him    *)
(* out (status.go:24, exchange.go:90).                                     *)
THEOREM StatusForetold == CallSpec => []StatusForetells
<1>1. CallInit => StatusForetells
  BY Uncalled DEF StatusForetells
<1>2. StatusForetells /\ [CallNext]_callVars => StatusForetells'
  <2> SUFFICES ASSUME StatusForetells, [CallNext]_callVars, call'.f = "use entry",
                      ~call'.x.logsIn
               PROVE  StatusForetells'
    BY DEF StatusForetells
  <2>1. CASE UNCHANGED <<call, ret>>
    BY <2>1 DEF StatusForetells
  <2>2. CASE UseEntry
    <3>1. PICK logsIn \in BOOLEAN, a \in Answers, entry \in Entries, later \in Times :
            LET did == IF logsIn THEN Login(a, entry, Now) ELSE Request(a, entry, Now)
            IN Returns("use entry",
                       [logsIn |-> logsIn, answer |-> a, later |-> later],
                       [before |-> Status(entry, Now), did |-> did,
                        after  |-> Status(did.entry, Now),
                        valid  |-> isValid(did.entry, later)])
      BY <2>2 DEF UseEntry
    <3>2. /\ ~logsIn
          /\ ret'.before = Status(entry, Now)
          /\ ret'.did = Request(a, entry, Now)
          /\ ret'.after = Status(Request(a, entry, Now).entry, Now)
      BY <3>1 DEF Returns
    <3> DEFINE before == Status(entry, Now)
               did == Request(a, entry, Now)
    <3>3. /\ before.LoggedIn => did.posts = before.Stale
          /\ before.LoggedIn /\ ~before.Stale => did.err = NoError
          /\ ~before.LoggedIn => ~did.posts
          /\ Status(did.entry, Now).LoggedIn
               = (before.LoggedIn /\ did.err.code # "invalid_grant")
      BY RequestFacts
    <3> HIDE DEF before, did
    <3>4. ret'.before = before /\ ret'.did = did /\ ret'.after = Status(did.entry, Now)
      BY <3>2 DEF before, did
    <3> QED
      BY <3>3, <3>4, Zenon DEF StatusForetells
  <2> QED
    BY <2>1, <2>2, OneCall
<1> QED
  BY <1>1, <1>2, PTL DEF CallSpec
-----------------------------------------------------------------------------
(* The base transport's own errors show neither what the token endpoint    *)
(* said, which goes through another client, nor the URL of the request,    *)
(* which net/http adds.                                                    *)
Hidden == {"token answer", "client_version"}
BaseShowsNothing == \A base \in BaseErrors : base.shows \cap Hidden = {}

LEMMA FailureFacts ==
  ASSUME NEW code, NEW shows
  PROVE  /\ Failure(code, shows).code = code /\ Failure(code, shows).shows = shows
         /\ NoError.code = "nil" /\ NoError.shows = {}
  BY DEF Failure, NoError

LEMMA RefusedFacts ==
  ASSUME NEW err, NEW code, NEW s, err = Failure(code, {s})
  PROVE  err # NoError /\ err.code = code
<1>1. err.code = code /\ err.shows = {s}
  BY FailureFacts
<1> QED
  BY <1>1, FailureFacts

LEMMA LocalIsShown == LocalFailure \cap Hidden = {}
  BY DEF LocalFailure, Hidden

SaveError == Failure("", LocalFailure)

LEMMA NotSaved == SaveError.shows = LocalFailure
  BY FailureFacts DEF SaveError

LEMMA SafeRefresh ==
  ASSUME NEW a, NEW load, NEW saves
  PROVE  LET fresh == ensureFresh(TRUE, a, load, saves)
         IN (fresh.err.shows \cup fresh.log) \cap Hidden = {}
<1> DEFINE err == postFormError(a)
           said == safeRemoteRefreshError(err)
           fresh == ensureFresh(TRUE, a, load, saves)
<1>1. said.shows = {}
  BY DEF safeRemoteRefreshError, Failure
<1>2. logInvalidGrant(TRUE, err) = {}
  BY DEF logInvalidGrant
<1> HIDE DEF err, said
<1> SUFFICES (fresh.err.shows \cup fresh.log) \cap Hidden = {}
  OBVIOUS
<1>3. CASE err = NoError
  <2>1. fresh.log = {}
    BY <1>3, FailureFacts DEF ensureFresh, err
  <2>2. fresh.err \in {NoError, SaveError}
    BY <1>3, FailureFacts DEF ensureFresh, err, SaveError
  <2> HIDE DEF fresh
  <2>3. fresh.err.shows \in {{}, LocalFailure}
    BY <2>2, FailureFacts, NotSaved
  <2> QED
    BY <2>1, <2>3, LocalIsShown
<1>4. CASE err # NoError /\ err.code = "invalid_grant"
  <2>1. /\ fresh.log = {}
        /\ fresh.err = CASE load = "rotated" -> NoError
                         [] load = "fails" /\ TRUE ->
                              Failure(said.code, said.shows \cup LocalFailure)
                         [] OTHER -> said
    BY <1>2, <1>4 DEF ensureFresh, err, said
  <2>2. fresh.err \in {NoError, Failure(said.code, said.shows \cup LocalFailure), said}
    BY <2>1
  <2> HIDE DEF fresh
  <2>3. fresh.err.shows \in {{}, LocalFailure}
    BY <1>1, <2>2, FailureFacts
  <2> QED
    BY <2>1, <2>3, LocalIsShown
<1>5. CASE err # NoError /\ err.code # "invalid_grant"
  <2>1. fresh.log = {} /\ fresh.err = said
    BY <1>5 DEF ensureFresh, err, said
  <2> QED
    BY <1>1, <2>1
<1> QED
  BY <1>3, <1>4, <1>5

(* A refusal that is not answered from the disk comes out with its code. *)
LEMMA CodeKept ==
  ASSUME NEW safe \in BOOLEAN, NEW a, NEW load, NEW saves, a.got = "refusal",
         a.error = "invalid_grant" => load # "rotated",
         safe => isSafeOAuthErrorCode(a.error)
  PROVE  LET fresh == ensureFresh(safe, a, load, saves)
         IN fresh.err # NoError /\ fresh.err.code = a.error
<1> DEFINE err == postFormError(a)
           said == IF safe THEN safeRemoteRefreshError(err) ELSE err
           fresh == ensureFresh(safe, a, load, saves)
<1>1. err = Failure(a.error, {"token answer"})
  BY DEF postFormError
<1>2. err # NoError /\ err.code = a.error
  BY <1>1, RefusedFacts
<1> HIDE DEF err
<1>3. said # NoError /\ said.code = a.error
  <2>1. CASE safe
    <3>1. said = Failure(a.error, {})
      BY <1>2, <2>1 DEF safeRemoteRefreshError
    <3>2. a.error # "nil"
      BY <2>1 DEF isSafeOAuthErrorCode
    <3> QED
      BY <3>1, <3>2, FailureFacts
  <2> QED
    BY <1>2, <2>1
<1>4. CASE a.error = "invalid_grant"
  <2>1. fresh.err = CASE load = "rotated" -> NoError
                      [] load = "fails" /\ safe ->
                           Failure(said.code, said.shows \cup LocalFailure)
                      [] OTHER -> said
    BY <1>2, <1>4 DEF ensureFresh, err
  <2>2. fresh.err \in {Failure(said.code, said.shows \cup LocalFailure), said}
    BY <1>4, <2>1
  <2>3. said.code # "nil"
    BY <1>3, <1>4
  <2> QED
    BY <1>3, <2>2, <2>3, FailureFacts
<1>5. CASE a.error # "invalid_grant"
  <2>1. fresh.err = said
    BY <1>2, <1>5 DEF ensureFresh, err
  <2> QED
    BY <1>3, <2>1
<1> QED
  BY <1>4, <1>5

LEMMA AskFacts ==
  ASSUME BaseShowsNothing, NEW safe \in BOOLEAN, NEW a, NEW load,
         NEW saves, NEW base \in BaseErrors
  PROVE  LET did == Ask(safe, a, load, saves, base) IN
         /\ safe => Hidden \cap (did.err.shows \cup did.log) = {}
         /\ /\ a.got = "refusal"
            /\ a.error = "invalid_grant" => load # "rotated"
            /\ safe => isSafeOAuthErrorCode(a.error)
            => did.err.code = a.error
<1> DEFINE fresh == ensureFresh(safe, a, load, saves)
           err == IF fresh.err = NoError THEN base ELSE fresh.err
           did == Ask(safe, a, load, saves, base)
<1>1. did.log = fresh.log
  BY DEF Ask
<1>2. did.err = CASE err = NoError -> NoError
                  [] err # NoError /\ safe -> err
                  [] OTHER -> Wraps(err)
  BY DEF Ask, catalogRequestCause
<1>3. safe => Hidden \cap (did.err.shows \cup did.log) = {}
  <2> SUFFICES ASSUME safe PROVE Hidden \cap (did.err.shows \cup did.log) = {}
    OBVIOUS
  <2>1. (fresh.err.shows \cup fresh.log) \cap Hidden = {}
    BY SafeRefresh
  <2>2. base.shows \cap Hidden = {} /\ NoError.shows = {}
    BY FailureFacts DEF BaseShowsNothing
  <2> HIDE DEF fresh
  <2>3. did.err \in {NoError, base, fresh.err}
    BY <1>2
  <2> HIDE DEF did
  <2> QED
    BY <1>1, <2>1, <2>2, <2>3
<1>4. ASSUME a.got = "refusal", a.error = "invalid_grant" => load # "rotated",
             safe => isSafeOAuthErrorCode(a.error)
      PROVE  did.err.code = a.error
  <2>1. fresh.err # NoError /\ fresh.err.code = a.error
    BY <1>4, CodeKept
  <2> HIDE DEF fresh
  <2>2. did.err \in {fresh.err, Wraps(fresh.err)}
    BY <1>2, <2>1
  <2>3. Wraps(fresh.err).code = a.error
    BY <2>1, FailureFacts DEF Wraps
  <2> QED
    BY <2>1, <2>2, <2>3
<1> QED
  BY <1>3, <1>4

(* Neither what the token endpoint said nor the client version is in an    *)
(* error or a log line of ListModels, while an OAuth code that is known    *)
(* gets through, and every code does with HTTPClient (transport.go:88-90,  *)
(* catalog.go:117-120).                                                    *)
THEOREM SecretsStayIn ==
  ASSUME BaseShowsNothing
  PROVE  CallSpec => []CatalogErrorsAreSafe
<1>1. CallInit => CatalogErrorsAreSafe
  BY Uncalled DEF CatalogErrorsAreSafe
<1>2. CatalogErrorsAreSafe /\ [CallNext]_callVars => CatalogErrorsAreSafe'
  <2> SUFFICES ASSUME CatalogErrorsAreSafe, [CallNext]_callVars, call'.f = "ask"
               PROVE  CatalogErrorsAreSafe'
    BY DEF CatalogErrorsAreSafe
  <2>1. CASE UNCHANGED <<call, ret>>
    BY <2>1 DEF CatalogErrorsAreSafe
  <2>2. CASE AskStale
    <3>1. PICK safe \in BOOLEAN, saves \in BOOLEAN, a \in Answers, load \in Loads,
               base \in BaseErrors :
            Returns("ask", [safe |-> safe, answer |-> a, load |-> load],
                    Ask(safe, a, load, saves, base))
      BY <2>2 DEF AskStale
    <3> DEFINE did == Ask(safe, a, load, saves, base)
    <3>2. /\ call'.x.safe = safe /\ call'.x.answer = a /\ call'.x.load = load
          /\ ret' = did
      BY <3>1, Returned
    <3>3. /\ safe => Hidden \cap (did.err.shows \cup did.log) = {}
          /\ /\ a.got = "refusal"
             /\ a.error = "invalid_grant" => load # "rotated"
             /\ safe => isSafeOAuthErrorCode(a.error)
             => did.err.code = a.error
      BY BaseShowsNothing, AskFacts
    <3> HIDE DEF did
    <3> QED
      BY <3>2, <3>3 DEF CatalogErrorsAreSafe, Hidden
  <2> QED
    BY <2>1, <2>2, OneCall
<1> QED
  BY <1>1, <1>2, PTL DEF CallSpec
-----------------------------------------------------------------------------
LEMMA Int64Exact ==
  ASSUME NEW n \in Nat, n < Word \div 2
  PROVE  Int64(n) = n
<1> DEFINE half == Word \div 2
           m == n + half
<1>1. half \in Nat /\ Word = 2 * half /\ Word \in Nat /\ Word > 0
  BY TokenAnswerAssumption
<1>2. n < half
  OBVIOUS
<1> HIDE DEF half
<1>3. m \in 0..Word - 1
  BY <1>1, <1>2
<1> HIDE DEF m
<1>4. m % Word = m
  BY <1>1, <1>3
<1>5. (m % Word) - half = n
  BY <1>1, <1>2, <1>4 DEF m
<1> QED
  BY <1>5 DEF Int64, m, half

(* Only a token set with an access token counts as an answer. *)
LEMMA AnsweredFacts ==
  ASSUME NEW a \in Answer, postFormError(a) = NoError
  PROVE  a.got = "success" /\ a.access # "" /\ a.expires_in \in Int
<1>1. CASE a.got = "nothing"
  <2>1. postFormError(a) = Failure("", {"token URL"})
    BY <1>1 DEF postFormError
  <2> QED
    BY <2>1, RefusedFacts
<1>2. CASE a.got = "refusal"
  <2>1. postFormError(a) = Failure(a.error, {"token answer"})
    BY <1>2 DEF postFormError
  <2> QED
    BY <2>1, RefusedFacts
<1>3. CASE a.got = "success"
  <2>1. a.json \in BOOLEAN /\ a.expires_in \in Int
    BY <1>3 DEF Answer
  <2>2. CASE ~a.json
    <3>1. postFormError(a) = Failure("", {"token answer"})
      BY <1>3, <2>2 DEF postFormError
    <3> QED
      BY <3>1, RefusedFacts
  <2>3. CASE a.json /\ a.access = ""
    <3>1. postFormError(a) = Failure("", {})
      BY <1>3, <2>3 DEF postFormError
    <3>2. "" # "nil"
      OBVIOUS
    <3> QED
      BY <3>1, <3>2, FailureFacts
  <2> QED
    BY <1>3, <2>1, <2>2, <2>3
<1> QED
  BY <1>1, <1>2, <1>3 DEF Answer

LEMMA CredentialsFacts ==
  ASSUME NEW a \in Answer, postFormError(a) = NoError, NEW now \in Nat, NEW refresh
  PROVE  LET creds == credentialsFromResponse(a, now)
             kept  == RefreshToken(a, refresh, now)
         IN /\ creds.access # "" /\ kept.access # ""
            /\ creds.expires = Int64(now + Milli * Lifetime(a))
            /\ kept.expires = Int64(now + Milli * Lifetime(a))
<1> DEFINE creds == credentialsFromResponse(a, now)
           kept == RefreshToken(a, refresh, now)
           lives == IF a.expires_in <= 0 THEN 3600 ELSE a.expires_in
<1>1. a.access # "" /\ a.expires_in \in Int
  BY AnsweredFacts
<1>2. lives \in Int /\ lives = Lifetime(a)
  <2> DEFINE said == a.expires_in
  <2>1. said \in Int
    BY <1>1
  <2> SUFFICES LET n == IF said <= 0 THEN 3600 ELSE said
               IN n \in Int /\ n = IF said > 0 THEN said ELSE 3600
    BY DEF Lifetime
  <2> HIDE DEF said
  <2> QED
    BY <2>1
<1> HIDE DEF lives
<1>3. lives * Milli = Milli * Lifetime(a)
  BY <1>2, TokenAnswerAssumption
<1>4. creds = [access |-> a.access, refresh |-> a.refresh,
               expires |-> Int64(now + lives * Milli)]
  BY DEF credentialsFromResponse, lives
<1> HIDE DEF creds
<1>5. creds.access = a.access /\ creds.expires = Int64(now + Milli * Lifetime(a))
  BY <1>3, <1>4
<1>6. kept \in {creds, [creds EXCEPT !.refresh = refresh]}
  BY DEF RefreshToken, creds
<1>7. kept.access = creds.access /\ kept.expires = creds.expires
  BY <1>4, <1>6
<1> QED
  BY <1>1, <1>5, <1>7 DEF creds

LEMMA NatClosed ==
  ASSUME NEW m \in Nat, NEW n \in Nat
  PROVE  m + n \in Nat /\ m * n \in Nat
  OBVIOUS

(* A token with an end that an int64 holds is valid until Skew seconds     *)
(* before it.                                                              *)
LEMMA ValidUntil ==
  ASSUME NEW creds, creds.access # "", NEW end \in Nat, creds.expires = Int64(end),
         end < Word \div 2, NEW later \in Nat, later + Skew * Milli < Word \div 2
  PROVE  isValid(creds, later) <=> later + Skew * Milli < end
<1> DEFINE time == later + Skew * Milli
<1>1. time \in Nat
  BY NatClosed, TokenAnswerAssumption
<1>2. time < Word \div 2
  OBVIOUS
<1>3. isValid(creds, later) <=> Int64(time) < creds.expires
  BY DEF isValid
<1> SUFFICES isValid(creds, later) <=> time < end
  OBVIOUS
<1> HIDE DEF time
<1>5. Int64(time) = time /\ creds.expires = end
  BY <1>1, <1>2, Int64Exact
<1> QED
  BY <1>1, <1>3, <1>5

LEMMA LoginGrants ==
  ASSUME NEW a, NEW entry, NEW now, Login(a, entry, now).err = NoError
  PROVE  /\ postFormError(a) = NoError
         /\ Login(a, entry, now).entry = credentialsFromResponse(a, now)
<1>1. Login(a, entry, now).err = postFormError(a)
  BY DEF Login
<1> QED
  BY <1>1 DEF Login

LEMMA RequestGrants ==
  ASSUME NEW a, NEW entry, NEW now,
         Request(a, entry, now).posts, Request(a, entry, now).err = NoError
  PROVE  /\ postFormError(a) = NoError
         /\ Request(a, entry, now).entry = RefreshToken(a, entry.refresh, now)
<1> DEFINE did == Request(a, entry, now)
           err == postFormError(a)
<1>1. CASE entry = NoEntry
  <2>1. did.posts = FALSE
    BY <1>1 DEF Request
  <2> QED
    BY <2>1
<1>2. CASE entry # NoEntry /\ isValid(entry, now)
  <2>1. did.posts = FALSE
    BY <1>2 DEF Request
  <2> QED
    BY <2>1
<1>3. CASE entry # NoEntry /\ ~isValid(entry, now) /\ entry.refresh = ""
  <2>1. did.posts = FALSE
    BY <1>3 DEF Request
  <2> QED
    BY <2>1
<1>4. CASE entry # NoEntry /\ ~isValid(entry, now) /\ entry.refresh # ""
  <2>1. /\ did.err = err
        /\ did.entry = CASE err = NoError -> RefreshToken(a, entry.refresh, now)
                         [] err.code = "invalid_grant" -> NoEntry
                         [] OTHER -> entry
    BY <1>4 DEF Request
  <2>2. err = NoError /\ err.code # "invalid_grant"
    BY <2>1, FailureFacts
  <2> QED
    BY <2>1, <2>2
<1> QED
  BY <1>1, <1>2, <1>3, <1>4

LEMMA EntryIsUsed ==
  ASSUME NEW a \in Answer, NEW entry, NEW later \in Times, NEW logsIn \in BOOLEAN, NEW did,
         did = IF logsIn THEN Login(a, entry, Now) ELSE Request(a, entry, Now),
         did.posts, did.err = NoError,
         Now + Milli * Lifetime(a) < Word \div 2
  PROVE  isValid(did.entry, later) <=> later + Skew * Milli < Now + Milli * Lifetime(a)
<1> USE ClientCallsAssumption
<1> DEFINE end == Now + Milli * Lifetime(a)
<1>1. /\ postFormError(a) = NoError
      /\ \/ did.entry = credentialsFromResponse(a, Now)
         \/ did.entry = RefreshToken(a, entry.refresh, Now)
  BY LoginGrants, RequestGrants
<1>2. did.entry.access # "" /\ did.entry.expires = Int64(end)
  <2> DEFINE creds == credentialsFromResponse(a, Now)
             kept == RefreshToken(a, entry.refresh, Now)
             ends == Int64(Now + Milli * Lifetime(a))
  <2>1. postFormError(a) = NoError /\ Now \in Nat
    BY <1>1
  <2>2. /\ creds.access # "" /\ kept.access # ""
        /\ creds.expires = ends /\ kept.expires = ends
    BY ONLY <2>1, CredentialsFacts, a \in Answer
  <2>3. did.entry \in {creds, kept} /\ Int64(end) = ends
    BY <1>1
  <2> HIDE DEF creds, kept, ends, end
  <2> QED
    BY ONLY <2>2, <2>3
<1>3. Lifetime(a) \in Nat
  <2> DEFINE said == a.expires_in
  <2>1. said \in Int
    BY <1>1, AnsweredFacts
  <2> SUFFICES (IF said > 0 THEN said ELSE 3600) \in Nat
    BY DEF Lifetime
  <2> HIDE DEF said
  <2> QED
    BY <2>1
<1>4. end \in Nat
  BY <1>3, NatClosed, TokenAnswerAssumption
<1>5. later \in Nat /\ later + Skew * Milli < Word \div 2 /\ end < Word \div 2
  OBVIOUS
<1> SUFFICES isValid(did.entry, later) <=> later + Skew * Milli < end
  OBVIOUS
<1> HIDE DEF end
<1> QED
  BY <1>2, <1>4, <1>5, ValidUntil

(* A token that was just granted, by a login or to a request, is used for  *)
(* as long as was granted, an hour if the answer does not say, but for the *)
(* last Skew seconds (exchange.go:104-112, transport.go:128).              *)
THEOREM GrantUsed == CallSpec => []GrantIsUsed
<1>1. CallInit => GrantIsUsed
  BY Uncalled DEF GrantIsUsed
<1>2. GrantIsUsed /\ [CallNext]_callVars => GrantIsUsed'
  <2> SUFFICES ASSUME GrantIsUsed, [CallNext]_callVars, call'.f = "use entry"
               PROVE  GrantIsUsed'
    BY DEF GrantIsUsed
  <2>1. CASE UNCHANGED <<call, ret>>
    BY <2>1 DEF GrantIsUsed
  <2>2. CASE UseEntry
    <3>1. PICK logsIn \in BOOLEAN, a \in Answers, entry \in Entries, later \in Times :
            LET did == IF logsIn THEN Login(a, entry, Now) ELSE Request(a, entry, Now)
            IN Returns("use entry",
                       [logsIn |-> logsIn, answer |-> a, later |-> later],
                       [before |-> Status(entry, Now), did |-> did,
                        after  |-> Status(did.entry, Now),
                        valid  |-> isValid(did.entry, later)])
      BY <2>2 DEF UseEntry
    <3> DEFINE did == IF logsIn THEN Login(a, entry, Now) ELSE Request(a, entry, Now)
    <3>2. /\ call'.x.answer = a /\ call'.x.later = later
          /\ ret'.did = did /\ ret'.valid = isValid(did.entry, later)
      BY <3>1 DEF Returns
    <3>3. ASSUME did.posts, did.err = NoError, Now + Milli * Lifetime(a) < Word \div 2
          PROVE  isValid(did.entry, later) <=>
                   later + Skew * Milli < Now + Milli * Lifetime(a)
      BY <3>3, EntryIsUsed, ClientCallsAssumption
    <3> HIDE DEF did
    <3> QED
      BY <3>2, <3>3 DEF GrantIsUsed
  <2> QED
    BY <2>1, <2>2, OneCall
<1> QED
  BY <1>1, <1>2, PTL DEF CallSpec
-----------------------------------------------------------------------------
Field == {"scheme", "user", "host", "path", "query", "fragment"}
IsURL(u) == DOMAIN u = Field /\ u = [x \in Field |-> u[x]]

Has(u, scheme, user, host, path, query, fragment) ==
  /\ IsURL(u) /\ u.scheme = scheme /\ u.user = user /\ u.host = host
  /\ u.path = path /\ u.query = query /\ u.fragment = fragment

Changed(u, path, user, query, fragment) ==
  [u EXCEPT !.path = path, !.user = user, !.query = query, !.fragment = fragment]

LEMMA URLShape ==
  ASSUME NEW S, NEW u \in URL(S)
  PROVE  IsURL(u)
  BY DEF URL, IsURL, Field

LEMMA SameURL ==
  ASSUME NEW u, NEW v, NEW scheme, NEW user, NEW host, NEW path, NEW query, NEW fragment,
         Has(u, scheme, user, host, path, query, fragment),
         Has(v, scheme, user, host, path, query, fragment)
  PROVE  u = v
<1>1. \A x \in Field : u[x] = v[x]
  BY DEF Has, Field
<1>2. [x \in Field |-> u[x]] = [x \in Field |-> v[x]]
  <2> HIDE DEF Field
  <2> QED
    BY <1>1
<1> QED
  BY <1>2 DEF Has, IsURL

LEMMA NewURL ==
  ASSUME NEW scheme, NEW user, NEW host, NEW path, NEW query, NEW fragment
  PROVE  Has([scheme |-> scheme, user |-> user, host |-> host, path |-> path,
              query |-> query, fragment |-> fragment],
             scheme, user, host, path, query, fragment)
<1> DEFINE v == [scheme |-> scheme, user |-> user, host |-> host, path |-> path,
                 query |-> query, fragment |-> fragment]
<1>1. DOMAIN v = Field
  BY DEF Field
<1>2. v = [x \in Field |-> v[x]]
  BY DEF Field
<1>3. IsURL(v)
  BY ONLY <1>1, <1>2 DEF IsURL
<1> QED
  BY <1>3 DEF Has

LEMMA NewPath ==
  ASSUME NEW u, IsURL(u), NEW path
  PROVE  Has([u EXCEPT !.path = path],
             u.scheme, u.user, u.host, path, u.query, u.fragment)
  BY DEF Has, IsURL, Field

LEMMA Replaced ==
  ASSUME NEW u, IsURL(u), NEW path, NEW user, NEW query, NEW fragment
  PROVE  Has(Changed(u, path, user, query, fragment),
             u.scheme, user, u.host, path, query, fragment)
<1> DEFINE v == [u EXCEPT !.path = path, !.user = user, !.query = query,
                          !.fragment = fragment]
<1>1. DOMAIN v = Field
  BY DEF IsURL, Field
<1>2. /\ v.scheme = u.scheme /\ v.user = user /\ v.host = u.host
      /\ v.path = path /\ v.query = query /\ v.fragment = fragment
  BY DEF IsURL, Field
<1>3. v = [x \in Field |-> v[x]]
  BY <1>1
<1>4. Has(v, u.scheme, user, u.host, path, query, fragment)
  BY <1>1, <1>2, <1>3 DEF IsURL, Has
<1> HIDE DEF v
<1>5. Changed(u, path, user, query, fragment) = v
  BY Zenon DEF Changed, v
<1> QED
  BY <1>4, <1>5

LEMMA NewQuery ==
  ASSUME NEW u, IsURL(u), NEW query
  PROVE  LET v == [u EXCEPT !.query = query] IN IsURL(v) /\ v.query = query
  BY DEF IsURL, Field

LEMMA Rewritten ==
  ASSUME NEW u, IsURL(u), NEW scheme, NEW host, NEW path, NEW user
  PROVE  LET v == [u EXCEPT !.scheme = scheme, !.host = host, !.path = path, !.user = user]
         IN /\ v.scheme = scheme /\ v.host = host /\ v.user = user /\ v.query = u.query
            /\ v.path = path
  BY DEF IsURL, Field

LEMMA SentAs ==
  ASSUME NEW u, IsURL(u), NEW endpoint
  PROVE  LET sent == RoundTrip(u, endpoint)
         IN /\ sent.scheme = endpoint.scheme /\ sent.host = endpoint.host
            /\ sent.user = "" /\ sent.query = u.query /\ sent.path = endpoint.path
<1> DEFINE nobody == ""
           sent == RoundTrip(u, endpoint)
<1>1. sent = [u EXCEPT !.scheme = endpoint.scheme, !.host = endpoint.host,
                       !.path = endpoint.path, !.user = nobody]
  BY DEF RoundTrip
<1> SUFFICES /\ sent.scheme = endpoint.scheme /\ sent.host = endpoint.host
             /\ sent.user = nobody /\ sent.query = u.query /\ sent.path = endpoint.path
  OBVIOUS
<1> HIDE DEF nobody, sent
<1> QED
  BY <1>1, Rewritten

LEMMA NeverFollows ==
  ASSUME NEW target, NEW first
  PROVE  CheckRedirect(target, first) # "followed"
  BY Zenon DEF CheckRedirect

(* A request is sent once, whatever the server redirects to. *)
LEMMA SentOnce ==
  ASSUME NEW u, NEW endpoint, NEW S, NEW redirects \in Seq(S)
  PROVE  LET sent == Do(u, endpoint, redirects)
         IN Len(sent) = 1 /\ DOMAIN sent = {1} /\ sent[1] = RoundTrip(u, endpoint)
<1> DEFINE followed == {n \in 0..Len(redirects) :
                          \A i \in 1..n : CheckRedirect(redirects[i], u) = "followed"}
           asked == <<u>> \o redirects
<1>1. followed = {0}
  <2>1. Len(redirects) \in Nat
    OBVIOUS
  <2>2. 0 \in followed
    BY <2>1
  <2>3. ASSUME NEW n \in followed PROVE n = 0
    <3>1. n \in Nat
      BY <2>1
    <3>2. n > 0 => CheckRedirect(redirects[1], u) = "followed"
      BY <3>1
    <3> QED
      BY <3>1, <3>2, NeverFollows
  <2> HIDE DEF followed
  <2> QED
    BY <2>2, <2>3
<1>2. Max({0}) = 0
  BY DEF Max
<1>3. asked[1] = u
  OBVIOUS
<1> HIDE DEF asked
<1>4. Do(u, endpoint, redirects) = [i \in 1..Max(followed)+1 |-> RoundTrip(asked[i], endpoint)]
  BY Zenon DEF Do, asked
<1> HIDE DEF followed
<1>5. Do(u, endpoint, redirects) = [i \in 1..1 |-> RoundTrip(asked[i], endpoint)]
  BY <1>1, <1>2, <1>4
<1> QED
  BY <1>3, <1>5

LEMMA ParsedURL ==
  ASSUME NEW raw, IsURL(raw)
  PROVE  /\ IsURL(Parse(raw)) /\ Parse(raw).scheme = raw.scheme
         /\ Parse(raw).host = raw.host /\ Parse(raw).path = FlattenSeq(raw.path)
  BY NewPath DEF Parse, Has

LEMMA ChosenURL ==
  ASSUME NEW raw, IsURL(raw), Accepted(raw)
  PROVE  LET u == Chosen(raw)
         IN /\ IsURL(u) /\ u.scheme \in {"http", "https"} /\ u.host # NoHost
            /\ u.scheme = "http" => isLoopbackHost(u.host)
<1>1. CASE raw = NoEndpoint
  <2>1. Chosen(raw) = defaultCodexURL
    BY <1>1 DEF Chosen
  <2> QED
    BY <2>1, EndpointAssumption, URLShape
<1>2. CASE raw # NoEndpoint
  <2>1. Chosen(raw) = Parse(raw)
    BY <1>2 DEF Chosen
  <2>2. /\ raw.scheme \in {"http", "https"} /\ raw.host # NoHost
        /\ raw.scheme = "http" => isLoopbackHost(raw.host)
    BY <1>2 DEF Accepted
  <2> QED
    BY <2>1, <2>2, ParsedURL
<1> QED
  BY <1>1, <1>2

(* The models route has the scheme and the host of the endpoint. *)
LEMMA ModelsURL ==
  ASSUME NEW raw, IsURL(raw), Accepted(raw)
  PROVE  LET models == modelsEndpoint(raw)
         IN /\ Accepted(models) /\ IsURL(Parse(models))
            /\ Parse(models).scheme = Chosen(raw).scheme
            /\ Parse(models).host = Chosen(raw).host
<1> DEFINE u == Chosen(raw)
           v == Changed(u, modelsPath(u.path), "", "", "")
           models == modelsEndpoint(raw)
<1>1. models = String(v)
  BY Zenon DEF modelsEndpoint, Changed
<1>2. /\ IsURL(u) /\ u.scheme \in {"http", "https"} /\ u.host # NoHost
      /\ u.scheme = "http" => isLoopbackHost(u.host)
  BY ChosenURL
<1> SUFFICES /\ Accepted(models) /\ IsURL(Parse(models))
             /\ Parse(models).scheme = u.scheme /\ Parse(models).host = u.host
  OBVIOUS
<1> HIDE DEF u, models
<1>3. IsURL(v) /\ v.scheme = u.scheme /\ v.host = u.host
  <2>1. Has(v, u.scheme, "", u.host, modelsPath(u.path), "", "")
    BY <1>2, Replaced
  <2> QED
    BY <2>1 DEF Has
<1> HIDE DEF v
<1>4. IsURL(models) /\ models.scheme = u.scheme /\ models.host = u.host
  BY <1>1, <1>3, NewPath DEF String, Has
<1>5. Accepted(models)
  BY <1>2, <1>4 DEF Accepted
<1> QED
  BY <1>4, <1>5, ParsedURL

(* What may be sent for an accepted endpoint. *)
Allowed(all, raw, query) ==
  /\ Len(all) = 1
  /\ \A i \in DOMAIN all :
       LET sent == all[i] IN
       /\ sent.scheme = "https" \/ sent.host.name \in Loopback
       /\ sent.host = Chosen(raw).host
       /\ sent.user = "" /\ sent.query = query

LEMMA SentWhere ==
  ASSUME NEW raw, IsURL(raw), Accepted(raw), NEW u, IsURL(u), NEW endpoint,
         endpoint.scheme = Chosen(raw).scheme, endpoint.host = Chosen(raw).host,
         NEW S, NEW redirects \in Seq(S)
  PROVE  Allowed(Do(u, endpoint, redirects), raw, u.query)
<1> DEFINE all == Do(u, endpoint, redirects)
           sent == RoundTrip(u, endpoint)
<1>1. Len(all) = 1 /\ DOMAIN all = {1} /\ all[1] = sent
  BY SentOnce
<1>2. /\ sent.scheme = endpoint.scheme /\ sent.host = endpoint.host
      /\ sent.user = "" /\ sent.query = u.query
  BY SentAs
<1>3. sent.scheme = "https" \/ sent.host.name \in Loopback
  BY <1>2, ChosenURL DEF isLoopbackHost
<1> HIDE DEF all, sent
<1> SUFFICES /\ Len(all) = 1
             /\ \A i \in DOMAIN all :
                  /\ all[i].scheme = "https" \/ all[i].host.name \in Loopback
                  /\ all[i].host = Chosen(raw).host
                  /\ all[i].user = "" /\ all[i].query = u.query
  BY DEF all, Allowed
<1> QED
  BY <1>1, <1>2, <1>3

(* A bearer token leaves the client in one request at most, to the host of *)
(* the endpoint, over https or to this machine, without the caller's user  *)
(* info and with his query, whatever URL he gives and whatever the server  *)
(* redirects to (endpoint.go:26, transport.go:315-327, 374-385).           *)
THEOREM BearerStaysHome == CallSpec => []BearerOnlyWhereAllowed
<1>1. CallInit => BearerOnlyWhereAllowed
  BY Uncalled DEF BearerOnlyWhereAllowed
<1>2. BearerOnlyWhereAllowed /\ [CallNext]_callVars => BearerOnlyWhereAllowed'
  <2> SUFFICES ASSUME BearerOnlyWhereAllowed, [CallNext]_callVars,
                      call'.f \in {"HTTPClient", "ListModels"}
               PROVE  BearerOnlyWhereAllowed'
    BY DEF BearerOnlyWhereAllowed
  <2>1. CASE UNCHANGED <<call, ret>>
    BY <2>1 DEF BearerOnlyWhereAllowed
  <2> SUFFICES ASSUME NEW raw, NEW query, call'.x.raw = raw, call'.x.query = query,
                      ~UNCHANGED <<call, ret>>
               PROVE  IF Accepted(raw) THEN Allowed(ret', raw, query) ELSE ret' = <<>>
    <3> DEFINE raw == call'.x.raw
               query == call'.x.query
    <3>1. ASSUME Accepted(raw), Allowed(ret', raw, query)
          PROVE  BearerOnlyWhereAllowed'
      BY <3>1, Zenon DEF BearerOnlyWhereAllowed, Allowed
    <3>2. ASSUME ~Accepted(raw), ret' = <<>>
          PROVE  BearerOnlyWhereAllowed'
      <4>1. Len(ret') = (IF Accepted(raw) THEN 1 ELSE 0) /\ \A i \in DOMAIN ret' : FALSE
        BY <3>2
      <4> QED
        BY ONLY <4>1, Zenon DEF BearerOnlyWhereAllowed
    <3>3. CASE UNCHANGED <<call, ret>>
      BY <2>1, <3>3
    <3> QED
      BY <3>1, <3>2, <3>3
  <2>2. CASE SendRequest
    <3>1. PICK endpoint \in Endpoints, u \in Requests, to \in Redirects :
            Returns("HTTPClient", [raw |-> endpoint, query |-> u.query],
                    SentByClient(endpoint, u, to))
      BY <2>2 DEF SendRequest
    <3>2. raw = endpoint /\ query = u.query /\ ret' = SentByClient(raw, u, to)
      BY <3>1, Returned
    <3>3. IsURL(raw) /\ IsURL(u) /\ to \in Seq(URL(STRING))
      BY <3>2, ClientCallsAssumption, URLShape DEF RawURL
    <3>4. CASE Accepted(raw)
      <4>1. ret' = Do(u, Chosen(raw), to)
        BY <3>2, <3>4 DEF SentByClient
      <4> QED
        BY <3>2, <3>3, <3>4, <4>1, SentWhere
    <3>5. CASE ~Accepted(raw)
      BY <3>2, <3>5 DEF SentByClient
    <3> QED
      BY <3>4, <3>5
  <2>3. CASE SendListModels
    <3> DEFINE models == modelsEndpoint(raw)
               version == "client_version"
               u == [Parse(models) EXCEPT !.query = version]
    <3>1. PICK endpoint \in Endpoints, to \in Redirects :
            Returns("ListModels", [raw |-> endpoint, query |-> version],
                    SentByListModels(endpoint, version, to))
      BY <2>3 DEF SendListModels
    <3>2. raw = endpoint /\ query = version /\ ret' = SentByListModels(raw, version, to)
      BY <3>1, Returned
    <3>3. IsURL(raw) /\ to \in Seq(URL(STRING))
      BY <3>2, ClientCallsAssumption, URLShape DEF RawURL
    <3>4. CASE Accepted(raw)
      <4>1. /\ Accepted(models) /\ IsURL(Parse(models))
            /\ Parse(models).scheme = Chosen(raw).scheme
            /\ Parse(models).host = Chosen(raw).host
        BY <3>3, <3>4, ModelsURL
      <4>2. ret' = Do(u, Parse(models), to)
        BY <3>2, <3>4, <4>1 DEF SentByListModels
      <4> HIDE DEF version
      <4>3. IsURL(u) /\ u.query = version
        BY <4>1, NewQuery
      <4> HIDE DEF u, models
      <4> QED
        BY <3>2, <3>3, <3>4, <4>1, <4>2, <4>3, SentWhere
    <3>5. CASE ~Accepted(raw)
      BY <3>2, <3>5 DEF SentByListModels
    <3> QED
      BY <3>4, <3>5
  <2> QED
    BY <2>2, <2>3, OneCall
<1> QED
  BY <1>1, <1>2, PTL DEF CallSpec
-----------------------------------------------------------------------------
(* The models route has nothing but a scheme, a host and a path. *)
Route(scheme, host, path) ==
  [scheme |-> scheme, user |-> "", host |-> host, path |-> path,
   query |-> "", fragment |-> ""]

Singles(path) == [i \in DOMAIN path |-> <<path[i]>>]

LEMMA RouteFacts ==
  ASSUME NEW scheme, NEW host, NEW path
  PROVE  Has(Route(scheme, host, path), scheme, "", host, path, "", "")
  BY NewURL DEF Route

LEMMA Repathed ==
  ASSUME NEW scheme, NEW host, NEW path, NEW p
  PROVE  [Route(scheme, host, path) EXCEPT !.path = p] = Route(scheme, host, p)
<1> DEFINE r == Route(scheme, host, path)
<1>1. Has(r, scheme, "", host, path, "", "")
  BY RouteFacts
<1>2. Has(Route(scheme, host, p), scheme, "", host, p, "", "")
  BY RouteFacts
<1> HIDE DEF r
<1>3. Has([r EXCEPT !.path = p], scheme, "", host, p, "", "")
  <2>1. /\ IsURL(r) /\ r.scheme = scheme /\ r.user = "" /\ r.host = host
        /\ r.query = "" /\ r.fragment = ""
    BY <1>1 DEF Has
  <2>2. Has([r EXCEPT !.path = p], r.scheme, r.user, r.host, p, r.query, r.fragment)
    BY <2>1, NewPath
  <2> QED
    BY <2>1, <2>2
<1>4. [r EXCEPT !.path = p] = Route(scheme, host, p)
  BY <1>2, <1>3, SameURL
<1> QED
  BY <1>4 DEF r

LEMMA ModelsRoute ==
  ASSUME NEW raw, IsURL(Chosen(raw))
  PROVE  LET u == Chosen(raw)
         IN modelsEndpoint(raw) = Route(u.scheme, u.host, Singles(modelsPath(u.path)))
<1> DEFINE u == Chosen(raw)
           p == modelsPath(u.path)
           v == Changed(u, p, "", "", "")
<1>1. modelsEndpoint(raw) = String(v)
  BY Zenon DEF modelsEndpoint, Changed
<1>2. Has(Route(u.scheme, u.host, p), u.scheme, "", u.host, p, "", "")
  BY RouteFacts
<1> HIDE DEF p
<1>3. Has(v, u.scheme, "", u.host, p, "", "")
  BY Replaced
<1> HIDE DEF u, v
<1>4. v = Route(u.scheme, u.host, p)
  BY <1>2, <1>3, SameURL
<1>5. String(v) = [v EXCEPT !.path = Singles(p)]
  BY <1>3 DEF String, Singles, Has
<1>6. String(v) = Route(u.scheme, u.host, Singles(p))
  BY <1>4, <1>5, Repathed
<1> QED
  BY <1>1, <1>6 DEF u, p

LEMMA ParsedRoute ==
  ASSUME NEW scheme, NEW host, NEW S, NEW path \in Seq(S)
  PROVE  Parse(Route(scheme, host, Singles(path))) = Route(scheme, host, path)
<1> DEFINE r == Route(scheme, host, Singles(path))
<1>1. r.path = Singles(path)
  <2>1. Has(r, scheme, "", host, Singles(path), "", "")
    BY RouteFacts
  <2> QED
    BY <2>1 DEF Has
<1>2. FlattenSeq(Singles(path)) = path
  BY FlattenSingles DEF Singles
<1>3. [r EXCEPT !.path = path] = Route(scheme, host, path)
  BY Repathed
<1> HIDE DEF r
<1>4. Parse(r) = Route(scheme, host, path)
  BY <1>1, <1>2, <1>3 DEF Parse
<1> QED
  BY <1>4 DEF r

LEMMA RawPath ==
  ASSUME NEW raw \in RawURL
  PROVE  raw.path \in Seq(Seq(Segment))
<1> DEFINE V == STRING
           W == Segment
<1>1. raw.path \in Seq(Seq(V))
  BY DEF RawURL, URL
<1>2. V \subseteq W
  BY Zenon DEF Segment
<1> HIDE DEF V, W
<1>3. Seq(V) \subseteq Seq(W)
  BY <1>2, Widened
<1>4. raw.path \in Seq(Seq(W))
  BY <1>1, <1>3, Widened
<1> QED
  BY <1>4 DEF W

LEMMA ChosenPath ==
  ASSUME NEW raw \in RawURL
  PROVE  Chosen(raw).path \in Seq(Segment)
<1>1. CASE raw = NoEndpoint
  <2> DEFINE V == STRING
             W == Segment
  <2>1. defaultCodexURL.path \in Seq(V)
    BY EndpointAssumption DEF URL
  <2>2. V \subseteq W
    BY Zenon DEF Segment
  <2>3. Chosen(raw) = defaultCodexURL
    BY <1>1 DEF Chosen
  <2> HIDE DEF V, W
  <2>4. defaultCodexURL.path \in Seq(W)
    BY <2>1, <2>2, Widened
  <2> QED
    BY <2>3, <2>4 DEF W
<1>2. CASE raw # NoEndpoint
  <2>1. IsURL(raw)
    BY URLShape DEF RawURL
  <2>2. Parse(raw).path = FlattenSeq(raw.path)
    BY <2>1, ParsedURL
  <2>3. FlattenSeq(raw.path) \in Seq(Segment)
    BY RawPath, SlashesTrimmed
  <2> QED
    BY <1>2, <2>2, <2>3 DEF Chosen
<1> QED
  BY <1>1, <1>2

(* An endpoint with slashes at its end, user info, a query or a fragment   *)
(* has the same models route.                                              *)
LEMMA SlashesDropped ==
  ASSUME NEW raw \in RawURL, Accepted(raw), raw # NoEndpoint
  PROVE  modelsEndpoint([raw EXCEPT !.path = @ \o <<<<"">>, <<"">>>>, !.user = "u",
                                    !.query = "q", !.fragment = "f"]) = modelsEndpoint(raw)
<1> DEFINE slashes == <<<<"">>, <<"">>>>
           user == "u"
           query == "q"
           fragment == "f"
           p == raw.path
           raw2 == Changed(raw, p \o slashes, user, query, fragment)
<1>1. /\ FlattenSeq(p) \in Seq(Segment)
      /\ TrimRight(FlattenSeq(p \o slashes)) = TrimRight(FlattenSeq(p))
  BY RawPath, SlashesTrimmed
<1>2. modelsPath(FlattenSeq(p \o slashes)) = modelsPath(FlattenSeq(p))
  BY <1>1, Zenon DEF modelsPath
<1>3. IsURL(raw) /\ raw.host # NoHost
  BY URLShape DEF RawURL, Accepted
<1> SUFFICES modelsEndpoint(raw2) = modelsEndpoint(raw)
  BY Zenon DEF Changed
<1> HIDE DEF slashes, user, query, fragment
<1>4. /\ IsURL(raw2) /\ raw2.scheme = raw.scheme /\ raw2.host = raw.host
      /\ raw2.path = p \o slashes
  <2>1. Has(raw2, raw.scheme, user, raw.host, p \o slashes, query, fragment)
    BY <1>3, Replaced
  <2> QED
    BY <2>1 DEF Has
<1> HIDE DEF raw2, p
<1>5. NoEndpoint.host = NoHost
  BY DEF NoEndpoint
<1>6. raw2 # NoEndpoint
  BY <1>3, <1>4, <1>5
<1>7. Chosen(raw) = Parse(raw) /\ Chosen(raw2) = Parse(raw2)
  BY <1>6 DEF Chosen
<1>8. /\ IsURL(Parse(raw)) /\ Parse(raw).scheme = raw.scheme
      /\ Parse(raw).host = raw.host /\ Parse(raw).path = FlattenSeq(p)
  BY <1>3, ParsedURL DEF p
<1>9. /\ IsURL(Parse(raw2)) /\ Parse(raw2).scheme = raw.scheme
      /\ Parse(raw2).host = raw.host /\ Parse(raw2).path = FlattenSeq(p \o slashes)
  BY <1>4, ParsedURL
<1> QED
  BY <1>2, <1>7, <1>8, <1>9, ModelsRoute

(* The models route of an accepted endpoint and the path that it is asked  *)
(* with.                                                                   *)
Stable(raw, sent) ==
  LET models == modelsEndpoint(raw)
      path   == TrimRight(Chosen(raw).path)
  IN /\ Accepted(models) /\ modelsEndpoint(models) = models
     /\ raw # NoEndpoint =>
          modelsEndpoint([raw EXCEPT !.path = @ \o <<<<"">>, <<"">>>>, !.user = "u",
                                     !.query = "q", !.fragment = "f"]) = models
     /\ path # <<>> /\ Clean(path) = path =>
          sent[1].path = Append(Front(path), "models")

LEMMA RouteSent ==
  ASSUME NEW raw \in RawURL, Accepted(raw), NEW to \in Seq(URL(STRING)), NEW version
  PROVE  Stable(raw, SentByListModels(raw, version, to))
<1> DEFINE models == modelsEndpoint(raw)
           u == Chosen(raw)
           mp == modelsPath(u.path)
           path == TrimRight(u.path)
           sent == SentByListModels(raw, version, to)
<1>1. IsURL(raw)
  BY URLShape DEF RawURL
<1>2. IsURL(u) /\ u.host # NoHost
  BY <1>1, ChosenURL
<1>3. /\ mp \in Seq(Segment) /\ modelsPath(mp) = mp
      /\ path # <<>> /\ Clean(path) = path => mp = Append(Front(path), "models")
  BY ChosenPath, ModelsPath
<1>4. Accepted(models)
  BY <1>1, ModelsURL
<1>5. models = Route(u.scheme, u.host, Singles(mp))
  BY <1>2, ModelsRoute
<1>6. Parse(models) = Route(u.scheme, u.host, mp)
  BY <1>3, <1>5, ParsedRoute
<1>7. modelsEndpoint(models) = models
  <2> HIDE DEF models, u, mp
  <2>1. models # NoEndpoint
    <3>1. Has(models, u.scheme, "", u.host, Singles(mp), "", "")
      BY <1>5, RouteFacts
    <3>2. NoEndpoint.host = NoHost
      BY DEF NoEndpoint
    <3> QED
      BY <1>2, <3>1, <3>2 DEF Has
  <2> DEFINE r == Chosen(models)
  <2>2. r = Route(u.scheme, u.host, mp)
    BY <1>6, <2>1 DEF Chosen
  <2> HIDE DEF r
  <2>3. IsURL(r) /\ r.scheme = u.scheme /\ r.host = u.host /\ r.path = mp
    <3>1. Has(r, u.scheme, "", u.host, mp, "", "")
      BY <2>2, RouteFacts
    <3> QED
      BY <3>1 DEF Has
  <2>4. modelsEndpoint(models) = Route(u.scheme, u.host, Singles(modelsPath(mp)))
    BY <2>3, ModelsRoute DEF r
  <2> QED
    BY <1>3, <1>5, <2>4
<1>8. sent[1].path = mp
  <2> DEFINE asked == [Parse(models) EXCEPT !.query = version]
  <2>1. sent = Do(asked, Parse(models), to)
    BY <1>4 DEF SentByListModels
  <2> HIDE DEF models, mp, sent
  <2>2. IsURL(Parse(models)) /\ Parse(models).path = mp
    <3>1. Has(Parse(models), u.scheme, "", u.host, mp, "", "")
      BY <1>6, RouteFacts
    <3> QED
      BY <3>1 DEF Has
  <2>3. IsURL(asked)
    BY <2>2, NewQuery
  <2> HIDE DEF asked
  <2>4. sent[1] = RoundTrip(asked, Parse(models))
    BY <2>1, SentOnce
  <2>5. RoundTrip(asked, Parse(models)).path = Parse(models).path
    BY <2>3, SentAs
  <2> QED
    BY <2>2, <2>4, <2>5
<1>9. raw # NoEndpoint =>
        modelsEndpoint([raw EXCEPT !.path = @ \o <<<<"">>, <<"">>>>, !.user = "u",
                                   !.query = "q", !.fragment = "f"]) = models
  BY SlashesDropped
<1> HIDE DEF sent, mp
<1> QED
  BY <1>3, <1>4, <1>7, <1>8, <1>9, Zenon DEF Stable, sent

(* The models route is a sibling of the endpoint and a models route of its *)
(* own, and it is the same whatever slashes the endpoint ends in and       *)
(* whatever user info, query or fragment it has, for every path            *)
(* (endpoint.go:53-77, client.go:91-100).                                  *)
THEOREM RouteStable == CallSpec => []ModelsRouteIsStable
<1>0. ModelsRouteIsStable <=>
        (call.f = "ListModels" /\ Accepted(call.x.raw) => Stable(call.x.raw, ret))
  BY DEF ModelsRouteIsStable, Stable
<1>1. CallInit => ModelsRouteIsStable
  BY Uncalled DEF ModelsRouteIsStable
<1>2. ModelsRouteIsStable /\ [CallNext]_callVars => ModelsRouteIsStable'
  <2>0. ModelsRouteIsStable' <=>
          (call'.f = "ListModels" /\ Accepted(call'.x.raw) => Stable(call'.x.raw, ret'))
    BY DEF ModelsRouteIsStable, Stable
  <2> SUFFICES ASSUME ModelsRouteIsStable, [CallNext]_callVars,
                      call'.f = "ListModels", Accepted(call'.x.raw)
               PROVE  Stable(call'.x.raw, ret')
    BY <2>0
  <2>1. CASE UNCHANGED <<call, ret>>
    BY <1>0, <2>1
  <2>2. CASE SendListModels
    <3> DEFINE version == "client_version"
    <3>1. PICK raw \in Endpoints, to \in Redirects :
            Returns("ListModels", [raw |-> raw, query |-> version],
                    SentByListModels(raw, version, to))
      BY <2>2 DEF SendListModels
    <3>2. call'.x.raw = raw /\ ret' = SentByListModels(raw, version, to)
      BY <3>1, Returned
    <3>3. raw \in RawURL /\ to \in Seq(URL(STRING))
      BY ClientCallsAssumption
    <3> HIDE DEF version
    <3> QED
      BY <3>2, <3>3, RouteSent
  <2> QED
    BY <2>1, <2>2, OneCall
<1> QED
  BY <1>1, <1>2, PTL DEF CallSpec
-----------------------------------------------------------------------------
(* Padding that brings a text up to four characters at most is as good as  *)
(* none.                                                                   *)
LEMMA PaddingTolerated ==
  ASSUME NEW text \in Nat, NEW pad \in Nat, pad <= (4 - (text % 4)) % 4
  PROVE  decodeBase64URLTolerant(text, pad) <=> decodeBase64URLTolerant(text, 0)
<1>1. text % 4 \in 0..3
  OBVIOUS
<1>2. CASE text % 4 = 0
  <2>1. pad = 0
    BY <1>2
  <2> QED
    BY <2>1
<1>3. CASE text % 4 = 1
  BY <1>3 DEF decodeBase64URLTolerant, RawURLEncoding, URLEncoding
<1>4. CASE text % 4 = 2
  <2>1. pad = 0 \/ (pad = 1 /\ (text + pad) % 4 = 3) \/ (pad = 2 /\ (text + pad) % 4 = 0)
    BY <1>4
  <2>2. (text + 2) % 4 = 0
    BY <1>4
  <2> QED
    BY <1>4, <2>1, <2>2 DEF decodeBase64URLTolerant, RawURLEncoding, URLEncoding
<1>5. CASE text % 4 = 3
  <2>1. pad = 0 \/ (pad = 1 /\ (text + pad) % 4 = 0)
    BY <1>5
  <2> QED
    BY <1>5, <2>1 DEF decodeBase64URLTolerant, RawURLEncoding, URLEncoding
<1> QED
  BY <1>1, <1>2, <1>3, <1>4, <1>5

(* The claims that are tried: three, and the first organization. *)
LEMMA ClaimsFacts ==
  ASSUME NEW t \in IDToken
  PROVE  LET c == t.claims  ids == Claims(c)
         IN /\ DOMAIN ids \subseteq 1..4
            /\ \A i \in DOMAIN ids :
                 ids[i] \in {c.chatgpt_account_id, c.auth_account_id, c.organization_id}
                             \cup {c.organizations[k] : k \in DOMAIN c.organizations \cap {1}}
<1> DEFINE c == t.claims
           orgs == c.organizations
           first == SubSeq(orgs, 1, Min({1, Len(orgs)}))
           fixed == <<c.chatgpt_account_id, c.auth_account_id, c.organization_id>>
           all == {c.chatgpt_account_id, c.auth_account_id, c.organization_id}
                    \cup {orgs[k] : k \in DOMAIN orgs \cap {1}}
<1>1. orgs \in Seq(STRING)
  BY DEF IDToken
<1>2. fixed \in Seq(all) /\ Len(fixed) = 3
  OBVIOUS
<1>3. first \in Seq(all) /\ Len(first) <= 1
  <2>1. CASE Len(orgs) = 0
    <3>1. Min({1, Len(orgs)}) = 0
      BY <2>1 DEF Min
    <3>2. first = <<>>
      BY <1>1, <3>1
    <3> HIDE DEF first, all
    <3> QED
      BY <3>2
  <2>2. CASE Len(orgs) > 0
    <3>1. Min({1, Len(orgs)}) = 1
      BY <1>1, <2>2 DEF Min
    <3>2. 1 \in DOMAIN orgs
      BY <1>1, <2>2
    <3>3. orgs[1] \in all
      BY <3>2
    <3> HIDE DEF all, orgs
    <3>4. SubSeq(orgs, 1, 1) \in Seq(all) /\ Len(SubSeq(orgs, 1, 1)) = 1
      BY <3>3, SubSeqProperties
    <3>5. first = SubSeq(orgs, 1, 1)
      BY <3>1
    <3> HIDE DEF first
    <3> QED
      BY <3>4, <3>5
  <2>3. Len(orgs) \in Nat
    BY <1>1
  <2> HIDE DEF first, all, orgs
  <2> QED
    BY <2>1, <2>2, <2>3
<1> HIDE DEF fixed, first, all
<1>4. fixed \o first \in Seq(all) /\ Len(fixed \o first) <= 4
  <2>1. Len(first) \in Nat
    BY <1>3
  <2>2. fixed \o first \in Seq(all) /\ Len(fixed \o first) = Len(fixed) + Len(first)
    BY <1>2, <1>3, ConcatProperties
  <2> QED
    BY <1>2, <1>3, <2>1, <2>2
<1>5. Claims(c) = fixed \o first
  BY DEF Claims, fixed, first
<1>6. DOMAIN Claims(c) \subseteq 1..4 /\ \A i \in DOMAIN Claims(c) : Claims(c)[i] \in all
  BY <1>4, <1>5
<1> QED
  BY <1>6 DEF all

LEMMA ExtractFacts ==
  ASSUME NEW t \in IDToken
  PROVE  LET c == t.claims IN
         /\ t.pad <= (4 - (t.text % 4)) % 4 =>
              ExtractAccountID(t) = ExtractAccountID([t EXCEPT !.pad = 0])
         /\ ExtractAccountID(t) \in
              {"", c.chatgpt_account_id, c.auth_account_id, c.organization_id}
                \cup {c.organizations[k] : k \in DOMAIN c.organizations \cap {1}}
<1> DEFINE c == t.claims
           all == {c.chatgpt_account_id, c.auth_account_id, c.organization_id}
                    \cup {c.organizations[k] : k \in DOMAIN c.organizations \cap {1}}
           ids == Claims(c)
           nobody == ""
           named == {i \in DOMAIN ids : ids[i] # nobody}
           Readable(text, pad) ==
             /\ t.segments >= 2 /\ t.base64 /\ decodeBase64URLTolerant(text, pad) /\ t.json
             /\ named # {}
           bare == [t EXCEPT !.pad = 0]
<1>1. t.text \in Nat /\ t.pad \in Nat
  BY DEF IDToken
<1>2. /\ bare.segments = t.segments /\ bare.base64 = t.base64 /\ bare.text = t.text
      /\ bare.json = t.json /\ bare.claims = c /\ bare.pad = 0
  BY DEF IDToken
<1>3. ExtractAccountID(t) = IF Readable(t.text, t.pad) THEN ids[Min(named)] ELSE nobody
  BY Zenon DEF ExtractAccountID
<1> HIDE DEF bare
<1>4. ExtractAccountID(bare) = IF Readable(t.text, 0) THEN ids[Min(named)] ELSE nobody
  BY <1>2, Zenon DEF ExtractAccountID
<1>5. t.pad <= (4 - (t.text % 4)) % 4 => (Readable(t.text, t.pad) <=> Readable(t.text, 0))
  BY <1>1, PaddingTolerated, Zenon
<1>6. named # {} => ids[Min(named)] \in all
  <2>1. DOMAIN ids \subseteq 1..4 /\ \A i \in DOMAIN ids : ids[i] \in all
    BY ClaimsFacts
  <2> HIDE DEF ids, all, nobody
  <2>2. named \in SUBSET (1..4)
    BY <2>1
  <2>3. named # {} => Min(named) \in named
    BY <2>2, MinIn
  <2> QED
    BY <2>1, <2>3
<1>7. Readable(t.text, t.pad) => named # {}
  OBVIOUS
<1> HIDE DEF Readable, named, ids, all, nobody
<1>8. t.pad <= (4 - (t.text % 4)) % 4 => ExtractAccountID(t) = ExtractAccountID(bare)
  BY <1>3, <1>4, <1>5
<1>9. ExtractAccountID(t) \in all \cup {nobody}
  BY <1>3, <1>6, <1>7
<1> QED
  BY <1>8, <1>9, Zenon DEF all, nobody, bare

(* However the payload of an ID token is padded, all of it, in part or not *)
(* at all, it names the same account, which is one of its claims and of    *)
(* the organizations the first (jwt.go:78-95).                             *)
THEOREM AccountFound == CallSpec => []AccountIdSurvivesPadding
<1>1. CallInit => AccountIdSurvivesPadding
  BY Uncalled DEF AccountIdSurvivesPadding
<1>2. AccountIdSurvivesPadding /\ [CallNext]_callVars => AccountIdSurvivesPadding'
  <2> SUFFICES ASSUME AccountIdSurvivesPadding, [CallNext]_callVars,
                      call'.f = "ExtractAccountID"
               PROVE  AccountIdSurvivesPadding'
    BY DEF AccountIdSurvivesPadding
  <2>1. CASE UNCHANGED <<call, ret>>
    BY <2>1 DEF AccountIdSurvivesPadding
  <2>2. CASE Extract
    <3>1. PICK t \in IDTokens : Returns("ExtractAccountID", t, ExtractAccountID(t))
      BY <2>2 DEF Extract
    <3>2. call'.x = t /\ ret' = ExtractAccountID(t) /\ t \in IDToken
      BY <3>1, Returned, ClientCallsAssumption
    <3> QED
      BY <3>2, ExtractFacts, Zenon DEF AccountIdSurvivesPadding
  <2> QED
    BY <2>1, <2>2, OneCall
<1> QED
  BY <1>1, <1>2, PTL DEF CallSpec
-----------------------------------------------------------------------------
LEMMA MonotoneProduct ==
  ASSUME NEW n \in Nat, NEW j \in Int, NEW k \in Int, j <= k
  PROVE  n * j <= n * k
  OBVIOUS

LEMMA Divided ==
  ASSUME NEW n \in Nat \ {0}, NEW m \in Int, NEW q, NEW r, q = m \div n, r = m % n
  PROVE  q \in Int /\ r \in 0..n-1 /\ m = n * q + r
  OBVIOUS

LEMMA Rest ==
  ASSUME NEW n \in Nat \ {0}, NEW m \in Int
  PROVE  m % n \in 0..n-1
  OBVIOUS

LEMMA Remainder ==
  ASSUME NEW n \in Nat \ {0}, NEW k \in Int, NEW d \in 0..n-1
  PROVE  (n * k + d) % n = d
<1> DEFINE m == n * k + d
           q == m \div n
           r == m % n
<1>1. m \in Int
  OBVIOUS
<1>2. q \in Int /\ r \in 0..n-1 /\ m = n * q + r
  BY <1>1
<1> HIDE DEF q, r
<1>3. ~(q + 1 <= k)
  <2> SUFFICES ASSUME q + 1 <= k PROVE FALSE
    OBVIOUS
  <2>1. n * (q + 1) <= n * k
    BY <1>2, MonotoneProduct
  <2>2. n * (q + 1) = n * q + n
    BY <1>2
  <2> QED
    BY <1>2, <2>1, <2>2
<1>4. ~(k + 1 <= q)
  <2> SUFFICES ASSUME k + 1 <= q PROVE FALSE
    OBVIOUS
  <2>1. n * (k + 1) <= n * q
    BY <1>2, MonotoneProduct
  <2>2. n * (k + 1) = n * k + n
    OBVIOUS
  <2> QED
    BY <1>2, <2>1, <2>2
<1>5. k = q
  BY <1>2, <1>3, <1>4
<1> QED
  BY <1>2, <1>5 DEF r

(* The bytes that are not rejected and give character c. *)
Values(c) == {b \in 0..threshold-1 : b % alphabetN = c}

LEMMA ThresholdFacts ==
  LET full == Bytes \div alphabetN
  IN full \in Nat \ {0} /\ threshold = alphabetN * full /\ threshold \in 1..Bytes
<1> DEFINE full == Bytes \div alphabetN
           rest == Bytes % alphabetN
           n == alphabetN
<1>1. Bytes \in Nat /\ n \in 1..Bytes /\ full = Bytes \div n /\ rest = Bytes % n
  BY PkceAssumption
<1> HIDE DEF n, full, rest
<1>2. full \in Int /\ rest \in 0..n-1 /\ Bytes = n * full + rest
  BY <1>1, Divided
<1>3. full >= 1
  <2> SUFFICES ASSUME full <= 0 PROVE FALSE
    BY <1>2
  <2>1. n * full <= n * 0
    BY <1>1, <1>2, MonotoneProduct
  <2> QED
    BY <1>1, <1>2, <2>1
<1>4. n * 1 <= n * full
  BY <1>1, <1>2, <1>3, MonotoneProduct
<1>5. full * n = n * full
  BY <1>1, <1>2
<1>6. threshold = n * full
  BY <1>5 DEF threshold, full, n
<1> QED
  BY <1>1, <1>2, <1>3, <1>4, <1>6 DEF full, n

(* With d for c as its remainder a byte gives d. *)
LEMMA Shifted ==
  ASSUME NEW c \in Character, NEW d \in Character, NEW b \in Values(c)
  PROVE  b - c + d \in Values(d)
<1> DEFINE full == Bytes \div alphabetN
           n == alphabetN
           k == b \div n
<1>1. /\ full \in Nat \ {0} /\ threshold = n * full /\ threshold \in Nat
      /\ n \in Nat \ {0} /\ c \in 0..n-1 /\ d \in 0..n-1
  BY ThresholdFacts, PkceAssumption DEF Character
<1>2. b \in 0..threshold-1 /\ b % n = c
  BY DEF Values
<1> HIDE DEF full, n
<1>3. k \in Int /\ b = n * k + c
  BY <1>1, <1>2
<1> HIDE DEF k
<1>4. k <= full - 1
  <2> SUFFICES ASSUME full <= k PROVE FALSE
    BY <1>1, <1>3
  <2>1. n * full <= n * k
    BY <1>1, <1>3, MonotoneProduct
  <2> QED
    BY <1>1, <1>2, <1>3, <2>1
<1>5. 0 <= k
  <2> SUFFICES ASSUME k <= -1 PROVE FALSE
    BY <1>3
  <2>1. n * k <= n * (-1)
    BY <1>1, <1>3, MonotoneProduct
  <2> QED
    BY <1>1, <1>2, <1>3, <2>1
<1>6. n * k <= n * full - n /\ 0 <= n * k /\ n * k \in Int
  <2>1. n * k <= n * (full - 1) /\ n * 0 <= n * k
    BY <1>1, <1>3, <1>4, <1>5, MonotoneProduct
  <2> QED
    BY <1>1, <1>3, <2>1
<1>7. b - c + d = n * k + d
  BY <1>1, <1>3, <1>6
<1>8. (n * k + d) % n = d
  BY <1>1, <1>3, Remainder
<1>9. n * k + d \in 0..threshold-1
  BY <1>1, <1>6
<1> QED
  BY <1>7, <1>8, <1>9 DEF Values, n

LEMMA EquallyMany ==
  ASSUME NEW c \in Character, NEW d \in Character
  PROVE  Values(c) # {} /\ Cardinality(Values(c)) = Cardinality(Values(d))
<1> DEFINE f == [b \in Values(c) |-> b - c + d]
<1>1. /\ c \in Int /\ d \in Int
      /\ \A x \in Character : Values(x) \subseteq 0..threshold-1 /\ Values(x) \subseteq Int
  BY ThresholdFacts, PkceAssumption DEF Character, Values
<1>2. f \in [Values(c) -> Values(d)]
  BY Shifted
<1>3. \A a, b \in Values(c) : f[a] = f[b] => a = b
  BY <1>1
<1>4. ASSUME NEW v \in Values(d) PROVE \E b \in Values(c) : f[b] = v
  <2>1. v - d + c \in Values(c)
    BY Shifted
  <2>2. f[v - d + c] = v
    BY <1>1, <2>1
  <2> QED
    BY <2>1, <2>2
<1>5. ExistsBijection(Values(c), Values(d))
  <2>1. f \in Injection(Values(c), Values(d))
    BY <1>2, <1>3 DEF Injection, IsInjective
  <2>2. f \in Surjection(Values(c), Values(d))
    BY <1>2, <1>4 DEF Surjection
  <2> QED
    BY <2>1, <2>2 DEF ExistsBijection, Bijection
<1>6. IsFiniteSet(Values(c))
  <2>1. IsFiniteSet(0..threshold-1)
    BY ThresholdFacts, FS_Interval
  <2> QED
    BY <1>1, <2>1, FS_Subset
<1>7. Values(c) # {}
  <2>1. c % alphabetN = c /\ c \in 0..threshold-1
    <3> DEFINE n == alphabetN
    <3>1. n \in Nat \ {0} /\ c \in 0..n-1 /\ threshold \in Nat
      BY ThresholdFacts, PkceAssumption DEF Character
    <3>2. n <= threshold
      BY MonotoneProduct, ThresholdFacts, PkceAssumption
    <3> HIDE DEF n
    <3>3. c % n = c /\ c \in 0..threshold-1
      BY <3>1, <3>2
    <3> QED
      BY <3>3 DEF n
  <2> QED
    BY <2>1 DEF Values
<1> QED
  BY <1>5, <1>6, <1>7, FS_Bijection

(* What has been filled in are characters, and no more than a verifier has. *)
GenInv ==
  /\ gen \in [out : Seq(Character), unread : Nat]
  /\ Len(gen.out) <= length

LEMMA Filled == CallSpec => []GenInv
<1>1. CallInit => GenInv
  BY PkceAssumption DEF CallInit, GenInv, NoVerifier
<1>2. GenInv /\ [CallNext]_callVars => GenInv'
  <2> SUFFICES ASSUME GenInv, [CallNext]_callVars PROVE GenInv'
    OBVIOUS
  <2>1. CASE UNCHANGED gen
    BY <2>1 DEF GenInv
  <2>2. CASE Read
    <3>1. gen' = [out |-> gen.out, unread |-> 2 * (length - Len(gen.out))]
      BY <2>2 DEF Read, ReadRandom, GenInv
    <3>2. 2 * (length - Len(gen.out)) \in Nat
      BY PkceAssumption DEF GenInv
    <3> QED
      BY <3>1, <3>2 DEF GenInv
  <2>3. CASE Take
    <3>1. PICK b \in Byte : gen' = TakeByte(gen, b)
      BY <2>3 DEF Take
    <3>2. /\ gen.out \in Seq(Character) /\ gen.unread - 1 \in Nat
          /\ Len(gen.out) \in Nat /\ Len(gen.out) + 1 <= length
      BY <2>3, PkceAssumption DEF Take, Generating, Complete, GenInv
    <3>3. b % alphabetN \in Character
      BY PkceAssumption, Rest DEF Byte, Character
    <3>4. /\ Append(gen.out, b % alphabetN) \in Seq(Character)
          /\ Len(Append(gen.out, b % alphabetN)) = Len(gen.out) + 1
      BY <3>2, <3>3
    <3> QED
      BY <3>1, <3>2, <3>4 DEF GenInv, TakeByte
  <2> QED
    BY <2>1, <2>2, <2>3
    DEF CallNext, callVars, Classify, Allow, UseEntry, AskStale, SendRequest, SendListModels,
        DecodeCatalog, Extract, GenerateVerifier, ReadFails, Returns
<1> QED
  BY <1>1, <1>2, PTL DEF CallSpec

(* Of the next byte's values those that add c are the ones counted above. *)
LEMMA GivenBy ==
  ASSUME GenInv, NEW c \in Character
  PROVE  {b \in Byte : TakeByte(gen, b).out = Append(gen.out, c)} = Values(c)
<1>1. gen.out \in Seq(Character) /\ \A b \in Byte : b % alphabetN \in Character
  <2>1. \A b \in Byte : b % alphabetN \in Character
    BY PkceAssumption, Rest DEF Byte, Character
  <2> QED
    BY <2>1 DEF GenInv
<1>2. \A d \in Character : Append(gen.out, d) = Append(gen.out, c) <=> d = c
  BY <1>1, AppendProperties
<1>3. gen.out # Append(gen.out, c)
  BY <1>1, AppendProperties
<1>4. ASSUME NEW b \in Byte
      PROVE  TakeByte(gen, b).out = Append(gen.out, c) <=> b < threshold /\ b % alphabetN = c
  BY <1>1, <1>2, <1>3 DEF TakeByte
<1>5. \A b : b \in 0..threshold-1 <=> b \in Byte /\ b < threshold
  BY ThresholdFacts, PkceAssumption DEF Byte
<1> QED
  BY <1>4, <1>5 DEF Values

(* However many characters a verifier has and whichever have been filled   *)
(* in, the next is any of the alphabet for equally many values of the next *)
(* byte, since those above a multiple of the alphabet are rejected         *)
(* (pkce.go:21-26).                                                        *)
THEOREM NoCharacterFavoured == CallSpec => []VerifierUniform
<1>1. GenInv => VerifierUniform
  BY GivenBy, EquallyMany DEF VerifierUniform, GenInv
<1> QED
  BY <1>1, Filled, PTL
=============================================================================
