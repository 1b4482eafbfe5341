---------------------------- MODULE AuthSessionProofs ----------------------------
(* Theorems about AuthSession, for every number of users, accounts,        *)
(* transports and goroutines, and every set of faults.                     *)
EXTENDS AuthSession, CodexTransportProofs

(* The tokens of c have been issued (m of them have), at logins that named *)
(* the account of c, or none.                                              *)
Kept(c, m, l) ==
  \A n \in {c.access, c.refresh} \ {0} : n <= m /\ l[n] \in {c.account, NoAccount}

(* TokensKeepTheirAccount is about disk and transports; tokens get there   *)
(* from a refresh that inherits the login of the refresh token it spends,  *)
(* or from what a call has in its hands.                                   *)
LabelInv ==
  /\ Kept(disk, minted, label)
  /\ \A x \in Transport : Kept(mem[x], minted, label)
  /\ \A g \in Goroutine : Kept(old[g], minted, label) /\ Kept(got[g], minted, label)
  /\ \A u \in User : Kept(held[u], minted, label)

HeldInv == \A u \in User : step[u] = "save" => held[u].access # 0

SessionInv == FullInv /\ SessionTypeOK /\ HeldInv /\ LabelInv
-----------------------------------------------------------------------------
LEMMA IdKept ==
  ASSUME SessionInv, NEW u \in User
  PROVE  /\ held[u] \in Creds
         /\ held[u].access \in Grant \cup {0} /\ held[u].refresh \in Grant \cup {0}
         /\ held[u].access # 0 => held[u].access \in 1..minted
         /\ held[u].refresh # 0 => held[u].refresh \in 1..minted
<1>1. held[u] \in Creds
  BY DEF SessionInv, SessionTypeOK
<1>2. held[u].access \in Grant \cup {0} /\ held[u].refresh \in Grant \cup {0}
  BY <1>1, CredsFields
<1>3. Kept(held[u], minted, label)
  BY DEF SessionInv, LabelInv
<1> QED
  BY <1>1, <1>2, <1>3, TokenServerAssumption DEF Kept, Grant

(* A login issues new tokens: what the transports know stays as it is.     *)
LEMMA ExchangeFull ==
  ASSUME SessionInv, NEW u \in User, ExchangeCode(u)
  PROVE  FullInv' /\ minted' \in Grant /\ minted' = minted + 1
<1> USE CodexTransportAssumption
    DEF SessionInv, FullInv, IInv, ExchangeCode, locals, history
<1>1. /\ minted \in Nat /\ minted' = minted + 1 /\ young' = young \cup {minted'}
      /\ live' \in {live, live \cup {minted'}}
  BY RefreshFacts DEF Mint
<1>2. minted' \in Grant /\ young' \subseteq Grant
  BY MintStep DEF TypeOK
<1>3. TypeOK'
  BY <1>2 DEF TypeOK, ServerTypeOK
<1>4. \A x \in Transport : ~isValid(mem[x]) => ~isValid(mem[x])'
  BY <1>1 DEF SavedInv, isValid
<1>5. FlightInv' /\ LeaderInv'
  BY <1>4 DEF FlightInv, LeaderInv, TypeOK
<1>6. \A g \in Goroutine : got[g].access <= minted'
  BY <1>1, GotAccess DEF SavedInv
<1>7. SavedInv'
  BY <1>1, <1>6 DEF SavedInv
<1>8. TokenInv'
  BY <1>1, RefreshFacts DEF TokenInv, HasOld, AfterRejection
<1> QED
  BY <1>1, <1>2, <1>3, <1>5, <1>7, <1>8

LEMMA SaveFull ==
  ASSUME SessionInv, NEW u \in User, SaveLogin(u)
  PROVE  FullInv'
<1> USE CodexTransportAssumption
    DEF SessionInv, FullInv, IInv, SaveLogin, serverVars, locals, history
<1>1. held[u] \in Creds /\ held[u].access \in Grant \cap 1..minted
  BY IdKept DEF HeldInv
<1>2. TypeOK'
  BY <1>1 DEF TypeOK, ServerTypeOK
<1>3. FlightInv' /\ LeaderInv'
  BY DEF FlightInv, LeaderInv, TypeOK, isValid
<1>4. SavedInv'
  BY <1>1 DEF SavedInv
<1>5. held[u].refresh <= minted
  BY IdKept, RefreshFacts
<1>6. TokenInv'
  BY <1>1, <1>5, GrantFacts DEF TokenInv, HasOld, AfterRejection
<1> QED
  BY <1>2, <1>3, <1>4, <1>6

LEMMA LogoutFull ==
  ASSUME SessionInv, NEW u \in User, RevokeLogout(u) \/ DeleteLogout(u)
  PROVE  FullInv'
<1> USE CodexTransportAssumption, NoCredsType DEF SessionInv, FullInv, IInv
<1>1. /\ UNCHANGED <<minted, young, orphan, mem, up, leader, pc, old, got, persisted, dead>>
      /\ disk' \in {disk, NoCreds} /\ live' \subseteq live
  BY DEF RevokeLogout, DeleteLogout, serverVars, locals, history
<1>2. TypeOK'
  BY <1>1 DEF TypeOK, ServerTypeOK
<1>3. FlightInv' /\ LeaderInv'
  BY <1>1 DEF FlightInv, LeaderInv, TypeOK, isValid
<1>4. SavedInv'
  BY <1>1 DEF SavedInv, NoCreds
<1>5. TokenInv'
  BY <1>1, RefreshFacts DEF TokenInv, HasOld, AfterRejection, NoCreds
<1> QED
  BY <1>2, <1>3, <1>4, <1>5

LEMMA SessionFullStep ==
  ASSUME SessionInv, [SessionNext]_allVars
  PROVE  FullInv'
<1>1. ASSUME [Next]_vars PROVE FullInv'
  BY <1>1, FullInvStep DEF SessionInv
<1>2. ASSUME NEW u \in User, LoadLogout(u) \/ StoreFails(u) PROVE FullInv'
  BY <1>1, <1>2 DEF LoadLogout, StoreFails
<1>3. CASE Transports
  BY <1>1, <1>3 DEF Transports, Next, Client, Environment
<1>4. CASE UNCHANGED allVars
  BY <1>1, <1>4 DEF allVars
<1> QED
  BY <1>2, <1>3, <1>4, ExchangeFull, SaveFull, LogoutFull DEF SessionNext, Session
-----------------------------------------------------------------------------
LEMMA InitSessionInv == SessionInit => SessionInv
<1>1. Init => FullInv
  BY InitFullInv
<1>2. SessionInit => SessionTypeOK
  BY <1>1, NoCredsType
  DEF SessionInit, SessionTypeOK, FullInv, IInv, ExtractAccountID
<1>3. SessionInit => LabelInv
  BY GrantFacts DEF SessionInit, Init, ServerInit, LabelInv, Kept, NoCreds, Creds
<1> QED
  BY <1>1, <1>2, <1>3 DEF SessionInit, SessionInv, HeldInv

LEMMA KeptNothing == \A m, l : Kept(NoCreds, m, l)
  BY DEF Kept, NoCreds

(* Issuing tokens takes an account from nobody. *)
LEMMA KeptOn ==
  ASSUME NEW c \in Creds, NEW m \in Nat, m + 1 \in Grant, NEW a,
         NEW l \in [Grant -> Account \cup {NoAccount}], Kept(c, m, l)
  PROVE  Kept(c, m + 1, [l EXCEPT ![m + 1] = a])
<1>1. ASSUME NEW n \in {c.access, c.refresh} \ {0}
      PROVE  n <= m + 1 /\ [l EXCEPT ![m + 1] = a][n] \in {c.account, NoAccount}
  <2>1. n \in Grant /\ n \in Nat
    BY <1>1, CredsFields, GrantFacts
  <2> QED
    BY <1>1, <2>1 DEF Kept
<1> QED
  BY <1>1 DEF Kept

LEMMA IssuedLabel ==
  ASSUME SessionInv, minted' = minted + 1, minted' \in Grant,
         UNCHANGED <<disk, mem, old, held>>,
         NEW a \in Account \cup {NoAccount}, label' = [label EXCEPT ![minted'] = a],
         \A g \in Goroutine : got'[g] = got[g] \/ Kept(got[g], minted, label)'
  PROVE  label' \in [Grant -> Account \cup {NoAccount}] /\ LabelInv'
<1>1. minted \in Nat /\ label \in [Grant -> Account \cup {NoAccount}]
  BY RefreshFacts DEF SessionInv, FullInv, IInv, SessionTypeOK
<1>2. ASSUME NEW c \in Creds, Kept(c, minted, label) PROVE Kept(c, minted', label')
  BY <1>1, <1>2, KeptOn
<1>3. /\ disk \in Creds /\ mem \in [Transport -> Creds]
      /\ old \in [Goroutine -> Creds] /\ got \in [Goroutine -> Creds]
      /\ held \in [User -> Creds]
  BY DEF SessionInv, SessionTypeOK, TypeOK
<1>4. \A g \in Goroutine : Kept(got'[g], minted', label')
  BY <1>2, <1>3 DEF SessionInv, LabelInv
<1> QED
  BY <1>1, <1>2, <1>3, <1>4 DEF SessionInv, LabelInv

(* A refresh token is spent for tokens of the same login. *)
LEMMA GrantedLabel ==
  ASSUME SessionInv, NEW g \in Goroutine, Granted(g), Inherits(old[g].refresh), held' = held
  PROVE  label' \in [Grant -> Account \cup {NoAccount}] /\ LabelInv'
<1> DEFINE r == old[g].refresh
           c == got'[g]
<1>1. /\ TypeOK /\ minted \in Nat /\ old[g] \in Creds
      /\ label \in [Grant -> Account \cup {NoAccount}]
  BY RefreshFacts DEF SessionInv, FullInv, IInv, SessionTypeOK, TypeOK
<1>2. minted' = minted + 1 /\ minted' \in Grant /\ r \in Grant
  BY <1>1, HandlesStep DEF Granted, TypeOK, ServerTypeOK, Rotates, Keeps
<1>3. label' = [label EXCEPT ![minted'] = label[r]]
  BY <1>1, <1>2 DEF Inherits
<1>4. /\ c.access = minted' /\ c.refresh \in {r, minted'}
      /\ c.account = old[g].account
  <2>1. got \in [Goroutine -> Creds]
    BY <1>1 DEF TypeOK
  <2> HIDE DEF r
  <2>2. CASE got' = [got EXCEPT ![g] =
                       [old[g] EXCEPT !.access = minted', !.refresh = minted']]
    BY <1>1, <1>2, <2>1, <2>2 DEF Creds
  <2>3. CASE got' = [got EXCEPT ![g] = [old[g] EXCEPT !.access = minted']]
    BY <1>1, <1>2, <2>1, <2>3 DEF Creds, r
  <2> QED
    BY <2>2, <2>3 DEF Granted
<1>5. r \in Nat /\ r # 0 /\ r <= minted /\ label[r] \in {old[g].account, NoAccount}
  BY <1>2, GrantFacts DEF SessionInv, LabelInv, Kept
<1>6. label'[r] = label[r] /\ label'[minted'] = label[r]
  BY <1>1, <1>2, <1>3, <1>5
<1>7. Kept(c, minted', label')
  <2> HIDE DEF c, r
  <2> QED
    BY <1>1, <1>2, <1>4, <1>5, <1>6 DEF Kept
<1>8. label[r] \in Account \cup {NoAccount}
  BY <1>1, <1>2
<1>9. UNCHANGED <<disk, mem, old>> /\ \A h \in Goroutine \ {g} : got'[h] = got[h]
  BY <1>1 DEF Granted, TypeOK
<1>10. \A h \in Goroutine : got'[h] = got[h] \/ Kept(got[h], minted, label)'
  BY <1>7, <1>9
<1> HIDE DEF c, r
<1> QED
  BY <1>2, <1>3, <1>8, <1>9, <1>10, IssuedLabel

(* The other steps of a transport issue nothing, and hand on what somebody *)
(* holds; a loaded entry may get an account id if its login named none.    *)
LEMMA CarriedLabel ==
  ASSUME SessionInv, NEW g \in Goroutine, EnsureFresh(g) \/ Step(g), ~Granted(g)
  PROVE  minted' = minted /\ (UNCHANGED <<label, held>> => LabelInv')
<1> USE CodexTransportAssumption, KeptNothing
    DEF SessionInv, FullInv, IInv, TypeOK, Goto, LabelInv, serverVars, locals, history
<1>1. CASE EnsureFresh(g)
  BY <1>1 DEF EnsureFresh
<1>2. CASE Do(g)
  BY <1>2 DEF Do
<1>3. CASE DoubleCheck(g)
  BY <1>3 DEF DoubleCheck
<1>4. CASE Rejected(g) \/ TokenCallFails(g)
  BY <1>4 DEF Rejected, TokenCallFails
<1>5. CASE Save(g) \/ SaveFails(g)
  BY <1>5 DEF Save, SaveFails
<1>6. CASE Commit(g) \/ Adopt(g) \/ Zero(g)
  BY <1>6 DEF Commit, Adopt, Zero
<1>7. CASE LoadDisk(g)
  <2>1. Kept(got'[g], minted, label)
    <3>1. CASE disk.account # NoAccount
      BY <1>7, <3>1 DEF LoadDisk
    <3>2. CASE disk.account = NoAccount
      BY <1>7, <3>2, WithAccount, CredsFields DEF LoadDisk, Kept
    <3> QED
      BY <3>1, <3>2
  <2> QED
    BY <1>7, <2>1 DEF LoadDisk
<1>8. CASE Wipe(g) \/ WipeFails(g) \/ LoadFails(g)
  BY <1>8 DEF Wipe, WipeFails, LoadFails
<1>9. CASE Finish(g)
  BY <1>9 DEF Finish
<1>10. CASE Send(g)
  BY <1>10 DEF Send
<1> QED
  BY <1>1, <1>2, <1>3, <1>4, <1>5, <1>6, <1>7, <1>8, <1>9, <1>10 DEF Step

LEMMA TransportsLabel ==
  ASSUME SessionInv, Transports
  PROVE  label' \in [Grant -> Account \cup {NoAccount}] /\ LabelInv'
<1>1. /\ TypeOK /\ LabelInv /\ label \in [Grant -> Account \cup {NoAccount}]
      /\ minted \in Nat /\ held' = held
  BY RefreshFacts DEF SessionInv, FullInv, IInv, SessionTypeOK, Transports
<1>2. ASSUME NEW g \in Goroutine, EnsureFresh(g) \/ Step(g), Inherits(old[g].refresh)
      PROVE  label' \in [Grant -> Account \cup {NoAccount}] /\ LabelInv'
  BY <1>1, <1>2, GrantedLabel, CarriedLabel DEF Inherits
<1>3. ASSUME NEW x \in Transport, Seed(x), UNCHANGED label PROVE LabelInv'
  BY <1>1, <1>3 DEF Seed, TypeOK, LabelInv, serverVars, locals
<1>4. ASSUME NEW x \in Transport, Crash(x), UNCHANGED label PROVE LabelInv'
  BY <1>1, <1>4, KeptNothing DEF Crash, TypeOK, LabelInv
<1>5. ASSUME Server, NEW r \in orphan \cup {1}, Inherits(r)
      PROVE  label' \in [Grant -> Account \cup {NoAccount}] /\ LabelInv'
  <2>1. CASE HandleOrphan
    <3>1. minted' = minted + 1 /\ minted' \in Grant
      BY <1>1, <2>1, HandlesStep DEF HandleOrphan, TypeOK
    <3>2. label[r] \in Account \cup {NoAccount}
      BY <1>1, <1>5, GrantFacts DEF TypeOK, ServerTypeOK
    <3>3. label' = [label EXCEPT ![minted'] = label[r]]
      BY <1>1, <1>5, <3>1 DEF Inherits
    <3> QED
      BY <1>1, <1>5, <3>1, <3>2, <3>3, IssuedLabel DEF Server, locals
  <2>2. CASE minted' = minted
    BY <1>1, <1>5, <2>2 DEF Inherits, Server, locals, LabelInv
  <2> QED
    BY <1>5, <2>1, <2>2 DEF Server, Age, Revoke
<1> QED
  BY <1>1, <1>2, <1>3, <1>4, <1>5 DEF Transports

(* A login names the account of its own tokens; a logout holds what it has *)
(* loaded.                                                                 *)
LEMMA SessionLabel ==
  ASSUME SessionInv, Session
  PROVE  label' \in [Grant -> Account \cup {NoAccount}] /\ LabelInv'
<1> USE KeptNothing DEF Go, locals, history
<1>1. /\ TypeOK /\ LabelInv /\ label \in [Grant -> Account \cup {NoAccount}]
      /\ minted \in Nat /\ held \in [User -> Creds]
  BY RefreshFacts DEF SessionInv, FullInv, IInv, SessionTypeOK
<1>2. ASSUME NEW u \in User, ExchangeCode(u)
      PROVE  label' \in [Grant -> Account \cup {NoAccount}] /\ LabelInv'
  <2>1. minted' = minted + 1 /\ minted' \in Grant
    BY <1>2, ExchangeFull
  <2>2. PICK id \in Account \cup {NoAccount}, r \in {minted', 0} :
          /\ held' = [held EXCEPT ![u] = Tokens(minted', r, id)]
          /\ label' = [label EXCEPT ![minted'] = id]
    BY <1>2 DEF ExchangeCode, ExtractAccountID
  <2>3. ASSUME NEW c \in Creds, Kept(c, minted, label) PROVE Kept(c, minted', label')
    BY <1>1, <2>1, <2>2, <2>3, KeptOn
  <2>4. Kept(Tokens(minted', r, id), minted', label')
    BY <1>1, <2>1, <2>2 DEF Tokens, Kept
  <2>5. \A v \in User : Kept(held'[v], minted', label')
    BY <1>1, <2>2, <2>3, <2>4 DEF LabelInv
  <2>6. UNCHANGED <<disk, mem, old, got>>
    BY <1>2 DEF ExchangeCode
  <2>7. /\ disk \in Creds /\ mem \in [Transport -> Creds]
        /\ old \in [Goroutine -> Creds] /\ got \in [Goroutine -> Creds]
    BY <1>1 DEF TypeOK
  <2>8. LabelInv'
    BY <1>1, <2>3, <2>5, <2>6, <2>7 DEF LabelInv
  <2> QED
    BY <1>1, <2>2, <2>8
<1>3. ASSUME NEW u \in User, SaveLogin(u) PROVE label' = label /\ LabelInv'
  BY <1>1, <1>3 DEF SaveLogin, LabelInv, serverVars
<1>4. ASSUME NEW u \in User, LoadLogout(u) PROVE label' = label /\ LabelInv'
  BY <1>1, <1>4 DEF LoadLogout, LabelInv, vars, serverVars
<1>5. ASSUME NEW u \in User, RevokeLogout(u) PROVE label' = label /\ LabelInv'
  BY <1>1, <1>5 DEF RevokeLogout, LabelInv
<1>6. ASSUME NEW u \in User, DeleteLogout(u) PROVE label' = label /\ LabelInv'
  BY <1>1, <1>6 DEF DeleteLogout, LabelInv, serverVars
<1>7. ASSUME NEW u \in User, StoreFails(u) PROVE label' = label /\ LabelInv'
  BY <1>1, <1>7 DEF StoreFails, LabelInv, vars, serverVars
<1> QED
  BY <1>1, <1>2, <1>3, <1>4, <1>5, <1>6, <1>7 DEF Session

(* A call has something in its hands until it returns. *)
HandsOK ==
  /\ step \in [User -> {"idle", "save", "revoke", "delete"}]
  /\ held \in [User -> Creds]
  /\ \A u \in User : step[u] = "idle" <=> held[u] = NoCreds
  /\ HeldInv

LEMMA HandsStep ==
  ASSUME SessionInv, [SessionNext]_allVars
  PROVE  HandsOK'
<1> USE NoCredsType
    DEF SessionInv, SessionTypeOK, HandsOK, HeldInv, Go, sessionVars, allVars
<1>1. ASSUME NEW u \in User, ExchangeCode(u) PROVE HandsOK'
  <2>1. minted' \in Grant /\ minted' # 0
    BY <1>1, ExchangeFull, GrantFacts
  <2>2. PICK id \in Account \cup {NoAccount}, r \in {minted', 0} :
          held' = [held EXCEPT ![u] = Tokens(minted', r, id)]
    BY <1>1 DEF ExchangeCode, ExtractAccountID
  <2>3. /\ Tokens(minted', r, id) \in Creds /\ Tokens(minted', r, id) # NoCreds
        /\ Tokens(minted', r, id).access # 0
    BY <2>1 DEF Tokens, Creds, NoCreds
  <2> QED
    BY <1>1, <2>2, <2>3 DEF ExchangeCode
<1>2. ASSUME NEW u \in User, SaveLogin(u) \/ DeleteLogout(u) \/ StoreFails(u) PROVE HandsOK'
  BY <1>2 DEF SaveLogin, DeleteLogout, StoreFails
<1>3. ASSUME NEW u \in User, LoadLogout(u) PROVE HandsOK'
  BY <1>3 DEF LoadLogout, TypeOK
<1>4. ASSUME NEW u \in User, RevokeLogout(u) PROVE HandsOK'
  <2>1. held[u] # NoCreds
    BY <1>4 DEF RevokeLogout
  <2> QED
    BY <1>4, <2>1 DEF RevokeLogout
<1>5. CASE UNCHANGED <<step, held>>
  BY <1>5
<1> QED
  BY <1>1, <1>2, <1>3, <1>4, <1>5 DEF SessionNext, Session, Transports

(* Every reachable state satisfies the inductive invariant.                *)
THEOREM SessionCorrect == SessionSpec => []SessionInv
<1>1. ASSUME SessionInv, [SessionNext]_allVars PROVE SessionInv'
  <2>1. label' \in [Grant -> Account \cup {NoAccount}] /\ LabelInv'
    <3>1. CASE UNCHANGED allVars
      BY <1>1, <3>1
      DEF allVars, sessionVars, vars, serverVars, locals, SessionInv, SessionTypeOK, LabelInv
    <3> QED
      BY <1>1, <3>1, SessionLabel, TransportsLabel DEF SessionNext
  <2> QED
    BY <1>1, <2>1, SessionFullStep, HandsStep
    DEF SessionInv, SessionTypeOK, HandsOK, FullInv, IInv
<1> QED
  BY InitSessionInv, <1>1, PTL DEF SessionSpec

(* Type correctness (Login, Logout): in particular a call lets go of the   *)
(* credentials in its hands when it returns, and not before.               *)
THEOREM SessionTypeCorrect == SessionSpec => []SessionTypeOK
<1>1. SessionInv => SessionTypeOK
  BY DEF SessionInv
<1> QED
  BY SessionCorrect, <1>1, PTL

(* Whoever logs in, refreshes, adopts or logs out meanwhile, no token ends *)
(* up with another account's id, on disk or in a transport                 *)
(* (transport.go:195, exchange.go).                                        *)
THEOREM AccountsKept == SessionSpec => []TokensKeepTheirAccount
<1>1. SessionInv => TokensKeepTheirAccount
  BY DEF SessionInv, LabelInv, Kept, TokensKeepTheirAccount
<1> QED
  BY SessionCorrect, <1>1, PTL
=============================================================================
