------------------------------ MODULE TokenAnswer ------------------------------
(***************************************************************************)
(* What the client makes of an answer of the token endpoint                *)
(* (token_http.go, exchange.go), and of the entry it stores (status.go,    *)
(* transport.go).  Strings that are empty in the code are empty here.      *)
(*                                                                         *)
(* An answer: nothing (no connection, a timeout, a body that cannot be     *)
(* read), a refusal with the code in its body ("" when there is none), or  *)
(* a success with its fields, json being FALSE when it is no token set.    *)
(*                                                                         *)
(* An error: the code that errors.As finds in it, and what its text shows. *)
(***************************************************************************)
EXTENDS Integers

CONSTANTS
  Milli,   \* milliseconds in a second (1000)
  Skew,    \* refreshSkewMargin in seconds (60)
  Word     \* the number of values of an int64

ASSUME TokenAnswerAssumption ==
  /\ Milli \in Nat \ {0} /\ Skew \in Nat
  /\ Word \in Nat /\ Word % 2 = 0 /\ Word > 0

Int64(n) == ((n + Word \div 2) % Word) - (Word \div 2)

Answer ==
  [got : {"nothing"}]
  \cup [got : {"refusal"}, error : STRING]
  \cup [got : {"success"}, json : BOOLEAN, access : STRING, refresh : STRING,
        expires_in : Int]

NoError == [code |-> "nil", shows |-> {}]
Failure(code, shows) == [code |-> code, shows |-> shows]

postFormError(a) ==
  CASE a.got = "nothing" -> Failure("", {"token URL"})
    [] a.got = "refusal" -> Failure(a.error, {"token answer"})
    [] a.got = "success" /\ ~a.json -> Failure("", {"token answer"})
    [] a.got = "success" /\ a.json /\ a.access = "" -> Failure("", {})
    [] OTHER -> NoError

(* Operators named Bad... are the next definition with a plausible bug.    *)
BadcredentialsFromResponse(a, now) ==
  [access |-> a.access, refresh |-> a.refresh,
   expires |-> Int64(now + a.expires_in * Milli)]

credentialsFromResponse(a, now) ==
  LET expiresIn == IF a.expires_in <= 0 THEN 3600 ELSE a.expires_in IN
  [access |-> a.access, refresh |-> a.refresh,
   expires |-> Int64(now + expiresIn * Milli)]

BadRefreshToken(a, refreshTok, now) == credentialsFromResponse(a, now)

(* An answer without a refresh token keeps the one it was asked with.      *)
RefreshToken(a, refreshTok, now) ==
  LET creds == credentialsFromResponse(a, now)
  IN IF creds.refresh = "" THEN [creds EXCEPT !.refresh = refreshTok] ELSE creds

(* No entry; an entry without either token, which no login stores, is left *)
(* out.                                                                    *)
NoEntry == [access |-> "", refresh |-> "", expires |-> 0]

isValid(creds, now) ==
  creds.access # "" /\ Int64(now + Skew * Milli) < creds.expires

Status(entry, now) ==
  LET LoggedIn == entry # NoEntry /\ entry.refresh # ""
  IN [LoggedIn |-> LoggedIn, Stale |-> LoggedIn /\ ~isValid(entry, now)]

(* A login that ends with answer a: what it stores (ExchangeCode).         *)
Login(a, entry, now) ==
  IF postFormError(a) = NoError
    THEN [err |-> NoError, posts |-> TRUE, entry |-> credentialsFromResponse(a, now)]
    ELSE [err |-> postFormError(a), posts |-> TRUE, entry |-> entry]

(* HTTPClient and a first request of it, when the disk works and nobody    *)
(* else writes to it: the entry it leaves, and whether it asks the token   *)
(* endpoint, which would answer a.  (With others: CodexTransport.)         *)
Request(a, entry, now) ==
  LET Result(err, posts, left) == [err |-> err, posts |-> posts, entry |-> left] IN
  CASE entry = NoEntry -> Result(Failure("ErrNotLoggedIn", {}), FALSE, entry)
    [] entry # NoEntry /\ isValid(entry, now) -> Result(NoError, FALSE, entry)
    [] entry # NoEntry /\ ~isValid(entry, now) /\ entry.refresh = "" ->
         Result(Failure("", {}), FALSE, entry)
    [] OTHER ->
         LET err == postFormError(a) IN
         Result(err, TRUE,
                CASE err = NoError -> RefreshToken(a, entry.refresh, now)
                  [] err.code = "invalid_grant" -> NoEntry
                  [] OTHER -> entry)
=============================================================================
