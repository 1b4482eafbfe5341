------------------------------- MODULE SafeErrors -------------------------------
(***************************************************************************)
(* The errors of a refresh, and what a caller and the log see of them.     *)
(* ListModels sets safeRefreshErrors, HTTPClient does not.                 *)
(***************************************************************************)
EXTENDS TokenAnswer

isSafeOAuthErrorCode(code) ==
  code \in {"invalid_grant", "invalid_client", "invalid_request",
            "unauthorized_client", "unsupported_grant_type", "invalid_scope",
            "temporarily_unavailable"}

safeRemoteRefreshError(err) ==
  IF isSafeOAuthErrorCode(err.code) THEN Failure(err.code, {})
  ELSE Failure("ErrRefreshFailed", {})

(* What the Warn of an invalid_grant shows.                                *)
logInvalidGrant(safe, err) == IF safe THEN {} ELSE err.shows

(* The disk says of a rejected token: loading it "fails", the entry is the *)
(* "same", or has been "rotated".                                          *)
LocalFailure == {"local path"}

(* ensureFresh of a stale token: endpoint answer a, disk load, and whether *)
(* the new tokens can be saved; the error it returns, and what it logs.    *)
ensureFresh(safe, a, load, saves) ==
  LET err == postFormError(a)
      said == IF safe THEN safeRemoteRefreshError(err) ELSE err
  IN
  CASE err = NoError ->
         [err |-> IF saves THEN NoError ELSE Failure("", LocalFailure), log |-> {}]
    [] err.code = "invalid_grant" ->
         [err |-> CASE load = "rotated" -> NoError
                    [] load = "fails" /\ safe ->
                         Failure(said.code, said.shows \cup LocalFailure)
                    [] OTHER -> said,
          log |-> logInvalidGrant(safe, err)]
    [] OTHER -> [err |-> said, log |-> {}]

(* http.Client (external) wraps each error of its transport, and those of  *)
(* CheckRedirect, in a *url.Error that shows the URL of the request.       *)
Wraps(err) == Failure(err.code, err.shows \cup {"client_version"})

BadcatalogRequestCause(err) == Wraps(err)

(* catalogRequestCause of an error that http.Client has wrapped.           *)
catalogRequestCause(err) == err

(* A request by ListModels (safe) or of HTTPClient: what Do returns, or    *)
(* ListModels makes of it; base is the error of the base transport.        *)
Ask(safe, a, load, saves, base) ==
  LET fresh == ensureFresh(safe, a, load, saves)
      err   == IF fresh.err = NoError THEN base ELSE fresh.err
  IN [err |-> CASE err = NoError -> NoError
                [] err # NoError /\ safe -> catalogRequestCause(err)
                [] OTHER -> Wraps(err),
      log |-> fresh.log]
=============================================================================
