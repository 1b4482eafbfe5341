# A verification of codex-auth-go in TLA+

`codex-auth-go` logs a user in to ChatGPT, keeps the OAuth credentials in
`auth.json`, refreshes them, and sends requests to the Codex backend with them.
The modules here model the parts of it that keep state and run concurrently, and
the pure functions those parts decide by. TLC checks them on small instances, and
TLAPS proves every safety property that the passing runs check, of the parts that
keep state and of the functions, for every value of the constants.
File and line numbers are those of `src/`.

## 1. Inventory

| Component | Source | State | Operations | Talks to |
|---|---|---|---|---|
| credential store | `credstore.go` | `auth.json`, its `.lock` file, the mutex `mu` | `Load`, `Save`, `Delete`, `atomicWrite` | the disk; other processes through the lock file |
| codex transport | `transport.go` | `t.creds`, the singleflight group | `ensureFresh`, `RoundTrip` | the store (`loadCreds`, `saveCreds`, `wipeCreds`), the token endpoint, the base transport |
| token endpoint client | `exchange.go`, `token_http.go` | none | `ExchangeCode`, `RefreshToken` | `auth.openai.com` |
| login, logout, status | `public.go`, `status.go`, `client.go` | none of their own | `Login`, `Logout`, `Status`, `HTTPClient` | the store, the token endpoint |
| browser login | `login_browser.go`, `callback.go`, `browser*.go` | two listeners, two channels, a `sync.Once` | `LoginBrowser`, `StartCallbackServer` and its handler | the browser, other programs that want port 1455 |
| device login | `login_device.go` | a timer, a deadline | `LoginDevice`, `devicePollOnce` | the device endpoints |
| model catalog | `catalog.go`, `client.go` | the gate, a channel with one element | `ListModels` | a transport of its own in each call |
| account id | `jwt.go` | none | `ExtractAccountID` | |
| pure helpers | `classifier.go`, `endpoint.go`, `pkce.go`, `models.go`, `authorize.go` | none | | |

How they interact: a login saves a token set; every `http.Client` made by
`HTTPClient` is seeded from disk, keeps the credentials in memory, and from then
on reads the disk again only when the endpoint answers `invalid_grant`. Several
processes, each with several goroutines, share one `auth.json`, and the endpoint
invalidates a refresh token when it issues the next one. `ListModels` makes a
new transport for each call, so that calls have no singleflight group in common
and take turns at a gate instead.

What is hard, and what makes each component correct:

- **Store.** Threads and processes interleave between any two system calls; each
  call can fail; a process can be killed; power can be lost. No update may be
  lost, no reader may see a write in progress, no crash may leave a torn file,
  and every call has to return.
- **Transport.** Concurrent requests find a token stale; another process has
  spent the refresh token already; the answer of a refresh is lost; a save fails
  after the endpoint has rotated. One refresh at a time, none that is not needed,
  nothing in use that is not on disk, no good token thrown away, no waiter left
  waiting.
- **Session.** A login to another account or a logout meets refreshes that are
  under way. Tokens have to stay with their account.
- **Catalog.** Calls are cancelled while they wait, while they refresh, and
  before they send; the gate must come back each time.
- **Browser login.** Four goroutines and the handlers share channels and a
  `sync.Once`; the port can be taken on one address only; callbacks meant for
  another login can arrive. No code may go to the wrong login, and nothing may
  leak.
- **Device login.** A timer, a cap and a caller's context race with each other
  and with a poll under way.
- **Login as a whole.** One call, whichever flow it takes, has to return.
- **Pure functions.** Their inputs come from servers and from callers. What
  counts is the order of a search, the edge of a comparison or of an integer, and
  what a text may show; and that two functions agree which look at one thing in
  two ways (`Status` and the next request, the endpoint and the models route).

Each hazard is listed at its line in `PROJECT.json`.

## 2. Modules

```
AuthFile <- CredStore --(refines)--> AuthStore      CredStoreProofs
TokenServer <- CodexTransport <- AuthSession        CodexTransportProofs <- AuthSessionProofs
                              <- ModelCatalog                            <- ModelCatalogProofs
BrowserLogin <- ClientLogin -> DeviceLogin          BrowserLoginProofs <- ClientLoginProofs
Classifier Allowlist Pkce Endpoint CatalogAnswer AccountId  <- ClientCalls
TokenAnswer <- SafeErrors                                   <-   ClientCallsProofs -> ClientCallsLemmas
```

An `MC...` module only gives values to constants. An operator named `Bad...` is
the definition that follows it with a plausible bug: the specifications do not
use it, and each property is shown to fail when it takes the place of the
original.

**AuthFile, AuthStore, CredStore.** `AuthFile` has the contents of `auth.json`
(an entry or none for each provider) and what a request does to them. In
`CredStore` a thread's `pc` names the system call it makes next, so that its
actions are the calls of `loadWithPath`, `saveWithPath`, `deleteWithPath` and
`atomicWrite` in their order: `LockMu`, `Stat` or `Mkdir`, `AcquireShared` or
`AcquireExclusive`, `ReadLoad` or `ReadEdit`, `Write`, `Sync`, `Rename`,
`SyncDir`, `ChmodDir`, `Unlock`, `Return`; `Fail` is the error return of any of
them. `file` is `auth.json` as processes see it, `stable` what a power loss
leaves, `synced` whether its bytes have reached the disk. `Crash` kills a
process, `PowerLoss` all of them. `AuthStore` is what callers may rely on: one
value, changed by one request at a time at some instant inside its call.
`ImplementsAuthStore` is the refinement.

**TokenServer, CodexTransport.** `TokenServer` is external: the endpoint as
`exchange.go` describes it. Token sets are numbered; `live` are the refresh
tokens it accepts, `young` the access tokens with more than 60 s to live (all
that `isValid` asks), `orphan` the requests that nobody waits for any more.
`CodexTransport` has one action for each step of `ensureFresh` and `RoundTrip`.
Load, save and wipe are single steps on `disk`: that the store lets its callers
see it so is what `CredStoreProofs` proves. `Faults` says which faults an instance has.

**AuthSession** adds users who log in to several accounts and log out, next to
transports that refresh. `label` records for each token the account id that the
login it comes from found, or none. The answer to a login may lack a refresh token;
what is stored is then used until it is stale, and a logout has nothing to revoke.

**ModelCatalog** adds the gate and the steps of `ListModels` around those of a
transport. `Cancel` may come at any time, from the caller or from the timeout of
the HTTP client. A `Goroutine` of the transport is a caller here, with a
transport of its own that is dropped at the end of the call.

**BrowserLogin** has the login goroutine (`pc`), the goroutines that serve
(`serve`), the one that watches the context (`watcher`), callbacks in the handler
(`requests`), the channels and the `sync.Once`, for several logins that want
port 1455 of one machine. Each bind and each listener may fail at any time. `StartCallbackServer` always binds that port:
`Options.CallbackPort` is stored in the client (`client.go:78`) and not read.

**DeviceLogin** counts time in ticks: one timer, one cap, and a `Duration` of
`Word` values.

**ClientLogin** is `Client.Login` (`public.go:87`): it takes the device flow when
it is forced or no browser can be started, the browser flow otherwise, and stays
with it. It extends `DeviceLogin` and instantiates `BrowserLogin` with one login.

**ClientCalls** and the pure modules. Each function is an operator in a module
of its component; `ClientCalls` has an action for each public call, which takes
any input of the instance and keeps what is returned in `ret`. Only
`GenerateVerifier` takes several steps, one for each random byte (`gen`).

| Module | Functions | An input is |
|---|---|---|
| `Classifier` | `ClassifyCodexError`, `findErrorCode` | a tree of errors, numbered in the order of a walk; which of them are joined; their codes |
| `Allowlist` | `IsCodexAllowed` | the digits of two numbers, and the rest of the name |
| `Pkce` | `GenerateVerifier` | a byte |
| `TokenAnswer` | `postForm`, `ExchangeCode`, `RefreshToken`, `credentialsFromResponse`, `isValid`, `Status` | an answer of the token endpoint, a stored entry, a time |
| `SafeErrors` | the errors of `ensureFresh`, `safeRemoteRefreshError`, `logInvalidGrant`, `catalogRequestCause` | an answer, what the disk says, an error of the base transport; an error is the code that can be found in it and what its text shows |
| `Endpoint` | `parseEndpoint`, `modelsEndpoint`, `isLoopbackHost`, the rewriting in `RoundTrip`, `CheckRedirect` | a raw URL by its parts, its path by segments; redirect targets |
| `CatalogAnswer` | `decodeModelCatalogResponse`, `convertModelCatalogEntry` | a response by what is wrong with it, its entries by flaw, visibility and priority |
| `AccountId` | `ExtractAccountID`, `decodeBase64URLTolerant` | an ID token by the number of its segments, length and padding of the payload, its claims |

## 3. Runs

| Run | Instance | States | Properties |
|---|---|---|---|
| `credstore` | 3 threads, 2 processes, load/save/delete | 128 k | `TypeOK` `MergeIsCurrent` `ReadersExcludeWriters` `SuccessIsDurable` `NeverTorn` `ImplementsAuthStore` `CallsReturn` |
| `transport_alone` | 1 transport, 3 goroutines, 3 token sets, all faults but `dirty` | 196 k | `TypeOK` `RefreshOnceWhenStale` `PersistBeforeUse` `NoDeadLoop` `MemMatchesDisk` `WipesOnlyTheDead` `RoundTripReturns` |
| `transport_shared` | 2 transports, 3 goroutines, 4 token sets, faults `load` `wipe` `revoke` | 2.1 M | `Custody` |
| `catalog` | 2 callers, 3 token sets, all faults but `load` `wipe` `crash` | 76 k | `CatalogTypeOK` `RefreshesSerialized` `NoDeadLoopAcrossCalls` `NothingSentWhenLate` `CallsWipeOnlyTheDead` `ListModelsReturns` |
| `session` | 2 transports, 1 user, 2 accounts, 3 token sets | 4.2 M | `SessionTypeOK` `TokensKeepTheirAccount` |
| `browser_login` | 2 logins, another program, 1 callback at a time | 3.7 M | `TypeOK` `ExchangesOwnCode` `ReceivesAlone` |
| `client_login` | 1 call, either flow, 4 kinds of interval | 126 k | `ClientTypeOK` `PollsSpaced` `EitherReturns` `NothingLeaks` |
| `client_calls` | 1 call of each function, all inputs within the bounds below | 287 k | `FirstCodeInOrder` `NewerStaysAllowed` `StatusForetells` `GrantIsUsed` `CatalogErrorsAreSafe` `BearerOnlyWhereAllowed` `ModelsRouteIsStable` `CatalogSortedStably` `AccountIdSurvivesPadding` `VerifierUniform` |
| `transport_wipe_race` | 2 transports | violation | `WipesOnlyTheDead` |
| `transport_no_bearer` | 1 transport, 2 goroutines | violation | `BearerPresent` |
| `session_logout_race` | 1 transport, 1 user | violation | `LogoutRevokesStored` |
| `device_expiry` | 1 login | violation | `ExpiryIsTyped` |

What they show:

- The lock file, the merge under it and the rename make the store atomic for all
  threads of all processes, over crashes and power loss. The condition is that
  the directory can be synced: `atomicWrite` ignores that error
  (`credstore.go:337-341`), and with `DirSyncFails = TRUE` a save that answered
  nil can be undone by a power loss.
- A transport that has `auth.json` to itself never refreshes twice at once, never
  refreshes without need, and never tries a rejected token again. With a save
  that fails after its rename (the fault `dirty`: the last `Chmod`,
  `credstore.go:344`) memory and disk part, which is why `MemMatchesDisk` is
  checked without it.
- Several transports on one `auth.json` never drop a good refresh token, as long
  as no answer is lost and no process dies with one in its hands. (With those
  faults a rotated token is lost by the nature of rotation.)
- **The wipe races** (`transport.go:193-209`): between loading the dead entry and
  wiping it another process can save a live one, which the wipe deletes. Calls of
  `ListModels` on one client are free of this race (`CallsWipeOnlyTheDead`).
- **A request without a token** (`transport.go:331`): a goroutine reads `t.creds`
  after `ensureFresh` has returned; if another one's refresh is rejected in
  between, its bearer token is empty.
- Tokens stay with the account of their login, whatever logins, logouts,
  refreshes and adoptions interleave. The exception is a login whose ID token
  names no account: an old transport that adopts its tokens adds its own account
  id (`transport.go:195`) and may save it; the property leaves such tokens out.
- **Logout** (`public.go:110-161`) revokes the token it has loaded and deletes
  what is stored by then; a refresh in between leaves a token that is neither
  stored nor revoked.
- The gate of the catalog makes up for the missing singleflight group. This needs
  a disk that can be read and wiped: with a wipe that fails the dead entry is
  still there for the next call.
- Two browser logins never exchange each other's code. At most one of them receives
  callbacks at a time, since each needs the IPv4 address; the one that does has every
  address that it could bind, and a login whose listener fails stops waiting.
- **IPv4 alone** (`callback.go:69-77`): when the IPv6 `Listen` fails with anything but
  `EADDRINUSE` (no IPv6, but also no file descriptor left, or no permission), the login
  waits on 127.0.0.1, whoever has `[::1]:1455`. The redirect names `localhost`
  (`constants.go:22`), so that a browser which tries `::1` first may bring the code to
  another program. `ReceivesAlone` does not say otherwise.
- A port may stay bound for a moment after the login
  has returned, when its serving goroutine has not run yet (`callback.go:109`);
  `NothingLeaks` shows that it is given back.
- `Client.Login` returns whichever flow it has taken, although nobody ever
  authorizes and no callback comes, and it polls no faster than it was asked to,
  for every interval that a `time.Duration` holds.
- **The cap of the device login** (`login_device.go:258-262`): when it passes
  during a poll, the caller gets the bare `context.DeadlineExceeded` of the inner
  context and not the `*DeviceError` of the other path.
- **Errors passed over** (`classifier.go:62`): `errors.As(err, &multi)` goes down a
  chain of errors to the first joined one without looking at codes, and
  `findErrorCode` then goes on with what that one wraps. The codes of the errors
  in between, and of the joined error itself unless it comes first, are never
  read. `FirstCodeInOrder` holds for the codes that are left.
- `Status` foretells the next request, with one asymmetry: an entry without a
  refresh token counts as not logged in (`status.go:24`), while `HTTPClient` uses
  its access token as long as it is valid (`public.go:204`). No answer but
  `invalid_grant` ends a session.
- A granted token is used for its time but for the last minute. A token that
  lives less than that is refreshed for each request; so may be one whose end in
  milliseconds is beyond an `int64` (`exchange.go:112`), which wraps around.
- What the token endpoint said, and the client version, stay out of the errors
  and the log of `ListModels`, while the OAuth codes that are known get through.
- A bearer token leaves the client once for each request, to the host of the
  endpoint and under its scheme, whatever URL the caller gives and whatever the
  server redirects to. An endpoint that is accepted has a models route that is
  accepted too, and that is its own models route.
- The catalog is what the server sent, filtered and stably sorted; an ID token
  names one account however its payload is padded; every character of a verifier
  is as likely as any other; a version that is allowed stays allowed.

### Bounds

`MaxGrants` bounds the token sets the endpoint issues. Three are enough for a
token, the one it is rotated to by one process, and the one that is rotated to
by another; `transport_shared` has a fourth. When the bound is reached the
endpoint fails every refresh, so that reaching it stops nobody. Three threads of
two processes have a pair within a process and a pair across; two transports, one
of them with two goroutines, likewise. Callbacks arrive again and again, and
`MaxServed` bounds how many are handled at a time. The request set of
`credstore` saves one provider and deletes another, since only edits of
different providers can lose one another. In `client_login` a second is two
ticks, the cap 30 ticks, and a `Duration` has seven bits, so that an interval of
40 s is one that it cannot hold. Symmetry is used in runs without liveness, over
the accounts, over the goroutines of a transport, over transports together with
their goroutines, and over logins. The view of the session run leaves out the
history variables that none of its properties reads.

The functions of `client_calls` keep nothing between calls, so that one call is
enough. Trees of five errors have two coded ones on either side of a joined one
and one below it, at any depth: an error that is passed over in every position
relative to one that is not. Numbers in model names have up to three digits, with
leading zeros, and `MaxInt` is two digits long. A byte has 16 values and the
alphabet 5 characters, so that one value is left over, as 58 are of 256 for 66;
three characters may need a second and a third buffer. A second has ten units, a
time 17 bits: an hour fits, 7000 s do not. Paths have up to three segments, among
them empty ones, `..` and one with an escaped slash; redirects come once or
twice. Catalogs have up to three entries, two of which share their priority.

`CHECK_DEADLOCK FALSE` stands where the program may come to rest: when nobody is
logged in, no transport can be made and nobody calls; a login that has returned,
or a call of `ClientCalls`, is not followed by another. The store never rests, and its run checks for deadlock.

### Fairness

- A goroutine that can run is run (`WF` of its steps). A token call ends with an
  answer or at `refreshTimeout` or `tokenHTTPTimeout`; waiting for the `.lock` file
  ends at `flockTimeout` with `Fail`; so these need no fairness of another party.
- `LockMu` and `AcquireCatalogGate` have strong fairness: `sync.Mutex` hands the
  mutex to a waiter that has starved, and receivers blocked on a channel are
  served in turn.
- In the device flow of `ClientLogin` the login goes on and time passes (`WF` of
  `DeviceFlow` with `Step`, and with `Tick`); in the browser flow
  (`BrowserLogin!Fairness`) the timer of the select may fire at any time and
  fires in the end. Which flow is taken, and whether there is a call, is open.
- Callers, users, browsers, other programs and the endpoint owe nothing.

## 4. Proofs

TLAPS checks the `...Proofs` modules and `ClientCallsLemmas`, for any sets of processes, threads,
transports, goroutines, users and logins, any word size, any bound on the token
sets and any set of faults, from the `ASSUME`s of the modules: `ProcessOf` and
`TransportOf` are functions, the special values are not members of the sets,
`MaxGrants` is positive, two calls of the catalog have no transport in common
(`client.go` makes one for each), a `Duration` has an even number of values. Where
a theorem needs more, its statement says so (see *Hypotheses* below). Each
inductive invariant is checked by TLC on the instances of the runs before it is
proved; it is proved with one step for each action.

**CredStoreProofs.** `TypeCorrect`, `NoLostUpdate`, `ReadersAlone`, `Durability`
(assuming `~DirSyncFails`), `Untorn` and `Refinement`. The inductive invariant
`IInv` adds to `TypeOK` and `MergeIsCurrent`: who holds which lock at which `pc`
(`LockInv`: a thread past the lock and before its unlock is the holder, and
shared and exclusive holders exclude each other), what the locals of a thread
are at which `pc` (`LocalInv`), that what is renamed has been synced
(`SyncInv`), and what `stable` is while a writer is at work (`DurableInv`).
`MergeIsCurrent` is not inductive without `LockInv`: only the lock says that
nobody else renames between a thread's read and its rename. `Refinement` maps
every action to a step of `AuthStore` or to a stutter; the rename, or the result
of a request that writes nothing, is the instant at which it takes effect.

**CodexTransportProofs.** `TypeCorrect`, `SingleFlight`
(`RefreshOnceWhenStale`) and `SavedBeforeUse` (`PersistBeforeUse`), for any
transports that share a disk and with every fault; `TokensInCustody` for any
transports; `RejectedOnce` (`NoDeadLoop`), `MemoryMatches` and `WipesTheDead` for
a transport that has the disk to itself. The invariant is built in layers.

- `IInv`: the leader of a flight and nobody else runs its function, what it posts
  is still what the transport holds, and stale (`FlightInv`); a flight is led by a
  goroutine of its own transport (`LeaderInv`); what is on disk, in memory or
  about to get there has been saved (`SavedInv`).
- `FullInv` adds `TokenInv`: until its flight is over a transport holds what the
  flight started from, and a token that was rejected, or replaced by an answer
  not saved yet, is not accepted any more. All that follows, here and in the two
  modules that extend this one, rests on it.
- `CustodyInv`: while a transport is up, each live refresh token is *in memory*, in
  a transport or in a flight about to save it. `Custody` lets the disk hold it as
  well, and is not inductive: the wipe race may delete a good entry, and nothing
  is lost only because the one who has saved it holds it still.
- `DeadInv`: what a lone transport holds, is about to save, or could load has not
  been rejected, but for the flight that has just seen it rejected; an entry that
  could not be wiped stays on disk, but then memory is empty or holds the same
  token, so that it is not loaded again.
- `MatchInv`: `MemMatchesDisk` speaks of the time between flights, and has to be
  carried through each `pc` of a flight. That a lone transport never reaches
  `adopt` is a part of it.

**ModelCatalogProofs.** `CatalogTypeCorrect`, `Serialized`
(`RefreshesSerialized`), `LateCallsSendNothing` (`NothingSentWhenLate`),
`CallsWipeTheDead` (`CallsWipeOnlyTheDead`), all with every fault, and
`RejectedOnceAcrossCalls` (`NoDeadLoopAcrossCalls`). `CatalogInv` is `FullInv`,
`CatalogTypeOK` (by which whoever is past the gate is its one holder), `CallInv`
(where a call is in `ListModels` against where its transport is, and that a late
call is not past the last look at its context) and `SeedInv`: until it saves, the
transport of the call that holds the gate has what is on disk. `SeedInv` is why no
wipe race exists here. The steps of the catalog that are none of the transport
(`Release` drops a transport, `CheckContext` ends a flight early) keep `FullInv`
too, because no other call has that transport. `WipedInv` adds that a rejected
token is gone from disk before the gate is given back.

**AuthSessionProofs.** `SessionTypeCorrect` and `AccountsKept`
(`TokensKeepTheirAccount`), with every fault. `LabelInv` states the account's
agreement with `label` not only for disk and transports, as the property does, but
at each place from which credentials can get there: `old` and `got` of each flight,
and what a login holds. `HeldInv` says that a login about to save has tokens. Logins
and logouts keep `FullInv`, since the endpoint issues to them what it has never
issued before.

**BrowserLoginProofs.** `TypeCorrect`, `OwnCode` (`ExchangesOwnCode`) and
`WaitsAlone` (`ReceivesAlone`), for any number of logins, programs and callbacks. `CodeInv` follows a code from the handler through the channel into the
login; `FreshInv` says that a login without goroutines serves nothing and has an
unused `sync.Once`, and `PortInv` that whoever has a goroutine for an address, or is about to start the one for
IPv4, has the address. `ReceiveInv` says that no listener of a login has failed while no
error is in its channel and its shutdown has not begun. From these two `ReceivesAlone`
follows: two logins that receive would both have the IPv4 address.

**ClientLoginProofs**, first about `DeviceLogin`: `Spacing` (`PollsSpaced`), for every
interval that a `Duration` holds; one that it does not hold wraps around, and is polled
with a wrong pause or with none. `PauseInv`: what has passed since the last poll and what is left on the timer
make up the pause that was asked for, if a `Duration` holds it; `DurationRange` and
`DurationExact` are the arithmetic of a signed word. `ClockInv` keeps the time
passed within the cap. Then about `ClientLogin`: `ImplementsDeviceLogin` and `ImplementsBrowserLogin`: a call of
`Client.Login` is a behaviour of `DeviceLogin`'s `Spec` and, with one login, of
`BrowserLogin`'s, whichever flow it takes. `ClientTypeCorrect`, `ClientSpacing` and
`ClientOwnCode` are the theorems of those modules carried over, with `RouteInv`
(the flow not taken has not begun).

**ClientCallsProofs.** A theorem for each property of `client_calls`:
`StatusForetold`, `SecretsStayIn` (`CatalogErrorsAreSafe`), `GrantUsed`
(`GrantIsUsed`), `BearerStaysHome` (`BearerOnlyWhereAllowed`), `RouteStable`
(`ModelsRouteIsStable`), `CatalogSorted` (`CatalogSortedStably`), `FirstCode`
(`FirstCodeInOrder`), `NewerStays` (`NewerStaysAllowed`), `AccountFound`
(`AccountIdSurvivesPadding`) and `NoCharacterFavoured` (`VerifierUniform`), for every
input of its type: answers, entries, endpoints with paths of any length, requests,
chains of redirects, trees of any size, versions of any number of digits, catalogs of
any length, ID tokens, and any size of alphabet, byte and `int64`.
`ClientCallsAssumption` gives the inputs these types: times are within the `int64`
(the end of a token need not be), and `slug` numbers the entries of a catalog, which
only says how an entry is named. A call ends in the step that makes it, so that a
lemma about the function does the work, and `OneCall` says that no other step sets
what it returned. Only `GenerateVerifier` takes many steps: `GenInv` says what is
filled in and how much, and that equally many bytes give each character is a
bijection, `b - c + d` for `b` (`Shifted`, `EquallyMany`), with the arithmetic of a
threshold that is a multiple of the alphabet.

**ClientCallsLemmas** has what the recursive definitions compute, for every input.

- *Induction.* The induction theorems of the library take an operator, which the
  provers here cannot instantiate. They can with sets: the strict subsets of a finite
  set are well-founded, so each set of naturals has a least element (`LeastNumber`),
  so a set with 0 and with the successor of each of its members has all of them
  (`Induction`, and `Upwards` and `Downwards` within an interval).
- *Recursion.* A recursive function is `CHOOSE` of one that satisfies its equation,
  which says nothing until there is one. `Recursion` constructs it when each value
  depends on those of smaller rank only; the equation enters as data, `D[i][g]` being
  the value at `i` when the others are as in `g`. `FoldWitness` and `FoldRuns` make of
  a fold over a sequence the values it runs through.
- *Numbers.* `Atoi` runs from digit to digit; of two numbers without leading zeros the
  longer is greater, and the first digit to differ decides (`GreaterCounts`,
  `NotGreaterCounts`).
- *Trees.* The nodes below a node come after it and before its next sibling
  (`SubOfWrapped`, `SubsInOrder`). The way from a node to its first joined error has
  one child at each step (`SubOfWayDown`), so what `findErrorCode` skips is what
  `PassedOver` names (`LiveBelow`), and by induction from the last node to the first it
  finds the first code below each node (`FoundFirst`).
- *Paths.* `path.Clean` keeps names only and leaves a path of names alone
  (`CleanNames`, `CleanStays`); hence a models path is its own (`ModelsPath`). Slashes
  at the end are trimmed (`SlashesTrimmed`). No prover here knows that a literal is
  in `STRING`, so the lemmas speak of `Segment`, which is `STRING` with the two
  literals that occur, and is the same set.
- *Catalogs.* An insertion behind those of at most its own priority keeps the order
  and all that was there (`Inserted`, `InsertedInOrder`); the rest is two folds
  (`ShownInOrder`, `SliceSorts`).

**Hypotheses.** Each is a weakness of the code or a case in which no code could do
better; the runs keep to the same conditions, and without them there are
counterexamples.

| Hypothesis | Theorems | Why |
|---|---|---|
| `~DirSyncFails` | `Durability` | `atomicWrite` ignores the error of syncing the directory (`credstore.go:337-341`) |
| `NothingLost`: none of the faults `call`, `save`, `dirty`, `crash` | `TokensInCustody` | the endpoint has rotated by then, and the answer exists nowhere else |
| `Alone`: one transport on `auth.json` | `RejectedOnce`, `MemoryMatches`, `WipesTheDead` | another one rotates the token away, or loses the wipe race (`transport.go:193-209`) |
| `"dirty" \notin Faults` | `MemoryMatches` | a save whose last `Chmod` fails has replaced the file and reports an error (`credstore.go:344`) |
| `LoadsAndWipesWork`: none of `load`, `wipe` | `RejectedOnceAcrossCalls` | a dead entry that cannot be wiped is there for the next call |
| `BaseShowsNothing`: the base transport's own errors show neither the token answer nor the client version | `SecretsStayIn` | the token client does not go through it; `ListModels` returns its errors as they are |

**Only model-checked.** Liveness (`CallsReturn`, `RoundTripReturns`,
`ListModelsReturns`, `EitherReturns`, `NothingLeaks`), which is beyond the prover, and
the four disagreements, of which a run finds a counterexample each. Every other
property of a run is stated by a theorem, under the hypotheses above.

## 5. Not modelled

- Paths that cannot be resolved: the call returns before it touches anything.
- The directory of `auth.json`, once made, survives a power loss, although its
  own entry in the parent is not synced. JSON keys of `auth.json` that the
  program does not know, and drops when it rewrites the file.
- Header names (User-Agent, session id, account id) and the body of a request;
  wording and prompts. Of `net/http`, `net/url`, `path`, `errors` and
  `encoding/base64` what the code relies on, as external definitions.
- What depends on single characters: the regular expression of model names, the
  case of host names, the literals that are loopback addresses, escapes other
  than `%2F`, the size limits of bodies (an answer that is cut off is one that
  cannot be decoded). The SHA-256 challenge and the state nonce.
- `NewClient` and its defaults (`client.go`): straight-line assignments; the
  wrappers at package level, which call a `Client`.
- `authorize.go`, `browser*.go`, `constants.go`, `doc.go`, `cmd/smoke`: formatting,
  starting a command, values, an example.

## 6. Plan

In the order of importance. All of it is done.

1. `CredStore` against `AuthStore`, with proofs.
2. `CodexTransport` over `TokenServer`, with its first proofs.
3. `ModelCatalog` and 4. `AuthSession` over `CodexTransport`.
5. `BrowserLogin`.
6. `DeviceLogin`.
7. `ClientLogin`, the composition of the two.
8. The pure functions and `ClientCalls`.
9. Proofs of the safety of all of them.
10. What the recursive functions compute for every input, and with it the last four
    invariants of `client_calls`.

What would come next: the system calls under the directory of `auth.json` (its own
entry in the parent is not synced), and the request body and headers, should the
program come to decide anything by them.
