# TLA+ models of the nuts-node OpenID4VP, CRL and DID-resolution code

This directory holds TLA+ specifications of the code under `src/`, the
TLC models that check them on small instances, and TLAPS proofs of the
main invariants and of a refinement for every value of the constants. `PROJECT.json` lists:
- the components and how far each is modelled;
- every run and what it checks;
- the mutants that show each property can fail;
- the map from each definition to the source lines it translates;
- the findings and the hazards.

## 1. The system

| Part | Source | State it changes | Concurrency |
|---|---|---|---|
| Holder-initiated authorization (verifier side) | `auth/api/iam/openid4vp.go` 65-177 | mints a nonce and a state; Puts the session under both | one goroutine per HTTP request |
| Presentation validation pipeline | same, 351-514 | Gets the nonce session; Deletes the challenges; Puts an authorization code | goroutines race on one nonce |
| Token exchange | same, 516-557 | Gets the code; issues a token | concurrent redemptions |
| Authorization error response | same, 322-349 | none (reads the state store; answers with a redirect) | — |
| Verifier-initiated flow (wallet side) | same, 179-253 | none locally; posts to the verifier | — |
| Direct-post responder | same, 255-310, and `auth/client/iam/openid4vp.go` 77-111 | posts an error or a response; follows the verifier's redirect | — |
| Demo consent flow | same, 559-759 | one session Put, one Get; HTML pages | one request per step |
| Remote client adapter | `auth/client/iam/openid4vp.go` | none (HTTP wrappers) | — |
| CRL database | `crl/db.go` | bloom-filter bits and the stored CRL per endpoint | a goroutine per endpoint in Sync; IsRevoked concurrent with them |
| DID resolvers | `vdr/didservice/resolvers.go` | none (reads the DID store) | — |
| Mocks and tests | `vdr/mock.go`, `crypto/test.go`, `vdr/api/v2/api_test.go` | — | — |

How the parts interact:
- The verifier node serves `/authorize`. It mints a nonce and a client state and stores the session under both.
- The wallet, either a nuts node running the verifier-initiated flow or an external wallet, answers by posting a `vp_token` to the response endpoint.
- The submission handler looks the session up by the first presentation's challenge. It burns the nonce in `validatePresentationNonce` and stores an authorization code.
- The client then redeems that code at the token endpoint.

The session store is not under `src/`. It is modelled from the spec as three namespaces: nonce, client state and code. Each is a total function from keys to a session or `None`.

The CRL database and the DID resolvers are stand-alone. Outside `src/`, credential verification calls them; inside `src/`, no code calls them.

## 2. Modules

### OpenID4VPVerifier (verifier side)

The variables:
- `nonceStore`, `stateStore` and `codeStore` are the three namespaces.
- `used` is the set of random values generated so far. A fresh value is one not yet in it.
- `handler[p]` is the submission goroutine `p`, either idle or between its nonce lookup and its burn.
- `tokens` are the tokens issued.
- `authorized`, `accepted` and `consumed` are histories: which session each nonce was stored with, which (nonce, code) pairs were minted, and which nonces a submission has finished with.

The actions:
- **`HandleAuthorizeRequestFromHolder`** models lines 65-177. It Puts the session under the nonce and then under the state. Either Put may fail, and the failures are separate disjuncts.
- **`HandleAuthorizeResponseSubmission`** models lines 351-379. It reads the first challenge and Gets its session.
- **`RejectAuthorizeResponseSubmission`** models the early returns of lines 381-410. These run before any nonce is burned.
- **`CompleteAuthorizeResponseSubmission`** models lines 412-455. It Deletes every challenge, then runs the nonce loop, then Puts the code (which can fail).
- **`HandleAccessTokenRequest`** models lines 516-557.
- **`Expire*`** models the store's flow timeout.

`ValidatePresentationNonce` is the loop of lines 486-514. It is written as a recursive function over the presentations, not a RECURSIVE operator, so the module stays within the prover's reach.

Sitting 2 added:
- `ClientStates` and the history `requested`: the state parameter the client sent, if any. The code never reads it.
- **`HandleAuthorizeResponseError`** models lines 322-349. A state found in the state store answers with a redirect to the session's redirect_uri, recorded in `errorRedirects`. Otherwise it answers with an error page, which changes nothing.
- `accepted` records the verifier whose response endpoint minted the code, and the session's state.

### AuthorizationCodeGrant (abstract verifier)

This is what the verifier promises its clients, taken from spec section 3:
- `Authorize(n, sess)` grants a session under a nonce never granted before.
- `Accept(n, c)` binds a fresh code to a granted nonce.
- `Redeem(c, r, client)` issues a token only for a bound code, with the redirect and client of its session.

`OpenID4VPVerifier` instantiates it as `Grant` with this refinement mapping:
- `grant` is `authorized`;
- `issued` is the set of (code, nonce) pairs of `accepted`;
- `tokens` is `tokens`.

The abstract spec leaves out how many codes a nonce yields and how often a code is redeemed. Findings 1 and 2 are about exactly those, so the refinement holds for the code as it is.

### OpenID4VPConsent (wallet consent flow)

`db[path][id]` is the session database as a store per key path, where a path is the sequence of string parts given to `GetStore`. The actions:
- **`HandlePresentationRequest`** models lines 584-686. It Puts the session under a fresh uuid at `<<OwnDID, "session">>`, and the Put can fail. Its parameter and definition checks fail before any state change, so they are not separate steps.
- **`HandlePresentationRequestAccept`** models lines 689-731. It Gets from `<<"openid", session.OwnDID.String(), "session">>` with `session` still zero-valued. That is `NoDID`, the zero DID's string. If it finds nothing the answer is "invalid session"; otherwise building the presentation may fail or lead to a redirect.
- **`ExpireSession`** models the database's expiry.

### OpenID4VPWallet (wallet side)

One step handles one request of `handleAuthorizeRequestFromVerifier`:
- `Gates` lists lines 198-249 in order. For each gate it gives its condition, its error code, and whether the error is returned or posted.
- `FirstFailure` picks the first gate that fails.
- `SendAndHandleDirectPostError` and `SendAndHandleDirectPost` model the responder together with the client's `PostError` and `PostAuthorizationResponse`. These do `ParsePublicURL`, add the state query, post, and then run the `strings.HasPrefix` check against `didweb.DIDToURL(wallet)`.

A URL is a sequence of pieces: host pieces first, then path pieces. So `HasPrefix` is a prefix of sequences, and the origin of a URL (`Origin`) is its pieces before the first path piece. `WalletAssumption` states this representation: a wallet DID is a host piece and a path of path pieces, and a location is a sequence of pieces.

The state holds three things:
- the request's inputs;
- the posts made;
- the answer given to the user agent.

### CRLDB

The variables:
- `lists[ep]` is the version of the stored CRL.
- `bitSet` is the set of bits that are set.
- `gor[<<k, ep>>]` is the goroutine that Sync call `k` started for `ep`. Its states are `start`, `download`, `fetched(v)` and `done`.
- `reader[r]` is an `IsRevoked` call between its unlocked bit read and its scan under the lock.
- `answers` is a history of what each call returned, and whether the certificate was listed when the call started.

The actions follow the lock boundaries of the code:
- **`UpdateCRL`**: the read under the read lock, lines 69-79.
- **`DownloadCRL`**: the GET and parse without the lock, lines 82-97. It either fails or yields the version the endpoint serves now.
- **`StoreCRL`**: `setRevoked` for every entry and the list replacement, under the write lock, lines 99-110.
- **`Sync`**: starts one goroutine per endpoint once the previous call's goroutines are done (`wc.Wait()`).
- **`IsRevokedBit`** and **`IsRevokedScan`**: the two halves of `IsRevoked`.
- **`Publish`**: the issuer's new CRL. It makes the stored CRL expire.

`Hash` and `BitNum` model `int64(math.Abs(float64(h))) % Len` at a width of `HashWidth` bits. Go's truncating `%` is modelled, and so is the platform's result for the out-of-range conversion (`OverflowResult`). The model's `|h|` is exact. That agrees with the float64 round trip for every hash below 2^53, which covers the run's 4-bit hashes. Above 2^53 the code rounds as well, and hashes near `MaxInt64` round up to 2^63 and overflow too. So the model's set of bad hashes is a subset of the code's.

### RevocationList (abstract CRL database)

It states what the CRL database promises its callers, with no filter, no goroutine and no Sync:
- `current[ep]` is the version endpoint `ep` has published last, and `lists[ep]` the version kept for it.
- **`Publish`**: the endpoint publishes its next version.
- **`Refresh(ep, v)`**: the kept list of `ep` is replaced by a published version `v` that is not older than the kept one.
- **`Lookup`** and **`Scan`**: an `IsRevoked` call either answers at once, or starts and answers later. Its answer is whether a kept list revokes the certificate when it answers.

`CRLDB` instantiates it with the same names (`Revocation == INSTANCE RevocationList`), hides `bitSet`, `gor` and the Sync counter, and checks `RevocationSpec == Revocation!Spec` as a property of `crl_sync`.

### DIDResolver

`ResolveAt`, `ControllersAt` and `ResolveRefs` model `resolve` and `resolveControllers` (lines 52-130), including:
- the depth counter;
- the loop that skips deactivated controllers and controllers with no active controller, and stops at any other error;
- the filter of deactivated leaves.

`ResolveEx` models `ServiceResolver.ResolveEx` (lines 289-343). It resolves each document with the controller check and follows references one level deeper.

The store is fixed within a behaviour. The steps are calls to `Resolve` and `ServiceResolver.Resolve`, and their results are recorded. This module uses RECURSIVE operators and is checked by TLC only.

## 3. Runs

Each passing run has one mutant per property. A mutant replaces one definition by a plausible bug, TLC finds the property violated, and `PROJECT.json` lists them.

| Run | Checks | What it shows |
|---|---|---|
| `verifier_flow` | `TypeOK`, `AcceptedNonceBurned`, `TokenBoundToAuthorization`, `AcceptedPresentationsAgree`, `ErrorRedirectToRequester`, `GrantSpec` | With two goroutines racing on nonces, with expiry and with partial Put failures: (1) a nonce that yielded a code is gone from the store; (2) every token matches the redirect and client of the authorization its code came from; (3) every presentation of an accepted `vp_token` carries the nonce its first challenge looked up; (4) an error redirect goes to the redirect_uri of the request that minted its state; (5) the verifier implements `AuthorizationCodeGrant`. |
| `wallet_flow` | `TypeOK`, `ErrorRedirectOnWalletOrigin`, `LaterFailurePosted` | Over every combination of parameters and remote results: (1) after an error post the user agent is only sent to the wallet's own origin; (2) only public response URIs are posted to; (3) as the comment of line 203 says, every failure after `response_uri` is read is posted there, with the verifier's state and the gate's code. |
| `crl_sync` | `TypeOK`, `FilterCoversLists`, `IsRevokedNoFalseNegative`, `ListsNeverRegress`, `RevocationSpec` | The bloom filter covers every stored list, no step replaces a stored list by an older version, and no `IsRevoked` call answers false for a certificate that was listed when the call began. This holds while three Sync calls and a reader interleave with new CRLs. The database implements `RevocationList`; its mutant answers true from the scan whenever the bit is set, a false positive of the filter that none of the other properties rules out. |
| `did_resolution` | `TypeOK`, `ResolveSound`, `ServiceMatchesReferenceChain` | `Resolve` only accepts a document that an active controller chain of at most 5 levels reaches. Service resolution ends exactly where the reference chain reaches a plain endpoint within `maxDepth`. |
| `double_acceptance` (violation) | `NoDoubleAcceptance` | Two submissions of one nonce both pass the Get and both mint a code. |
| `code_reuse` (violation) | `CodeSingleUse` | A redeemed code stays in the store. |
| `nonce_left_on_failure` (violation) | `ConsumedNonceBurned` | A submission rejected before `validatePresentationNonce` leaves its nonce usable. |
| `wallet_error_not_posted` (violation) | `FailureWithResponseURIPosted` | A wrong `response_mode` is answered locally even though a usable `response_uri` was given. |
| `crl_negative_bit_index` (violation) | `BitNumInRange` | On amd64, a hash equal to the minimum int64 gives a negative bit number. |
| `tenant_nonce_crossing` (violation) | `NonceBoundToVerifier` | With two tenants, a nonce minted by one is accepted at the other's response endpoint. |
| `client_state_dropped` (violation) | `CallbackCarriesClientState` | The callback carries the state the verifier minted, not the one the client sent. |
| `consent_session_lost` (violation) | `ConsentFindsSession` | A consent for a stored, live session ends in "invalid session". |

### Findings

1. **Double acceptance** (`openid4vp.go:491`). The nonce is read with Get and deleted later, and the Delete's result is ignored. The spec (section 5) promises that a racing duplicate is never a double acceptance.
2. **Code reuse** (`openid4vp.go:528`). The token exchange never deletes the authorization code. The spec (section 3) says a code is redeemable at most once.
3. **Nonce not burned on early failures** (`openid4vp.go:381`). The early rejections of stages 4-6 return before the nonce is burned. The spec (sections 3 and 5) says a nonce is burned on every path.
4. **`response_mode` checked first** (`openid4vp.go:199`). It is checked before `response_uri` is read. The spec (section 4.2) orders `response_uri` and state first, so that every later failure is posted.
5. **Negative bit index** (`crl/db.go:41`). For the minimum hash, `math.Abs` through float64 converts back to a negative int64 on amd64, so the bit number is negative.
6. **Tenants share the nonce namespace** (`openid4vp.go:762`). The nonce store is not partitioned per tenant, and the submission handler never compares the session's `OwnDID` with the `{id}` of its endpoint. The spec (section 3) says the stores are partitioned per owning party.
7. **The client's state is dropped** (`openid4vp.go:452`). `handleAuthorizeRequestFromHolder` mints its own state (line 142), stores it as `ClientState` (line 161), and redirects the callback with it. The client's own `state` parameter is never read. The spec (sections 3 and 4.4) says the callback returns the client's state.
8. **Consent never finds its session** (`openid4vp.go:697`). `handlePresentationRequestAccept` builds the store path from `session.OwnDID` before `Get` has filled `session` in, and with an `"openid"` prefix. `handlePresentationRequest` Puts under `<<OwnDID, "session">>` (line 670). So every consent of the demo flow answers "invalid session".

## 4. Bounds and why they are enough

The verifier run uses:
- one verifier;
- two redirect URIs, two nonces, two states and two codes;
- two goroutines;
- `vp_token`s of at most two presentations.

Two nonces and two goroutines are the smallest instance in which a duplicate submission can race, and in which a second authorization can be confused with the first. Two presentations are the smallest case in which the loop compares one with another.

The random-value pool is the only bound on progress. Once it is used up, the node is idle rather than blocked, so deadlock checking is off there.

The violation runs for tenants and client states use two verifiers, and one client state. The passing run keeps one verifier and no client state: its properties never read the client state, and the tenant question has its own run.

Symmetry is used for all value sets, because the model only compares these values for equality.

The wallet run enumerates every parameter and remote result for one request. The handler keeps no state between requests, so one request shows all of its outcomes.

The locations include:
- one below the wallet URL;
- one beside it on the same host;
- one on a host that extends the wallet's host (`ex` followed by `.evil`);
- one on another host.

The wallet DID has a path, as the node's `did:web:host:iam:id` DIDs do.

The CRL run uses:
- two endpoints with three versions each;
- three Sync calls and one reader;
- three certificates;
- a 3-bit filter.

The certificates are chosen so that two of them collide in the filter and one hashes to the minimum of a 4-bit hash. New revocations appear in later versions. These bounds let a stored list expire, be re-downloaded while a reader is between its two reads, and fail to download.

The resolver run takes every assignment of seven document shapes, or none, to three DIDs. That gives 512 stores, covering:
- roots;
- deactivated documents;
- self-control with and without a key;
- controller cycles, which reach the code's depth bound of 5;
- missing controllers;
- reference chains and cycles.

`maxDepth` is 2, so that a chain of three documents exceeds it.

The consent run uses two owners and two session ids. That is enough for a second session to be stored beside the first and for one of them to expire. The violation needs only one Put followed by one consent.

## 5. Fairness and liveness

No run assumes fairness, and the project states no liveness property.
- **CRL Sync.** `Sync` waits for one goroutine per endpoint (`wc.Wait()`, `crl/db.go:127`). Whether it returns depends on every GET of `downloadCRL` returning, and `http.DefaultClient` has no timeout (line 82). So the code does not guarantee that Sync returns. A fairness assumption on the download step would assume away exactly that hazard. Without it, a property "every Sync returns" fails by the download never being taken, which is the blocking the hazard describes. So the hazard is listed with no property.
- **Verifier and wallet.** An HTTP handler runs only when a request arrives, and nothing in the code obliges a client to send one. Their properties are safety properties.

## 6. What is proved

`OpenID4VPVerifierProofs` proves two theorems for every value of the constants, using the single assumption `ConstantsAssumption` (`MaxVPs` is a positive natural and `None` is not a nonce):
- `TypeCorrect`: `Spec => []TypeOK`.
- `NonceBurnedOnAcceptance`: `Spec => []AcceptedNonceBurned`.

`AcceptedNonceBurned` is not inductive on its own. A later authorize request could store an accepted nonce again, and only freshness rules that out. The strengthening `IInv` adds:
- every stored nonce and every accepted nonce is in `used`, so the freshness guard keeps them from coming back;
- a goroutine between lookup and burn holds the first challenge of its `vp_token`, which is in the set `CompleteAuthorizeResponseSubmission` deletes.

The proof of `Init => IInv` and `IInv /\ [Next]_vars => IInv'` has one step per action, and one sub-step per conjunct an action can disturb. It uses the lemma `BundleFacts` about `vp_token`s. TLC also checked `IInv` as an invariant of the verifier run.

`OpenID4VPVerifierRefinement` proves `Refinement`: `Spec => GrantSpec`. The refinement invariant `RInv` adds these facts to `TypeOK`:
- a stored nonce holds the session it was authorized with;
- an authorized nonce is in `used`, so `Authorize` always finds it ungranted;
- a goroutine between lookup and burn holds the session authorized under its nonce;
- a stored code belongs to an accepted pair whose nonce was authorized with the code's session, which gives `Redeem` its witness;
- every accepted code is in `used`, so a newly minted code is fresh in `issued`.

The lemma `StepSimulation` shows that every step maps to an abstract step or a stutter:
- an authorize whose nonce Put succeeded maps to `Authorize`;
- a completed submission that stored its code maps to `Accept`;
- a token exchange maps to `Redeem`;
- every other step, the failures included, is a stutter (`GrantStutter`).

`CRLDBProofs` proves two theorems, using `CRLDBAssumption`:
- `TypeCorrect`: `Spec => []TypeOK`.
- `FilterSound`: `Spec => []FilterCoversLists`.

`FilterCoversLists` is inductive together with `TypeOK`. The only step that replaces a stored list is `StoreCRL`, and it sets the bits of the list it stores in the same critical section. No step clears a bit. The lemma `ListedRevokedDef` unfolds the set of listed certificates for any list function, the primed one included.

`CRLDBProofs` also proves two theorems about the order in which lists are stored:
- `ListsForward`: `Spec => ListsNeverRegress`. No step replaces a stored list of an endpoint by an older version, or removes it.
- `NoFalseNegative`: `Spec => []IsRevokedNoFalseNegative`, under the hypothesis `CRLMonotone`.

`ListsForward` rests on the inductive invariant `VInv`, which is `TypeOK` plus two facts:
- `OneSyncAlive`: the goroutines of every earlier Sync call are finished and those of later calls are not started. This is what `wc.Wait()` gives, and the lemma `AliveIsLatest` derives from it that a running goroutine belongs to the latest call.
- `VersionsForward`: a stored version is at most the version its endpoint serves now, and a fetched version lies between the stored one and the served one.

So `StoreCRL` only ever stores a version no older than the one it replaces.

`NoFalseNegative` needs one more fact about the environment: `CRLMonotone`, that an endpoint's CRL of a later version revokes everything an earlier one did. Issuers may drop entries of expired certificates, so this is a hypothesis of the theorem (`ASSUME CRLMonotone PROVE ...`) and not an assumption on the constants. The model's CRLs satisfy it. Its invariant `NInv` adds to `FInv` and `VInv` the fact `ReaderStillListed`: a reader that started while a certificate was listed still finds it listed, because the lists only move forward (lemma `ListedForward`).

`OpenID4VPVerifierBindings` proves two more theorems about the verifier:
- `TokenBound`: `Spec => []TokenBoundToAuthorization`.
- `ErrorRedirectBound`: `Spec => []ErrorRedirectToRequester`.

Their invariant `BInv` is `RInv` together with `StateBound` (a stored session state belongs to a session authorized under some nonce, and is keyed by its own state) and the two properties themselves. The lemma `GrantStable` says that an authorization, once recorded, is never changed, so a code or a state bound to it stays bound.

`OpenID4VPWalletProofs` proves two theorems about the wallet, using `WalletAssumption`:
- `WalletTypeCorrect`: `Spec => []TypeOK`.
- `ErrorRedirectOrigin`: `Spec => []ErrorRedirectOnWalletOrigin`, for every set of wallet DIDs whose paths are non-empty.

The invariant `WInv` is `TypeOK` plus `RedirectChecked`: every error redirect the handler gave starts with the URL of the wallet recorded for its request, which is the check of line 280. The lemma `FirstFailureRange` bounds the first failing gate, and `GateCodes` gives each gate's code.

The URL half is the lemma `OriginOfPrefix`. If a location starts with `https://host/p1...`, then its second piece is a path piece, so its origin is `https://host`, the origin of the wallet URL. The non-empty path is the theorem's hypothesis. The node's wallet DIDs are `did:web:host:iam:id`. The wallet DID reaches `sendAndHandleDirectPostError` from the caller of the handler, and for a DID of that shape the hypothesis holds. For a DID without a path, `did:web:ex`, the check would accept `https://ex.evil/...`, so the hypothesis cannot be dropped from the statement.

`CRLDBRefinement` proves `Refinement`: `Spec => RevocationSpec`, for every value of the constants and with no hypothesis on the environment. Its invariant `RefInv` is `FInv /\ VInv`. The lemma `StepSimulation` maps each step:
- `Publish` maps to `Publish`;
- `StoreCRL` maps to `Refresh(ep, v)`: `VersionsForward` puts the fetched version between the kept and the published one;
- `IsRevokedBit` maps to `Lookup`. When the bit is unset, the early answer false is what the kept lists say: that is the lemma `UnsetBitNotListed`, from `FilterCoversLists`. When it is set, the call starts;
- `IsRevokedScan` maps to `Scan`;
- `Sync`, `UpdateCRL` and `DownloadCRL` are stutters.

`CRLDBProofs` also proves `BitNumInRangeSaturating`: `Spec => []BitNumInRange`, under the hypothesis `OverflowResult = MaxInt`. That is the platform whose out-of-range float-to-int64 conversion saturates (arm64). The lemma `HashNonNegative` shows that every hash is then a natural number, and `BitNumInBounds` that its remainder lies in the bit set. Finding 5 (`crl_negative_bit_index`) is the wrapping platform, amd64. Together they show that the wrapping conversion is the only cause of the negative index.

`OpenID4VPConsentProofs` proves `ConsentAlwaysInvalid`: `Spec => []ConsentNeverFinds`, for every set of owners and session ids. So finding 8 is not an accident of the run's instance. Its invariant `CInv` adds `OpenPathsEmpty`: the paths the accept handler reads hold nothing. The lemma `PathsDiffer` says why: the paths written have two parts, and the paths read have three. `ConsentNeverFinds` was checked by TLC on the consent instance before it was proved; no run lists it, because the consent run asserts the spec's claim, which fails.

`OpenID4VPWalletProofs` also proves `LaterFailuresPosted`: `Spec => []LaterFailurePosted`. Its invariant `PInv` is `WInv` plus `AnsweredRecorded`, that an answered request records its inputs. The lemma `GatesPostAfterTwo` says that every gate after the second posts its error. Posts are only ever added, so a post stays once it is made.

Each of these invariants (`VInv`, `NInv`, `BInv`, `WInv`, `RefInv`, `CInv`, `PInv`) was checked by TLC as an invariant of its component's run before it was proved.

Five things stay with TLC:
- **Liveness**, and anything involving `ENABLED`. These are out of the prover's reach. The project has no liveness property (section 5).
- **What a recursive definition computes for every input.** `AcceptedPresentationsAgree` is about what the recursive function `NonceLoop` accepts, for `vp_token`s of any length. Proving it needs induction over the loop. The induction theorems of `NaturalsInduction` take the predicate as an operator parameter, and neither SMT nor Zenon can instantiate it. It is checked for bounded inputs only.
- **The `DIDResolver` module** (`TypeOK`, `ResolveSound`, `ServiceMatchesReferenceChain`). It uses RECURSIVE operators, and a module that reaches one loses the prover's SMT backend. Rewriting `ResolveAt` as a recursive function would still leave a proof by induction over the depth, for the same reason as above.
- **The consent module's run** (`ConsentFindsSession`). It is a violation run: the property fails in the code. The theorem `ConsentAlwaysInvalid` proves the opposite for every instance.
- **The violation runs in general**, such as `FailureWithResponseURIPosted`. Their property fails, and the counterexample is the result.

## 7. Not modelled

- **`sendPresentationRequest` and `handlePresentationRequestCompleted`.** The first builds a redirect URL and the second renders a page. Neither changes state.
- **Signature, audience and definition checks and `VerifyVP`.** These are external verification services, abstracted to their outcome.
- **The key resolvers** (`resolvers.go` 132-282). They are stateless lookups of a single document.
- **The client_id of the authorize request.** The session's `ClientID` is the verifier's DID (line 158), and the token exchange compares against that (line 539). The model has no client_id input, so whether the request's value should be used is not checked.
- **A repeated endpoint in `db.endpoints`** (`crl/db.go:117`). Endpoints are a set in the model. Two goroutines for one endpoint race in the same way as two overlapping Sync calls: the `SyncNoWait` mutant lets them overlap, and `ListsNeverRegress` catches the older list overwriting the newer one.
- **Most of the remote client adapter** (`auth/client/iam/openid4vp.go`). It is stateless HTTP wrappers, whose results are inputs of the modules that use them.
- **Generated mocks and tests** (`vdr/mock.go` and others). They contain no behaviour of the system.

## 8. Plan

Done:
- Sitting 1: the inventory and hazards; the verifier, wallet, CRL and resolver modules; findings 1-5; the verifier's type and nonce-burn theorems.
- Sitting 2:
  - tenants, client states and the error response in the verifier, with findings 6 and 7;
  - the consent module, with finding 8;
  - the abstract grant and its refinement, checked by TLC and proved;
  - CRL liveness under fairness (later removed: the fairness it needed assumed that every GET returns, which the code does not guarantee);
  - the CRL type and filter theorems.
- Proof sitting 1: `ListsNeverRegress` and its theorem; the no-false-negative theorem under `CRLMonotone`; the verifier's token and error-redirect bindings; the wallet's type and origin theorems.
- Proof sitting 2:
  - the abstract `RevocationList`, checked by TLC and proved to be implemented by `CRLDB`;
  - the bit-range theorem on saturating platforms;
  - the consent theorem;
  - `LaterFailurePosted`, checked and proved.

Next:
1. **Compose the two sides.** Connect the wallet module's posts to the verifier's submission, so the end-to-end scenarios of spec section 8 are checked.
2. **Liveness of the verifier.** A looked-up submission eventually completes or is rejected, but only if its steps make no remote call without a timeout. That has to be checked in the code before any fairness is assumed.
3. **Prove more.**
   - The DID resolver's soundness, if the provers gain induction with a predicate parameter.
