# Formal models of the ACE comparator and confidential storage hub

This directory holds TLA+ models of the comparator REST handlers of this
repository. It also models the confidential storage hub (CSH) and the
ZCAP-LD capabilities they rely on. Alongside the models are TLC
configurations that model-check them and TLAPS proofs.

## The system

The BDD feature `confidential_storage_hub_api.feature` and `user.go` set up
the following:

* The **user** creates an encrypted data vault (EDV) and a keystore
  (`initConfidentialStorage` and `initKeystore`). Each creation gives the user
  a root capability (zcap).
* The user stores documents (`saveInConfidentialStorage`). The vault reports
  each one under the URI `https://<edv-host>/<base>/<vault>/documents/<doc>`.
* The user authorizes the hub to read the documents (`authorizeRead`). This
  mints child capabilities of the two roots for the hub: "read" on the vault
  and "unwrap" on the keystore.
* The **hub** stores queries (`CreateQuery`) under a fresh id and answers with
  a `Location`. It resolves a query by reading the document from the EDV and
  unwrapping its key from the keystore, using the upstream capabilities the
  query carries. It compares the values of several queries with `Compare`
  (EqOp): the first resolution error, or TRUE iff every value is the same.
* The **comparator** fronts the hub for third parties:
  * `HandleAuthz` (src/unnamed/part_005) turns an authorization scope into
    a token. It looks up the document's metadata and rewrites the URI into a
    hub DocQuery, stores the query in the comparator's hub profile, and mints
    a child of the profile capability for the requesting party
    (`driveZCAPForCSH`) with action "reference", target the query's
    `Location` and the requested expiry caveats.
  * `HandleEqOp` (src/unnamed/part_006:23-111) turns each argument into a hub
    query. A DocQuery is rewritten the same way as in `HandleAuthz`. For an
    AuthorizedQuery, the token's target is cut at "/queries/" into a
    RefQuery. The hub's `Compare` then gives the result, which comes back
    as the JSON of `models.Comparison` (src/pkg/client/csh/models/comparison.go).
* The **vault server** (`pkg/restapi/vault/operation`) gives a REST API over
  the vault backend: create a vault, save a document, read its metadata,
  create and read an authorization, and delete a vault or an authorization.
  The handlers and the backend are not under `src/`. Their tests are, in
  `src/pkg/restapi/gatekeeper/operation/models.go`: for every outcome of the
  backend call, the tests fix the status and body a handler answers.

## Modules

| Module | Models | State and actions |
|---|---|---|
| `Zcap` | zcapld: the capability record, `NewCapability`, expiry caveats and the chain verifier (`Verify`), from the spec | constants only |
| `Hub` | the hub's query store, query resolution and Compare (from the spec and the handler tests), and the user's delegation (`user.go`) | `now`, `content`, `zcaps` (the capability store by id), `queries`; actions `AuthorizeRead`, `CreateQuery`, `Tick` |
| `Comparator` | `HandleAuthz`, `driveZCAPForCSH` and `HandleEqOp` | adds `pending` (authorizations whose query is stored but whose token is not minted yet), `issued` (tokens handed out, with the scope they were asked for) and `lastCmp` (the last comparison answer); actions `AuthzCreateQuery`, `AuthzQueryLost`, `AuthzIssue`, `AuthzFail`, `HandleEqOp` |
| `MCComparator` | TLC instance: URL layouts, segment and action sets, symmetry | |
| `ComparatorProofs` | TLAPS proofs: typing, issued tokens verify | |
| `AuthzProofs` | TLAPS proof that issued tokens name their query, under the deployed URL layout | |
| `CompareProofs` | TLAPS proof that a 200 comparison of DocQueries and issued tokens compares the named scopes, under the deployed URL layout | |
| `VaultStore` | the records of the vault server's store | `vaults`, `docs`, `auths` |
| `VaultAPI` | the vault REST handlers, from their tests in `models.go` | the store's variables and `resp` (the latest answer); one action per handler |
| `MCVault` | TLC instance of `VaultAPI` | |
| `VaultProofs` | TLAPS proofs about `VaultAPI` | |

How the modules map to the code:

* **URLs** are sequences of their "/"-separated segments. `strings.Split(uri, "/")`
  is therefore the sequence itself, and `parts[len(parts)-3]` becomes
  `parts[Len(parts)-2]` under 1-based indexing.
* **`RewriteDocQuery`** is the shared DocQuery rewrite of both handlers.
  * The base URL is `scheme://host/parts[3]`, i.e. `SubSeq(parts, 1, 4)`.
  * The vault and the document come from the fixed offsets.
* **`QueriesSeps` and `RefPiece`** model `strings.Split(target, "/queries/")[1]`:
  the piece between the first "queries" segment and the next, or the end.
  `Panics` is the case where there is no separator.
* **HandleAuthz is split into steps.** Each step is one point where the
  handler can stop, in the order the code runs:
  1. `AuthzCreateQuery`: the hub stores the query and the answer comes back.
  2. `AuthzQueryLost`: the query is stored but the call times out or fails.
  3. `AuthzIssue`: `driveZCAPForCSH` mints the token and the handler returns 200.
  4. `AuthzFail`: the profile capability or the key cannot be read, and the
     handler returns 500.

  Several authorizations can be in flight at once, as concurrent HTTP
  requests are.
* **`CmpArgs` are the arguments a caller can send.** HandleEqOp
  decompresses an AuthorizedQuery's token and uses its target, checking
  nothing else. So a token (`Presented`) can be any of:
  * any capability in the store;
  * a copy of a token its party was issued, with the target changed to
    another query of the comparator's profile (`Tampered`, for the parties
    in `Forgers`);
  * a string that decodes to no capability (`NoZcap`).
* **`EqOpAnswer` is the whole of HandleEqOp for one request:**
  * a metadata failure of any DocQuery argument (the `metaDown` choice),
    or an undecodable token (`Refused`), gives 500;
  * a panicking AuthorizedQuery gives no answer (status 0);
  * otherwise the request goes to the hub, where an error gives 500.

  The handler does not change the store, so the comparison properties are
  stated over every argument list in `ArgSeqs` rather than only the last one
  sent.
* **The hub's Comparison answer** goes through its JSON form.
  `ComparisonJSON` leaves a false result out (`omitempty`), and
  `ComparisonResult` reads a missing field as false.
* **The vault handlers** are each one step of `VaultAPI`. Each decodes its
  body (a bad body gives 400), calls the backend at most once and writes one
  answer (`Respond`, after `WriteResponse`).
  * A backend write returns `ok`, `fail`, or `lost`. `lost` means the write
    took effect but the error came back anyway.
  * A read returns `ok`, `notfound` (the store's not-found error), or
    `internal`.
  * `MetadataStatus` and `AuthorizationStatus` map these to 200, 404 and
    500, as the "Not found" and "Internal error" tests require.
  * Each new document or authorization gets a fresh id, as `GenerateID` and
    `uuid.New` give one.
  * The delete handlers answer 200 and change nothing: the backend
    interface has no delete.
* **Signatures** are abstracted. A capability is genuine when it is the one
  the store holds under its id.

## Runs

| Run | cfg | Checks | Shows |
|---|---|---|---|
| authz | `MCComparator.cfg` | `TypeOK`, `IssuedTokenNamesItsQuery`, `IssuedTokenVerifies` | With concurrent authorizations, lost answers, failures, expiry caveats and the user's own queries interleaved: every issued token's target, cut as HandleEqOp cuts it, names a stored query that fetches the scope's document and path; and it passes the chain verifier for its party until it expires. |
| compare | `MCCompare.cfg` | `AuthorizedCompareUsesScope` | For any list of up to two DocQueries and tokens the comparator issued that it answers 200, the result is the equality of the values at the documents and paths the arguments name. |
| expired_token_compared | `MCExpiry.cfg` | `AuthorizedArgsVerified` (violation) | The comparator answers 200 with an expired token (finding 1). |
| tampered_token_compared | `MCTamper.cfg` | `AuthorizedArgsVerified` (violation) | A party changes the target of the token it was issued to another stored query of the comparator's profile, and the comparator answers 200 (finding 4). |
| token_without_queries_panics | `MCPanic.cfg` | `EveryComparisonAnswered` (violation) | A token with no "/queries/" in its target panics HandleEqOp (finding 2). |
| nested_edv_base | `MCNestedBase.cfg` | `IssuedTokenNamesItsQuery` (violation) | With a two-segment EDV base path (`/api/encrypted-data-vaults`), HandleAuthz keeps only `parts[3]`. The stored query then fetches no document (finding 3). |
| vault | `MCVault.cfg` | `AckedNeverNotFound` | The vault handlers are checked with failing and lost backend writes and failing reads, in any order. Once a document or authorization is answered 201, it is never answered 404 afterwards. |

Every property of a passing run has a mutant in `PROJECT.json`: a plausible
bug in the modelled code that TLC shows the property catches.
* `AuthzCreateQueryWrongProfile`: HandleAuthz posts the query with the
  comparator's DID where the hub profile id belongs.
* `RewriteDocQueryDocOffByOne`: the rewrite reads the document id at the
  wrong offset.
* `AuthzIssueNoChain`: the token is minted with an empty chain.
* `EqOpAnswerIgnoringHubError`: the comparator answers 200 on a hub error.
* `MetadataStatusAnyErrorNotFound`: every backend error is answered 404.

### Bounds

| Run | Bounds |
|---|---|
| authz | 2 documents, 2 paths, 1 value, 2 query ids, 2 hub profiles (the comparator's and the user's), 4 free capability ids, 1 third party, expiry caveats {} or {0}, clock 0..1, one-argument comparisons |
| compare | 2 values, one path, clock 0, up to two arguments |
| vault | 2 vaults, 2 document ids, 1 authorization id, 1 party, 2 contents |
| expired_token_compared, tampered_token_compared, token_without_queries_panics, nested_edv_base | the small instance needed to reach the violation; `Forgers` is empty except in tampered_token_compared, so each trace shows its own cause |

The authz bounds are enough for two authorizations in flight at once, for
one of them to be lost while the other is issued, for the user's own query
to take an id between them, and for a token to expire. The compare bounds
are enough for two arguments naming different documents with different
values. Symmetry permutes documents, query ids, free capability ids and
values; every property treats them alike.

The vault bounds are enough for the following:
* a document acknowledged in one vault and then read in both;
* a second id to be saved after a lost write of the first;
* an authorization to be created in a vault that does not exist.

No fairness is assumed and no liveness is checked. Every handler is a
single request with no loop, and the code does not retry. Nothing the code
does must eventually happen: a pending authorization finishes only if its
HTTP request does, and that is up to the network and the caller.

## Findings

1. **Expired tokens are still compared** (src/unnamed/part_006:83).
   HandleEqOp uses an AuthorizedQuery token's target without checking its
   proof, chain or caveats. The spec says the comparator's access lasts
   only until the caveats expire.
2. **A token without "/queries/" panics the handler** (src/unnamed/part_006:85).
   `queryPath[1]` is read without a length check, so the caller gets no
   answer instead of an error.
3. **Only one segment of the EDV base path is kept**
   (src/unnamed/part_005:66). `scheme://host/parts[3]` drops the rest of a
   longer base path, so the stored query names no document. The spec does
   not restrict the EDV's base path.
4. **A token with a changed target is compared** (src/unnamed/part_006:76).
   HandleEqOp forwards the query id cut from any decodable token, and the
   hub receives only that id, so no one verifies the token. A party that
   changes its token's target to another query of the comparator's profile
   gets a 200 comparison over that query. The spec says the engine verifies
   the chain before it resolves the referenced query.

## Proofs

`ComparatorProofs` proves the following for every value of the constants
that meets the modules' `ASSUME`s:
* `TypeCorrect`: `Spec => []TypeInv`;
* its corollary `TypeOKHolds`: `Spec => []TypeOK`.

It also proves `IssuedTokensVerify`: `Spec => []IssuedTokenVerifies`, the
property the authz run checks.

TypeOK alone is not inductive, because `AuthorizeRead` and `AuthzIssue`
build new capabilities from the stored roots. `TypeInv` therefore adds
`RootsKept`: the three root capabilities stay the ones minted at set-up. A
root's id is never free, so no action can overwrite it. There is one proof
step per action.

`IssuedTokenVerifies` is not inductive either, since it only speaks of
tokens whose caveats still hold. Its strengthening is `IssuedShape`: every
handed-out token is stored under its id as driveZCAPForCSH minted it. That
means a child of the profile root, with chain `<<RootCmp>>`, invoker the
party, signer the comparator, and action "reference".
* `ShapeStep` shows every action keeps `IssuedShape`. AuthorizeRead and
  AuthzIssue write only ids under which nothing was stored, and an issued
  token's id is never free.
* `ShapeVerifies` walks the verifier's one-link chain from `IssuedShape` and
  `RootsKept`.

The lemmas they rest on:
* `NewCapabilityTyped`;
* `ConcatAt`, concatenation facts from `SequenceTheorems`;
* `DocURIShape`, where the vault and document sit in a document URI;
* `RewriteTyped`, `IssuedCapTyped` and `EqOpAnswerTyped`.

The assumptions (`SegmentsAssumption` and the others) say that:
* the URLs are built from segments;
* the EDV host part is scheme, empty and host;
* the ids are distinct from their "none" markers.

`AuthzProofs` proves `IssuedTokensNameTheirQueries`:
`ASSUME DeployedLayout PROVE Spec => []IssuedTokenNamesItsQuery`.
`DeployedLayout` is the layout of the BDD deployment:
* the EDV base path is one segment;
* neither the hub base URL nor the comparator's profile id contains a
  "queries" segment.

The nested_edv_base run shows that the hypothesis is needed.

The proof strengthens the property to `NameInv`:
* every pending HandleAuthz call (`PendingNamed`) names a stored query
  that fetches its document and path;
* every issued token (`IssuedNamed`) does the same, and its target is that
  query's `Location`.

It rests on these lemmas:
* `RewriteFetches`: under the layout, the rewritten DocQuery fetches
  exactly its document;
* `LocationRef`: a Location has one "/queries/" separator, and the piece
  after it is the query id;
* `QueriesKept` and `TokensKept`: no step replaces a stored query or an
  issued token's capability;
* `NameStep`, which uses `IssuedShape` from `ComparatorProofs`.

`CompareProofs` proves `ComparesNamedScopes`:
`ASSUME DeployedLayout PROVE Spec => []AuthorizedCompareUsesScope`. The
property is about argument lists whose tokens are tokens the comparator
issued, presented as minted. A token the code would also compare (a root
capability with a "/queries/" target, a tampered copy) is outside it;
finding 4 shows what happens then.

A token's scope is looked up by its id (`GrantOf`). The inductive
invariant `CompareInvariant` proves is therefore
`TypeInv /\ IssuedShape /\ CompareInv`, where `CompareInv` is:
* `NameInv` from `AuthzProofs`;
* `IssuedUnique`: no two issued tokens share an id.

TLC checked this invariant before it was proved. `StoreStep` shows that
`IssuedUnique` is kept, and `ScopeFromInv` derives the property from the
invariant.
* `ArgNamed`: a DocQuery or an issued token that resolves names a
  document and path, and resolves to them.
* `HubAllResolved`: a hub answer of 200 means every argument resolved, and
  its result is the equality of their values.
* `ComparisonRoundTrip`: the JSON form of a comparison reads back as the
  same Boolean.
* `LeastExists`: the hub reports the first failing argument. It rests on
  the well-foundedness of `<` on `Nat` from `WellFoundedInduction`.

`VaultProofs` proves the following about `VaultAPI`:
* `TypeCorrect`.
* `AnswersTruthful`: `Spec => []AnswerInv`. The latest 201 names a stored
  entity, and the latest 404 names one that is not stored. This follows
  from `StoredKept` (the store only grows) and from `ReadOutcomes`.
* `AckedNeverNotFoundHolds`: `Spec => AckedNeverNotFound`, the temporal
  property the vault run checks. It is proved from `AnswersTruthful` and
  `StoredKept`: once acknowledged, an entity stays stored, so a 404 on it
  can never come.

Every property of a passing run is also proved. What is left to TLC:
* the four violation runs, which exhibit counterexamples;
* layouts outside the proofs' hypotheses. nested_edv_base shows
  `IssuedTokenNamesItsQuery` false with a two-segment EDV base;
* liveness and ENABLED. The prover cannot reach them, and no liveness
  property is stated.

## Not modelled

* **Extract, CreateProfile and CreateAuthorization of the hub.** These
  handlers are not in `src/`.
* **HTTP signatures, DID key resolution and the signer** (part_004,
  part_006:118-354). This is cryptography without protocol state, and
  signatures are abstracted as above.
* **startcmd (including `cmd/comparator-rest/main.go`), the gatekeeper, the
  JSON-LD store and the generated clients.** These are configuration,
  wiring and types. The exception is the wire form of `models.Comparison`,
  described above.
* **What the vault backend does inside** (EDV and KMS calls, did:key
  creation). It is not under `src/`; only the outcomes the handler tests
  give it are modelled.
* **`toZCaveats`' `uint64` conversion of a negative duration.** The model
  uses natural durations.
* **The url.Parse failures.** The URIs in the model are well formed; an
  undecodable token is modelled (`NoZcap` as a token).
