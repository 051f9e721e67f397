----------------------------- MODULE Comparator -----------------------------
(***************************************************************************)
(* The comparator service (pkg/restapi/comparator/operation) composed with *)
(* the hub it calls.  HandleAuthz registers a query with the hub under the *)
(* comparator's own profile and derives, from the profile's root          *)
(* capability, a child capability naming that query for a requesting      *)
(* party.  HandleEqOp turns each argument of a comparison into a hub query *)
(* (a DocQuery rewritten from the vault's document metadata, or a RefQuery *)
(* cut out of an authorization token's invocation target) and relays the  *)
(* hub's answer.                                                           *)
(*                                                                         *)
(* HandleAuthz makes two calls that can fail or time out, so it is split   *)
(* at the hub call: AuthzCreateQuery (the hub has stored the query and     *)
(* answered), AuthzQueryLost (the hub stored it but the answer never came  *)
(* back), then AuthzIssue or AuthzFail.  HandleEqOp changes no store, so   *)
(* it is one step evaluated at one instant.                                *)
(***************************************************************************)
EXTENDS Hub

CONSTANTS
    Cmp,            \* the comparator's DID (comparatorConfig.Did)
    Parties,        \* DIDs of requesting parties
    RootCmp,        \* id of the root capability of the comparator's hub profile
    CmpProfile,     \* the comparator's hub profile id (cshProfile.ID)
    CaveatChoices,  \* caveat lists a requesting party may ask for
    MaxArgs,        \* bound on the number of arguments of a comparison
    Forgers,        \* parties that present tokens they changed themselves
    NoField         \* what a token names when the comparator never issued it

ASSUME ComparatorAssumption ==
    /\ Cmp \in DIDs /\ Parties \subseteq DIDs
    /\ RootCmp \in ZcapIds /\ RootCmp \notin {RootEdv, RootKms}
    /\ CmpProfile \in ProfileIds
    /\ CaveatChoices \subseteq SUBSET Nat
    /\ MaxArgs \in Nat \ {0}
    /\ Forgers \subseteq Parties

VARIABLES
    pending,   \* HandleAuthz calls whose query the hub has stored and answered
    issued,    \* the tokens HandleAuthz returned, with the scope asked for
    lastCmp    \* the comparator's answer to the latest comparison

vars == <<now, content, zcaps, queries, pending, issued, lastCmp>>

\* The root capability the hub minted when the comparator's profile was
\* created: invoker (controller) is the comparator, signed by the hub.
CmpRootCap ==
    NewCapability(RootCmp, NoZcap, << >>, Cmp, Hub, {"reference"},
                  HubBase \o <<"hubstore", "profiles", CmpProfile>>, 0, {})

\* Capabilities minted so far, and those naming the vault or the keystore.
Minted == {z \in ZcapIds : zcaps[z] # NoZcap}
EdvCaps == {z \in Minted : zcaps[z].target = EdvTarget}
KmsCaps == {z \in Minted : zcaps[z].target = KmsTarget}

-----------------------------------------------------------------------------
(* URL handling.                                                           *)

\* A faulty rewrite that takes the document id one part too early
\* (parts[len(parts)-2]), the variant IssuedTokenNamesItsQuery is checked
\* against.
RewriteDocQueryDocOffByOne(d, p, e, k) ==
    LET parts == DocURI(d)
        n     == Len(parts)
    IN  [base |-> SubSeq(parts, 1, 4), vault |-> parts[n - 2], doc |-> parts[n - 1],
         path |-> p, edv |-> e, kms |-> k]

\* strings.Split(docMeta.URI, "/"): the segments of the document URI.  The
\* vault and document ids are the third-to-last and last parts, the EDV
\* base URL is "<scheme>://<host>/<parts[3]>".
RewriteDocQuery(d, p, e, k) ==
    LET parts == DocURI(d)
        n     == Len(parts)
    IN  [base |-> SubSeq(parts, 1, 4), vault |-> parts[n - 2], doc |-> parts[n],
         path |-> p, edv |-> e, kms |-> k]

\* Where "/queries/" occurs in a URL: a "queries" segment with a segment on
\* each side.
QueriesSeps(s) == {i \in 2..(Len(s) - 1) : s[i] = "queries"}

\* strings.Split(id, "/queries/")[1]: the segments between the first
\* separator and the next one (which cannot reuse the first one's "/"), or
\* the end.  Defined only when a separator occurs.
RefPiece(s) ==
    LET i     == CHOOSE i \in QueriesSeps(s) : \A j \in QueriesSeps(s) : i <= j
        After == {j \in QueriesSeps(s) : j > i + 1}
        e     == IF After = {} THEN Len(s) + 1
                 ELSE CHOOSE j \in After : \A k \in After : j <= k
    IN  SubSeq(s, i + 1, e - 1)

-----------------------------------------------------------------------------
(* HandleAuthz.                                                            *)

\* A faulty AuthzCreateQuery that posts the query with the comparator's DID
\* where the hub profile id belongs (the variant TypeOK is checked against).
AuthzCreateQueryWrongProfile(party, d, p, e, k, cav, q) ==
    /\ CreateQuery(Cmp, RewriteDocQuery(d, p, e, k), q)
    /\ pending' = pending \cup
         {[party |-> party, doc |-> d, path |-> p, caveats |-> cav, query |-> q]}
    /\ UNCHANGED <<issued, lastCmp>>

\* The vault's metadata for document d is read, the query is posted to the
\* hub under the comparator's profile, and the hub stores it under q and
\* answers with its Location.
AuthzCreateQuery(party, d, p, e, k, cav, q) ==
    /\ CreateQuery(CmpProfile, RewriteDocQuery(d, p, e, k), q)
    /\ pending' = pending \cup
         {[party |-> party, doc |-> d, path |-> p, caveats |-> cav, query |-> q]}
    /\ UNCHANGED <<issued, lastCmp>>

\* As above, but the hub's answer is lost or comes after requestTimeout:
\* the handler answers 500 while the query stays stored.
AuthzQueryLost(d, p, e, k, q) ==
    /\ CreateQuery(CmpProfile, RewriteDocQuery(d, p, e, k), q)
    /\ UNCHANGED <<pending, issued, lastCmp>>

\* A faulty AuthzIssue that mints without WithCapabilityChain (the variant
\* IssuedTokenVerifies is checked against).
AuthzIssueNoChain(r, z) ==
    /\ r \in pending
    /\ zcaps[z] = NoZcap
    /\ zcaps' = [zcaps EXCEPT ![z] =
         NewCapability(z, zcaps[RootCmp].id, << >>, r.party, Cmp,
                       {"reference"}, Location(CmpProfile, r.query), now, r.caveats)]
    /\ pending' = pending \ {r}
    /\ issued' = issued \cup {[zcap |-> z, party |-> r.party, doc |-> r.doc, path |-> r.path]}
    /\ UNCHANGED <<now, content, queries, lastCmp>>

\* driveZCAPForCSH then CompressZCAP: a child of the profile's root
\* capability (parent and capabilityChain are both the root's id), signed
\* with the comparator's key, invoked by the party, allowing "reference" on
\* the query's Location, with the party's expiry caveats (toZCaveats).
AuthzIssue(r, z) ==
    /\ r \in pending
    /\ zcaps[z] = NoZcap
    /\ zcaps' = [zcaps EXCEPT ![z] =
         NewCapability(z, zcaps[RootCmp].id, <<zcaps[RootCmp].id>>, r.party, Cmp,
                       {"reference"}, Location(CmpProfile, r.query), now, r.caveats)]
    /\ pending' = pending \ {r}
    /\ issued' = issued \cup {[zcap |-> z, party |-> r.party, doc |-> r.doc, path |-> r.path]}
    /\ UNCHANGED <<now, content, queries, lastCmp>>

\* driveZCAPForCSH fails (the profile capability or the comparator's key
\* cannot be read): 500, and the stored query is left behind.
AuthzFail(r) ==
    /\ r \in pending
    /\ pending' = pending \ {r}
    /\ UNCHANGED <<now, content, zcaps, queries, issued, lastCmp>>

-----------------------------------------------------------------------------
(* HandleEqOp.                                                             *)

\* Tokens a caller can put in an AuthorizedQuery.  HandleEqOp decompresses
\* whatever string it is given and checks nothing else, so besides the
\* capabilities of the store (tokens HandleAuthz issued, and those the hub
\* and the user minted for other uses) a caller can present a copy of a
\* token it was issued whose target it changed to another query of the
\* comparator's profile, or a string that decodes to no capability (NoZcap).
Tampered ==
    {[zcaps[t.zcap] EXCEPT !.target = Location(CmpProfile, q)] :
        t \in {u \in issued : u.party \in Forgers}, q \in QueryIds}

Presented == {zcaps[z] : z \in Minted} \cup Tampered \cup {NoZcap}

\* Arguments a caller can send: a DocQuery naming a document, a path and
\* upstream capabilities, or an AuthorizedQuery carrying a token.
CmpArgs ==
    [type: {"DocQuery"}, doc: Docs, path: Paths, edv: EdvCaps, kms: KmsCaps]
    \cup [type: {"AuthorizedQuery"}, token: Presented]

\* The hub query an argument becomes; an AuthorizedQuery whose target has no
\* "/queries/" indexes past the end of the split and panics.
ToHubQuery(a) ==
    IF a.type = "DocQuery"
    THEN [type |-> "DocQuery", spec |-> RewriteDocQuery(a.doc, a.path, a.edv, a.kms)]
    ELSE [type |-> "RefQuery", ref |-> RefPiece(a.token.target)]

Panics(a) ==
    /\ a.type = "AuthorizedQuery"
    /\ a.token # NoZcap
    /\ QueriesSeps(a.token.target) = {}

\* An argument the handler answers 500 for: a DocQuery when the vault's
\* metadata reads fail (metaDown), a token DecompressZCAP cannot decode.
Refused(a, metaDown) ==
    \/ metaDown /\ a.type = "DocQuery"
    \/ a.type = "AuthorizedQuery" /\ a.token = NoZcap

\* The scope HandleAuthz issued token z for, or NoField when it issued no
\* token under z.
GrantOf(z) ==
    IF \E t \in issued : t.zcap = z
    THEN LET t == CHOOSE t \in issued : t.zcap = z IN <<t.doc, t.path>>
    ELSE NoField

\* What the caller was promised an argument compares: a DocQuery's own
\* document and path, or the scope of the authorization the token came from.
Named(a) == IF a.type = "DocQuery" THEN <<a.doc, a.path>> ELSE GrantOf(a.token.id)

\* models.Comparison on the wire (Result bool, json "result,omitempty"): the
\* hub's answer is a JSON object whose fields are a set of names, and a
\* false result is left out.  The client's UnmarshalBinary reads a missing
\* field as the zero value, false.
ComparisonJSON(b) == [f \in (IF b THEN {"result"} ELSE {}) |-> b]
ComparisonResult(j) == "result" \in DOMAIN j /\ j["result"]

\* A faulty HandleEqOp that relays the hub's result without looking at its
\* error (the variant AuthorizedCompareUsesScope is checked against).
EqOpAnswerIgnoringHubError(args, metaDown) ==
    LET stop  == {i \in 1..Len(args) : Panics(args[i]) \/ Refused(args[i], metaDown)}
        first == CHOOSE i \in stop : \A j \in stop : i <= j
        hub   == HubCompare([i \in 1..Len(args) |-> ToHubQuery(args[i])])
    IN  IF stop # {}
        THEN [status |-> IF Panics(args[first]) THEN 0 ELSE 500, result |-> FALSE]
        ELSE [status |-> 200, result |-> ComparisonResult(ComparisonJSON(hub.result))]

\* The comparison answer, status 0 standing for no HTTP answer at all.
\* Arguments are processed in order and the first one that panics or is
\* refused ends the request; otherwise the hub's answer is relayed through its JSON encoding,
\* any hub error becoming 500.
EqOpAnswer(args, metaDown) ==
    LET stop  == {i \in 1..Len(args) : Panics(args[i]) \/ Refused(args[i], metaDown)}
        first == CHOOSE i \in stop : \A j \in stop : i <= j
        hub   == HubCompare([i \in 1..Len(args) |-> ToHubQuery(args[i])])
    IN  IF stop # {}
        THEN [status |-> IF Panics(args[first]) THEN 0 ELSE 500, result |-> FALSE]
        ELSE IF hub.status = 200
             THEN [status |-> 200, result |-> ComparisonResult(ComparisonJSON(hub.result))]
             ELSE [status |-> 500, result |-> FALSE]

\* A comparison of the arguments args; the store is left alone.
HandleEqOp(args, metaDown) ==
    /\ lastCmp' = EqOpAnswer(args, metaDown)
    /\ UNCHANGED <<now, content, zcaps, queries, pending, issued>>

-----------------------------------------------------------------------------

Init ==
    /\ now = 0
    /\ content \in [Docs -> [Paths -> Vals]]
    /\ zcaps = [z \in ZcapIds |->
                  CASE z = RootEdv -> EdvRootCap
                    [] z = RootKms -> KmsRootCap
                    [] z = RootCmp -> CmpRootCap
                    [] OTHER -> NoZcap]
    /\ queries = [q \in QueryIds |-> NoQuery]
    /\ pending = {}
    /\ issued = {}
    /\ lastCmp = [status |-> 0, result |-> FALSE]

\* The user's own query, with the coordinates of its document (createRef).
UserDocQuery(d, p, e, k) ==
    [base |-> EdvHost \o EdvBase, vault |-> Vault, doc |-> d, path |-> p,
     edv |-> e, kms |-> k]

StoreNext ==
    \/ \E ze, zk \in ZcapIds :
          \* "the user authorizes the CSH to read the documents"
          AuthorizeRead(Hub, ze, zk) /\ UNCHANGED <<pending, issued, lastCmp>>
    \/ \E pid \in ProfileIds \ {CmpProfile}, d \in Docs, p \in Paths,
          e \in EdvCaps, k \in KmsCaps, q \in QueryIds :
          CreateQuery(pid, UserDocQuery(d, p, e, k), q)
          /\ UNCHANGED <<pending, issued, lastCmp>>
    \/ \E party \in Parties, d \in Docs, p \in Paths, e \in EdvCaps, k \in KmsCaps,
          cav \in CaveatChoices, q \in QueryIds :
          \/ AuthzCreateQuery(party, d, p, e, k, cav, q)
          \/ AuthzQueryLost(d, p, e, k, q) /\ UNCHANGED <<pending, issued, lastCmp>>
    \/ \E r \in pending :
          \/ \E z \in ZcapIds : AuthzIssue(r, z)
          \/ AuthzFail(r)
    \/ Tick /\ UNCHANGED <<pending, issued, lastCmp>>

\* Comparisons of up to MaxArgs arguments.
ArgSeqs == UNION {[1..n -> CmpArgs] : n \in 1..MaxArgs}

\* A comparison request, with the vault's metadata service up or down.
CompareNext == \E args \in ArgSeqs, metaDown \in BOOLEAN : HandleEqOp(args, metaDown)

Next == StoreNext \/ CompareNext

Spec == Init /\ [][Next]_vars

-----------------------------------------------------------------------------
(* Properties.                                                             *)

\* Records HandleAuthz keeps between its hub call and its answer, and the
\* tokens it has answered with.
PendingRec ==
    [party: Parties, doc: Docs, path: Paths, caveats: CaveatChoices, query: QueryIds]
IssuedRec == [zcap: ZcapIds, party: Parties, doc: Docs, path: Paths]

\* Every variable holds a value of its type.
TypeOK ==
    /\ now \in 0..MaxTime
    /\ content \in [Docs -> [Paths -> Vals]]
    /\ zcaps \in [ZcapIds -> Capability \cup {NoZcap}]
    /\ queries \in [QueryIds -> StoredQuery \cup {NoQuery}]
    /\ pending \subseteq PendingRec
    /\ issued \subseteq IssuedRec
    /\ lastCmp \in [status: {0, 200, 500}, result: BOOLEAN]

\* HandleAuthz then HandleEqOp: the token the comparator hands a party
\* names, through the "/queries/" piece of its invocation target, a query
\* the hub has stored, and that query reads the document and path the
\* party asked about.  This is what the split of the target in HandleEqOp
\* and the metadata rewrite in HandleAuthz must agree on.
IssuedTokenNamesItsQuery ==
    \A t \in issued :
        LET tg == zcaps[t.zcap].target
        IN  /\ QueriesSeps(tg) # {}
            /\ \E q \in QueryIds :
                  /\ RefPiece(tg) = <<q>>
                  /\ queries[q] # NoQuery
                  /\ FetchedDoc(queries[q].spec) = {t.doc}
                  /\ queries[q].spec.path = t.path

\* driveZCAPForCSH: until its caveats expire, a token the comparator issued
\* passes the chain verifier for "reference", invoked by the party it was
\* issued to; its chain reaches the hub's root capability of the
\* comparator's profile.
IssuedTokenVerifies ==
    \A t \in issued :
        LET c == zcaps[t.zcap]
        IN  CaveatsHold(c, now) =>
               /\ Verify(zcaps, c, now, "reference")
               /\ c.invoker = t.party

\* An argument whose token, if it has one, is a token HandleAuthz issued,
\* presented as driveZCAPForCSH minted it.
IssuedArg(a) == a.type = "AuthorizedQuery" => \E t \in issued : a.token = zcaps[t.zcap]

\* HandleAuthz then HandleEqOp: when a caller compares DocQueries and tokens
\* the comparator issued, a 200 answer is whether the values at the
\* documents and paths the arguments name (a DocQuery's own, the scope a
\* token was issued for) are all equal.  The hub resolves a token through
\* the query its target names, so this is where the rewrite in HandleAuthz,
\* the Location of the token, the split in HandleEqOp and the hub's answer
\* through its JSON encoding must all agree.
AuthorizedCompareUsesScope ==
    \A args \in ArgSeqs :
        LET ans == EqOpAnswer(args, FALSE)
            nm  == [i \in 1..Len(args) |-> Named(args[i])]
        IN  (\A i \in 1..Len(args) : IssuedArg(args[i])) /\ ans.status = 200 =>
               ans.result =
                  \A i, j \in 1..Len(args) :
                     content[nm[i][1]][nm[i][2]] = content[nm[j][1]][nm[j][2]]

\* The spec (queries are read any number of times "until caveats (expiry)
\* invalidate the capabilities needed to resolve them"): HandleEqOp answers
\* 200 only when every token among its arguments verifies for "reference"
\* at the time of the comparison.
AuthorizedArgsVerified ==
    \A args \in ArgSeqs :
        EqOpAnswer(args, FALSE).status = 200 =>
           \A i \in 1..Len(args) :
              args[i].type = "AuthorizedQuery" =>
                 Verify(zcaps, args[i].token, now, "reference")

\* The spec (authorization failures map to a 4xx, every failure is returned
\* to the caller, each request fails independently): HandleEqOp answers
\* every comparison, whatever token it is handed.
EveryComparisonAnswered ==
    \A args \in ArgSeqs : EqOpAnswer(args, FALSE).status # 0

=============================================================================
