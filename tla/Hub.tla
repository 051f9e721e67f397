-------------------------------- MODULE Hub ---------------------------------
(***************************************************************************)
(* The confidential storage hub (CSH) and the parties around it: the       *)
(* encrypted data vault (EDV) holding the documents, the key server, and   *)
(* the user who delegates read access to the hub.                          *)
(*                                                                         *)
(* The hub's own handlers (CreateQuery, Compare, Extract) are not in this  *)
(* repository's sources: they are modelled from the spec and from the      *)
(* handler tests (TestOperation_CreateQuery, _Compare, _Extract).  The     *)
(* user's delegation is modelled from test/bdd/pkg/csh/user.go.            *)
(***************************************************************************)
EXTENDS Zcap

CONSTANTS
    Docs,         \* document ids in the user's vault
    Paths,        \* attribute paths into a document's content
    Vals,         \* the values found at a path
    QueryIds,     \* ids the hub can give a new query
    ProfileIds,   \* hub profile ids
    User, Hub,    \* the DIDs of the vault owner and of the hub
    Vault,        \* the EDV vault id of the user's vault
    EdvHost,      \* scheme and host of the EDV, as URL segments
    EdvBase,      \* the EDV's base path, as URL segments
    KmsTarget,    \* the invocation target of the user's keystore
    HubBase,      \* the hub's configured base URL, as URL segments
    RootEdv,      \* id of the root capability of the user's vault
    RootKms,      \* id of the root capability of the user's keystore
    MaxTime,      \* bound on the clock
    NoQuery       \* marks a query id under which nothing is stored

ASSUME HubAssumption ==
    /\ {User, Hub} \subseteq DIDs
    /\ {RootEdv, RootKms} \subseteq ZcapIds /\ RootEdv # RootKms
    /\ NoQuery \notin QueryIds
    /\ MaxTime \in Nat

\* URLs are built from segments: an absolute URL starts with the scheme, an
\* empty segment and the host; the names the handlers put into URLs are
\* segments; the actions the handlers grant are actions.
ASSUME SegmentsAssumption ==
    /\ EdvHost \in Seq(Segments) /\ Len(EdvHost) = 3
    /\ EdvBase \in Seq(Segments) /\ KmsTarget \in Seq(Segments) /\ HubBase \in Seq(Segments)
    /\ {Vault, "documents", "hubstore", "profiles", "queries"} \subseteq Segments
    /\ Docs \cup QueryIds \cup ProfileIds \subseteq Segments
    /\ {"read", "write", "unwrap", "reference"} \subseteq Actions

VARIABLES
    now,       \* the wall clock, in seconds
    content,   \* content[d][p]: the plaintext value at path p of document d
    zcaps,     \* the capabilities minted so far, by id (the verifiers' store)
    queries    \* the hub's "queries" store

hubVars == <<now, content, zcaps, queries>>

\* The URI the vault reports for a document (DocumentMetadata.URI):
\* https://<host>/<base>/<vault>/documents/<doc>.
DocURI(d) == EdvHost \o EdvBase \o <<Vault, "documents", d>>

\* The invocation target of the user's vault root capability.
EdvTarget == EdvHost \o EdvBase \o <<Vault>>

\* A query the hub stores and resolves: the EDV base URL and the vault and
\* document the EDV client is asked for, the path, and the upstream
\* capabilities for the EDV and for the key server.
DocQuery ==
    [base: Seq(Segments), vault: Segments, doc: Segments, path: Paths,
     edv: ZcapIds, kms: ZcapIds]

\* What the "queries" store holds under an id.
StoredQuery == [profile: ProfileIds, spec: DocQuery]

\* NoQuery is not a stored query.
ASSUME NoQueryAssumption == NoQuery \notin StoredQuery

\* The Location the hub returns for query q of profile pid.
Location(pid, q) == HubBase \o <<"hubstore", "profiles", pid, "queries", q>>

-----------------------------------------------------------------------------
(* Resolution of a query by the hub.                                       *)

\* The EDV accepts the hub's read with capability e, and the key server its
\* unwrap with capability k, when each verifies for the hub as invoker.
UpstreamOK(e, k) ==
    /\ zcaps[e] # NoZcap /\ zcaps[k] # NoZcap
    /\ Verify(zcaps, zcaps[e], now, "read")
    /\ zcaps[e].invoker = Hub /\ zcaps[e].target = EdvTarget
    /\ Verify(zcaps, zcaps[k], now, "unwrap")
    /\ zcaps[k].invoker = Hub /\ zcaps[k].target = KmsTarget

\* The document the EDV client reaches for a DocQuery: ReadDocument(vault,
\* doc) on the client built for base reads <base>/<vault>/documents/<doc>.
FetchedDoc(dq) ==
    {d \in Docs : dq.base \o <<dq.vault, "documents", dq.doc>> = DocURI(d)}

\* Resolving a DocQuery: fetch, unwrap, decrypt, evaluate the path.
ResolveDoc(dq) ==
    IF UpstreamOK(dq.edv, dq.kms) /\ FetchedDoc(dq) # {}
    THEN [status |-> 200, doc |-> CHOOSE d \in FetchedDoc(dq) : TRUE,
          path |-> dq.path]
    ELSE [status |-> 500]

\* Resolving a RefQuery: the stored query whose id is the ref, or
\* "no such query" (400).
ResolveRef(ref) ==
    IF \E q \in QueryIds : queries[q] # NoQuery /\ ref = <<q>>
    THEN ResolveDoc(queries[CHOOSE q \in QueryIds : ref = <<q>>].spec)
    ELSE [status |-> 400]

\* The root capabilities the EDV and the key server minted for the user when
\* the vault and the keystore were created.
EdvRootCap == NewCapability(RootEdv, NoZcap, << >>, User, User, {"read", "write"},
                            EdvTarget, 0, {})
KmsRootCap == NewCapability(RootKms, NoZcap, << >>, User, User, {"unwrap"},
                            KmsTarget, 0, {})

\* A query argument is [type |-> "DocQuery", spec |-> dq] or
\* [type |-> "RefQuery", ref |-> r].
Resolve(a) == IF a.type = "DocQuery" THEN ResolveDoc(a.spec) ELSE ResolveRef(a.ref)

\* The index of the first argument that fails to resolve, or 0.
FirstFailure(args) ==
    LET bad == {i \in 1..Len(args) : Resolve(args[i]).status # 200}
    IN  IF bad = {} THEN 0 ELSE CHOOSE i \in bad : \A j \in bad : i <= j

\* Compare with EqOp: the first resolution error, else TRUE iff every
\* resolved value is the same.
HubCompare(args) ==
    LET f == FirstFailure(args)
        v(i) == content[Resolve(args[i]).doc][Resolve(args[i]).path]
    IN  IF f # 0
        THEN [status |-> Resolve(args[f]).status, result |-> FALSE]
        ELSE [status |-> 200,
              result |-> \A i, j \in 1..Len(args) : v(i) = v(j)]

-----------------------------------------------------------------------------
(* Actions.                                                                *)

\* The user delegates read access to its vault and unwrap access to its
\* keystore to invoker inv (user.authorizeRead): both children are signed by
\* the user, name the root as parent, and carry the root's chain followed by
\* the root's id.  They have no caveats.
AuthorizeRead(inv, ze, zk) ==
    /\ ze # zk
    /\ zcaps[ze] = NoZcap /\ zcaps[zk] = NoZcap
    /\ zcaps' = [zcaps EXCEPT
         ![ze] = NewCapability(ze, RootEdv, zcaps[RootEdv].chain \o <<RootEdv>>,
                   inv, User, {"read"}, zcaps[RootEdv].target, now, {}),
         ![zk] = NewCapability(zk, RootKms, zcaps[RootKms].chain \o <<RootKms>>,
                   inv, User, {"unwrap"}, zcaps[RootKms].target, now, {})]
    /\ UNCHANGED <<now, content, queries>>

\* The hub stores a DocQuery under a fresh id for profile pid (CreateQuery;
\* a RefQuery is refused with 400 before anything is stored).
CreateQuery(pid, dq, q) ==
    /\ queries[q] = NoQuery
    /\ queries' = [queries EXCEPT ![q] = [profile |-> pid, spec |-> dq]]
    /\ UNCHANGED <<now, content, zcaps>>

\* Time passes.
Tick ==
    /\ now < MaxTime
    /\ now' = now + 1
    /\ UNCHANGED <<content, zcaps, queries>>

=============================================================================
