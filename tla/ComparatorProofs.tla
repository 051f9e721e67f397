-------------------------- MODULE ComparatorProofs --------------------------
(***************************************************************************)
(* Proofs about the comparator and the hub, for every value of the         *)
(* constants that satisfies the modules' assumptions.                      *)
(*                                                                         *)
(* TypeOK is not inductive by itself: AuthorizeRead and AuthzIssue read    *)
(* the root capabilities, so the proof carries RootsKept, the fact that    *)
(* the three roots stay what they were when the vault, the keystore and  *)
(* the comparator's profile were created.                                  *)
(***************************************************************************)
EXTENDS Comparator, SequenceTheorems, TLAPS

\* The root capabilities are never replaced.
RootsKept ==
    /\ zcaps[RootEdv] = EdvRootCap
    /\ zcaps[RootKms] = KmsRootCap
    /\ zcaps[RootCmp] = CmpRootCap

TypeInv == TypeOK /\ RootsKept

-----------------------------------------------------------------------------
(* Lemmas about the values the handlers build.                             *)

\* zcapld.NewCapability builds a capability from well-typed options.
LEMMA NewCapabilityTyped ==
    ASSUME NEW id \in ZcapIds, NEW parent \in ZcapIds \cup {NoZcap},
           NEW chain \in Seq(ZcapIds), NEW inv \in DIDs, NEW sig \in DIDs,
           NEW acts \in SUBSET Actions, NEW tg \in Seq(Segments), NEW t \in Nat,
           NEW cav \in SUBSET Nat
    PROVE  NewCapability(id, parent, chain, inv, sig, acts, tg, t, cav) \in Capability
BY DEF NewCapability, Capability

\* Concatenation, with the library's facts instantiated.
LEMMA ConcatAt ==
    ASSUME NEW S, NEW s1 \in Seq(S), NEW s2 \in Seq(S)
    PROVE  /\ s1 \o s2 \in Seq(S)
           /\ Len(s1 \o s2) = Len(s1) + Len(s2)
           /\ \A i \in 1..Len(s2) : (s1 \o s2)[Len(s1) + i] = s2[i]
<1>1. /\ s1 \o s2 \in Seq(S)
      /\ Len(s1 \o s2) = Len(s1) + Len(s2)
      /\ \A i \in 1 .. Len(s1) + Len(s2) :
            (s1 \o s2)[i] = IF i <= Len(s1) THEN s1[i] ELSE s2[i - Len(s1)]
  BY ConcatProperties, Zenon
<1>. QED
  BY <1>1

\* The roots the vault, the keystore and the hub minted are capabilities.
LEMMA RootCapsTyped ==
    /\ EdvRootCap \in Capability
    /\ KmsRootCap \in Capability
    /\ CmpRootCap \in Capability
<1>1. EdvTarget \in Seq(Segments)
  BY SegmentsAssumption DEF EdvTarget
<1>2. HubBase \o <<"hubstore", "profiles", CmpProfile>> \in Seq(Segments)
  BY SegmentsAssumption, ComparatorAssumption
<1>. QED
  BY <1>1, <1>2, HubAssumption, ComparatorAssumption, SegmentsAssumption
  DEF EdvRootCap, KmsRootCap, CmpRootCap, NewCapability, Capability

\* A Location the hub answers with is a URL.
LEMMA LocationTyped ==
    ASSUME NEW pid \in ProfileIds, NEW q \in QueryIds
    PROVE  Location(pid, q) \in Seq(Segments)
BY SegmentsAssumption DEF Location

\* The capability the comparator mints for a pending authorization
\* (driveZCAPForCSH) is a capability.
LEMMA IssuedCapTyped ==
    ASSUME NEW z \in ZcapIds, NEW r \in PendingRec, NEW t \in Nat
    PROVE  NewCapability(z, RootCmp, <<RootCmp>>, r.party, Cmp, {"reference"},
                         Location(CmpProfile, r.query), t, r.caveats) \in Capability
<1>1. r.party \in DIDs /\ r.caveats \in SUBSET Nat /\ r.query \in QueryIds
  BY ComparatorAssumption DEF PendingRec
<1>2. Location(CmpProfile, r.query) \in Seq(Segments)
  BY <1>1, ComparatorAssumption, LocationTyped
<1>3. /\ <<RootCmp>> \in Seq(ZcapIds) /\ RootCmp \in ZcapIds \cup {NoZcap}
      /\ Cmp \in DIDs /\ {"reference"} \in SUBSET Actions
  BY ComparatorAssumption, SegmentsAssumption
<1>. QED
  BY <1>1, <1>2, <1>3, NewCapabilityTyped, Zenon

\* The document URI the vault reports, and where its parts are.
LEMMA DocURIShape ==
    ASSUME NEW d \in Docs
    PROVE  /\ DocURI(d) \in Seq(Segments)
           /\ Len(DocURI(d)) = Len(EdvBase) + 6
           /\ DocURI(d)[Len(DocURI(d)) - 2] = Vault
           /\ DocURI(d)[Len(DocURI(d))] = d
<1>1. /\ EdvHost \o EdvBase \in Seq(Segments)
      /\ Len(EdvHost \o EdvBase) = Len(EdvHost) + Len(EdvBase)
  BY SegmentsAssumption, ConcatAt, Zenon
<1>2. /\ <<Vault, "documents", d>> \in Seq(Segments)
      /\ Len(<<Vault, "documents", d>>) = 3
      /\ <<Vault, "documents", d>>[1] = Vault /\ <<Vault, "documents", d>>[3] = d
  BY SegmentsAssumption
<1>3. /\ DocURI(d) \in Seq(Segments)
      /\ Len(DocURI(d)) = Len(EdvHost \o EdvBase) + Len(<<Vault, "documents", d>>)
      /\ \A i \in 1..Len(<<Vault, "documents", d>>) :
            DocURI(d)[Len(EdvHost \o EdvBase) + i] = <<Vault, "documents", d>>[i]
  <2>1. DocURI(d) = (EdvHost \o EdvBase) \o <<Vault, "documents", d>>
    BY DEF DocURI
  <2>2. /\ (EdvHost \o EdvBase) \o <<Vault, "documents", d>> \in Seq(Segments)
        /\ Len((EdvHost \o EdvBase) \o <<Vault, "documents", d>>)
             = Len(EdvHost \o EdvBase) + Len(<<Vault, "documents", d>>)
        /\ \A i \in 1..Len(<<Vault, "documents", d>>) :
              ((EdvHost \o EdvBase) \o <<Vault, "documents", d>>)[Len(EdvHost \o EdvBase) + i]
                = <<Vault, "documents", d>>[i]
    <3>1. \A s1, s2 \in Seq(Segments) :
            /\ s1 \o s2 \in Seq(Segments)
            /\ Len(s1 \o s2) = Len(s1) + Len(s2)
            /\ \A i \in 1..Len(s2) : (s1 \o s2)[Len(s1) + i] = s2[i]
      BY ConcatAt
    <3>. QED
      BY <1>1, <1>2, <3>1
  <2>. QED
    BY <2>1, <2>2
<1>4. Len(DocURI(d)) = Len(EdvBase) + 6
  BY <1>1, <1>2, <1>3, SegmentsAssumption
<1>5. /\ DocURI(d)[Len(EdvHost \o EdvBase) + 1] = Vault
      /\ DocURI(d)[Len(EdvHost \o EdvBase) + 3] = d
  <2>1. 1 \in 1..Len(<<Vault, "documents", d>>) /\ 3 \in 1..Len(<<Vault, "documents", d>>)
    BY <1>2
  <2>. QED
    BY <1>2, <1>3, <2>1
<1>. QED
  BY <1>1, <1>3, <1>4, <1>5, SegmentsAssumption

\* The metadata rewrite builds a DocQuery.
LEMMA RewriteTyped ==
    ASSUME NEW d \in Docs, NEW p \in Paths, NEW e \in ZcapIds, NEW k \in ZcapIds
    PROVE  RewriteDocQuery(d, p, e, k) \in DocQuery
<1> DEFINE parts == DocURI(d)
<1>1. /\ parts \in Seq(Segments)
      /\ Len(parts) >= 6
  BY DocURIShape, SegmentsAssumption DEF parts
<1>2. SubSeq(parts, 1, 4) \in Seq(Segments)
  BY <1>1, SubSeqProperties
<1>3. parts[Len(parts) - 2] \in Segments /\ parts[Len(parts)] \in Segments
  BY <1>1, ElementOfSeq
<1>. QED
  BY <1>2, <1>3 DEF RewriteDocQuery, DocQuery, parts

\* The answer of the hub's Compare is a status and a Boolean.
LEMMA HubCompareShape ==
    ASSUME NEW args
    PROVE  HubCompare(args) = [status |-> HubCompare(args).status,
                               result |-> HubCompare(args).result]
           /\ HubCompare(args).result \in BOOLEAN
BY DEF HubCompare

\* The comparator's answer to a comparison has the type lastCmp is given.
LEMMA EqOpAnswerTyped ==
    ASSUME NEW args, NEW md
    PROVE  EqOpAnswer(args, md) \in [status: {0, 200, 500}, result: BOOLEAN]
<1> DEFINE hub == HubCompare([i \in 1..Len(args) |-> ToHubQuery(args[i])])
<1>1. hub = [status |-> hub.status, result |-> hub.result] /\ hub.result \in BOOLEAN
  BY HubCompareShape
<1>2. \A b : ComparisonResult(ComparisonJSON(b)) \in BOOLEAN
  BY DEF ComparisonResult
<1>. QED
  BY <1>2 DEF EqOpAnswer

-----------------------------------------------------------------------------
(* Type correctness.                                                       *)

\* Every state of the comparator and the hub has the types TypeOK states,
\* and the roots of the vault, the keystore and the comparator's profile are
\* never replaced by a handler that stores a capability or a query.
THEOREM TypeCorrect == Spec => []TypeInv
<1>1. Init => TypeInv
  <2> SUFFICES ASSUME Init PROVE TypeInv
    OBVIOUS
  <2>1. zcaps \in [ZcapIds -> Capability \cup {NoZcap}]
    BY RootCapsTyped, Zenon DEF Init
  <2>2. RootsKept
    BY HubAssumption, ComparatorAssumption, Zenon DEF Init, RootsKept
  <2>3. lastCmp \in [status: {0, 200, 500}, result: BOOLEAN]
    BY DEF Init
  <2>. QED
    BY <2>1, <2>2, <2>3, HubAssumption DEF Init, TypeInv, TypeOK
<1>2. TypeInv /\ [Next]_vars => TypeInv'
  <2> SUFFICES ASSUME TypeInv, [Next]_vars PROVE TypeInv'
    OBVIOUS
  <2> USE DEF TypeInv, TypeOK
  <2>1. ASSUME NEW ze \in ZcapIds, NEW zk \in ZcapIds, AuthorizeRead(Hub, ze, zk),
               UNCHANGED <<pending, issued, lastCmp>>
        PROVE  TypeInv'
    <3>1. /\ NewCapability(ze, RootEdv, zcaps[RootEdv].chain \o <<RootEdv>>, Hub, User,
                            {"read"}, zcaps[RootEdv].target, now, {}) \in Capability
          /\ NewCapability(zk, RootKms, zcaps[RootKms].chain \o <<RootKms>>, Hub, User,
                            {"unwrap"}, zcaps[RootKms].target, now, {}) \in Capability
      <4>1. /\ zcaps[RootEdv].chain \o <<RootEdv>> = <<RootEdv>>
            /\ zcaps[RootKms].chain \o <<RootKms>> = <<RootKms>>
            /\ zcaps[RootEdv].target = EdvTarget /\ zcaps[RootKms].target = KmsTarget
        BY DEF RootsKept, EdvRootCap, KmsRootCap, NewCapability
      <4>2. EdvTarget \in Seq(Segments)
        BY SegmentsAssumption DEF EdvTarget
      <4>3. <<RootEdv>> \in Seq(ZcapIds) /\ <<RootKms>> \in Seq(ZcapIds)
        BY HubAssumption
      <4>4. /\ now \in Nat /\ Hub \in DIDs /\ User \in DIDs
            /\ {"read"} \in SUBSET Actions /\ {"unwrap"} \in SUBSET Actions
            /\ {} \in SUBSET Nat
            /\ RootEdv \in ZcapIds \cup {NoZcap} /\ RootKms \in ZcapIds \cup {NoZcap}
        BY HubAssumption, SegmentsAssumption
      <4>5. NewCapability(ze, RootEdv, <<RootEdv>>, Hub, User, {"read"}, EdvTarget, now, {})
            \in Capability
        BY <4>2, <4>3, <4>4, NewCapabilityTyped
      <4>6. NewCapability(zk, RootKms, <<RootKms>>, Hub, User, {"unwrap"}, KmsTarget, now, {})
            \in Capability
        BY <4>3, <4>4, SegmentsAssumption, NewCapabilityTyped
      <4>. QED
        BY <4>1, <4>5, <4>6
    <3>2. zcaps' \in [ZcapIds -> Capability \cup {NoZcap}]
      BY <2>1, <3>1 DEF AuthorizeRead
    <3>3. RootsKept'
      <4>1. ze \notin {RootEdv, RootKms, RootCmp} /\ zk \notin {RootEdv, RootKms, RootCmp}
        BY <2>1, RootCapsTyped, NoZcapAssumption DEF AuthorizeRead, RootsKept
      <4>2. \A x \in ZcapIds \ {ze, zk} : zcaps'[x] = zcaps[x]
        BY <2>1 DEF AuthorizeRead
      <4>3. {RootEdv, RootKms, RootCmp} \subseteq ZcapIds \ {ze, zk}
        BY <4>1, HubAssumption, ComparatorAssumption
      <4>4. /\ zcaps'[RootEdv] = zcaps[RootEdv]
            /\ zcaps'[RootKms] = zcaps[RootKms]
            /\ zcaps'[RootCmp] = zcaps[RootCmp]
        BY <4>2, <4>3
      <4>. QED
        BY <4>4 DEF RootsKept
    <3>. QED
      BY <2>1, <3>2, <3>3 DEF AuthorizeRead
  <2>2. ASSUME NEW pid \in ProfileIds, NEW d \in Docs, NEW p \in Paths,
               NEW e \in EdvCaps, NEW k \in KmsCaps, NEW q \in QueryIds,
               CreateQuery(pid, UserDocQuery(d, p, e, k), q),
               UNCHANGED <<pending, issued, lastCmp>>
        PROVE  TypeInv'
    <3>1. UserDocQuery(d, p, e, k) \in DocQuery
      BY SegmentsAssumption DEF UserDocQuery, DocQuery, EdvCaps, KmsCaps, Minted
    <3>. QED
      BY <2>2, <3>1 DEF CreateQuery, StoredQuery, RootsKept
  <2>3. ASSUME NEW party \in Parties, NEW d \in Docs, NEW p \in Paths,
               NEW e \in EdvCaps, NEW k \in KmsCaps, NEW cav \in CaveatChoices,
               NEW q \in QueryIds,
               AuthzCreateQuery(party, d, p, e, k, cav, q)
        PROVE  TypeInv'
    <3>1. RewriteDocQuery(d, p, e, k) \in DocQuery
      BY RewriteTyped DEF EdvCaps, KmsCaps, Minted
    <3>2. queries' \in [QueryIds -> StoredQuery \cup {NoQuery}]
      BY <2>3, <3>1, ComparatorAssumption DEF AuthzCreateQuery, CreateQuery, StoredQuery
    <3>3. pending' \subseteq PendingRec
      BY <2>3 DEF AuthzCreateQuery, PendingRec
    <3>. QED
      BY <2>3, <3>2, <3>3 DEF AuthzCreateQuery, CreateQuery, RootsKept
  <2>4. ASSUME NEW d \in Docs, NEW p \in Paths, NEW e \in EdvCaps, NEW k \in KmsCaps,
               NEW q \in QueryIds,
               AuthzQueryLost(d, p, e, k, q)
        PROVE  TypeInv'
    <3>1. RewriteDocQuery(d, p, e, k) \in DocQuery
      BY RewriteTyped DEF EdvCaps, KmsCaps, Minted
    <3>2. queries' \in [QueryIds -> StoredQuery \cup {NoQuery}]
      BY <2>4, <3>1, ComparatorAssumption DEF AuthzQueryLost, CreateQuery, StoredQuery
    <3>. QED
      BY <2>4, <3>2 DEF AuthzQueryLost, CreateQuery, RootsKept
  <2>5. ASSUME NEW r \in pending, NEW z \in ZcapIds, AuthzIssue(r, z)
        PROVE  TypeInv'
    <3>1. r \in PendingRec
      OBVIOUS
    <3>2. Location(CmpProfile, r.query) \in Seq(Segments)
      BY <3>1, LocationTyped, ComparatorAssumption DEF PendingRec
    <3>3. zcaps[RootCmp].id = RootCmp
      BY DEF RootsKept, CmpRootCap, NewCapability
    <3>4. NewCapability(z, zcaps[RootCmp].id, <<zcaps[RootCmp].id>>, r.party, Cmp,
                        {"reference"}, Location(CmpProfile, r.query), now, r.caveats)
          \in Capability
      <4>1. NewCapability(z, RootCmp, <<RootCmp>>, r.party, Cmp,
                          {"reference"}, Location(CmpProfile, r.query), now, r.caveats)
            \in Capability
        BY <3>1, IssuedCapTyped
      <4>. QED
        BY <3>3, <4>1
    <3>7. zcaps' \in [ZcapIds -> Capability \cup {NoZcap}]
      BY <2>5, <3>4 DEF AuthzIssue
    <3>5. RootsKept'
      BY <2>5, RootCapsTyped, NoZcapAssumption DEF AuthzIssue, RootsKept
    <3>6. issued' \subseteq IssuedRec
      BY <2>5, <3>1 DEF AuthzIssue, IssuedRec, PendingRec
    <3>. QED
      BY <2>5, <3>7, <3>5, <3>6 DEF AuthzIssue
  <2>6. ASSUME NEW r \in pending, AuthzFail(r)
        PROVE  TypeInv'
    BY <2>6 DEF AuthzFail, RootsKept
  <2>7. ASSUME NEW args \in ArgSeqs, NEW md \in BOOLEAN, HandleEqOp(args, md)
        PROVE  TypeInv'
    BY <2>7, EqOpAnswerTyped DEF HandleEqOp, RootsKept
  <2>8. CASE Tick /\ UNCHANGED <<pending, issued, lastCmp>>
    BY <2>8, HubAssumption DEF Tick, RootsKept
  <2>9. CASE UNCHANGED vars
    BY <2>9 DEF vars, RootsKept
  <2>. QED
    BY <2>1, <2>2, <2>3, <2>4, <2>5, <2>6, <2>7, <2>8, <2>9
    DEF Next, StoreNext, CompareNext
<1>. QED
  BY <1>1, <1>2, PTL DEF Spec

\* TypeOK, the type invariant the authz run checks, holds in every state
\* the handlers (HandleAuthz, HandleEqOp, authorizeRead, CreateQuery) reach.
THEOREM TypeOKHolds == Spec => []TypeOK
<1>1. TypeInv => TypeOK
  BY DEF TypeInv
<1>. QED
  BY <1>1, TypeCorrect, PTL

-----------------------------------------------------------------------------
(* Issued tokens verify.                                                   *)

\* What driveZCAPForCSH put under the id of every token handed out: a child
\* of the comparator's profile root, chained to it, for the party, signed by
\* the comparator, allowing "reference".
TokenShape(zs, t) ==
    /\ zs[t.zcap] # NoZcap
    /\ zs[t.zcap].id = t.zcap
    /\ zs[t.zcap].parent = RootCmp
    /\ zs[t.zcap].chain = <<RootCmp>>
    /\ zs[t.zcap].invoker = t.party
    /\ zs[t.zcap].signer = Cmp
    /\ "reference" \in zs[t.zcap].actions

IssuedShape == \A t \in issued : TokenShape(zcaps, t)

\* A token of that shape, with the comparator's root in place, passes the
\* chain verifier while its caveats hold.
LEMMA ShapeVerifies ==
    ASSUME TypeInv, IssuedShape
    PROVE  IssuedTokenVerifies
<1> SUFFICES ASSUME NEW t \in issued, CaveatsHold(zcaps[t.zcap], now)
             PROVE  /\ Verify(zcaps, zcaps[t.zcap], now, "reference")
                    /\ zcaps[t.zcap].invoker = t.party
  BY DEF IssuedTokenVerifies
<1> DEFINE c == zcaps[t.zcap]
<1>1. /\ c # NoZcap /\ c.id = t.zcap /\ c.parent = RootCmp /\ c.chain = <<RootCmp>>
      /\ c.invoker = t.party /\ c.signer = Cmp /\ "reference" \in c.actions
  BY DEF IssuedShape, TokenShape, c
<1>2. /\ zcaps[RootCmp] = CmpRootCap
      /\ CmpRootCap # NoZcap
      /\ CmpRootCap.parent = NoZcap /\ CmpRootCap.invoker = Cmp
      /\ CmpRootCap.caveats = {}
  BY RootCapsTyped, NoZcapAssumption DEF TypeInv, RootsKept, CmpRootCap, NewCapability
<1>3. RootCmp \in ZcapIds /\ RootCmp # NoZcap
  BY ComparatorAssumption, NoZcapAssumption
<1>4. CaveatsHold(zcaps[RootCmp], now)
  BY <1>2 DEF CaveatsHold
<1>5. Verify(zcaps, c, now, "reference")
  BY <1>1, <1>2, <1>3, <1>4 DEF Verify, c
<1>. QED
  BY <1>1, <1>5 DEF c

\* No handler touches a token once it is handed out: AuthorizeRead and
\* AuthzIssue only fill ids under which nothing was stored, and the issued
\* token's capability is the one driveZCAPForCSH minted.
LEMMA ShapeStep ==
    ASSUME TypeInv, IssuedShape, [Next]_vars
    PROVE  IssuedShape'
<1> USE DEF TypeInv, TypeOK
<1>1. ASSUME NEW ze \in ZcapIds, NEW zk \in ZcapIds, AuthorizeRead(Hub, ze, zk),
             UNCHANGED <<pending, issued, lastCmp>>
      PROVE  IssuedShape'
  <2>1. \A t \in issued : t.zcap \in ZcapIds \ {ze, zk}
    BY <1>1 DEF AuthorizeRead, IssuedShape, TokenShape, IssuedRec
  <2>2. \A x \in ZcapIds \ {ze, zk} : zcaps'[x] = zcaps[x]
    BY <1>1 DEF AuthorizeRead
  <2>. QED
    BY <1>1, <2>1, <2>2 DEF IssuedShape, TokenShape
<1>2. ASSUME NEW r \in pending, NEW z \in ZcapIds, AuthzIssue(r, z)
      PROVE  IssuedShape'
  <2> DEFINE t0 == [zcap |-> z, party |-> r.party, doc |-> r.doc, path |-> r.path]
  <2>1. issued' = issued \cup {t0}
    BY <1>2 DEF AuthzIssue, t0
  <2>2. zcaps[RootCmp].id = RootCmp
    BY DEF RootsKept, CmpRootCap, NewCapability
  <2>3. zcaps'[z] = NewCapability(z, RootCmp, <<RootCmp>>, r.party, Cmp, {"reference"},
                                  Location(CmpProfile, r.query), now, r.caveats)
    BY <1>2, <2>2 DEF AuthzIssue
  <2>4. TokenShape(zcaps', t0)
    <3>1. NewCapability(z, RootCmp, <<RootCmp>>, r.party, Cmp, {"reference"},
                        Location(CmpProfile, r.query), now, r.caveats) # NoZcap
      BY IssuedCapTyped, NoZcapAssumption, HubAssumption
    <3>. QED
      BY <2>3, <3>1 DEF TokenShape, NewCapability, t0
  <2>5. \A t \in issued : TokenShape(zcaps', t)
    <3>1. \A t \in issued : t.zcap # z
      BY <1>2 DEF AuthzIssue, IssuedShape, TokenShape
    <3>2. \A t \in issued : zcaps'[t.zcap] = zcaps[t.zcap]
      BY <1>2, <3>1 DEF AuthzIssue, IssuedRec
    <3> SUFFICES ASSUME NEW t \in issued PROVE TokenShape(zcaps', t)
      OBVIOUS
    <3>3. TokenShape(zcaps, t)
      BY DEF IssuedShape
    <3>4. zcaps'[t.zcap] = zcaps[t.zcap]
      BY <3>2
    <3>. QED
      BY <3>3, <3>4 DEF TokenShape
  <2>6. \A t \in issued' : TokenShape(zcaps', t)
    <3> SUFFICES ASSUME NEW t \in issued' PROVE TokenShape(zcaps', t)
      OBVIOUS
    <3>1. t \in issued \/ t = t0
      BY <2>1
    <3>2. CASE t \in issued
      BY <2>5, <3>2
    <3>3. CASE t = t0
      BY <2>4, <3>3
    <3>. QED
      BY <3>1, <3>2, <3>3
  <2>. QED
    BY <2>6 DEF IssuedShape
<1>3. CASE UNCHANGED <<zcaps, issued>>
  BY <1>3 DEF IssuedShape, TokenShape
<1>. QED
  BY <1>1, <1>2, <1>3
  DEF Next, StoreNext, CompareNext, vars, CreateQuery, AuthzCreateQuery, AuthzQueryLost,
      AuthzFail, HandleEqOp, Tick

\* Every token HandleAuthz has handed out keeps the shape driveZCAPForCSH
\* gave it, in every reachable state.
THEOREM IssuedShapeInvariant == Spec => [](TypeInv /\ IssuedShape)
<1>1. Init => IssuedShape
  BY DEF Init, IssuedShape
<1>2. TypeInv /\ IssuedShape /\ [Next]_vars => IssuedShape'
  BY ShapeStep
<1>. QED
  BY <1>1, <1>2, TypeCorrect, PTL DEF Spec

\* A token the comparator issued (HandleAuthz, driveZCAPForCSH) passes the
\* chain verifier for "reference", invoked by the party it was issued to,
\* for as long as its expiry caveats hold, whatever else the handlers do.
THEOREM IssuedTokensVerify == Spec => []IssuedTokenVerifies
<1>1. TypeInv /\ IssuedShape => IssuedTokenVerifies
  BY ShapeVerifies
<1>. QED
  BY <1>1, IssuedShapeInvariant, PTL

=============================================================================
