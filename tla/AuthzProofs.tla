---------------------------- MODULE AuthzProofs -----------------------------
(***************************************************************************)
(* HandleAuthz and HandleEqOp agree on what a token names: the target      *)
(* driveZCAPForCSH gives a token, cut at "/queries/" as HandleEqOp cuts it, *)
(* is the id of the query HandleAuthz stored, and that query reads the     *)
(* document and path the party was authorized for.                         *)
(*                                                                         *)
(* This holds for the URL layout the deployment uses and not for every     *)
(* layout (the nested_edv_base run shows a layout where it fails), so the  *)
(* theorem carries the layout as its hypothesis.                           *)
(***************************************************************************)
EXTENDS ComparatorProofs

\* The deployment's URL layout: the EDV's base path is one segment (what
\* HandleAuthz keeps of it, parts[3]), and neither the hub's base URL nor
\* the comparator's profile id contains a "queries" segment.
DeployedLayout ==
    /\ Len(EdvBase) = 1
    /\ \A i \in 1..Len(HubBase) : HubBase[i] # "queries"
    /\ CmpProfile # "queries"

\* Concatenation, element by element.
LEMMA ConcatIndex ==
    ASSUME NEW S, NEW s1 \in Seq(S), NEW s2 \in Seq(S)
    PROVE  /\ s1 \o s2 \in Seq(S)
           /\ Len(s1 \o s2) = Len(s1) + Len(s2)
           /\ \A i \in 1..Len(s1) : (s1 \o s2)[i] = s1[i]
           /\ \A i \in 1..Len(s2) : (s1 \o s2)[Len(s1) + i] = s2[i]
<1>1. /\ s1 \o s2 \in Seq(S)
      /\ Len(s1 \o s2) = Len(s1) + Len(s2)
      /\ \A i \in 1 .. Len(s1) + Len(s2) :
            (s1 \o s2)[i] = IF i <= Len(s1) THEN s1[i] ELSE s2[i - Len(s1)]
  BY ConcatProperties, Zenon
<1>. QED
  BY <1>1

-----------------------------------------------------------------------------
(* Where HandleEqOp cuts a Location.                                       *)

\* The piece after the only "/queries/" separator of a URL runs to its end.
LEMMA RefPieceSingle ==
    ASSUME NEW s, NEW k \in Nat, QueriesSeps(s) = {k}
    PROVE  RefPiece(s) = SubSeq(s, k + 1, Len(s))
<1> DEFINE i0 == CHOOSE i \in QueriesSeps(s) : \A j \in QueriesSeps(s) : i <= j
<1>1. i0 = k
  BY DEF i0
<1>2. {j \in QueriesSeps(s) : j > i0 + 1} = {}
  BY <1>1
<1>. QED
  BY <1>1, <1>2 DEF RefPiece, i0

\* The Location of query q in the comparator's profile has exactly one
\* "/queries/" separator, and the piece after it is the query id.
LEMMA LocationRef ==
    ASSUME DeployedLayout, NEW q \in QueryIds
    PROVE  /\ QueriesSeps(Location(CmpProfile, q)) = {Len(HubBase) + 4}
           /\ RefPiece(Location(CmpProfile, q)) = <<q>>
<1> DEFINE s == Location(CmpProfile, q)
           tail == <<"hubstore", "profiles", CmpProfile, "queries", q>>
           L == Len(HubBase)
<1>1. /\ HubBase \in Seq(Segments) /\ tail \in Seq(Segments) /\ L \in Nat
  BY SegmentsAssumption, ComparatorAssumption DEF tail, L
<1>2. /\ Len(s) = L + 5
      /\ \A i \in 1..L : s[i] = HubBase[i]
      /\ \A i \in 1..5 : s[L + i] = tail[i]
  BY <1>1, ConcatIndex DEF s, tail, L, Location
<1>3. /\ s[L + 1] = "hubstore" /\ s[L + 2] = "profiles" /\ s[L + 3] = CmpProfile
      /\ s[L + 4] = "queries" /\ s[L + 5] = q
  BY <1>2 DEF tail
<1>4. QueriesSeps(s) = {L + 4}
  <2>1. \A i \in 2..(L + 4) : s[i] = "queries" <=> i = L + 4
    <3> SUFFICES ASSUME NEW i \in 2..(L + 4) PROVE s[i] = "queries" <=> i = L + 4
      OBVIOUS
    <3>1. CASE i <= L
      BY <3>1, <1>1, <1>2 DEF DeployedLayout, L
    <3>2. CASE i > L
      BY <3>2, <1>1, <1>3 DEF DeployedLayout
    <3>. QED
      BY <3>1, <3>2, <1>1
  <2>. QED
    BY <2>1, <1>1, <1>2 DEF QueriesSeps
<1>5. RefPiece(s) = <<q>>
  <2>1. SubSeq(s, L + 5, L + 5) = <<q>>
    <3>1. s \in Seq(Segments)
      BY <1>1, ConcatIndex DEF s, tail, Location
    <3>2. /\ Len(SubSeq(s, L + 5, L + 5)) = 1
          /\ SubSeq(s, L + 5, L + 5)[1] = s[L + 5]
      BY <3>1, <1>1, <1>2, SubSeqProperties
    <3>3. SubSeq(s, L + 5, L + 5) \in Seq(Segments)
      BY <3>1, <1>1, <1>2, SubSeqProperties
    <3>4. \A a, b \in Seq(Segments) :
            Len(a) = Len(b) /\ (\A i \in 1..Len(a) : a[i] = b[i]) => a = b
      BY SeqEqual
    <3>5. <<q>> \in Seq(Segments) /\ Len(<<q>>) = 1 /\ <<q>>[1] = q
      BY SegmentsAssumption
    <3>6. \A i \in 1..Len(SubSeq(s, L + 5, L + 5)) : SubSeq(s, L + 5, L + 5)[i] = <<q>>[i]
      BY <3>2, <3>5, <1>3
    <3>. QED
      BY <3>2, <3>3, <3>4, <3>5, <3>6
  <2>2. RefPiece(s) = SubSeq(s, L + 4 + 1, Len(s))
    BY <1>1, <1>4, RefPieceSingle
  <2>. QED
    BY <2>1, <2>2, <1>1, <1>2
<1>. QED
  BY <1>4, <1>5 DEF s

-----------------------------------------------------------------------------
(* What the metadata rewrite fetches.                                      *)

\* With a one-segment EDV base, the DocQuery HandleAuthz builds from the
\* document URI reads that document and no other, at the asked path.
LEMMA RewriteFetches ==
    ASSUME DeployedLayout, NEW d \in Docs, NEW p \in Paths, NEW e, NEW k
    PROVE  /\ FetchedDoc(RewriteDocQuery(d, p, e, k)) = {d}
           /\ RewriteDocQuery(d, p, e, k).path = p
<1> DEFINE parts == DocURI(d)
           H == EdvHost \o EdvBase
           t == <<Vault, "documents", d>>
<1>1. /\ H \in Seq(Segments) /\ Len(H) = 4
      /\ t \in Seq(Segments)
  <2>1. \A a, b \in Seq(Segments) : a \o b \in Seq(Segments) /\ Len(a \o b) = Len(a) + Len(b)
    BY ConcatIndex
  <2>2. t \in Seq(Segments)
    BY SegmentsAssumption DEF t
  <2>3. Len(EdvHost) = 3 /\ Len(EdvBase) = 1
    BY SegmentsAssumption DEF DeployedLayout
  <2>4. EdvHost \in Seq(Segments) /\ EdvBase \in Seq(Segments)
    BY SegmentsAssumption
  <2>5. /\ EdvHost \o EdvBase \in Seq(Segments)
        /\ Len(EdvHost \o EdvBase) = Len(EdvHost) + Len(EdvBase)
    BY <2>4, ConcatIndex
  <2>6. Len(EdvHost \o EdvBase) = 4
    BY <2>3, <2>4, <2>5
  <2>. QED
    BY <2>2, <2>5, <2>6 DEF H
<1>2. /\ parts = H \o t
      /\ Len(parts) = 7
      /\ parts[Len(parts) - 2] = Vault
      /\ parts[Len(parts)] = d
  BY DocURIShape DEF DeployedLayout, parts, H, t, DocURI
<1>3. SubSeq(parts, 1, 4) = H
  <2>1. \A a, b \in Seq(Segments) : Len(a) >= 1 =>
           SubSeq(a \o b, 1, Len(a)) = SubSeq(a, 1, Len(a))
    BY SubSeqOfConcat1
  <2>2. \A a \in Seq(Segments) : SubSeq(a, 1, Len(a)) = a
    BY SubSeqFull
  <2>3. SubSeq(H \o t, 1, Len(H)) = SubSeq(H, 1, Len(H))
    BY <1>1, <2>1
  <2>4. SubSeq(H, 1, Len(H)) = H
    BY <1>1, <2>2
  <2>. QED
    BY <1>1, <1>2, <2>3, <2>4
<1>4. RewriteDocQuery(d, p, e, k)
        = [base |-> H, vault |-> Vault, doc |-> d, path |-> p, edv |-> e, kms |-> k]
  BY <1>2, <1>3 DEF RewriteDocQuery, parts
<1>5. \A d2 \in Docs : DocURI(d2) = DocURI(d) => d2 = d
  BY DocURIShape
<1> DEFINE rq == RewriteDocQuery(d, p, e, k)
<1>6. FetchedDoc(rq) = {d2 \in Docs : DocURI(d2) = DocURI(d)}
  <2>1. rq.base = H /\ rq.vault = Vault /\ rq.doc = d
    BY <1>4 DEF rq
  <2>2. rq.base \o <<rq.vault, "documents", rq.doc>> = DocURI(d)
    BY <2>1, <1>2 DEF parts, t
  <2>. QED
    BY <2>2, Zenon DEF FetchedDoc
<1>7. {d2 \in Docs : DocURI(d2) = DocURI(d)} = {d}
  BY <1>5
<1>8. rq.path = p
  BY <1>4 DEF rq
<1>. QED
  BY <1>6, <1>7, <1>8 DEF rq

-----------------------------------------------------------------------------
(* The query behind every pending call and every issued token.             *)

\* Query q is stored and reads document d at path p.
QueryNames(q, d, p) ==
    /\ queries[q] # NoQuery
    /\ FetchedDoc(queries[q].spec) = {d}
    /\ queries[q].spec.path = p

\* A HandleAuthz call between its hub call and its answer has stored a
\* query for its document and path; a token it answered with targets the
\* Location of such a query.
PendingNamed == \A r \in pending : QueryNames(r.query, r.doc, r.path)
IssuedNamed ==
    \A t \in issued : \E q \in QueryIds :
        /\ zcaps[t.zcap].target = Location(CmpProfile, q)
        /\ QueryNames(q, t.doc, t.path)
NameInv == PendingNamed /\ IssuedNamed

\* No handler replaces a stored query.
LEMMA QueriesKept ==
    ASSUME TypeInv, [Next]_vars
    PROVE  \A q \in QueryIds : queries[q] # NoQuery => queries'[q] = queries[q]
<1> SUFFICES ASSUME NEW q \in QueryIds, queries[q] # NoQuery
             PROVE  queries'[q] = queries[q]
  OBVIOUS
<1>1. ASSUME NEW pid, NEW dq, NEW q2, CreateQuery(pid, dq, q2)
      PROVE  queries'[q] = queries[q]
  BY <1>1 DEF CreateQuery, TypeInv, TypeOK
<1>2. CASE UNCHANGED queries
  BY <1>2
<1>. QED
  BY <1>1, <1>2
  DEF Next, StoreNext, CompareNext, vars, AuthzCreateQuery, AuthzQueryLost,
      AuthzIssue, AuthzFail, HandleEqOp, Tick, AuthorizeRead

\* No handler replaces the capability of a token already handed out.
LEMMA TokensKept ==
    ASSUME TypeInv, IssuedShape, [Next]_vars
    PROVE  \A t \in issued : zcaps'[t.zcap] = zcaps[t.zcap]
<1> SUFFICES ASSUME NEW t \in issued PROVE zcaps'[t.zcap] = zcaps[t.zcap]
  OBVIOUS
<1>1. t.zcap \in ZcapIds /\ zcaps[t.zcap] # NoZcap
  BY DEF IssuedShape, TokenShape, TypeInv, TypeOK, IssuedRec
<1>2. ASSUME NEW ze \in ZcapIds, NEW zk \in ZcapIds, AuthorizeRead(Hub, ze, zk)
      PROVE  zcaps'[t.zcap] = zcaps[t.zcap]
  BY <1>1, <1>2 DEF AuthorizeRead, TypeInv, TypeOK
<1>3. ASSUME NEW r \in pending, NEW z \in ZcapIds, AuthzIssue(r, z)
      PROVE  zcaps'[t.zcap] = zcaps[t.zcap]
  BY <1>1, <1>3 DEF AuthzIssue, TypeInv, TypeOK
<1>4. CASE UNCHANGED zcaps
  BY <1>4
<1>. QED
  BY <1>2, <1>3, <1>4
  DEF Next, StoreNext, CompareNext, vars, CreateQuery, AuthzCreateQuery, AuthzQueryLost,
      AuthzFail, HandleEqOp, Tick

\* What a stored query reads stays what it reads.
LEMMA NamesKept ==
    ASSUME TypeInv, [Next]_vars,
           NEW q \in QueryIds, NEW d, NEW p, QueryNames(q, d, p)
    PROVE  QueryNames(q, d, p)'
<1>1. queries'[q] = queries[q]
  BY QueriesKept DEF QueryNames
<1>. QED
  BY <1>1 DEF QueryNames

\* Every handler keeps NameInv: AuthzCreateQuery adds a pending call
\* whose query the rewrite built from the document's URI, AuthzIssue hands
\* out a token targeting the Location of the pending call's query, and
\* nothing else adds a pending call or a token.
LEMMA NameStep ==
    ASSUME DeployedLayout, TypeInv, IssuedShape, NameInv, [Next]_vars
    PROVE  NameInv'
<1>1. ASSUME NEW r \in pending PROVE QueryNames(r.query, r.doc, r.path)'
  <2>1. r.query \in QueryIds /\ QueryNames(r.query, r.doc, r.path)
    BY DEF NameInv, PendingNamed, TypeInv, TypeOK, PendingRec
  <2>. QED
    BY <2>1, NamesKept
<1>2. ASSUME NEW t \in issued
      PROVE  \E q \in QueryIds : /\ zcaps'[t.zcap].target = Location(CmpProfile, q)
                                 /\ QueryNames(q, t.doc, t.path)'
  <2>1. PICK q \in QueryIds : /\ zcaps[t.zcap].target = Location(CmpProfile, q)
                              /\ QueryNames(q, t.doc, t.path)
    BY DEF NameInv, IssuedNamed
  <2>2. zcaps'[t.zcap] = zcaps[t.zcap]
    BY TokensKept
  <2>3. QueryNames(q, t.doc, t.path)'
    BY <2>1, NamesKept
  <2>. QED
    BY <2>1, <2>2, <2>3
<1>3. CASE pending' \subseteq pending /\ issued' \subseteq issued
  BY <1>1, <1>2, <1>3 DEF NameInv, PendingNamed, IssuedNamed
<1>4. ASSUME NEW party \in Parties, NEW d \in Docs, NEW p \in Paths,
             NEW e \in ZcapIds, NEW k \in ZcapIds,
             NEW cav, NEW q \in QueryIds, AuthzCreateQuery(party, d, p, e, k, cav, q)
      PROVE  NameInv'
  <2> DEFINE r0 == [party |-> party, doc |-> d, path |-> p, caveats |-> cav, query |-> q]
  <2>1. pending' = pending \cup {r0} /\ issued' = issued
    BY <1>4 DEF AuthzCreateQuery, r0
  <2>2. queries'[q] = [profile |-> CmpProfile, spec |-> RewriteDocQuery(d, p, e, k)]
    BY <1>4 DEF AuthzCreateQuery, CreateQuery, TypeInv, TypeOK
  <2>3. QueryNames(q, d, p)'
    <3>1. /\ FetchedDoc(RewriteDocQuery(d, p, e, k)) = {d}
          /\ RewriteDocQuery(d, p, e, k).path = p
      BY RewriteFetches
    <3>2. [profile |-> CmpProfile, spec |-> RewriteDocQuery(d, p, e, k)] # NoQuery
      BY RewriteTyped, ComparatorAssumption, NoQueryAssumption DEF StoredQuery
    <3>. QED
      BY <2>2, <3>1, <3>2 DEF QueryNames
  <2>4. PendingNamed'
    BY <1>1, <2>1, <2>3 DEF PendingNamed, r0
  <2>. QED
    BY <1>2, <2>1, <2>4 DEF NameInv, IssuedNamed
<1>5. ASSUME NEW r \in pending, NEW z \in ZcapIds, AuthzIssue(r, z)
      PROVE  NameInv'
  <2> DEFINE t0 == [zcap |-> z, party |-> r.party, doc |-> r.doc, path |-> r.path]
  <2>1. pending' \subseteq pending /\ issued' = issued \cup {t0}
    BY <1>5 DEF AuthzIssue, t0
  <2>2. zcaps'[z].target = Location(CmpProfile, r.query)
    BY <1>5 DEF AuthzIssue, NewCapability, TypeInv, TypeOK
  <2>3. r.query \in QueryIds /\ QueryNames(r.query, r.doc, r.path)'
    BY <1>1 DEF TypeInv, TypeOK, PendingRec
  <2>4. \E q \in QueryIds : /\ zcaps'[t0.zcap].target = Location(CmpProfile, q)
                            /\ QueryNames(q, t0.doc, t0.path)'
    BY <2>2, <2>3 DEF t0
  <2>5. IssuedNamed'
    BY <1>2, <2>1, <2>4 DEF IssuedNamed
  <2>. QED
    BY <1>1, <2>1, <2>5 DEF NameInv, PendingNamed
<1>. QED
  BY <1>3, <1>4, <1>5
  DEF Next, StoreNext, CompareNext, vars, AuthorizeRead, CreateQuery, AuthzQueryLost,
      AuthzFail, HandleEqOp, Tick, EdvCaps, KmsCaps, Minted

\* A token targeting the Location of a query that reads its document and
\* path is cut by HandleEqOp into exactly that query's id.
LEMMA NamedCuts ==
    ASSUME DeployedLayout, IssuedNamed
    PROVE  IssuedTokenNamesItsQuery
<1> SUFFICES ASSUME NEW t \in issued
             PROVE  LET tg == zcaps[t.zcap].target
                    IN  /\ QueriesSeps(tg) # {}
                        /\ \E q \in QueryIds :
                              /\ RefPiece(tg) = <<q>>
                              /\ queries[q] # NoQuery
                              /\ FetchedDoc(queries[q].spec) = {t.doc}
                              /\ queries[q].spec.path = t.path
  BY DEF IssuedTokenNamesItsQuery
<1>1. PICK q \in QueryIds : /\ zcaps[t.zcap].target = Location(CmpProfile, q)
                            /\ QueryNames(q, t.doc, t.path)
  BY DEF IssuedNamed
<1>2. /\ QueriesSeps(Location(CmpProfile, q)) = {Len(HubBase) + 4}
      /\ RefPiece(Location(CmpProfile, q)) = <<q>>
  BY LocationRef
<1>. QED
  BY <1>1, <1>2 DEF QueryNames

\* HandleAuthz then HandleEqOp, for every deployment with the URL layout
\* DeployedLayout: the "/queries/" piece HandleEqOp cuts out of the target
\* of any token HandleAuthz handed out is the id of a stored query that
\* reads the document and path the party was authorized for, whatever
\* interleaving of authorizations, lost hub answers, failed issues,
\* delegations, other profiles' queries and comparisons came before.
THEOREM IssuedTokensNameTheirQueries ==
    ASSUME DeployedLayout
    PROVE  Spec => []IssuedTokenNamesItsQuery
<1>1. Init => NameInv
  BY DEF Init, NameInv, PendingNamed, IssuedNamed
<1>2. TypeInv /\ IssuedShape /\ NameInv /\ [Next]_vars => NameInv'
  BY NameStep
<1>3. NameInv => IssuedTokenNamesItsQuery
  BY NamedCuts DEF NameInv
<1>. QED
  BY <1>1, <1>2, <1>3, IssuedShapeInvariant, PTL DEF Spec

=============================================================================
