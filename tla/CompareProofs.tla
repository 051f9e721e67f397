---------------------------- MODULE CompareProofs ----------------------------
(***************************************************************************)
(* HandleEqOp compares what its arguments name: for every deployment with  *)
(* the URL layout of AuthzProofs, when a caller compares DocQueries and    *)
(* tokens the comparator issued, a 200 answer says whether the values at   *)
(* the documents and paths they name (a DocQuery's own, a token's scope)   *)
(* are all equal.                                                          *)
(*                                                                         *)
(* A token is looked up by its id (GrantOf), so beside NameInv the proof   *)
(* carries the fact that HandleAuthz hands each id out at most once.       *)
(***************************************************************************)
EXTENDS AuthzProofs, WellFoundedInduction

\* HandleAuthz hands each capability id out at most once.
IssuedUnique == \A t1, t2 \in issued : t1.zcap = t2.zcap => t1 = t2

CompareInv == NameInv /\ IssuedUnique

-----------------------------------------------------------------------------
(* Least elements.                                                         *)

\* A non-empty set of naturals has a least element, so the CHOOSE of
\* FirstFailure and of EqOpAnswer picks a member of its set.
LEMMA LeastExists ==
    ASSUME NEW T \in SUBSET Nat, T # {}
    PROVE  \E x \in T : \A y \in T : x <= y
<1>1. \E x \in T : \A y \in T : ~(<<y, x>> \in OpToRel(<, Nat))
  BY WFMin, NatLessThanWellFounded
<1>2. \A x, y \in Nat : ~(<<y, x>> \in OpToRel(<, Nat)) => x <= y
  <2> SUFFICES ASSUME NEW x \in Nat, NEW y \in Nat, ~(x <= y)
               PROVE  <<y, x>> \in OpToRel(<, Nat)
    OBVIOUS
  <2>1. y < x
    OBVIOUS
  <2>. QED
    BY <2>1 DEF OpToRel
<1>. QED
  BY <1>1, <1>2

\* A function on 1..n is a sequence of length n.
LEMMA LenOfFcn ==
    ASSUME NEW n \in Nat, NEW S, NEW f \in [1..n -> S]
    PROVE  f \in Seq(S) /\ Len(f) = n
OBVIOUS

-----------------------------------------------------------------------------
(* The inductive step.                                                     *)

\* AuthzIssue hands out an id under which nothing was stored, which no
\* issued token has; nothing else adds to or removes from issued.
LEMMA StoreStep ==
    ASSUME TypeInv, IssuedShape, IssuedUnique, [Next]_vars
    PROVE  IssuedUnique'
<1>1. ASSUME NEW r \in pending, NEW z \in ZcapIds, AuthzIssue(r, z)
      PROVE  IssuedUnique'
  <2> DEFINE t0 == [zcap |-> z, party |-> r.party, doc |-> r.doc, path |-> r.path]
  <2>1. issued' = issued \cup {t0} /\ zcaps[z] = NoZcap
    BY <1>1 DEF AuthzIssue, t0
  <2>2. \A t \in issued : t.zcap # z
    BY <2>1 DEF IssuedShape, TokenShape
  <2>. QED
    BY <2>1, <2>2 DEF IssuedUnique, t0
<1>2. CASE issued' = issued
  BY <1>2 DEF IssuedUnique
<1>. QED
  BY <1>1, <1>2
  DEF Next, StoreNext, CompareNext, vars, AuthorizeRead, CreateQuery, AuthzCreateQuery,
      AuthzQueryLost, AuthzFail, HandleEqOp, Tick

\* At set-up no token is handed out.
LEMMA CompareInit ==
    ASSUME Init
    PROVE  CompareInv
BY DEF Init, CompareInv, NameInv, PendingNamed, IssuedNamed, IssuedUnique

\* The comparator's store keeps CompareInv in every reachable state.
THEOREM CompareInvariant ==
    ASSUME DeployedLayout
    PROVE  Spec => [](TypeInv /\ IssuedShape /\ CompareInv)
<1>1. Init => CompareInv
  BY CompareInit
<1>2. TypeInv /\ IssuedShape /\ CompareInv /\ [Next]_vars => CompareInv'
  BY NameStep, StoreStep DEF CompareInv
<1>. QED
  BY <1>1, <1>2, IssuedShapeInvariant, PTL DEF Spec

-----------------------------------------------------------------------------
(* What an argument resolves to.                                           *)

\* A DocQuery that fetches one document resolves, when it resolves, to that
\* document at the query's path.
LEMMA ResolveDocOK ==
    ASSUME NEW dq, NEW d, FetchedDoc(dq) = {d}, ResolveDoc(dq).status = 200
    PROVE  ResolveDoc(dq).doc = d /\ ResolveDoc(dq).path = dq.path
<1>1. UpstreamOK(dq.edv, dq.kms) /\ FetchedDoc(dq) # {}
  BY DEF ResolveDoc
<1>. QED
  BY <1>1 DEF ResolveDoc

\* HandleEqOp's rewrite of a DocQuery argument, or its cut of an issued
\* token, resolves at the hub to the document and path the argument names.
LEMMA ArgNamed ==
    ASSUME DeployedLayout, TypeInv, IssuedShape, CompareInv,
           NEW a \in CmpArgs, IssuedArg(a), Resolve(ToHubQuery(a)).status = 200
    PROVE  /\ Named(a) \in Docs \X Paths
           /\ Resolve(ToHubQuery(a)).doc = Named(a)[1]
           /\ Resolve(ToHubQuery(a)).path = Named(a)[2]
<1>1. CASE a.type = "DocQuery"
  <2> DEFINE dq == RewriteDocQuery(a.doc, a.path, a.edv, a.kms)
  <2>1. a.doc \in Docs /\ a.path \in Paths
    BY <1>1 DEF CmpArgs
  <2>2. Resolve(ToHubQuery(a)) = ResolveDoc(dq) /\ Named(a) = <<a.doc, a.path>>
    BY <1>1 DEF ToHubQuery, Resolve, Named, dq
  <2>3. FetchedDoc(dq) = {a.doc} /\ dq.path = a.path
    BY <2>1, RewriteFetches DEF dq
  <2>4. ResolveDoc(dq).status = 200
    BY <2>2
  <2>5. ResolveDoc(dq).doc = a.doc /\ ResolveDoc(dq).path = dq.path
    BY <2>3, <2>4, ResolveDocOK
  <2>. QED
    BY <2>1, <2>2, <2>3, <2>5
<1>2. CASE a.type = "AuthorizedQuery"
  <2>2. PICK t \in issued : a.token = zcaps[t.zcap]
    BY <1>2 DEF IssuedArg
  <2> DEFINE tg == zcaps[t.zcap].target
  <2>1. a.token.target = tg /\ a.token.id = t.zcap
    BY <2>2 DEF IssuedShape, TokenShape, tg
  <2>3. PICK q \in QueryIds : /\ tg = Location(CmpProfile, q)
                              /\ QueryNames(q, t.doc, t.path)
    BY DEF CompareInv, NameInv, IssuedNamed, tg
  <2>4. RefPiece(tg) = <<q>>
    BY <2>3, LocationRef
  <2>5. Resolve(ToHubQuery(a)) = ResolveRef(<<q>>)
    BY <1>2, <2>1, <2>4 DEF ToHubQuery, Resolve
  <2>6. (CHOOSE q2 \in QueryIds : <<q>> = <<q2>>) = q
    OBVIOUS
  <2>7. ResolveRef(<<q>>) = ResolveDoc(queries[q].spec)
    BY <2>3, <2>6 DEF ResolveRef, QueryNames
  <2>8. Named(a) = <<t.doc, t.path>>
    <3>1. (CHOOSE t2 \in issued : t2.zcap = t.zcap) = t
      BY DEF CompareInv, IssuedUnique
    <3>2. GrantOf(t.zcap) = <<t.doc, t.path>>
      BY <3>1 DEF GrantOf
    <3>3. Named(a) = GrantOf(a.token.id)
      BY <1>2 DEF Named
    <3>. QED
      BY <2>1, <3>2, <3>3
  <2>9. t.doc \in Docs /\ t.path \in Paths
    BY DEF TypeInv, TypeOK, IssuedRec
  <2>10. ResolveDoc(queries[q].spec).status = 200
    BY <2>5, <2>7
  <2>11. FetchedDoc(queries[q].spec) = {t.doc} /\ queries[q].spec.path = t.path
    BY <2>3 DEF QueryNames
  <2>12. /\ ResolveDoc(queries[q].spec).doc = t.doc
         /\ ResolveDoc(queries[q].spec).path = queries[q].spec.path
    BY <2>10, <2>11, ResolveDocOK
  <2>. QED
    BY <2>5, <2>7, <2>8, <2>9, <2>11, <2>12
<1>. QED
  BY <1>1, <1>2 DEF CmpArgs

-----------------------------------------------------------------------------
(* What a 200 answer means.                                                *)

\* The hub arguments that do not resolve (FirstFailure's candidates).
Unresolved(hargs) == {i \in 1..Len(hargs) : Resolve(hargs[i]).status # 200}

\* The hub answers 200 only when every argument resolved, and then with
\* whether the values they resolved to are all equal.
LEMMA HubAllResolved ==
    ASSUME NEW hargs, NEW n \in Nat, Len(hargs) = n, HubCompare(hargs).status = 200
    PROVE  /\ \A i \in 1..n : Resolve(hargs[i]).status = 200
           /\ HubCompare(hargs).result =
                \A i, j \in 1..n :
                   content[Resolve(hargs[i]).doc][Resolve(hargs[i]).path]
                     = content[Resolve(hargs[j]).doc][Resolve(hargs[j]).path]
<1>1. Unresolved(hargs) = {}
  <2> SUFFICES ASSUME Unresolved(hargs) # {} PROVE FALSE
    OBVIOUS
  <2>1. \E x \in Unresolved(hargs) : \A y \in Unresolved(hargs) : x <= y
    <3>1. Unresolved(hargs) \in SUBSET Nat
      BY DEF Unresolved
    <3>2. \A T \in SUBSET Nat : T # {} => \E x \in T : \A y \in T : x <= y
      BY LeastExists
    <3>. QED
      BY <3>1, <3>2
  <2>2. FirstFailure(hargs) \in Unresolved(hargs)
    BY <2>1 DEF FirstFailure, Unresolved
  <2>3. FirstFailure(hargs) # 0
    BY <2>2 DEF Unresolved
  <2>4. HubCompare(hargs).status = Resolve(hargs[FirstFailure(hargs)]).status
    BY <2>3 DEF HubCompare
  <2>. QED
    BY <2>2, <2>4 DEF Unresolved
<1>2. FirstFailure(hargs) = 0
  BY <1>1 DEF FirstFailure, Unresolved
<1>. QED
  BY <1>1, <1>2 DEF HubCompare, Unresolved

\* The answer relayed through models.Comparison's JSON is the hub's result.
LEMMA ComparisonRoundTrip ==
    ASSUME NEW b \in BOOLEAN
    PROVE  ComparisonResult(ComparisonJSON(b)) = b
BY DEF ComparisonResult, ComparisonJSON

\* The hub query list HandleEqOp builds from its arguments.
HubArgs(args) == [i \in 1..Len(args) |-> ToHubQuery(args[i])]

\* HandleEqOp's answer with the vault's metadata service up.
UpAnswer(args) == EqOpAnswer(args, FALSE)

\* HandleEqOp answers 200 only when no argument panics and the hub
\* answered 200, and then relays the hub's result.
LEMMA EqOpOK ==
    ASSUME NEW args, UpAnswer(args).status = 200
    PROVE  /\ \A i \in 1..Len(args) : ~Panics(args[i])
           /\ HubCompare(HubArgs(args)).status = 200
           /\ UpAnswer(args).result = HubCompare(HubArgs(args)).result
<1>1. {i \in 1..Len(args) : Panics(args[i]) \/ Refused(args[i], FALSE)} = {}
  <2> SUFFICES ASSUME {i \in 1..Len(args) : Panics(args[i]) \/ Refused(args[i], FALSE)} # {}
               PROVE  FALSE
    OBVIOUS
  <2>1. UpAnswer(args).status \in {0, 500}
    BY DEF UpAnswer, EqOpAnswer
  <2>. QED
    BY <2>1
<1>2. UpAnswer(args)
        = IF HubCompare(HubArgs(args)).status = 200
          THEN [status |-> 200,
                result |-> ComparisonResult(ComparisonJSON(HubCompare(HubArgs(args)).result))]
          ELSE [status |-> 500, result |-> FALSE]
  BY <1>1 DEF UpAnswer, EqOpAnswer, HubArgs
<1>3. HubCompare(HubArgs(args)).result \in BOOLEAN
  BY HubCompareShape
<1>4. HubCompare(HubArgs(args)).status = 200
  BY <1>2
<1>5. UpAnswer(args).result
        = ComparisonResult(ComparisonJSON(HubCompare(HubArgs(args)).result))
  BY <1>2, <1>4
<1>6. ComparisonResult(ComparisonJSON(HubCompare(HubArgs(args)).result))
        = HubCompare(HubArgs(args)).result
  BY <1>3, ComparisonRoundTrip
<1>7. \A i \in 1..Len(args) : ~Panics(args[i])
  BY <1>1
<1>. QED
  BY <1>4, <1>5, <1>6, <1>7

\* In a state where CompareInv holds, every 200 answer of HandleEqOp to
\* DocQueries and issued tokens compares what its arguments name.
LEMMA ScopeFromInv ==
    ASSUME DeployedLayout, TypeInv, IssuedShape, CompareInv
    PROVE  AuthorizedCompareUsesScope
<1> SUFFICES ASSUME NEW args \in ArgSeqs, \A i \in 1..Len(args) : IssuedArg(args[i]),
                    UpAnswer(args).status = 200
             PROVE  LET nm == [i \in 1..Len(args) |-> Named(args[i])]
                    IN  UpAnswer(args).result =
                          \A i, j \in 1..Len(args) :
                             content[nm[i][1]][nm[i][2]] = content[nm[j][1]][nm[j][2]]
  BY Zenon DEF AuthorizedCompareUsesScope, UpAnswer
<1>1. PICK n \in 1..MaxArgs : args \in [1..n -> CmpArgs]
  BY DEF ArgSeqs
<1>2. n \in Nat /\ Len(args) = n
  BY <1>1, LenOfFcn, ComparatorAssumption
<1>3. Len(HubArgs(args)) = n
  <2>1. HubArgs(args) \in [1..n -> {ToHubQuery(args[i]) : i \in 1..n}]
    BY <1>2 DEF HubArgs
  <2>. QED
    BY <1>2, <2>1, LenOfFcn
<1>4. /\ \A i \in 1..n : ~Panics(args[i])
      /\ HubCompare(HubArgs(args)).status = 200
      /\ UpAnswer(args).result = HubCompare(HubArgs(args)).result
  BY <1>2, EqOpOK
<1>5. /\ \A i \in 1..n : Resolve(HubArgs(args)[i]).status = 200
      /\ HubCompare(HubArgs(args)).result =
           \A i, j \in 1..n :
              content[Resolve(HubArgs(args)[i]).doc][Resolve(HubArgs(args)[i]).path]
                = content[Resolve(HubArgs(args)[j]).doc][Resolve(HubArgs(args)[j]).path]
  BY <1>2, <1>3, <1>4, HubAllResolved
<1>6. \A i \in 1..n :
         /\ Named(args[i]) \in Docs \X Paths
         /\ Resolve(HubArgs(args)[i]).doc = Named(args[i])[1]
         /\ Resolve(HubArgs(args)[i]).path = Named(args[i])[2]
  <2> SUFFICES ASSUME NEW i \in 1..n
               PROVE  /\ Named(args[i]) \in Docs \X Paths
                      /\ Resolve(HubArgs(args)[i]).doc = Named(args[i])[1]
                      /\ Resolve(HubArgs(args)[i]).path = Named(args[i])[2]
    OBVIOUS
  <2>1. /\ args[i] \in CmpArgs /\ IssuedArg(args[i])
        /\ HubArgs(args)[i] = ToHubQuery(args[i])
        /\ Resolve(ToHubQuery(args[i])).status = 200
    BY <1>1, <1>2, <1>4, <1>5 DEF HubArgs
  <2>. QED
    BY <2>1, ArgNamed
<1>8. UpAnswer(args).result =
        \A i, j \in 1..n :
           content[Named(args[i])[1]][Named(args[i])[2]]
             = content[Named(args[j])[1]][Named(args[j])[2]]
  <2>1. \A i, j \in 1..n :
           (content[Resolve(HubArgs(args)[i]).doc][Resolve(HubArgs(args)[i]).path]
              = content[Resolve(HubArgs(args)[j]).doc][Resolve(HubArgs(args)[j]).path])
           <=> (content[Named(args[i])[1]][Named(args[i])[2]]
                  = content[Named(args[j])[1]][Named(args[j])[2]])
    BY <1>6
  <2>2. (\A i, j \in 1..n :
           content[Resolve(HubArgs(args)[i]).doc][Resolve(HubArgs(args)[i]).path]
             = content[Resolve(HubArgs(args)[j]).doc][Resolve(HubArgs(args)[j]).path])
        <=> (\A i, j \in 1..n :
               content[Named(args[i])[1]][Named(args[i])[2]]
                 = content[Named(args[j])[1]][Named(args[j])[2]])
    BY <2>1
  <2>3. HubCompare(HubArgs(args)).result
          = \A i, j \in 1..n :
               content[Named(args[i])[1]][Named(args[i])[2]]
                 = content[Named(args[j])[1]][Named(args[j])[2]]
    BY <1>5, <2>2, Zenon
  <2>. QED
    BY <1>4, <2>3
<1>9. \A i \in 1..Len(args) : [k \in 1..Len(args) |-> Named(args[k])][i] = Named(args[i])
  OBVIOUS
<1>. QED
  BY <1>2, <1>8, <1>9

\* HandleAuthz then HandleEqOp, for every deployment with the layout
\* DeployedLayout: whatever DocQueries and issued tokens a caller sends, a
\* 200 answer compares exactly the documents and paths they name (a
\* token's: the scope HandleAuthz issued it for).  The invariant the
\* compare run checks.
THEOREM ComparesNamedScopes ==
    ASSUME DeployedLayout
    PROVE  Spec => []AuthorizedCompareUsesScope
<1>1. TypeInv /\ IssuedShape /\ CompareInv => AuthorizedCompareUsesScope
  BY ScopeFromInv
<1>. QED
  BY <1>1, CompareInvariant, PTL

=============================================================================
