---------------------------- MODULE VaultProofs -----------------------------
(***************************************************************************)
(* Proofs about the vault server's handlers, for every value of the        *)
(* constants that satisfies VaultAPIAssumption.                            *)
(***************************************************************************)
EXTENDS VaultAPI, TLAPS

\* The ways Next can take a step, with their inputs.
NextCreateVault == \E v \in VaultIds, out \in {"ok", "fail", "lost"} : CreateVault(v, out)
NextSaveDoc ==
    \E v \in VaultIds, bodyOK, genOK \in BOOLEAN, d \in DocIds, c \in Contents :
       \E out \in WriteOutcomes(v \in vaults) : SaveDoc(v, bodyOK, genOK, d, c, out)
NextGetDocMetadata ==
    \E v \in VaultIds, d \in DocIds, res \in {"ok", "notfound", "internal"} :
       GetDocMetadata(v, d, res)
NextCreateAuthorization ==
    \E v \in VaultIds, bodyOK \in BOOLEAN, a \in AuthIds, rp \in RPs,
       out \in {"ok", "fail", "lost"} : CreateAuthorization(v, bodyOK, a, rp, out)
NextGetAuthorization ==
    \E v \in VaultIds, a \in AuthIds, res \in {"ok", "notfound", "internal"} :
       GetAuthorization(v, a, res)
NextDelete ==
    \/ \E v \in VaultIds : DeleteVault(v)
    \/ \E v \in VaultIds, a \in AuthIds : DeleteAuthorization(v, a)

LEMMA NextCases ==
    Next <=> \/ NextCreateVault \/ NextSaveDoc \/ NextGetDocMetadata
             \/ NextCreateAuthorization \/ NextGetAuthorization \/ NextDelete
BY DEF Next, NextCreateVault, NextSaveDoc, NextGetDocMetadata,
       NextCreateAuthorization, NextGetAuthorization, NextDelete

\* The statuses the readers answer with.
LEMMA StatusesTyped ==
    ASSUME NEW res
    PROVE  /\ MetadataStatus(res) \in {200, 404, 500}
           /\ AuthorizationStatus(res) \in {200, 404, 500}
BY DEF MetadataStatus, AuthorizationStatus

\* The backend's upsert keeps documents well typed.
LEMMA PutTyped ==
    ASSUME docs \subseteq VS!DocRec,
           NEW v \in VaultIds, NEW d \in DocIds, NEW c \in Contents
    PROVE  Put(v, d, c) \subseteq VS!DocRec
BY DEF Put, VS!DocRec

-----------------------------------------------------------------------------
(* Type correctness.                                                       *)

\* The handlers only ever store well-typed vaults, documents and
\* authorizations, and only ever answer with a status and body of the
\* response type.
THEOREM TypeCorrect == Spec => []TypeOK
<1>1. Init => TypeOK
  BY VaultAPIAssumption DEF Init, VS!Init, TypeOK, Ops, Ids
<1>2. TypeOK /\ [Next]_vars => TypeOK'
  <2> SUFFICES ASSUME TypeOK, [Next]_vars PROVE TypeOK'
    OBVIOUS
  <2>1. CASE NextCreateVault
    <3> PICK v \in VaultIds, out \in {"ok", "fail", "lost"} : CreateVault(v, out)
      BY <2>1 DEF NextCreateVault
    <3>1. resp' \in [op: Ops, vault: VaultIds \cup {NoId}, req: Ids,
                     code: {0, 200, 201, 400, 404, 500}, body: Ids]
      BY DEF Respond, CreateVault, Ops, Ids
    <3>. QED
      BY <3>1 DEF CreateVault, TypeOK
  <2>2. CASE NextSaveDoc
    <3> PICK v \in VaultIds, bodyOK, genOK \in BOOLEAN, d \in DocIds, c \in Contents :
               \E out \in WriteOutcomes(v \in vaults) : SaveDoc(v, bodyOK, genOK, d, c, out)
      BY <2>2 DEF NextSaveDoc
    <3> PICK out \in WriteOutcomes(v \in vaults) : SaveDoc(v, bodyOK, genOK, d, c, out)
      OBVIOUS
    <3>1. resp' \in [op: Ops, vault: VaultIds \cup {NoId}, req: Ids,
                     code: {0, 200, 201, 400, 404, 500}, body: Ids]
      BY DEF Respond, SaveDoc, Ops, Ids
    <3>2. docs' \subseteq VS!DocRec
      BY PutTyped DEF SaveDoc, TypeOK
    <3>. QED
      BY <3>1, <3>2 DEF SaveDoc, TypeOK
  <2>3. CASE NextGetDocMetadata
    <3> PICK v \in VaultIds, d \in DocIds, res \in {"ok", "notfound", "internal"} :
               GetDocMetadata(v, d, res)
      BY <2>3 DEF NextGetDocMetadata
    <3>1. resp' \in [op: Ops, vault: VaultIds \cup {NoId}, req: Ids,
                     code: {0, 200, 201, 400, 404, 500}, body: Ids]
      BY StatusesTyped DEF Respond, GetDocMetadata, Ops, Ids
    <3>. QED
      BY <3>1 DEF GetDocMetadata, TypeOK
  <2>4. CASE NextCreateAuthorization
    <3> PICK v \in VaultIds, bodyOK \in BOOLEAN, a \in AuthIds, rp \in RPs,
             out \in {"ok", "fail", "lost"} : CreateAuthorization(v, bodyOK, a, rp, out)
      BY <2>4 DEF NextCreateAuthorization
    <3>1. resp' \in [op: Ops, vault: VaultIds \cup {NoId}, req: Ids,
                     code: {0, 200, 201, 400, 404, 500}, body: Ids]
      BY DEF Respond, CreateAuthorization, Ops, Ids
    <3>2. auths' \subseteq VS!AuthRec
      BY DEF CreateAuthorization, TypeOK, VS!AuthRec
    <3>. QED
      BY <3>1, <3>2 DEF CreateAuthorization, TypeOK
  <2>5. CASE NextGetAuthorization
    <3> PICK v \in VaultIds, a \in AuthIds, res \in {"ok", "notfound", "internal"} :
               GetAuthorization(v, a, res)
      BY <2>5 DEF NextGetAuthorization
    <3>1. resp' \in [op: Ops, vault: VaultIds \cup {NoId}, req: Ids,
                     code: {0, 200, 201, 400, 404, 500}, body: Ids]
      BY StatusesTyped DEF Respond, GetAuthorization, Ops, Ids
    <3>. QED
      BY <3>1 DEF GetAuthorization, TypeOK
  <2>6. CASE NextDelete
    <3>1. resp' \in [op: Ops, vault: VaultIds \cup {NoId}, req: Ids,
                     code: {0, 200, 201, 400, 404, 500}, body: Ids]
      BY <2>6 DEF Respond, NextDelete, DeleteVault, DeleteAuthorization, Ops, Ids
    <3>. QED
      BY <2>6, <3>1 DEF NextDelete, DeleteVault, DeleteAuthorization, TypeOK
  <2>7. CASE UNCHANGED vars
    BY <2>7 DEF vars, TypeOK
  <2>. QED
    BY <2>1, <2>2, <2>3, <2>4, <2>5, <2>6, <2>7, NextCases
<1>. QED
  BY <1>1, <1>2, PTL DEF Spec

-----------------------------------------------------------------------------
(* Acknowledged entities are never reported missing.                       *)

\* What the latest answer says about the store is true of the store: a
\* 201 for a document or an authorization means it is stored, a 404 for
\* one means it is not.
AnswerInv ==
    /\ resp.op = "SaveDoc" /\ resp.code = 201 => DocStored(resp.vault, resp.body)
    /\ resp.op = "GetDocMetadata" /\ resp.code = 404 => ~DocStored(resp.vault, resp.req)
    /\ resp.op = "CreateAuthorization" /\ resp.code = 201 => AuthStored(resp.vault, resp.body)
    /\ resp.op = "GetAuthorization" /\ resp.code = 404 => ~AuthStored(resp.vault, resp.req)

\* Every handler writes its answer from the store it leaves behind, so
\* AnswerInv holds after every step, whatever held before.
LEMMA AnswerStep == [Next]_vars /\ AnswerInv => AnswerInv'
<1> SUFFICES ASSUME [Next]_vars, AnswerInv PROVE AnswerInv'
  OBVIOUS
<1>1. CASE NextCreateVault
  BY <1>1 DEF NextCreateVault, CreateVault, Respond, AnswerInv
<1>2. CASE NextSaveDoc
  <2> PICK v \in VaultIds, bodyOK, genOK \in BOOLEAN, d \in DocIds, c \in Contents :
             \E out \in WriteOutcomes(v \in vaults) : SaveDoc(v, bodyOK, genOK, d, c, out)
    BY <1>2 DEF NextSaveDoc
  <2> PICK out \in WriteOutcomes(v \in vaults) : SaveDoc(v, bodyOK, genOK, d, c, out)
    OBVIOUS
  <2>1. resp'.code = 201 => /\ resp'.vault = v /\ resp'.body = d
                            /\ docs' = Put(v, d, c)
    BY DEF SaveDoc, Respond, Wrote
  <2>2. docs' = Put(v, d, c) => DocStored(v, d)'
    <3> DEFINE new == [vault |-> v, id |-> d, content |-> c]
    <3>1. new \in Put(v, d, c) /\ new.vault = v /\ new.id = d
      BY DEF Put
    <3>. QED
      BY <3>1, Zenon DEF DocStored
  <2>. QED
    BY <2>1, <2>2 DEF SaveDoc, Respond, AnswerInv
<1>3. CASE NextGetDocMetadata
  <2> PICK v \in VaultIds, d \in DocIds, res \in {"ok", "notfound", "internal"} :
             GetDocMetadata(v, d, res)
    BY <1>3 DEF NextGetDocMetadata
  <2>1. MetadataStatus(res) = 404 => ~DocStored(v, d)
    BY DEF GetDocMetadata, ReadOutcomes, MetadataStatus
  <2>. QED
    BY <2>1 DEF GetDocMetadata, Respond, AnswerInv, DocStored
<1>4. CASE NextCreateAuthorization
  <2> PICK v \in VaultIds, bodyOK \in BOOLEAN, a \in AuthIds, rp \in RPs,
           out \in {"ok", "fail", "lost"} : CreateAuthorization(v, bodyOK, a, rp, out)
    BY <1>4 DEF NextCreateAuthorization
  <2>1. resp'.code = 201 => /\ resp'.vault = v /\ resp'.body = a
                            /\ [vault |-> v, id |-> a, rp |-> rp] \in auths'
    BY DEF CreateAuthorization, Respond, Wrote
  <2>. QED
    BY <2>1 DEF CreateAuthorization, Respond, AnswerInv, AuthStored
<1>5. CASE NextGetAuthorization
  <2> PICK v \in VaultIds, a \in AuthIds, res \in {"ok", "notfound", "internal"} :
             GetAuthorization(v, a, res)
    BY <1>5 DEF NextGetAuthorization
  <2>1. AuthorizationStatus(res) = 404 => ~AuthStored(v, a)
    BY DEF GetAuthorization, ReadOutcomes, AuthorizationStatus
  <2>. QED
    BY <2>1 DEF GetAuthorization, Respond, AnswerInv, AuthStored
<1>6. CASE NextDelete
  BY <1>6 DEF NextDelete, DeleteVault, DeleteAuthorization, Respond, AnswerInv
<1>7. CASE UNCHANGED vars
  BY <1>7 DEF vars, AnswerInv, DocStored, AuthStored
<1>. QED
  BY <1>1, <1>2, <1>3, <1>4, <1>5, <1>6, <1>7, NextCases

\* No handler removes a document or an authorization: the upsert keeps a
\* document under its vault and id.
LEMMA StoredKept ==
    ASSUME NEW v, NEW x, [Next]_vars
    PROVE  /\ DocStored(v, x) => DocStored(v, x)'
           /\ AuthStored(v, x) => AuthStored(v, x)'
<1>1. CASE NextSaveDoc
  <2> PICK w \in VaultIds, bodyOK, genOK \in BOOLEAN, d \in DocIds, c \in Contents :
             \E out \in WriteOutcomes(w \in vaults) : SaveDoc(w, bodyOK, genOK, d, c, out)
    BY <1>1 DEF NextSaveDoc
  <2> PICK out \in WriteOutcomes(w \in vaults) : SaveDoc(w, bodyOK, genOK, d, c, out)
    OBVIOUS
  <2>1. docs' = docs \/ docs' = Put(w, d, c)
    BY DEF SaveDoc
  <2>. QED
    BY <2>1 DEF SaveDoc, DocStored, AuthStored, Put
<1>2. CASE NextCreateAuthorization
  BY <1>2 DEF NextCreateAuthorization, CreateAuthorization, DocStored, AuthStored
<1>3. CASE NextCreateVault \/ NextGetDocMetadata \/ NextGetAuthorization \/ NextDelete
  BY <1>3 DEF NextCreateVault, NextGetDocMetadata, NextGetAuthorization, NextDelete,
              CreateVault, GetDocMetadata, GetAuthorization, DeleteVault,
              DeleteAuthorization, DocStored, AuthStored
<1>4. CASE UNCHANGED vars
  BY <1>4 DEF vars, DocStored, AuthStored
<1>. QED
  BY <1>1, <1>2, <1>3, <1>4, NextCases

\* AnswerInv holds in every reachable state.
THEOREM AnswersTruthful == Spec => []AnswerInv
<1>1. Init => AnswerInv
  BY DEF Init, AnswerInv
<1>. QED
  BY <1>1, AnswerStep, PTL DEF Spec

\* SaveDoc then GetDocMetadata: once a document was acknowledged with 201,
\* no later read of its metadata answers 404.
LEMMA DocAckedKept ==
    ASSUME NEW v, NEW d
    PROVE  Spec => [](DocAcked(v, d) => [](~DocNotFound(v, d)))
<1>1. AnswerInv => /\ DocAcked(v, d) => DocStored(v, d)
                   /\ DocStored(v, d) => ~DocNotFound(v, d)
  BY DEF AnswerInv, DocAcked, DocNotFound
<1>2. DocStored(v, d) /\ [Next]_vars => DocStored(v, d)'
  BY StoredKept
<1>. QED
  BY <1>1, <1>2, AnswersTruthful, PTL DEF Spec

\* CreateAuthorization then GetAuthorization: likewise for authorizations.
LEMMA AuthAckedKept ==
    ASSUME NEW v, NEW a
    PROVE  Spec => [](AuthAcked(v, a) => [](~AuthNotFound(v, a)))
<1>1. AnswerInv => /\ AuthAcked(v, a) => AuthStored(v, a)
                   /\ AuthStored(v, a) => ~AuthNotFound(v, a)
  BY DEF AnswerInv, AuthAcked, AuthNotFound
<1>2. AuthStored(v, a) /\ [Next]_vars => AuthStored(v, a)'
  BY StoredKept
<1>. QED
  BY <1>1, <1>2, AnswersTruthful, PTL DEF Spec

\* The property the vault run checks, for every value of the constants: a
\* document or authorization the server acknowledged with 201 is never
\* afterwards reported missing, since no handler (the delete handlers
\* included) removes one and a 404 is only answered for the store's
\* not-found error.
THEOREM AckedNeverNotFoundHolds == Spec => AckedNeverNotFound
BY DocAckedKept, AuthAckedKept DEF AckedNeverNotFound

=============================================================================
