------------------------------ MODULE VaultAPI ------------------------------
(***************************************************************************)
(* The vault server's REST handlers (pkg/restapi/vault/operation) over the *)
(* vault backend (vault.Vault) they call.  The handlers themselves are not *)
(* under src/: each action is translated from its handler test in          *)
(* pkg/restapi/gatekeeper/operation/models.go, which fixes, for every      *)
(* outcome of the backend call, the status and body the handler answers.  *)
(* The backend's effects (fresh ids, a write by vault and document id) are *)
(* those the spec gives the storage service.                               *)
(*                                                                         *)
(* Each handler is one step: it decodes its request, calls the backend at  *)
(* most once and writes one response.  A backend write can fail, or take   *)
(* effect while its error still comes back (the remote EDV's or KMS's      *)
(* answer is lost).                                                        *)
(***************************************************************************)
CONSTANTS
    VaultIds, DocIds, AuthIds, RPs, Contents,
    NoId          \* no id: a path without one, or an ErrorResponse body

ASSUME VaultAPIAssumption == NoId \notin VaultIds \cup DocIds \cup AuthIds

VARIABLES
    vaults,     \* the backend's vaults
    docs,       \* the backend's documents, as [vault, id, content]
    auths,      \* the backend's authorizations, as [vault, id, rp]
    resp        \* the latest response a handler wrote

vars == <<vaults, docs, auths, resp>>

VS == INSTANCE VaultStore

Ops == {"none", "CreateVault", "SaveDoc", "GetDocMetadata", "CreateAuthorization",
        "GetAuthorization", "DeleteVault", "DeleteAuthorization"}
Ids == VaultIds \cup DocIds \cup AuthIds \cup {NoId}

\* WriteResponse: the status and the JSON body, here the id the body carries
\* or NoId for a model.ErrorResponse, with the vault and id of the request
\* path.  The handlers only encode records, so encoding never fails.
Respond(op, v, x, code, body) ==
    resp' = [op |-> op, vault |-> v, req |-> x, code |-> code, body |-> body]

\* A backend write succeeds, fails, or takes effect and fails anyway.  A
\* write into a vault that does not exist fails.
WriteOutcomes(ok) == IF ok THEN {"ok", "fail", "lost"} ELSE {"fail"}
Wrote(out) == out \in {"ok", "lost"}

\* A backend read returns the entity when it exists, the store's not-found
\* error when it does not (EDV's ErrDocumentNotFound, storage's
\* ErrDataNotFound), and can fail for another reason either way.
ReadOutcomes(present) == (IF present THEN {"ok"} ELSE {"notfound"}) \cup {"internal"}

\* Whether the backend holds document d, or authorization a, in vault v.
DocStored(v, d) == \E x \in docs : x.vault = v /\ x.id = d
AuthStored(v, a) == \E x \in auths : x.vault = v /\ x.id = a

\* The backend's upsert of a document by vault and id.
Put(v, d, c) ==
    {x \in docs : ~(x.vault = v /\ x.id = d)} \cup {[vault |-> v, id |-> d, content |-> c]}

-----------------------------------------------------------------------------

\* POST /vaults: vault.CreateVault names the new vault with a fresh did:key;
\* an error gives 500, else 201 with the vault's id and its EDV and KMS
\* locations.
CreateVault(v, out) ==
    /\ v \notin vaults
    /\ vaults' = IF Wrote(out) THEN vaults \cup {v} ELSE vaults
    /\ Respond("CreateVault", NoId, NoId, IF out = "ok" THEN 201 ELSE 500,
               IF out = "ok" THEN v ELSE NoId)
    /\ UNCHANGED <<docs, auths>>

\* POST /vaults/{vaultID}/docs: a body that is not JSON gives 400; a
\* GenerateID error 500; then vault.SaveDoc(vaultID, id, content) under the
\* generated uuid, 500 on error, else 201 with the document's id and URI.
SaveDoc(v, bodyOK, genOK, d, c, out) ==
    /\ d \notin {x.id : x \in docs}
    /\ \/ ~bodyOK /\ Respond("SaveDoc", v, NoId, 400, NoId) /\ UNCHANGED docs
       \/ bodyOK /\ ~genOK /\ Respond("SaveDoc", v, NoId, 500, NoId) /\ UNCHANGED docs
       \/ /\ bodyOK /\ genOK
          /\ docs' = IF Wrote(out) THEN Put(v, d, c) ELSE docs
          /\ Respond("SaveDoc", v, NoId, IF out = "ok" THEN 201 ELSE 500,
                     IF out = "ok" THEN d ELSE NoId)
    /\ UNCHANGED <<vaults, auths>>

\* A handler that answers 404 for every backend error (the variant
\* AckedNeverNotFound is checked against).
MetadataStatusAnyErrorNotFound(res) == IF res = "ok" THEN 200 ELSE 404

\* An error whose message contains ErrDocumentNotFound is 404, any other
\* error 500.
MetadataStatus(res) ==
    IF res = "ok" THEN 200 ELSE IF res = "notfound" THEN 404 ELSE 500

\* GET /vaults/{vaultID}/docs/{docID}/metadata: vault.GetDocMetadata, then
\* 200 with the metadata or the error's status.
GetDocMetadata(v, d, res) ==
    /\ res \in ReadOutcomes(DocStored(v, d))
    /\ Respond("GetDocMetadata", v, d, MetadataStatus(res), IF res = "ok" THEN d ELSE NoId)
    /\ UNCHANGED <<vaults, docs, auths>>

\* POST /vaults/{vaultID}/authorizations: a body that is not JSON gives 400;
\* vault.CreateAuthorization(vaultID, requestingParty, scope) names the
\* authorization with a fresh uuid, 500 on error, else 201 with its id.
CreateAuthorization(v, bodyOK, a, rp, out) ==
    /\ a \notin {x.id : x \in auths}
    /\ \/ ~bodyOK /\ Respond("CreateAuthorization", v, NoId, 400, NoId) /\ UNCHANGED auths
       \/ /\ bodyOK
          /\ out \in WriteOutcomes(v \in vaults)
          /\ auths' = IF Wrote(out) THEN auths \cup {[vault |-> v, id |-> a, rp |-> rp]}
                      ELSE auths
          /\ Respond("CreateAuthorization", v, NoId, IF out = "ok" THEN 201 ELSE 500,
                     IF out = "ok" THEN a ELSE NoId)
    /\ UNCHANGED <<vaults, docs>>

\* storage.ErrDataNotFound is 404, any other error 500.
AuthorizationStatus(res) ==
    IF res = "ok" THEN 200 ELSE IF res = "notfound" THEN 404 ELSE 500

\* GET /vaults/{vaultID}/authorizations/{authID}: vault.GetAuthorization,
\* then 200 with the authorization or the error's status.
GetAuthorization(v, a, res) ==
    /\ res \in ReadOutcomes(AuthStored(v, a))
    /\ Respond("GetAuthorization", v, a, AuthorizationStatus(res), IF res = "ok" THEN a ELSE NoId)
    /\ UNCHANGED <<vaults, docs, auths>>

\* DELETE /vaults/{vaultID} and DELETE /vaults/{vaultID}/authorizations/
\* {authID}: the backend interface has no delete, and both answer 200.
DeleteVault(v) ==
    /\ Respond("DeleteVault", v, NoId, 200, NoId)
    /\ UNCHANGED <<vaults, docs, auths>>

DeleteAuthorization(v, a) ==
    /\ Respond("DeleteAuthorization", v, a, 200, NoId)
    /\ UNCHANGED <<vaults, docs, auths>>

-----------------------------------------------------------------------------

Init ==
    /\ VS!Init
    /\ resp = [op |-> "none", vault |-> NoId, req |-> NoId, code |-> 0, body |-> NoId]

\* A request, routed by its path and method to its handler.
Next ==
    \/ \E v \in VaultIds, out \in {"ok", "fail", "lost"} : CreateVault(v, out)
    \/ \E v \in VaultIds, bodyOK, genOK \in BOOLEAN, d \in DocIds, c \in Contents :
          \E out \in WriteOutcomes(v \in vaults) : SaveDoc(v, bodyOK, genOK, d, c, out)
    \/ \E v \in VaultIds, d \in DocIds, res \in {"ok", "notfound", "internal"} :
          GetDocMetadata(v, d, res)
    \/ \E v \in VaultIds, bodyOK \in BOOLEAN, a \in AuthIds, rp \in RPs,
          out \in {"ok", "fail", "lost"} : CreateAuthorization(v, bodyOK, a, rp, out)
    \/ \E v \in VaultIds, a \in AuthIds, res \in {"ok", "notfound", "internal"} :
          GetAuthorization(v, a, res)
    \/ \E v \in VaultIds : DeleteVault(v)
    \/ \E v \in VaultIds, a \in AuthIds : DeleteAuthorization(v, a)

Spec == Init /\ [][Next]_vars

-----------------------------------------------------------------------------
(* Properties.                                                             *)

\* Every variable holds a value of its type.
TypeOK ==
    /\ vaults \subseteq VaultIds
    /\ docs \subseteq VS!DocRec
    /\ auths \subseteq VS!AuthRec
    /\ resp \in [op: Ops, vault: VaultIds \cup {NoId}, req: Ids,
                 code: {0, 200, 201, 400, 404, 500}, body: Ids]

\* The handler answered 201 to a SaveDoc of document d in vault v, or 404
\* to a read of its metadata; likewise for authorization a.
DocAcked(v, d) == resp.op = "SaveDoc" /\ resp.code = 201 /\ resp.vault = v /\ resp.body = d
DocNotFound(v, d) ==
    resp.op = "GetDocMetadata" /\ resp.code = 404 /\ resp.vault = v /\ resp.req = d
AuthAcked(v, a) ==
    resp.op = "CreateAuthorization" /\ resp.code = 201 /\ resp.vault = v /\ resp.body = a
AuthNotFound(v, a) ==
    resp.op = "GetAuthorization" /\ resp.code = 404 /\ resp.vault = v /\ resp.req = a

\* SaveDoc, CreateAuthorization, the delete handlers and the readers
\* together: once the server has answered 201 for a document or an
\* authorization, no later read of it is answered 404, whatever other
\* requests (saves under new ids, deletes, failing backend calls) come in
\* between.  A caller that got 201 may rely on the entity being there.
AckedNeverNotFound ==
    /\ \A v \in VaultIds, d \in DocIds : [](DocAcked(v, d) => [](~DocNotFound(v, d)))
    /\ \A v \in VaultIds, a \in AuthIds : [](AuthAcked(v, a) => [](~AuthNotFound(v, a)))

=============================================================================
