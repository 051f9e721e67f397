----------------------------- MODULE VaultStore -----------------------------
(***************************************************************************)
(* What the vault server (pkg/restapi/vault) promises its callers, with    *)
(* the HTTP layer left out: vaults, the documents saved in them and the    *)
(* authorizations granted on them are created under fresh ids, documents  *)
(* and authorizations only in a vault that exists, and nothing that was   *)
(* created is replaced or taken away.                                      *)
(***************************************************************************)
CONSTANTS
    VaultIds,   \* ids the vault server can give a new vault
    DocIds,     \* ids a new document can get
    AuthIds,    \* ids a new authorization can get
    RPs,        \* requesting parties an authorization can be granted to
    Contents    \* the (encrypted) contents a document can be saved with

VARIABLES
    vaults,     \* the vaults created so far
    docs,       \* the documents saved so far, as [vault, id, content]
    auths       \* the authorizations granted so far, as [vault, id, rp]

storeVars == <<vaults, docs, auths>>

DocRec == [vault: VaultIds, id: DocIds, content: Contents]
AuthRec == [vault: VaultIds, id: AuthIds, rp: RPs]

\* The ids already used in vault v.
DocIdsIn(v) == {r.id : r \in {x \in docs : x.vault = v}}
AuthIdsIn(v) == {r.id : r \in {x \in auths : x.vault = v}}

Init ==
    /\ vaults = {}
    /\ docs = {}
    /\ auths = {}

CreateVault(v) ==
    /\ v \notin vaults
    /\ vaults' = vaults \cup {v}
    /\ UNCHANGED <<docs, auths>>

SaveDoc(v, d, c) ==
    /\ v \in vaults
    /\ d \notin DocIdsIn(v)
    /\ docs' = docs \cup {[vault |-> v, id |-> d, content |-> c]}
    /\ UNCHANGED <<vaults, auths>>

CreateAuthorization(v, a, rp) ==
    /\ v \in vaults
    /\ a \notin AuthIdsIn(v)
    /\ auths' = auths \cup {[vault |-> v, id |-> a, rp |-> rp]}
    /\ UNCHANGED <<vaults, docs>>

Next ==
    \/ \E v \in VaultIds : CreateVault(v)
    \/ \E v \in VaultIds, d \in DocIds, c \in Contents : SaveDoc(v, d, c)
    \/ \E v \in VaultIds, a \in AuthIds, rp \in RPs : CreateAuthorization(v, a, rp)

Spec == Init /\ [][Next]_storeVars

=============================================================================
