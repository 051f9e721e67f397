-------------------------------- MODULE Zcap --------------------------------
(***************************************************************************)
(* The ZCAP-LD capability data model and its chain verifier, as the       *)
(* repository uses them through github.com/trustbloc/edge-core/zcapld.     *)
(*                                                                         *)
(* A capability names its parent, the ids of its ancestors from the root   *)
(* down to the parent (capabilityChain), the DID that may invoke it, the   *)
(* DID whose key signed it, the actions it allows, its invocation target   *)
(* and its expiry caveats.  A target id is a URL, modelled as the          *)
(* sequence of its "/"-separated segments.                                 *)
(*                                                                         *)
(* Signature integrity is abstracted: a capability is genuine when it is   *)
(* the one the store holds under its id (a tampered copy would not verify  *)
(* against the signer's key).  The key resolution behind a signature is    *)
(* the DID signing binding, modelled separately.                           *)
(***************************************************************************)
EXTENDS Naturals, Sequences

CONSTANTS
    ZcapIds,    \* ids (URNs) a capability can be minted under
    DIDs,       \* the parties' DIDs: invokers and signers
    Actions,    \* action names ("read", "unwrap", "reference", ...)
    Segments,   \* the segments target URLs are built from
    NoZcap      \* marks an id under which nothing is stored, and "no parent"

\* The records the capability store can hold.
Capability ==
    [id: ZcapIds, parent: ZcapIds \cup {NoZcap}, chain: Seq(ZcapIds),
     invoker: DIDs, signer: DIDs, actions: SUBSET Actions,
     target: Seq(Segments), created: Nat, caveats: SUBSET Nat]

\* NoZcap is neither an id nor a capability.
ASSUME NoZcapAssumption == NoZcap \notin ZcapIds /\ NoZcap \notin Capability

\* zcapld.NewCapability with WithParent, WithCapabilityChain, WithInvoker,
\* WithAllowedActions, WithInvocationTarget and WithCaveats; the signer is
\* the DID of the Signer's verification method, and "created" is the time of
\* the proof.  An expiry caveat is kept as its duration.
NewCapability(id, parent, chain, invoker, signer, actions, target, now, caveats) ==
    [id |-> id, parent |-> parent, chain |-> chain, invoker |-> invoker,
     signer |-> signer, actions |-> actions, target |-> target,
     created |-> now, caveats |-> caveats]

\* An expiry caveat of duration d holds until, and including, created + d.
CaveatsHold(c, now) == \A d \in c.caveats : now <= c.created + d

\* The chain verifier: walks the presented capability and every ancestor its
\* capabilityChain names, fetching each from the store zs.  Every link must
\* exist, be unexpired, name the previous link as its parent and be signed
\* by the previous link's invoker; the first link must be a root; the action
\* must be allowed by the presented capability.
Verify(zs, c, now, action) ==
    LET ch == c.chain
        n  == Len(ch)
    IN  /\ zs[c.id] = c
        /\ action \in c.actions
        /\ CaveatsHold(c, now)
        /\ IF c.parent = NoZcap
           THEN ch = << >>
           ELSE /\ n > 0
                /\ ch[n] = c.parent
                /\ \A i \in 1..n : zs[ch[i]] # NoZcap
                /\ \A i \in 1..n : CaveatsHold(zs[ch[i]], now)
                /\ zs[ch[1]].parent = NoZcap
                /\ \A i \in 2..n : zs[ch[i]].parent = ch[i - 1]
                /\ \A i \in 2..n : zs[ch[i]].signer = zs[ch[i - 1]].invoker
                /\ c.signer = zs[ch[n]].invoker

=============================================================================
