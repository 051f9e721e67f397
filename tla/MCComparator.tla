---------------------------- MODULE MCComparator ----------------------------
(***************************************************************************)
(* Small instances of the comparator and the hub: one party, one vault     *)
(* with two documents of two paths, two query ids, and enough capability   *)
(* ids for one delegation to the hub and two issued tokens.               *)
(***************************************************************************)
EXTENDS Comparator, TLC

CONSTANTS d1, d2, q1, q2, z1, z2, z3, z4, v0, v1, P1, P2

\* The vault's and the keystore's URLs, https://edv/encrypted-data-vaults/vlt
\* and https://kms/kms/keystores/k1, and the hub's base https://hub/csh.
MCEdvHost == <<"https:", "", "edv">>
MCEdvBase == <<"encrypted-data-vaults">>

\* An EDV mounted under a two-segment base path, https://edv/api/encrypted-data-vaults.
MCEdvNestedBase == <<"api", "encrypted-data-vaults">>
MCKmsTarget == <<"https:", "", "kms", "kms", "keystores", "k1">>
MCHubBase == <<"https:", "", "hub", "csh">>

MCSegments ==
    {"https:", "", "edv", "api", "encrypted-data-vaults", "vlt", "documents", d1, d2,
     "kms", "keystores", "k1", "hub", "csh", "hubstore", "profiles", "queries",
     P1, P2, q1, q2}

MCActions == {"read", "write", "unwrap", "reference"}

\* Expiry caveats a party may ask for: none, or one of duration 0.
MCCaveatChoices == {{}, {0}}

\* No caveats, where the clock does not move.
MCNoCaveats == {{}}

\* Documents, query ids, the capability ids below the roots, and values
\* are only compared for equality.
MCSymmetry ==
    Permutations(Docs) \cup Permutations(QueryIds)
    \cup Permutations(ZcapIds \ {RootEdv, RootKms, RootCmp}) \cup Permutations(Vals)
=============================================================================
