--------------------------- MODULE MC_X5ChainBuilder ---------------------------
(***************************************************************************)
(* A caller building chains of up to three certificates from a P-256       *)
(* hierarchy root <- inter <- leaf, where root and inter have encodings of *)
(* the same length, and validating them with no registry or with root as   *)
(* the anchor.  lenA and lenB are the DER length octets of those lengths;  *)
(* as input data they are byte strings that are no certificate.            *)
(***************************************************************************)
EXTENDS X5ChainBuilder, TLC

CONSTANTS root, inter, leaf, lenA, lenB, NoKey

MC_X509 == {root, inter, leaf, lenA, lenB}
MC_KeyCurve == [x \in MC_X509 |-> "P256"]
MC_SignedBy ==
    root :> root @@ inter :> root @@ leaf :> inter @@ lenA :> NoKey @@ lenB :> NoKey
MC_LengthDer ==
    root :> lenA @@ inter :> lenA @@ leaf :> lenB @@ lenA :> lenB @@ lenB :> lenB
MC_Registries == {NoRegistry, Registry({root})}
=============================================================================
