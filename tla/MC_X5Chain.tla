------------------------------ MODULE MC_X5Chain ------------------------------
(***************************************************************************)
(* A world of seven byte strings for X5Chain::validate: a P-256 hierarchy  *)
(* root <- inter <- leaf, an expired certificate under root, a P-384 root  *)
(* with a certificate it signed, and bytes that are no certificate.        *)
(***************************************************************************)
EXTENDS X5Chain, TLC

CONSTANTS root, inter, leaf, expd, junk, r384, l384, P384, NoKey

MC_X509 == {root, inter, leaf, expd, junk, r384, l384}
MC_Curve == {P256, P384}
MC_KeyCurve ==
    [x \in MC_X509 |-> IF x = r384 THEN P384 ELSE P256]
MC_SignedBy ==
    (root :> root @@ inter :> root @@ leaf :> inter @@ expd :> root
     @@ junk :> NoKey @@ r384 :> r384 @@ l384 :> r384)
MC_Malformed == {junk}
MC_Expired == {expd}
MC_Registries ==
    {NoRegistry, Registry({}), Registry({root}), Registry({r384}),
     Registry({root, junk})}
MC_P256 == "P256"
=============================================================================
