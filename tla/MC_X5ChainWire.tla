---------------------------- MODULE MC_X5ChainWire ----------------------------
(***************************************************************************)
(* validate_x5chain over headers of up to three elements drawn from the    *)
(* CBOR-encoded contents of three byte strings (root <- inter, and junk),  *)
(* the raw DER of root and inter that into_cbor writes, and other values.  *)
(***************************************************************************)
EXTENDS X5ChainWire, TLC

CONSTANTS root, inter, junk, NoKey

MC_X509 == {root, inter, junk}
MC_Curve == {"P256"}
MC_KeyCurve == [x \in MC_X509 |-> "P256"]
MC_SignedBy == (root :> root @@ inter :> root @@ junk :> NoKey)
MC_Contents ==
    {[enc |-> "cbor", x |-> x] : x \in MC_X509}
      \cup {[enc |-> "raw", x |-> x] : x \in {root, inter}}
MC_Registries == {NoRegistry, Registry({root})}
=============================================================================
