----------------------------- MODULE TrustAnchor -----------------------------
(***************************************************************************)
(* The trust-anchor collaborator (definitions::x509::trust_anchor) as far  *)
(* as X5Chain::validate uses it: check_validity_period, find_anchor and    *)
(* validate_with_trust_anchor.  Their code is not part of the sources      *)
(* given, so they are written from the contract of the spec (section 6).   *)
(*                                                                         *)
(* A value of Option<TrustAnchorRegistry> is a record: present is FALSE   *)
(* for None, and anchors is the set of anchor certificates held.  An anchor matches a certificate when *)
(* its subject is the certificate's issuer, that is when it is the         *)
(* certificate whose key signed it.                                        *)
(***************************************************************************)
EXTENDS X509

CONSTANT Expired   \* certificates whose validity window excludes the present

ASSUME TrustAnchorAssumption == Expired \subseteq X509

(* None, Some(registry holding the anchors S), and all values of the type. *)
NoRegistry == [present |-> FALSE, anchors |-> {}]
Registry(S) == [present |-> TRUE, anchors |-> S]
RegistryValue == [present : BOOLEAN, anchors : SUBSET X509]

(* check_validity_period(&cert) returns a non-empty list.                  *)
ValidityPeriodFails(x) == x \in Expired

(* find_anchor(cert, registry): "none" without a registry or without a     *)
(* matching anchor, "error" when an anchor of the registry cannot itself   *)
(* be parsed, "found" otherwise; the anchor found is then SignedBy[x].     *)
FindAnchor(x, reg) ==
    CASE ~reg.present                     -> "none"
      [] reg.anchors \cap Malformed # {}  -> "error"
      [] SignedBy[x] \in reg.anchors      -> "found"
      [] OTHER                            -> "none"

(* validate_with_trust_anchor(x509, anchor) returns a non-empty list: the  *)
(* anchor's own validity window excludes the present.                      *)
AnchorValidationFails(x, anchor) == anchor \in Expired
=============================================================================
