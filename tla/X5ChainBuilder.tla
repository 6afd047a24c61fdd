----------------------------- MODULE X5ChainBuilder -----------------------------
(***************************************************************************)
(* X5Chain::builder and Builder (src/src/definitions/x509/x5chain.rs), as  *)
(* a caller uses them: make a builder, add certificates with the with_*    *)
(* methods, build, then validate the chain through the stepwise            *)
(* X5Chain::validate.                                                      *)
(*                                                                         *)
(* Every with_* method takes the builder by value, so an Err drops it: the *)
(* builder is then "consumed" and the caller has to start again.           *)
(*                                                                         *)
(* The bytes a with_* call stores are cert.encode_to_vec(&mut vec![])?     *)
(* .to_der(): encode_to_vec returns the Length of what it wrote, and       *)
(* to_der() of that Length is the DER length octets.  LengthDer[x] is that *)
(* byte string for the encoding x; encodings of equal length have the same *)
(* one.                                                                    *)
(***************************************************************************)
EXTENDS TrustAnchor

CONSTANTS
    MaxChainLen,   \* most certificates a caller adds, longest chain validated
    Registries,    \* registry arguments a caller passes to validate
    LengthDer      \* the DER length octets of each certificate's encoding

ASSUME BuilderAssumption ==
    /\ MaxChainLen \in Nat \ {0}
    /\ Registries \subseteq RegistryValue
    /\ LengthDer \in [X509 -> X509]

VARIABLES
    chain, registry, pc, i, errors,   \* X5Chain::validate, called by the caller
    bstate,   \* none, building, consumed, failed, built, validating, done
    certs,    \* Builder::certs, then the built X5Chain
    given     \* the certificates the accepted with_* calls were given

V == INSTANCE X5Chain

builderVars == <<bstate, certs, given>>
vars == <<chain, registry, pc, i, errors, bstate, certs, given>>

(* The data passed to a with_* method: the PEM text or the DER encoding of *)
(* a byte string.  PEM text is no DER and DER is no PEM.                   *)
DataValue == [form : {"pem", "der"}, x : X509]

(* pem_rfc7468::decode_vec(data) is Ok.                                    *)
PemDecodes(d) == d.form = "pem"

(* Certificate::from_der on the data's bytes is Ok.                        *)
DerDecodes(d) == d.form = "der" /\ ParsesAsCertificate(d.x)

Init ==
    /\ V!Init
    /\ bstate = "none"
    /\ certs = <<>>
    /\ given = <<>>

(* X5Chain::builder(): Builder::default(), whenever no validate is under   *)
(* way.                                                                    *)
NewBuilder ==
    /\ bstate \in {"none", "consumed", "failed", "done"}
    /\ bstate' = "building"
    /\ certs' = <<>>
    /\ given' = <<>>
    /\ UNCHANGED <<chain, registry, pc, i, errors>>

(* A with_* call returned Err: the builder was moved in and is dropped.    *)
Consume ==
    /\ bstate' = "consumed"
    /\ UNCHANGED <<chain, registry, pc, i, errors, certs, given>>

(* The certificate parsed: push X509 { bytes } where bytes are the DER of  *)
(* the Length that encode_to_vec returns.                                  *)
PushCertificate(x) ==
    /\ certs' = Append(certs, LengthDer[x])
    /\ given' = Append(given, x)
    /\ UNCHANGED <<chain, registry, pc, i, errors, bstate>>

(* Builder::with_pem: decode the PEM, parse the certificate, push it.      *)
WithPem(d) ==
    /\ bstate = "building"
    /\ Len(certs) < MaxChainLen
    /\ IF PemDecodes(d) /\ ParsesAsCertificate(d.x)
       THEN PushCertificate(d.x)
       ELSE Consume

(* Builder::with_der: parse the certificate, push it.                      *)
WithDer(d) ==
    /\ bstate = "building"
    /\ Len(certs) < MaxChainLen
    /\ IF DerDecodes(d) THEN PushCertificate(d.x) ELSE Consume

(* with_pem_from_file and with_der_from_file: read_to_end fails with an    *)
(* I/O error, or the contents go to with_pem or with_der.                  *)
WithPemFromFile(d) ==
    \/ bstate = "building" /\ Len(certs) < MaxChainLen /\ Consume
    \/ WithPem(d)

WithDerFromFile(d) ==
    \/ bstate = "building" /\ Len(certs) < MaxChainLen /\ Consume
    \/ WithDer(d)

(* Seeded fault: build without NonEmptyVec's emptiness check.              *)
BuildUnchecked ==
    /\ bstate = "building"
    /\ bstate' = "built"
    /\ UNCHANGED <<chain, registry, pc, i, errors, certs, given>>

(* Builder::build: certs.try_into() a NonEmptyVec, or Err when empty.      *)
Build ==
    /\ bstate = "building"
    /\ bstate' = IF certs # <<>> THEN "built" ELSE "failed"
    /\ UNCHANGED <<chain, registry, pc, i, errors, certs, given>>

(* The caller validates the built chain against a registry.                *)
ValidateBuilt(reg) ==
    /\ bstate = "built"
    /\ V!Validate(certs, reg)
    /\ bstate' = "validating"
    /\ UNCHANGED <<certs, given>>

(* A step of the validate call under way.                                  *)
ValidateStep ==
    /\ bstate = "validating"
    /\ \/ V!SignatureLink
       \/ V!SignaturePassEnd
       \/ V!ValidityCheck
       \/ V!ValidityPassEnd
       \/ V!AnchorCheck
    /\ UNCHANGED builderVars

(* validate returned its list to the caller.                               *)
ValidateReturned ==
    /\ bstate = "validating"
    /\ V!Return
    /\ bstate' = "done"
    /\ UNCHANGED <<certs, given>>

Next ==
    \/ NewBuilder
    \/ \E d \in DataValue :
          \/ WithPem(d) \/ WithDer(d)
          \/ WithPemFromFile(d) \/ WithDerFromFile(d)
    \/ Build
    \/ \E reg \in Registries : ValidateBuilt(reg)
    \/ ValidateStep
    \/ ValidateReturned

Spec == Init /\ [][Next]_vars

-----------------------------------------------------------------------------
TypeOK ==
    /\ V!TypeOK
    /\ bstate \in {"none", "building", "consumed", "failed", "built",
                   "validating", "done"}
    /\ certs \in Seq(X509)
    /\ given \in Seq(X509)

(* Spec section 8: a self-signed certificate added with with_pem, built    *)
(* and validated with no registry, gets exactly the error that no trust    *)
(* anchor was found.                                                       *)
SelfSignedGetsOnlyNoAnchor ==
    /\ bstate = "validating"
    /\ pc = "done"
    /\ Len(given) = 1
    /\ SignedBy[given[1]] = given[1]
    /\ ~ValidityPeriodFails(given[1])
    /\ KeyCurve[given[1]] = P256
    /\ registry = NoRegistry
    => errors = <<V!Err("anchor", "no_anchor", 1)>>

(* The x5chain comment at validate_x5chain: a chain contains no duplicate  *)
(* certificate.  A caller who gives the builder distinct certificates      *)
(* gets a chain that validate sees without duplicates: the builder stores  *)
(* each certificate as itself, so distinct ones stay distinct.             *)
ValidatedChainHasNoDuplicates ==
    /\ bstate = "validating"
    /\ \A a, b \in DOMAIN given : a # b => given[a] # given[b]
    => \A a, b \in DOMAIN chain : a # b => chain[a] # chain[b]
=============================================================================
