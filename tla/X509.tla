-------------------------------- MODULE X509 --------------------------------
(***************************************************************************)
(* The certificate wrapper of src/src/definitions/x509/x5chain.rs          *)
(* (struct X509, X509::public_key, check_signature), abstracted to what    *)
(* the validation of a chain tells apart.                                  *)
(*                                                                         *)
(* A value of the constant set X509 stands for one byte string held in     *)
(* X509.bytes.  X509 derives Eq and Hash over its bytes, so two values are *)
(* the same certificate exactly when they are the same byte string.  A     *)
(* byte string either is the DER encoding of a certificate or is one that  *)
(* x509_cert::Certificate::from_der rejects (the set Malformed).  Of a     *)
(* certificate the model keeps the curve of its subject public key and the *)
(* certificate whose key made its signature; the elliptic-curve arithmetic *)
(* itself is the crypto library's and is not modelled.                     *)
(***************************************************************************)
EXTENDS Naturals, Sequences

CONSTANTS
    X509,       \* byte strings a certificate slot can hold
    Curve,      \* elliptic-curve families of subject public keys
    P256,       \* NistP256, the one curve check_signature instantiates
    KeyCurve,   \* KeyCurve[x]: the curve of the subject public key of x
    SignedBy,   \* SignedBy[x]: the certificate whose key signed x, or NoSigner
    NoSigner,   \* a key that is no certificate of X509
    Malformed   \* byte strings Certificate::from_der rejects

ASSUME X509Assumption ==
    /\ P256 \in Curve
    /\ Malformed \subseteq X509
    /\ NoSigner \notin X509
    /\ KeyCurve \in [X509 -> Curve]
    /\ SignedBy \in [X509 -> X509 \cup {NoSigner}]

(* x509_cert::Certificate::from_der(&x509.bytes) returns Ok.               *)
ParsesAsCertificate(x) == x \notin Malformed

(* X509::public_key::<C>(): the DER must parse and its subject public key  *)
(* info must convert into a PublicKey<C>, which fails for a key of another *)
(* curve.                                                                  *)
PublicKeyOk(x, C) == ParsesAsCertificate(x) /\ KeyCurve[x] = C

(* check_signature(target, issuer) returns Ok(()).  Its four fallible      *)
(* calls, in order: the issuer's public key as a NistP256 key, the target  *)
(* parsed, the target's signature decoded as a NistP256 signature, and the *)
(* verification of the to-be-signed bytes under the issuer's key.  When    *)
(* the issuer's key is a P-256 key and made the target's signature, the    *)
(* signature is a P-256 one and verifies; when another key made it, either *)
(* the decoding or the verification fails.                                 *)
CheckSignature(target, issuer) ==
    /\ PublicKeyOk(issuer, P256)
    /\ ParsesAsCertificate(target)
    /\ SignedBy[target] = issuer
=============================================================================
