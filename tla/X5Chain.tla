------------------------------- MODULE X5Chain -------------------------------
(***************************************************************************)
(* X5Chain::validate (src/src/definitions/x509/x5chain.rs), one step per   *)
(* iteration of its loops.  A caller hands validate a chain and an         *)
(* optional registry; the call walks the adjacent pairs (windows(2)), then *)
(* every certificate, then the last certificate against the registry,      *)
(* appending an error for every defect it meets and never stopping early,  *)
(* and returns the list.                                                   *)
(***************************************************************************)
EXTENDS TrustAnchor

CONSTANTS
    MaxChainLen,   \* longest chain a caller hands to validate
    Registries     \* registry arguments a caller passes

ASSUME X5ChainAssumption ==
    /\ MaxChainLen \in Nat \ {0}
    /\ Registries \subseteq RegistryValue

VARIABLES
    chain,      \* the NonEmptyVec<X509> of the X5Chain validated
    registry,   \* the Option<TrustAnchorRegistry> argument
    pc,         \* where the call is: idle, sig, validity, anchor, done
    i,          \* the loop index of the pass under way (1-based)
    errors      \* the Vec<X509Error> accumulated so far

vars == <<chain, registry, pc, i, errors>>

(* Seeded fault: X5Chain over a plain Vec, so that an empty chain reaches  *)
(* validate.                                                               *)
ChainsAllowEmpty == UNION {[1..n -> X509] : n \in 0..MaxChainLen}

(* Chains a caller can build: X5Chain wraps a NonEmptyVec.                 *)
Chains == UNION {[1..n -> X509] : n \in 1..MaxChainLen}

(* An X509Error, tagged with the pass that produced it and the 1-based    *)
(* position of the certificate (of the target, for a signature error).     *)
Phase == {"signature", "validity", "anchor"}
Kind == {"signature", "parse", "expired", "lookup", "no_anchor",
         "anchor_invalid", "empty"}
ErrorRecord == [phase : Phase, kind : Kind, at : 1..MaxChainLen]
Err(phase, kind, at) == [phase |-> phase, kind |-> kind, at |-> at]

(* Seeded fault (see below): check_validity_period left out.              *)
ValidityErrorsNoPeriod(ch, j) ==
    IF ~ParsesAsCertificate(ch[j]) THEN <<Err("validity", "parse", j)>>
    ELSE <<>>

(* The errors the second pass appends for the certificate at position j:  *)
(* a parse error, or those of check_validity_period.                       *)
ValidityErrors(ch, j) ==
    IF ~ParsesAsCertificate(ch[j]) THEN <<Err("validity", "parse", j)>>
    ELSE IF ValidityPeriodFails(ch[j]) THEN <<Err("validity", "expired", j)>>
    ELSE <<>>

(* The errors the third pass appends for the last certificate: the first  *)
(* of the nested matches that fails decides, as in the code.               *)
AnchorErrors(ch, reg) ==
    LET n == Len(ch) IN
    IF n = 0 THEN <<Err("anchor", "empty", 0)>>
    ELSE IF ~ParsesAsCertificate(ch[n]) THEN <<Err("anchor", "parse", n)>>
    ELSE IF FindAnchor(ch[n], reg) = "error" THEN <<Err("anchor", "lookup", n)>>
    ELSE IF FindAnchor(ch[n], reg) = "none" THEN <<Err("anchor", "no_anchor", n)>>
    ELSE IF AnchorValidationFails(ch[n], SignedBy[ch[n]])
         THEN <<Err("anchor", "anchor_invalid", n)>>
    ELSE <<>>

-----------------------------------------------------------------------------
(* Seeded faults, each a plausible slip in the code it replaces; every     *)
(* property checked of this module is broken by one of them.               *)

(* windows over all but the last pair: the link to the top is unchecked.   *)
SignaturePassEndEarly ==
    /\ pc = "sig"
    /\ i >= Len(chain) - 1
    /\ pc' = "validity"
    /\ i' = 1
    /\ UNCHANGED <<chain, registry, errors>>

(* fail fast: `return errors` at the first failing link.                   *)
SignatureLinkFailFast ==
    /\ pc = "sig"
    /\ i < Len(chain)
    /\ IF CheckSignature(chain[i], chain[i + 1])
       THEN errors' = errors /\ pc' = pc
       ELSE errors' = Append(errors, Err("signature", "signature", i)) /\ pc' = "done"
    /\ i' = i + 1
    /\ UNCHANGED <<chain, registry>>

-----------------------------------------------------------------------------
(* Types, with the shape facts the loops rely on: a call holds a          *)
(* non-empty chain, and the loop index is a 1-based position.              *)
TypeOK ==
    /\ chain \in Seq(X509)
    /\ Len(chain) <= MaxChainLen
    /\ registry \in RegistryValue
    /\ pc \in {"idle", "sig", "validity", "anchor", "done"}
    /\ pc # "idle" => Len(chain) >= 1
    /\ i \in 0..MaxChainLen + 1
    /\ pc \in {"sig", "validity"} => i >= 1
    /\ errors \in Seq(ErrorRecord)

Init ==
    /\ chain = <<>>
    /\ registry = NoRegistry
    /\ pc = "idle"
    /\ i = 0
    /\ errors = <<>>

(* validate(&self, trust_anchor_registry) is entered: errors = vec![].     *)
Validate(ch, reg) ==
    /\ pc = "idle"
    /\ chain' = ch
    /\ registry' = reg
    /\ errors' = <<>>
    /\ i' = 1
    /\ pc' = "sig"

(* One window (target, issuer) = (chain[i], chain[i+1]) of windows(2).     *)
SignatureLink ==
    /\ pc = "sig"
    /\ i < Len(chain)
    /\ errors' = IF CheckSignature(chain[i], chain[i + 1])
                 THEN errors
                 ELSE Append(errors, Err("signature", "signature", i))
    /\ i' = i + 1
    /\ UNCHANGED <<chain, registry, pc>>

(* windows(2) is exhausted: the for loop over every certificate begins.    *)
SignaturePassEnd ==
    /\ pc = "sig"
    /\ i >= Len(chain)
    /\ pc' = "validity"
    /\ i' = 1
    /\ UNCHANGED <<chain, registry, errors>>

(* One iteration of `for x509 in x5chain`.                                 *)
ValidityCheck ==
    /\ pc = "validity"
    /\ i <= Len(chain)
    /\ errors' = errors \o ValidityErrors(chain, i)
    /\ i' = i + 1
    /\ UNCHANGED <<chain, registry, pc>>

ValidityPassEnd ==
    /\ pc = "validity"
    /\ i > Len(chain)
    /\ pc' = "anchor"
    /\ UNCHANGED <<chain, registry, i, errors>>

(* The last certificate against the trust anchor registry.                 *)
AnchorCheck ==
    /\ pc = "anchor"
    /\ errors' = errors \o AnchorErrors(chain, registry)
    /\ pc' = "done"
    /\ UNCHANGED <<chain, registry, i>>

(* validate returns `errors` to its caller, which takes the list and the  *)
(* chain with it: the component is back to the state before the call.      *)
Return ==
    /\ pc = "done"
    /\ pc' = "idle"
    /\ chain' = <<>>
    /\ registry' = NoRegistry
    /\ i' = 0
    /\ errors' = <<>>

Next ==
    \/ \E ch \in Chains, reg \in Registries : Validate(ch, reg)
    \/ SignatureLink
    \/ SignaturePassEnd
    \/ ValidityCheck
    \/ ValidityPassEnd
    \/ AnchorCheck
    \/ Return

Spec == Init /\ [][Next]_vars

-----------------------------------------------------------------------------
(* The chain a caller may trust (spec sections 1 and 4.4): every           *)
(* certificate parses and is within its validity window, each is signed by *)
(* its successor's key whatever that key's curve, and the issuer of the    *)
(* last one is an anchor of the registry that accepts it.                  *)
Trusted(ch, reg) ==
    LET n == Len(ch) IN
    /\ n >= 1
    /\ \A j \in 1..n : ParsesAsCertificate(ch[j]) /\ ~ValidityPeriodFails(ch[j])
    /\ \A j \in 1..n - 1 : SignedBy[ch[j]] = ch[j + 1]
    /\ FindAnchor(ch[n], reg) = "found"
    /\ ~AnchorValidationFails(ch[n], SignedBy[ch[n]])

ErrorsSeen == {errors[k] : k \in DOMAIN errors}

(* No silent pass: when validate returns an empty list, the chain it was   *)
(* given is trusted.  Breaking it takes a pass that skips a link or a      *)
(* certificate, or a defect one of the passes does not report.             *)
TrustSoundness ==
    pc = "done" /\ errors = <<>> => Trusted(chain, registry)

(* Collect-all: when validate returns, every defect of the chain has its   *)
(* own error; a failing link, an unparsable or expired certificate and an  *)
(* unanchored top are each reported whatever other defects there are      *)
(* (spec 4.4, and the property of section 8 that the error of one pair is  *)
(* never suppressed by another's).                                         *)
AllDefectsReported ==
    LET n == Len(chain) IN
    pc = "done" =>
      /\ \A j \in 1..n - 1 :
            ~CheckSignature(chain[j], chain[j + 1])
              => Err("signature", "signature", j) \in ErrorsSeen
      /\ \A j \in 1..n :
            ~ParsesAsCertificate(chain[j]) \/ ValidityPeriodFails(chain[j])
              => \E e \in ErrorsSeen : e.phase = "validity" /\ e.at = j
      /\ ~(/\ ParsesAsCertificate(chain[n])
           /\ FindAnchor(chain[n], registry) = "found"
           /\ ~AnchorValidationFails(chain[n], SignedBy[chain[n]]))
              => \E e \in ErrorsSeen : e.phase = "anchor"

(* The order in which validate appends its error groups: by pass, then by  *)
(* position in the chain.  A record stands for the errors one collaborator *)
(* call or one push reports for one position.                              *)
PhaseRank == [signature |-> 1, validity |-> 2, anchor |-> 3]
Precedes(e, f) ==
    \/ PhaseRank[e.phase] < PhaseRank[f.phase]
    \/ e.phase = f.phase /\ e.at < f.at

(* Spec section 8: a chain whose links are genuinely signed, whose         *)
(* certificates are within their windows and whose top is anchored         *)
(* validates with no error.                                                *)
TrustCompleteness ==
    pc = "done" /\ Trusted(chain, registry) => errors = <<>>

(* The stepwise validate implements the one-step promise of X5ChainTrust:  *)
(* the loop iterations are stutters, the anchor check is the step that     *)
(* delivers the whole list, and that list is exactly the defects of the    *)
(* chain in the promised order.                                            *)
statusBar ==
    IF pc = "idle" THEN "idle" ELSE IF pc = "done" THEN "done" ELSE "busy"
resultBar == IF pc \in {"idle", "done"} THEN errors ELSE <<>>

Abstract == INSTANCE X5ChainTrust WITH status <- statusBar, result <- resultBar

Refinement == Abstract!Spec
=============================================================================
