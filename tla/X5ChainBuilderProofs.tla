------------------------- MODULE X5ChainBuilderProofs -------------------------
(***************************************************************************)
(* Proofs about the X5Chain builder and the validate call that follows it  *)
(* (X5ChainBuilder), for every world of certificates, every length-octets  *)
(* map and every bound on the chain length.  The steps of validate itself  *)
(* keep its types by the argument of X5ChainProofs!TypeStep, restated     *)
(* here for the instance V.                                                 *)
(***************************************************************************)
EXTENDS X5ChainBuilder, SequenceTheorems, TLAPS

(* The builder's inductive invariant: certs and given grow together, never *)
(* past MaxChainLen; given holds only certificates that parsed; and every  *)
(* state after a successful build has a non-empty chain.  The length bound *)
(* is what makes the built chain an argument validate accepts.             *)
BInv ==
    /\ TypeOK
    /\ Len(certs) = Len(given)
    /\ Len(certs) <= MaxChainLen
    /\ \A j \in DOMAIN given : ParsesAsCertificate(given[j])
    /\ bstate \in {"built", "validating", "done"} => certs # <<>>

LEMMA InitBInv == Init => BInv
BY BuilderAssumption DEF Init, BInv, TypeOK, V!Init, V!TypeOK, V!NoRegistry,
   V!RegistryValue

(* A step of the validate call under way keeps validate's types.          *)
LEMMA ValidateTypes ==
    ASSUME V!TypeOK, V!SignatureLink \/ V!SignaturePassEnd \/ V!ValidityCheck
                     \/ V!ValidityPassEnd \/ V!AnchorCheck \/ V!Return
    PROVE  V!TypeOK'
<1> USE BuilderAssumption DEF V!TypeOK
<1>1. CASE V!SignatureLink
    <2>1. V!Err("signature", "signature", i) \in V!ErrorRecord
        BY <1>1 DEF V!SignatureLink, V!Err, V!ErrorRecord, V!Phase, V!Kind
    <2>2. errors' \in Seq(V!ErrorRecord)
        BY <1>1, <2>1, AppendProperties DEF V!SignatureLink
    <2>3. QED
        BY <1>1, <2>2 DEF V!SignatureLink
<1>2. CASE V!ValidityCheck
    <2>1. i \in 1..MaxChainLen
        BY <1>2 DEF V!ValidityCheck
    <2>2. V!ValidityErrors(chain, i) \in Seq(V!ErrorRecord)
        <3>1. /\ V!Err("validity", "parse", i) \in V!ErrorRecord
              /\ V!Err("validity", "expired", i) \in V!ErrorRecord
            BY <2>1 DEF V!Err, V!ErrorRecord, V!Phase, V!Kind
        <3>2. QED
            BY <3>1 DEF V!ValidityErrors
    <2>3. errors' \in Seq(V!ErrorRecord)
        BY <1>2, <2>2, ConcatProperties DEF V!ValidityCheck
    <2>4. QED
        BY <1>2, <2>3 DEF V!ValidityCheck
<1>3. CASE V!AnchorCheck
    <2>1. Len(chain) \in 1..MaxChainLen
        BY <1>3 DEF V!AnchorCheck
    <2>2. V!AnchorErrors(chain, registry) \in Seq(V!ErrorRecord)
        <3>1. \A k \in {"parse", "lookup", "no_anchor", "anchor_invalid"} :
                  V!Err("anchor", k, Len(chain)) \in V!ErrorRecord
            BY <2>1 DEF V!Err, V!ErrorRecord, V!Phase, V!Kind
        <3>2. QED
            BY <2>1, <3>1 DEF V!AnchorErrors
    <2>3. errors' \in Seq(V!ErrorRecord)
        BY <1>3, <2>2, ConcatProperties DEF V!AnchorCheck
    <2>4. QED
        BY <1>3, <2>3 DEF V!AnchorCheck
<1>4. CASE V!SignaturePassEnd \/ V!ValidityPassEnd
    BY <1>4 DEF V!SignaturePassEnd, V!ValidityPassEnd
<1>5. CASE V!Return
    BY <1>5 DEF V!Return, V!NoRegistry, V!RegistryValue
<1>6. QED
    BY <1>1, <1>2, <1>3, <1>4, <1>5

(* Pushing a parsed certificate keeps the two lists in step.               *)
LEMMA PushBInv ==
    ASSUME BInv, NEW x \in X509, ParsesAsCertificate(x), bstate = "building",
           Len(certs) < MaxChainLen, PushCertificate(x)
    PROVE  BInv'
<1>1. LengthDer[x] \in X509
    BY BuilderAssumption
<1>2. certs' \in Seq(X509) /\ given' \in Seq(X509)
      /\ Len(certs') = Len(certs) + 1 /\ Len(given') = Len(given) + 1
    BY <1>1, AppendProperties DEF PushCertificate, BInv, TypeOK
<1>3. \A j \in DOMAIN given' : ParsesAsCertificate(given'[j])
    BY AppendProperties DEF PushCertificate, BInv, TypeOK
<1>4. QED
    BY <1>2, <1>3, BuilderAssumption DEF PushCertificate, BInv, TypeOK, V!TypeOK

(* Every step of the builder, and of the validate call it makes, keeps     *)
(* BInv.                                                                   *)
LEMMA StepBInv == BInv /\ [Next]_vars => BInv'
<1> SUFFICES ASSUME BInv, [Next]_vars PROVE BInv'
    OBVIOUS
<1> USE BuilderAssumption DEF RegistryValue, V!RegistryValue, NoRegistry,
                                V!NoRegistry
<1>1. CASE NewBuilder
    BY <1>1 DEF NewBuilder, BInv, TypeOK, V!TypeOK
<1>2. ASSUME NEW d \in DataValue, bstate = "building", Len(certs) < MaxChainLen,
             Consume \/ (PushCertificate(d.x) /\ ParsesAsCertificate(d.x))
      PROVE  BInv'
    <2>1. CASE Consume
        BY <2>1 DEF Consume, BInv, TypeOK, V!TypeOK
    <2>2. CASE PushCertificate(d.x) /\ ParsesAsCertificate(d.x)
        BY <1>2, <2>2, PushBInv DEF DataValue
    <2>3. QED
        BY <1>2, <2>1, <2>2
<1>3. ASSUME NEW d \in DataValue,
             WithPem(d) \/ WithDer(d) \/ WithPemFromFile(d) \/ WithDerFromFile(d)
      PROVE  BInv'
    <2>1. ASSUME WithPem(d) PROVE BInv'
        BY <2>1, <1>2 DEF WithPem
    <2>2. ASSUME WithDer(d) PROVE BInv'
        BY <2>2, <1>2 DEF WithDer, DerDecodes
    <2>3. ASSUME bstate = "building", Len(certs) < MaxChainLen, Consume
          PROVE  BInv'
        BY <2>3, <1>2
    <2>4. QED
        BY <1>3, <2>1, <2>2, <2>3 DEF WithPemFromFile, WithDerFromFile
<1>4. CASE Build
    BY <1>4 DEF Build, BInv, TypeOK, V!TypeOK
<1>5. ASSUME NEW reg \in Registries, ValidateBuilt(reg)
      PROVE  BInv'
    <2>1. reg \in RegistryValue /\ certs \in Seq(X509) /\ Len(certs) >= 1
        BY <1>5 DEF ValidateBuilt, BInv, TypeOK
    <2>2. V!TypeOK'
        BY <1>5, <2>1 DEF ValidateBuilt, V!Validate, BInv, V!TypeOK
    <2>3. QED
        BY <1>5, <2>2 DEF ValidateBuilt, V!Validate, BInv, TypeOK
<1>6. CASE ValidateStep
    <2>1. V!TypeOK'
        BY <1>6, ValidateTypes DEF ValidateStep, BInv, TypeOK
    <2>2. QED
        BY <1>6, <2>1 DEF ValidateStep, builderVars, BInv, TypeOK
<1>7. CASE ValidateReturned
    <2>1. V!TypeOK'
        BY <1>7, ValidateTypes DEF ValidateReturned, BInv, TypeOK
    <2>2. QED
        BY <1>7, <2>1 DEF ValidateReturned, BInv, TypeOK
<1>8. CASE UNCHANGED vars
    BY <1>8 DEF vars, BInv, TypeOK, V!TypeOK
<1>9. QED
    BY <1>1, <1>3, <1>4, <1>5, <1>6, <1>7, <1>8 DEF Next

(* The builder and the validate call it makes keep their types, for every  *)
(* bound: certs only ever holds certificates' length octets.               *)
THEOREM TypeCorrect == Spec => []TypeOK
<1>1. BInv => TypeOK
    BY DEF BInv
<1>2. QED
    BY InitBInv, StepBInv, <1>1, PTL DEF Spec

=============================================================================
