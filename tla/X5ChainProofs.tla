---------------------------- MODULE X5ChainProofs ----------------------------
(***************************************************************************)
(* Proofs about X5Chain::validate, for every world of certificates, every  *)
(* registry and every bound on the chain length.                           *)
(***************************************************************************)
EXTENDS X5Chain, SequenceTheorems, TLAPS

(* The errors a pass appends are error records.                            *)
LEMMA ValidityErrorsType ==
    ASSUME NEW ch \in Seq(X509), NEW j \in 1..Len(ch), Len(ch) <= MaxChainLen
    PROVE  ValidityErrors(ch, j) \in Seq(ErrorRecord)
<1>1. j \in 1..MaxChainLen
    BY X5ChainAssumption
<1>2. /\ Err("validity", "parse", j) \in ErrorRecord
      /\ Err("validity", "expired", j) \in ErrorRecord
    BY <1>1 DEF Err, ErrorRecord, Phase, Kind
<1>3. QED
    BY <1>2 DEF ValidityErrors

LEMMA AnchorErrorsType ==
    ASSUME NEW ch \in Seq(X509), Len(ch) \in 1..MaxChainLen, NEW reg
    PROVE  AnchorErrors(ch, reg) \in Seq(ErrorRecord)
<1> DEFINE n == Len(ch)
<1>1. \A k \in {"parse", "lookup", "no_anchor", "anchor_invalid"} :
          Err("anchor", k, n) \in ErrorRecord
    BY DEF Err, ErrorRecord, Phase, Kind
<1>2. QED
    BY <1>1 DEF AnchorErrors

(* Every step of validate keeps TypeOK.                                    *)
LEMMA TypeStep == TypeOK /\ [Next]_vars => TypeOK'
    <2> SUFFICES ASSUME TypeOK, [Next]_vars PROVE TypeOK'
        OBVIOUS
    <2>1. ASSUME NEW ch \in Chains, NEW reg \in Registries, Validate(ch, reg)
          PROVE TypeOK'
        <3>1. ch \in Seq(X509) /\ Len(ch) \in 1..MaxChainLen
            BY X5ChainAssumption DEF Chains
        <3>2. QED
            BY <2>1, <3>1, X5ChainAssumption DEF Validate, TypeOK
    <2>2. CASE SignatureLink
        <3>1. i \in 1..MaxChainLen /\ i + 1 <= Len(chain)
            BY <2>2, X5ChainAssumption DEF SignatureLink, TypeOK
        <3>2. Err("signature", "signature", i) \in ErrorRecord
            BY <3>1 DEF Err, ErrorRecord, Phase, Kind
        <3>3. errors' \in Seq(ErrorRecord)
            BY <2>2, <3>2, AppendProperties DEF SignatureLink, TypeOK
        <3>4. QED
            BY <2>2, <3>1, <3>3, X5ChainAssumption DEF SignatureLink, TypeOK
    <2>3. CASE SignaturePassEnd
        BY <2>3, X5ChainAssumption DEF SignaturePassEnd, TypeOK
    <2>4. CASE ValidityCheck
        <3>1. ValidityErrors(chain, i) \in Seq(ErrorRecord)
            BY <2>4, ValidityErrorsType, X5ChainAssumption DEF ValidityCheck, TypeOK
        <3>2. errors' \in Seq(ErrorRecord)
            BY <2>4, <3>1, ConcatProperties DEF ValidityCheck, TypeOK
        <3>3. QED
            BY <2>4, <3>2, X5ChainAssumption DEF ValidityCheck, TypeOK
    <2>5. CASE ValidityPassEnd
        BY <2>5, X5ChainAssumption DEF ValidityPassEnd, TypeOK
    <2>6. CASE AnchorCheck
        <3>1. AnchorErrors(chain, registry) \in Seq(ErrorRecord)
            BY <2>6, AnchorErrorsType, X5ChainAssumption DEF AnchorCheck, TypeOK
        <3>2. errors' \in Seq(ErrorRecord)
            BY <2>6, <3>1, ConcatProperties DEF AnchorCheck, TypeOK
        <3>3. QED
            BY <2>6, <3>2, X5ChainAssumption DEF AnchorCheck, TypeOK
    <2>7. CASE Return
        BY <2>7, X5ChainAssumption DEF Return, TypeOK, NoRegistry, RegistryValue
    <2>8. CASE UNCHANGED vars
        BY <2>8 DEF vars, TypeOK
    <2>9. QED
        BY <2>1, <2>2, <2>3, <2>4, <2>5, <2>6, <2>7, <2>8 DEF Next

(* TypeOK is an invariant of validate.                                     *)
THEOREM TypeCorrect == Spec => []TypeOK
<1>1. Init => TypeOK
    BY X5ChainAssumption DEF Init, TypeOK, NoRegistry, RegistryValue
<1>2. QED
    BY <1>1, TypeStep, PTL DEF Spec

-----------------------------------------------------------------------------
(* Soundness.  An empty list at the end of a call says nothing by itself:  *)
(* the invariant that carries it says that, as long as no error has been   *)
(* appended, every link and every certificate the loops have passed over   *)
(* is good, and, once the call is done, the top is anchored.               *)

LinksOK(k) == \A j \in 1..k : CheckSignature(chain[j], chain[j + 1])
CertsOK(k) ==
    \A j \in 1..k : ParsesAsCertificate(chain[j]) /\ ~ValidityPeriodFails(chain[j])

LoopBounds ==
    /\ pc = "sig" => i <= Len(chain)
    /\ pc = "validity" => i <= Len(chain) + 1

CleanSoFar ==
    errors = <<>> =>
      /\ pc = "sig" => LinksOK(i - 1)
      /\ pc \in {"validity", "anchor", "done"} => LinksOK(Len(chain) - 1)
      /\ pc = "validity" => CertsOK(i - 1)
      /\ pc \in {"anchor", "done"} => CertsOK(Len(chain))
      /\ pc = "done" => AnchorErrors(chain, registry) = <<>>

IInv == TypeOK /\ LoopBounds /\ CleanSoFar

(* An anchor pass that appends nothing has found an anchor that accepts.   *)
LEMMA AnchorClean ==
    ASSUME NEW ch \in Seq(X509), Len(ch) >= 1, NEW reg,
           AnchorErrors(ch, reg) = <<>>
    PROVE  LET n == Len(ch) IN
           /\ ParsesAsCertificate(ch[n])
           /\ FindAnchor(ch[n], reg) = "found"
           /\ ~AnchorValidationFails(ch[n], SignedBy[ch[n]])
<1> DEFINE n == Len(ch)
<1>1. FindAnchor(ch[n], reg) \in {"none", "error", "found"}
    BY DEF FindAnchor
<1>2. QED
    BY <1>1 DEF AnchorErrors

(* The list only grows: appending to it or concatenating a list to it      *)
(* leaves it empty only when it was empty and nothing was added.           *)
LEMMA ConcatEmpty ==
    ASSUME NEW s \in Seq(ErrorRecord), NEW t \in Seq(ErrorRecord), s \o t = <<>>
    PROVE  s = <<>> /\ t = <<>>
BY ConcatEqualIffEmpty

LEMMA Inductive == IInv /\ [Next]_vars => IInv'
<1> SUFFICES ASSUME IInv, [Next]_vars PROVE IInv'
    OBVIOUS
<1>1. TypeOK'
    BY TypeStep DEF IInv
<1> USE DEF IInv
<1>2. ASSUME NEW ch \in Chains, NEW reg \in Registries, Validate(ch, reg)
      PROVE IInv'
    <2>1. Len(ch) >= 1
        BY X5ChainAssumption DEF Chains
    <2>2. QED
        BY <1>1, <1>2, <2>1 DEF Validate, LoopBounds, CleanSoFar, LinksOK
<1>3. CASE SignatureLink
    <2>1. LoopBounds'
        BY <1>3 DEF SignatureLink, LoopBounds, TypeOK
    <2>2. Err("signature", "signature", i) \in ErrorRecord
        BY <1>3, X5ChainAssumption DEF SignatureLink, TypeOK, Err, ErrorRecord, Phase, Kind
    <2>3. errors' = <<>> => errors = <<>> /\ CheckSignature(chain[i], chain[i + 1])
        BY <1>3, <2>2, AppendProperties DEF SignatureLink, TypeOK
    <2>4. errors' = <<>> => LinksOK(i)
        BY <1>3, <2>3 DEF SignatureLink, CleanSoFar, LinksOK, TypeOK
    <2>5. QED
        BY <1>1, <1>3, <2>1, <2>4 DEF SignatureLink, CleanSoFar, LinksOK, TypeOK
<1>4. CASE SignaturePassEnd
    <2>1. i = Len(chain)
        BY <1>4 DEF SignaturePassEnd, LoopBounds, TypeOK
    <2>2. QED
        BY <1>1, <1>4, <2>1 DEF SignaturePassEnd, LoopBounds, CleanSoFar, LinksOK, CertsOK
<1>5. CASE ValidityCheck
    <2>1. LoopBounds'
        BY <1>5 DEF ValidityCheck, LoopBounds, TypeOK
    <2>2. ValidityErrors(chain, i) \in Seq(ErrorRecord)
        BY <1>5, ValidityErrorsType, X5ChainAssumption DEF ValidityCheck, TypeOK
    <2>3. errors' = <<>> => errors = <<>> /\ ValidityErrors(chain, i) = <<>>
        BY <1>5, <2>2, ConcatEmpty DEF ValidityCheck, TypeOK
    <2>4. ValidityErrors(chain, i) = <<>> =>
            ParsesAsCertificate(chain[i]) /\ ~ValidityPeriodFails(chain[i])
        BY DEF ValidityErrors
    <2>5. errors' = <<>> => CertsOK(i)
        BY <1>5, <2>3, <2>4, X5ChainAssumption DEF ValidityCheck, CleanSoFar, CertsOK, TypeOK
    <2>6. QED
        BY <1>1, <1>5, <2>1, <2>3, <2>5 DEF ValidityCheck, CleanSoFar, LinksOK, CertsOK, TypeOK
<1>6. CASE ValidityPassEnd
    <2>1. i = Len(chain) + 1
        BY <1>6 DEF ValidityPassEnd, LoopBounds, TypeOK
    <2>2. QED
        BY <1>1, <1>6, <2>1 DEF ValidityPassEnd, LoopBounds, CleanSoFar, LinksOK, CertsOK, TypeOK
<1>7. CASE AnchorCheck
    <2>1. AnchorErrors(chain, registry) \in Seq(ErrorRecord)
        BY <1>7, AnchorErrorsType, X5ChainAssumption DEF AnchorCheck, TypeOK
    <2>2. errors' = <<>> => errors = <<>> /\ AnchorErrors(chain, registry) = <<>>
        BY <1>7, <2>1, ConcatEmpty DEF AnchorCheck, TypeOK
    <2>3. QED
        BY <1>1, <1>7, <2>2 DEF AnchorCheck, LoopBounds, CleanSoFar, LinksOK, CertsOK
<1>8. CASE Return
    BY <1>1, <1>8 DEF Return, LoopBounds, CleanSoFar
<1>9. CASE UNCHANGED vars
    BY <1>9 DEF vars, LoopBounds, CleanSoFar, LinksOK, CertsOK, TypeOK
<1>10. QED
    BY <1>2, <1>3, <1>4, <1>5, <1>6, <1>7, <1>8, <1>9 DEF Next

(* No silent pass: whenever validate returns an empty list, the chain it   *)
(* was given is trusted (every link signed by its successor, every         *)
(* certificate parsed and within its window, the top anchored), for every  *)
(* world of certificates, every registry and every chain length.           *)
THEOREM Soundness == Spec => []TrustSoundness
<1>1. Init => IInv
    BY X5ChainAssumption DEF Init, IInv, TypeOK, LoopBounds, CleanSoFar,
       NoRegistry, RegistryValue
<1>2. IInv => TrustSoundness
    <2> SUFFICES ASSUME IInv, pc = "done", errors = <<>>
                 PROVE  Trusted(chain, registry)
        BY DEF TrustSoundness
    <2>1. Len(chain) >= 1 /\ chain \in Seq(X509)
        BY DEF IInv, TypeOK
    <2>2. LinksOK(Len(chain) - 1) /\ CertsOK(Len(chain))
        BY DEF IInv, CleanSoFar
    <2>3. \A j \in 1..Len(chain) - 1 : SignedBy[chain[j]] = chain[j + 1]
        BY <2>2 DEF LinksOK, CheckSignature
    <2>4. AnchorErrors(chain, registry) = <<>>
        BY DEF IInv, CleanSoFar
    <2>5. QED
        BY <2>1, <2>2, <2>3, <2>4, AnchorClean DEF Trusted, CertsOK
<1>3. QED
    BY <1>1, <1>2, Inductive, PTL DEF Spec
=============================================================================
