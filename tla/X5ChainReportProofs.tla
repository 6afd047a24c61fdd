------------------------- MODULE X5ChainReportProofs -------------------------
(***************************************************************************)
(* Proof that X5Chain::validate reports every defect (AllDefectsReported), *)
(* for every world of certificates, every registry and every bound on the  *)
(* chain length, and the invariant RInv the refinement proof rests on.     *)
(***************************************************************************)
EXTENDS X5ChainProofs

(* The errors a list holds, as a set.                                      *)
ElemsOf(s) == {s[k] : k \in DOMAIN s}

(* The records of a list are in the order validate appends them: by pass,  *)
(* then by position, one record per pass and position.                     *)
Sorted(s) == \A k, l \in DOMAIN s : k < l => Precedes(s[k], s[l])

(* The errors the signature pass reports for the first k links.            *)
LinkFound(ch, k) ==
    {Err("signature", "signature", j) :
        j \in {j \in 1..k : ~CheckSignature(ch[j], ch[j + 1])}}

(* The errors the validity pass reports for the first k certificates of ch.      *)
CertFound(ch, k) == UNION {ElemsOf(ValidityErrors(ch, j)) : j \in 1..k}

(* What the passes done so far have reported: the loop under way has      *)
(* reported the positions before i, a finished pass all of its positions.  *)
FoundSoFar ==
    LET n == Len(chain) IN
    /\ pc = "idle"     => ErrorsSeen = {}
    /\ pc = "sig"      => ErrorsSeen = LinkFound(chain, i - 1)
    /\ pc = "validity" =>
          ErrorsSeen = LinkFound(chain, n - 1) \cup CertFound(chain, i - 1)
    /\ pc = "anchor" =>
          ErrorsSeen = LinkFound(chain, n - 1) \cup CertFound(chain, n)
    /\ pc = "done" =>
          ErrorsSeen = LinkFound(chain, n - 1) \cup CertFound(chain, n)
                         \cup ElemsOf(AnchorErrors(chain, registry))

(* What an append adds to the set of errors a list holds.                  *)
LEMMA ElemsAppend ==
    ASSUME NEW S, NEW s \in Seq(S), NEW e \in S
    PROVE  ElemsOf(Append(s, e)) = ElemsOf(s) \cup {e}
BY AppendProperties DEF ElemsOf

LEMMA ElemsConcat ==
    ASSUME NEW S, NEW s \in Seq(S), NEW t \in Seq(S)
    PROVE  ElemsOf(s \o t) = ElemsOf(s) \cup ElemsOf(t)
<1>1. ElemsOf(s \o t) \subseteq ElemsOf(s) \cup ElemsOf(t)
    <2> SUFFICES ASSUME NEW k \in 1..Len(s) + Len(t)
                 PROVE  (s \o t)[k] \in ElemsOf(s) \cup ElemsOf(t)
        BY ConcatProperties DEF ElemsOf
    <2>1. CASE k <= Len(s)
        BY <2>1, ConcatProperties DEF ElemsOf
    <2>2. CASE k > Len(s)
        <3>1. k - Len(s) \in 1..Len(t)
            BY <2>2
        <3>2. QED
            BY <2>2, <3>1, ConcatProperties DEF ElemsOf
    <2>3. QED
        BY <2>1, <2>2
<1>2. ElemsOf(s) \subseteq ElemsOf(s \o t)
    BY ConcatProperties DEF ElemsOf
<1>3. ElemsOf(t) \subseteq ElemsOf(s \o t)
    <2>0. DOMAIN t = 1..Len(t)
        OBVIOUS
    <2> SUFFICES ASSUME NEW k \in 1..Len(t)
                 PROVE  t[k] \in ElemsOf(s \o t)
        BY <2>0, Zenon DEF ElemsOf
    <2>1. Len(s) + k \in 1..Len(s) + Len(t) /\ (s \o t)[Len(s) + k] = t[k]
        BY ConcatProperties
    <2>2. DOMAIN (s \o t) = 1..Len(s) + Len(t)
        BY ConcatProperties
    <2>3. Len(s) + k \in DOMAIN (s \o t) /\ t[k] = (s \o t)[Len(s) + k]
        BY <2>1, <2>2
    <2>4. QED
        BY <2>3, Zenon DEF ElemsOf
<1>4. QED
    BY <1>1, <1>2, <1>3

(* The errors of a list of error records are error records: their         *)
(* positions are numbers.                                                  *)
LEMMA ElemsType ==
    ASSUME NEW s \in Seq(ErrorRecord)
    PROVE  \A x \in ElemsOf(s) : x \in ErrorRecord /\ x.at \in Int
<1>1. \A x \in ElemsOf(s) : x \in ErrorRecord
    BY DEF ElemsOf
<1>2. \A x \in ErrorRecord : x.at \in Int
    BY DEF ErrorRecord
<1>3. QED
    BY <1>1, <1>2

(* Appending an error that every error of a sorted list precedes keeps the *)
(* list sorted; so does concatenating two sorted lists, the first wholly   *)
(* before the second.                                                      *)
LEMMA SortedConcat ==
    ASSUME NEW s \in Seq(ErrorRecord), NEW t \in Seq(ErrorRecord),
           Sorted(s), Sorted(t),
           \A x \in ElemsOf(s), y \in ElemsOf(t) : Precedes(x, y)
    PROVE  Sorted(s \o t)
<1> SUFFICES ASSUME NEW k \in 1..Len(s) + Len(t), NEW l \in 1..Len(s) + Len(t),
                    k < l
             PROVE  Precedes((s \o t)[k], (s \o t)[l])
    BY ConcatProperties DEF Sorted
<1>1. CASE l <= Len(s)
    BY <1>1, ConcatProperties DEF Sorted
<1>2. CASE k <= Len(s) /\ l > Len(s)
    <2>1. l - Len(s) \in 1..Len(t)
        BY <1>2
    <2>2. s[k] \in ElemsOf(s) /\ t[l - Len(s)] \in ElemsOf(t)
        BY <1>2, <2>1 DEF ElemsOf
    <2>3. QED
        BY <1>2, <2>1, <2>2, ConcatProperties
<1>3. CASE k > Len(s)
    <2>1. k - Len(s) \in 1..Len(t) /\ l - Len(s) \in 1..Len(t)
          /\ k - Len(s) < l - Len(s)
        BY <1>3
    <2>2. QED
        BY <1>3, <2>1, ConcatProperties DEF Sorted
<1>4. QED
    BY <1>1, <1>2, <1>3

LEMMA SortedAppend ==
    ASSUME NEW s \in Seq(ErrorRecord), NEW e \in ErrorRecord, Sorted(s),
           \A x \in ElemsOf(s) : Precedes(x, e)
    PROVE  Sorted(Append(s, e))
<1> SUFFICES ASSUME NEW k \in 1..Len(s) + 1, NEW l \in 1..Len(s) + 1, k < l
             PROVE  Precedes(Append(s, e)[k], Append(s, e)[l])
    BY AppendProperties DEF Sorted
<1>1. CASE l <= Len(s)
    BY <1>1, AppendProperties DEF Sorted
<1>2. CASE l = Len(s) + 1
    BY <1>2, AppendProperties DEF ElemsOf
<1>3. QED
    BY <1>1, <1>2

(* A list of at most one error is sorted.                                  *)
LEMMA SortedShort ==
    ASSUME NEW t \in Seq(ErrorRecord), Len(t) <= 1
    PROVE  Sorted(t)
BY DEF Sorted

(* The inductive invariant: the list holds exactly what the passes done so *)
(* far found, in order.  Exactness gives the bound each append needs: what *)
(* is already in the list precedes what the pass under way adds.           *)
RInv == IInv /\ FoundSoFar /\ Sorted(errors)

(* What each pass appends: at most one error, tagged with its pass and,    *)
(* for the validity pass, with the certificate's position.                 *)
LEMMA ValidityErrorsShape ==
    ASSUME NEW ch, NEW j
    PROVE  /\ Len(ValidityErrors(ch, j)) <= 1
           /\ \A x \in ElemsOf(ValidityErrors(ch, j)) :
                 x.phase = "validity" /\ x.at = j
BY DEF ValidityErrors, Err, ElemsOf

LEMMA AnchorErrorsShape ==
    ASSUME NEW ch \in Seq(X509), Len(ch) >= 1, NEW reg
    PROVE  /\ Len(AnchorErrors(ch, reg)) <= 1
           /\ \A x \in ElemsOf(AnchorErrors(ch, reg)) : x.phase = "anchor"
BY DEF AnchorErrors, Err, ElemsOf

(* What the first k positions of a pass report lies at those positions.    *)
LEMMA FoundShape ==
    ASSUME NEW ch, NEW k \in Int
    PROVE  /\ \A x \in LinkFound(ch, k) : x.phase = "signature" /\ x.at <= k
           /\ \A x \in CertFound(ch, k) : x.phase = "validity" /\ x.at <= k
<1>1. \A x \in LinkFound(ch, k) : x.phase = "signature" /\ x.at <= k
    BY DEF LinkFound, Err
<1>2. \A x \in CertFound(ch, k) : x.phase = "validity" /\ x.at <= k
    BY ValidityErrorsShape DEF CertFound
<1>3. QED
    BY <1>1, <1>2

(* One more position of a pass adds what that position reports.           *)
LEMMA FoundNext ==
    ASSUME NEW ch, NEW k \in Nat
    PROVE  /\ LinkFound(ch, k + 1) =
                LinkFound(ch, k) \cup
                  IF CheckSignature(ch[k + 1], ch[k + 2]) THEN {}
                  ELSE {Err("signature", "signature", k + 1)}
           /\ CertFound(ch, k + 1) =
                CertFound(ch, k) \cup ElemsOf(ValidityErrors(ch, k + 1))
<1>1. 1..k + 1 = (1..k) \cup {k + 1}
    OBVIOUS
<1>2. QED
    BY <1>1 DEF LinkFound, CertFound

LEMMA InitRInv == Init => RInv
BY X5ChainAssumption DEF Init, RInv, IInv, TypeOK, LoopBounds, CleanSoFar,
   NoRegistry, RegistryValue, ErrorsSeen, FoundSoFar, Sorted

(* Every step of validate keeps the list equal to what the passes found,   *)
(* and sorted.                                                             *)
LEMMA StepRInv == RInv /\ [Next]_vars => RInv'
<1> SUFFICES ASSUME RInv, [Next]_vars PROVE RInv'
    OBVIOUS
<1>1. IInv'
    BY Inductive DEF RInv
<1> USE DEF RInv, IInv
<1>2. ASSUME NEW ch \in Chains, NEW reg \in Registries, Validate(ch, reg)
      PROVE  RInv'
    <2>1. LinkFound(ch, 0) = {}
        BY DEF LinkFound
    <2>2. QED
        BY <1>1, <1>2, <2>1 DEF Validate, ErrorsSeen, FoundSoFar, Sorted
<1>3. CASE SignatureLink
    <2>1. i \in 1..MaxChainLen /\ i + 1 <= Len(chain) /\ pc = "sig"
        BY <1>3, X5ChainAssumption DEF SignatureLink, TypeOK
    <2> DEFINE e == Err("signature", "signature", i)
    <2>2. e \in ErrorRecord
        BY <2>1 DEF Err, ErrorRecord, Phase, Kind
    <2>3. ErrorsSeen = LinkFound(chain, i - 1)
        BY <2>1 DEF FoundSoFar
    <2>4. LinkFound(chain, i) = LinkFound(chain, i - 1) \cup
            IF CheckSignature(chain[i], chain[i + 1]) THEN {} ELSE {e}
        BY <2>1, FoundNext
    <2>5. FoundSoFar' <=> ErrorsSeen' = LinkFound(chain, i)
        BY <1>3 DEF SignatureLink, FoundSoFar, TypeOK
    <2>6. CASE CheckSignature(chain[i], chain[i + 1])
        BY <1>1, <1>3, <2>3, <2>4, <2>5, <2>6 DEF SignatureLink, ErrorsSeen, Sorted
    <2>7. CASE ~CheckSignature(chain[i], chain[i + 1])
        <3>1. errors' = Append(errors, e)
            BY <1>3, <2>7 DEF SignatureLink
        <3>2. ErrorsSeen' = ErrorsSeen \cup {e}
            BY <3>1, <2>2, ElemsAppend DEF TypeOK, ErrorsSeen, ElemsOf
        <3>3. \A x \in ElemsOf(errors) : x.phase = "signature" /\ x.at <= i - 1
            BY <2>1, <2>3, FoundShape DEF ErrorsSeen, ElemsOf
        <3>4. \A x \in ElemsOf(errors) : Precedes(x, e)
            <4>1. \A x \in ElemsOf(errors) : x.at \in Int
                <5>1. errors \in Seq(ErrorRecord)
                    BY DEF TypeOK
                <5>2. QED
                    BY <5>1, ElemsType
            <4>2. e.phase = "signature" /\ e.at = i
                BY DEF Err
            <4>3. QED
                BY <2>1, <3>3, <4>1, <4>2 DEF Precedes
        <3>5. Sorted(errors')
            BY <3>1, <3>4, <2>2, SortedAppend DEF TypeOK
        <3>6. QED
            BY <1>1, <2>3, <2>4, <2>5, <2>7, <3>2, <3>5
    <2>8. QED
        BY <2>6, <2>7
<1>4. CASE SignaturePassEnd
    <2>1. i = Len(chain) /\ pc = "sig"
        BY <1>4 DEF SignaturePassEnd, LoopBounds, TypeOK
    <2>2. CertFound(chain, 0) = {}
        BY DEF CertFound
    <2>3. FoundSoFar' <=> ErrorsSeen' = LinkFound(chain, Len(chain) - 1) \cup CertFound(chain, 0)
        BY <1>4 DEF SignaturePassEnd, FoundSoFar, TypeOK
    <2>4. QED
        BY <1>1, <1>4, <2>1, <2>2, <2>3 DEF SignaturePassEnd, ErrorsSeen, FoundSoFar
<1>5. CASE ValidityCheck
    <2>1. i \in 1..Len(chain) /\ pc = "validity" /\ Len(chain) <= MaxChainLen
        BY <1>5 DEF ValidityCheck, TypeOK
    <2> DEFINE t == ValidityErrors(chain, i)
    <2>2. t \in Seq(ErrorRecord)
        BY <2>1, ValidityErrorsType DEF TypeOK
    <2>3. ErrorsSeen = LinkFound(chain, Len(chain) - 1) \cup CertFound(chain, i - 1)
        BY <2>1 DEF FoundSoFar
    <2>4. CertFound(chain, i) = CertFound(chain, i - 1) \cup ElemsOf(t)
        BY <2>1, FoundNext
    <2>5. FoundSoFar' <=> ErrorsSeen' = LinkFound(chain, Len(chain) - 1) \cup CertFound(chain, i)
        BY <1>5 DEF ValidityCheck, FoundSoFar, TypeOK
    <2>6. ErrorsSeen' = ErrorsSeen \cup ElemsOf(t)
        <3>1. errors' = errors \o t /\ errors \in Seq(ErrorRecord)
            BY <1>5 DEF ValidityCheck, TypeOK
        <3>2. ElemsOf(errors \o t) = ElemsOf(errors) \cup ElemsOf(t)
            BY <2>2, <3>1, ElemsConcat
        <3>3. QED
            BY <3>1, <3>2 DEF ErrorsSeen, ElemsOf
    <2>7. \A x \in ElemsOf(errors), y \in ElemsOf(t) : Precedes(x, y)
        <3>1. \A x \in ElemsOf(errors) :
                 x.phase = "signature" \/ (x.phase = "validity" /\ x.at <= i - 1)
            BY <2>1, <2>3, FoundShape DEF ErrorsSeen, ElemsOf
        <3>2. \A y \in ElemsOf(t) : y.phase = "validity" /\ y.at = i
            BY ValidityErrorsShape
        <3>3. \A x \in ElemsOf(errors) : x.at \in Int
            BY <2>2, ElemsType, <1>5 DEF ValidityCheck, TypeOK
        <3>4. PhaseRank["signature"] < PhaseRank["validity"]
            BY DEF PhaseRank
        <3>5. QED
            BY <2>1, <3>1, <3>2, <3>3, <3>4 DEF Precedes
    <2>8. Sorted(errors')
        BY <1>5, <2>2, <2>7, ValidityErrorsShape, SortedShort, SortedConcat
           DEF ValidityCheck, TypeOK
    <2>9. QED
        BY <1>1, <2>3, <2>4, <2>5, <2>6, <2>8
<1>6. CASE ValidityPassEnd
    <2>1. i = Len(chain) + 1 /\ pc = "validity"
        BY <1>6 DEF ValidityPassEnd, LoopBounds, TypeOK
    <2>2. FoundSoFar' <=> ErrorsSeen' = LinkFound(chain, Len(chain) - 1) \cup CertFound(chain, Len(chain))
        BY <1>6 DEF ValidityPassEnd, FoundSoFar, TypeOK
    <2>3. QED
        BY <1>1, <1>6, <2>1, <2>2 DEF ValidityPassEnd, ErrorsSeen, FoundSoFar
<1>7. CASE AnchorCheck
    <2>1. pc = "anchor" /\ chain \in Seq(X509) /\ Len(chain) \in 1..MaxChainLen
        BY <1>7 DEF AnchorCheck, TypeOK
    <2> DEFINE t == AnchorErrors(chain, registry)
    <2>2. t \in Seq(ErrorRecord)
        BY <2>1, AnchorErrorsType
    <2>3. ErrorsSeen = LinkFound(chain, Len(chain) - 1) \cup CertFound(chain, Len(chain))
        BY <2>1 DEF FoundSoFar
    <2>4. FoundSoFar' <=> ErrorsSeen' = LinkFound(chain, Len(chain) - 1) \cup CertFound(chain, Len(chain))
                                         \cup ElemsOf(t)
        BY <1>7 DEF AnchorCheck, FoundSoFar, TypeOK
    <2>5. ErrorsSeen' = ErrorsSeen \cup ElemsOf(t)
        <3>1. errors' = errors \o t /\ errors \in Seq(ErrorRecord)
            BY <1>7 DEF AnchorCheck, TypeOK
        <3>2. ElemsOf(errors \o t) = ElemsOf(errors) \cup ElemsOf(t)
            BY <2>2, <3>1, ElemsConcat
        <3>3. QED
            BY <3>1, <3>2 DEF ErrorsSeen, ElemsOf
    <2>6. \A x \in ElemsOf(errors), y \in ElemsOf(t) : Precedes(x, y)
        <3>1. \A x \in ElemsOf(errors) : x.phase \in {"signature", "validity"}
            BY <2>1, <2>3, FoundShape DEF ErrorsSeen, ElemsOf
        <3>2. \A y \in ElemsOf(t) : y.phase = "anchor"
            BY <2>1, AnchorErrorsShape
        <3>3. QED
            BY <3>1, <3>2 DEF Precedes, PhaseRank
    <2>7. Sorted(errors')
        BY <1>7, <2>1, <2>2, <2>6, AnchorErrorsShape, SortedShort, SortedConcat
           DEF AnchorCheck, TypeOK
    <2>8. QED
        BY <1>1, <2>3, <2>4, <2>5, <2>7
<1>8. CASE Return
    BY <1>1, <1>8 DEF Return, ErrorsSeen, FoundSoFar, Sorted
<1>9. CASE UNCHANGED vars
    BY <1>1, <1>9 DEF vars, ErrorsSeen, FoundSoFar
<1>10. QED
    BY <1>2, <1>3, <1>4, <1>5, <1>6, <1>7, <1>8, <1>9 DEF Next

(* Collect-all, for every chain length: when validate returns, every       *)
(* failing link, every certificate that does not parse or is out of its    *)
(* window and an unanchored top each have an error of their own.           *)
THEOREM DefectsReported == Spec => []AllDefectsReported
<1>1. RInv => AllDefectsReported
    <2> SUFFICES ASSUME RInv, pc = "done" PROVE AllDefectsReported
        BY DEF AllDefectsReported
    <2> DEFINE n == Len(chain)
    <2>1. chain \in Seq(X509) /\ n >= 1
        BY DEF RInv, IInv, TypeOK
    <2>2. ErrorsSeen = LinkFound(chain, n - 1) \cup CertFound(chain, n)
                         \cup ElemsOf(AnchorErrors(chain, registry))
        BY DEF RInv, FoundSoFar
    <2>3. ASSUME NEW j \in 1..n - 1, ~CheckSignature(chain[j], chain[j + 1])
          PROVE  Err("signature", "signature", j) \in ErrorsSeen
        BY <2>2, <2>3 DEF LinkFound
    <2>4. ASSUME NEW j \in 1..n,
                 ~ParsesAsCertificate(chain[j]) \/ ValidityPeriodFails(chain[j])
          PROVE  \E e \in ErrorsSeen : e.phase = "validity" /\ e.at = j
        <3>1. ValidityErrors(chain, j)[1] \in ElemsOf(ValidityErrors(chain, j))
              /\ ValidityErrors(chain, j)[1].phase = "validity"
              /\ ValidityErrors(chain, j)[1].at = j
            BY <2>4 DEF ValidityErrors, ElemsOf, Err
        <3>2. ElemsOf(ValidityErrors(chain, j)) \subseteq CertFound(chain, n)
            BY DEF CertFound
        <3>3. QED
            BY <2>2, <3>1, <3>2
    <2>5. ASSUME ~(/\ ParsesAsCertificate(chain[n])
                   /\ FindAnchor(chain[n], registry) = "found"
                   /\ ~AnchorValidationFails(chain[n], SignedBy[chain[n]]))
          PROVE  \E e \in ErrorsSeen : e.phase = "anchor"
        <3> DEFINE t == AnchorErrors(chain, registry)
        <3>1. t # <<>>
            BY <2>1, <2>5, AnchorClean
        <3>2. t \in Seq(ErrorRecord)
            BY <2>1, AnchorErrorsType DEF RInv, IInv, TypeOK
        <3>3. t[1] \in ElemsOf(t)
            BY <3>1, <3>2 DEF ElemsOf
        <3>4. t[1].phase = "anchor"
            BY <2>1, <3>3, AnchorErrorsShape
        <3>5. QED
            BY <2>2, <3>3, <3>4
    <2>6. QED
        BY <2>3, <2>4, <2>5 DEF AllDefectsReported
<1>2. QED
    BY InitRInv, StepRInv, <1>1, PTL DEF Spec

=============================================================================
