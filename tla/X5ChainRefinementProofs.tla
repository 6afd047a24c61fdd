----------------------- MODULE X5ChainRefinementProofs -----------------------
(***************************************************************************)
(* Proof that the stepwise X5Chain::validate implements the one-step       *)
(* promise X5ChainTrust (X5Chain!Refinement), for every world of           *)
(* certificates, every registry and every bound on the chain length.  The  *)
(* loop steps map to stutters and the anchor check to the promise's        *)
(* Finish: there the list built by the passes is, by RInv, sorted and      *)
(* holds exactly the chain's defects, and a sorted list is the one the     *)
(* promise describes, its k-th entry the defect k - 1 others come before.  *)
(***************************************************************************)
EXTENDS X5ChainReportProofs, FiniteSetTheorems

(* The promise's listing of a set of errors (X5ChainTrust!Defects).       *)
Enum(D) ==
    [k \in 1..Abstract!Cardinality(D) |->
        CHOOSE e \in D : Abstract!Cardinality({f \in D : Abstract!Before(f, e)}) = k - 1]

(* The promise counts with the Cardinality of FiniteSets, and orders by    *)
(* Precedes.                                                               *)
LEMMA CardinalitySame ==
    ASSUME NEW S
    PROVE  Abstract!Cardinality(S) = Cardinality(S)
BY DEF Abstract!Cardinality, Cardinality

LEMMA BeforeSame ==
    ASSUME NEW e, NEW f
    PROVE  Abstract!Before(e, f) <=> Precedes(e, f)
BY DEF Abstract!Before, Abstract!PhaseRank, Precedes, PhaseRank

(* The order of the promise is a strict order on error records.            *)
LEMMA PrecedesAsym ==
    ASSUME NEW x \in ErrorRecord, NEW y \in ErrorRecord, Precedes(x, y)
    PROVE  ~Precedes(y, x)
BY X5ChainAssumption DEF Precedes, PhaseRank, ErrorRecord, Phase

(* A sorted list has no record twice.                                      *)
LEMMA SortedInjective ==
    ASSUME NEW s \in Seq(ErrorRecord), Sorted(s),
           NEW k \in 1..Len(s), NEW l \in 1..Len(s), k # l
    PROVE  s[k] # s[l]
<1>1. CASE k < l
    BY <1>1, PrecedesAsym DEF Sorted
<1>2. CASE l < k
    BY <1>2, PrecedesAsym DEF Sorted
<1>3. QED
    BY <1>1, <1>2

(* A list that names no element twice has as many elements as entries.    *)
LEMMA CountImage ==
    ASSUME NEW T, NEW n \in Nat, NEW t \in [1..n -> T],
           \A k, l \in 1..n : k # l => t[k] # t[l]
    PROVE  Cardinality({t[m] : m \in 1..n}) = n
<1> DEFINE R == {t[m] : m \in 1..n}
<1>1. t \in Bijection(1..n, R)
    BY DEF Bijection, Injection, Surjection, IsInjective
<1>2. ExistsBijection(1..n, R)
    BY <1>1 DEF ExistsBijection
<1>3. QED
    BY <1>2, FS_CountingElements

(* In a sorted list, what comes before the k-th entry is the k - 1 entries *)
(* in front of it.                                                         *)
LEMMA SortedRank ==
    ASSUME NEW s \in Seq(ErrorRecord), Sorted(s), NEW k \in 1..Len(s)
    PROVE  Cardinality({f \in ElemsOf(s) : Precedes(f, s[k])}) = k - 1
<1>1. {f \in ElemsOf(s) : Precedes(f, s[k])} = {s[m] : m \in 1..k - 1}
    <2>1. ASSUME NEW m \in 1..Len(s), Precedes(s[m], s[k]) PROVE m < k
        <3>1. CASE m = k
            BY <2>1, <3>1, PrecedesAsym
        <3>2. CASE m > k
            BY <2>1, <3>2, PrecedesAsym DEF Sorted
        <3>3. QED
            BY <3>1, <3>2
    <2>2. ASSUME NEW m \in 1..k - 1 PROVE Precedes(s[m], s[k])
        BY DEF Sorted
    <2>3. QED
        BY <2>1, <2>2 DEF ElemsOf
<1>2. \A a, b \in 1..k - 1 : a # b => s[a] # s[b]
    BY SortedInjective
<1>3. Cardinality({s[m] : m \in 1..k - 1}) = k - 1
    <2> DEFINE t == [m \in 1..k - 1 |-> s[m]]
    <2>1. k - 1 \in Nat /\ 1..k - 1 \subseteq 1..Len(s)
        OBVIOUS
    <2>5. t \in [1..k - 1 -> ErrorRecord]
        BY <2>1
    <2>2. \A a, b \in 1..k - 1 : a # b => t[a] # t[b]
        BY <1>2
    <2>3. {t[m] : m \in 1..k - 1} = {s[m] : m \in 1..k - 1}
        OBVIOUS
    <2>6. Cardinality({t[m] : m \in 1..k - 1}) = k - 1
        BY <2>1, <2>5, <2>2, CountImage
    <2>4. QED
        BY <2>3, <2>6
<1>4. QED
    BY <1>1, <1>3

(* A sorted list is the promise's listing of its elements.                 *)
LEMMA SortedIsEnum ==
    ASSUME NEW s \in Seq(ErrorRecord), Sorted(s)
    PROVE  s = Enum(ElemsOf(s))
<1> DEFINE D == ElemsOf(s)
           n == Len(s)
           rank(e) == Abstract!Cardinality({f \in D : Abstract!Before(f, e)})
<1>1. Abstract!Cardinality(D) = n
    <2>1. \A a, b \in 1..n : a # b => s[a] # s[b]
        BY SortedInjective
    <2>2. n \in Nat /\ s \in [1..n -> ErrorRecord]
        OBVIOUS
    <2>3. Cardinality(D) = n
        BY <2>1, <2>2, CountImage DEF ElemsOf
    <2>4. QED
        BY <2>3, CardinalitySame
<1>2. ASSUME NEW k \in 1..n PROVE rank(s[k]) = k - 1
    <2>1. {f \in D : Abstract!Before(f, s[k])} = {f \in D : Precedes(f, s[k])}
        BY BeforeSame
    <2>2. Cardinality({f \in D : Precedes(f, s[k])}) = k - 1
        BY SortedRank
    <2>3. QED
        BY <2>1, <2>2, CardinalitySame
<1>3. ASSUME NEW k \in 1..n
      PROVE  (CHOOSE e \in D : rank(e) = k - 1) = s[k]
    <2>1. s[k] \in D
        BY DEF ElemsOf
    <2> DEFINE c == CHOOSE e \in D : rank(e) = k - 1
    <2>6. rank(s[k]) = k - 1
        BY <1>2
    <2>7. \E e \in D : rank(e) = k - 1
        BY <2>1, <2>6
    <2>2. c \in D /\ rank(c) = k - 1
        BY <2>7
    <2>9. DOMAIN s = 1..n
        OBVIOUS
    <2>3. PICK m \in 1..n : c = s[m]
        BY <2>2, <2>9 DEF ElemsOf
    <2>8. rank(s[m]) = m - 1
        BY <1>2
    <2>4. m - 1 = k - 1
        BY <2>2, <2>3, <2>8
    <2>10. m = k
        BY <2>4
    <2>5. QED
        BY <2>3, <2>10
<1>4. QED
    BY <1>1, <1>3 DEF Enum

(* The promise speaks of the same certificates, signatures and registries *)
(* as validate: its instance of X509 and TrustAnchor is this module's.     *)
LEMMA InstanceSame ==
    /\ \A a, b : Abstract!CheckSignature(a, b) = CheckSignature(a, b)
    /\ \A x : Abstract!ParsesAsCertificate(x) = ParsesAsCertificate(x)
    /\ \A x : Abstract!ValidityPeriodFails(x) = ValidityPeriodFails(x)
    /\ \A x, r : Abstract!FindAnchor(x, r) = FindAnchor(x, r)
    /\ \A x, a : Abstract!AnchorValidationFails(x, a) = AnchorValidationFails(x, a)
    /\ Abstract!NoRegistry = NoRegistry
    /\ Abstract!Chains = Chains
BY DEF Abstract!CheckSignature, CheckSignature, Abstract!PublicKeyOk, PublicKeyOk,
       Abstract!ParsesAsCertificate, ParsesAsCertificate,
       Abstract!ValidityPeriodFails, ValidityPeriodFails,
       Abstract!FindAnchor, FindAnchor,
       Abstract!AnchorValidationFails, AnchorValidationFails,
       Abstract!NoRegistry, NoRegistry, Abstract!Chains, Chains

(* The promise's listing is the listing by Precedes.                       *)
LEMMA DefectsEnum ==
    ASSUME NEW ch, NEW reg
    PROVE  Abstract!Defects(ch, reg) = Enum(Abstract!DefectSet(ch, reg))
BY DEF Abstract!Defects, Enum

-----------------------------------------------------------------------------
(* What the three passes find is what the promise calls the chain's        *)
(* defects.                                                                *)

LEMMA LinkDefectsFound ==
    ASSUME NEW ch
    PROVE  LinkFound(ch, Len(ch) - 1) = Abstract!LinkDefects(ch)
BY InstanceSame DEF LinkFound, Abstract!LinkDefects, Abstract!Err, Err

LEMMA CertDefectsFound ==
    ASSUME NEW ch
    PROVE  CertFound(ch, Len(ch)) = Abstract!CertDefects(ch)
<1> DEFINE bad(j) == ~ParsesAsCertificate(ch[j]) \/ ValidityPeriodFails(ch[j])
           kind(j) == IF ParsesAsCertificate(ch[j]) THEN "expired" ELSE "parse"
<1>1. \A j : ElemsOf(ValidityErrors(ch, j)) =
                IF bad(j) THEN {Err("validity", kind(j), j)} ELSE {}
    BY DEF ValidityErrors, ElemsOf
<1>2. QED
    BY <1>1, InstanceSame DEF CertFound, Abstract!CertDefects, Abstract!Err, Err

LEMMA TopDefectsFound ==
    ASSUME NEW ch \in Seq(X509), Len(ch) >= 1, NEW reg
    PROVE  ElemsOf(AnchorErrors(ch, reg)) = Abstract!TopDefects(ch, reg)
<1> DEFINE top == ch[Len(ch)]
<1>1. FindAnchor(top, reg) \in {"none", "error", "found"}
    BY DEF FindAnchor
<1>2. Len(ch) # 0
    OBVIOUS
<1> USE <1>2, InstanceSame DEF AnchorErrors, Abstract!TopDefects, ElemsOf, Err, Abstract!Err
<1>3. CASE ~ParsesAsCertificate(top)
    BY <1>3
<1>4. CASE ParsesAsCertificate(top) /\ FindAnchor(top, reg) = "error"
    BY <1>4
<1>5. CASE ParsesAsCertificate(top) /\ FindAnchor(top, reg) = "none"
    BY <1>5
<1>6. CASE ParsesAsCertificate(top) /\ FindAnchor(top, reg) = "found"
           /\ AnchorValidationFails(top, SignedBy[top])
    BY <1>6
<1>7. CASE ParsesAsCertificate(top) /\ FindAnchor(top, reg) = "found"
           /\ ~AnchorValidationFails(top, SignedBy[top])
    BY <1>7
<1>8. QED
    BY <1>1, <1>3, <1>4, <1>5, <1>6, <1>7

(* The three passes together find exactly the promise's defect set.        *)
LEMMA DefectSetFound ==
    ASSUME NEW ch \in Seq(X509), Len(ch) >= 1, NEW reg
    PROVE  LinkFound(ch, Len(ch) - 1) \cup CertFound(ch, Len(ch))
              \cup ElemsOf(AnchorErrors(ch, reg)) = Abstract!DefectSet(ch, reg)
BY LinkDefectsFound, CertDefectsFound, TopDefectsFound DEF Abstract!DefectSet

-----------------------------------------------------------------------------
(* The variables of the promise, as the refinement mapping computes them.  *)
absvars == <<chain, registry, statusBar, resultBar>>

(* The anchor check delivers the promised list: the passes have built it   *)
(* sorted and holding exactly the chain's defects.                         *)
LEMMA FinishStep ==
    ASSUME RInv, RInv', AnchorCheck
    PROVE  Abstract!Finish
<1> USE DEF RInv, IInv, TypeOK
<1>1. pc' = "done" /\ UNCHANGED <<chain, registry>>
    BY DEF AnchorCheck
<1>2. ErrorsSeen' = Abstract!DefectSet(chain, registry)
    <2>1. ErrorsSeen' = LinkFound(chain, Len(chain) - 1) \cup CertFound(chain, Len(chain))
                          \cup ElemsOf(AnchorErrors(chain, registry))
        BY <1>1 DEF FoundSoFar
    <2>2. chain \in Seq(X509) /\ Len(chain) >= 1
        BY DEF AnchorCheck
    <2>3. QED
        BY <2>1, <2>2, DefectSetFound
<1>3. errors' = Enum(ElemsOf(errors'))
    BY SortedIsEnum
<1>4. ElemsOf(errors') = ErrorsSeen'
    BY DEF ElemsOf, ErrorsSeen
<1>5. resultBar' = Abstract!Defects(chain, registry)
    BY <1>1, <1>2, <1>3, <1>4, DefectsEnum DEF resultBar
<1>6. statusBar = "busy" /\ statusBar' = "done"
    BY <1>1 DEF AnchorCheck, statusBar
<1>7. QED
    BY <1>1, <1>5, <1>6 DEF Abstract!Finish

(* Each step of validate is a step of the promise or leaves its variables  *)
(* as they were.                                                           *)
LEMMA StepMaps == RInv /\ RInv' /\ [Next]_vars => [Abstract!Next]_absvars
<1> SUFFICES ASSUME RInv, RInv', [Next]_vars
             PROVE  [Abstract!Next]_absvars
    OBVIOUS
<1>1. ASSUME NEW ch \in Chains, NEW reg \in Registries, Validate(ch, reg)
      PROVE  Abstract!Next
    <2>1. Abstract!Call(ch, reg)
        BY <1>1 DEF Validate, Abstract!Call, statusBar, resultBar
    <2>2. ch \in Abstract!Chains
        BY InstanceSame
    <2>3. QED
        BY <2>1, <2>2 DEF Abstract!Next
<1>2. CASE SignatureLink \/ ValidityCheck
    <2>1. pc \in {"sig", "validity"} /\ pc' = pc
        BY <1>2 DEF SignatureLink, ValidityCheck
    <2>2. UNCHANGED <<chain, registry>>
        BY <1>2 DEF SignatureLink, ValidityCheck
    <2>3. QED
        BY <2>1, <2>2 DEF absvars, statusBar, resultBar
<1>3. CASE SignaturePassEnd \/ ValidityPassEnd
    <2>1. pc \in {"sig", "validity"} /\ pc' \in {"validity", "anchor"}
        BY <1>3 DEF SignaturePassEnd, ValidityPassEnd
    <2>2. UNCHANGED <<chain, registry>>
        BY <1>3 DEF SignaturePassEnd, ValidityPassEnd
    <2>3. QED
        BY <2>1, <2>2 DEF absvars, statusBar, resultBar
<1>4. CASE AnchorCheck
    BY <1>4, FinishStep DEF Abstract!Next
<1>5. CASE Return
    <2>1. Abstract!Return
        BY <1>5, InstanceSame DEF Return, Abstract!Return, statusBar, resultBar
    <2>2. QED
        BY <2>1 DEF Abstract!Next
<1>6. CASE UNCHANGED vars
    BY <1>6 DEF vars, absvars, statusBar, resultBar
<1>7. QED
    BY <1>1, <1>2, <1>3, <1>4, <1>5, <1>6 DEF Next

(* validate implements X5ChainTrust, for every world of certificates,     *)
(* every set of registries and every bound on the chain length: what the   *)
(* stepwise passes return is the sorted list of all the chain's defects.   *)
THEOREM Implements == Spec => Refinement
<1>1. Init => Abstract!Init
    BY InstanceSame DEF Init, Abstract!Init, statusBar, resultBar
<1>2. QED
    BY <1>1, StepMaps, InitRInv, StepRInv, PTL
       DEF Spec, Refinement, Abstract!Spec, absvars

=============================================================================
