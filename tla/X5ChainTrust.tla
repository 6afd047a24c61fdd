---------------------------- MODULE X5ChainTrust ----------------------------
(***************************************************************************)
(* What X5Chain::validate promises, stated in one step: a call returns the *)
(* list of every defect of the chain, the failing links first, then the    *)
(* certificates that do not parse or are out of their validity window,     *)
(* then the verdict on the top of the chain; each group in chain order.    *)
(* The stepwise X5Chain module implements it (X5Chain!Refinement).         *)
(***************************************************************************)
EXTENDS TrustAnchor, FiniteSets

CONSTANTS MaxChainLen, Registries

VARIABLES
    chain,      \* the chain of the call
    registry,   \* its registry argument
    status,     \* idle, busy (the call is under way), done (it returned)
    result      \* the list returned; empty while the call is under way

Chains == UNION {[1..n -> X509] : n \in 1..MaxChainLen}

Err(phase, kind, at) == [phase |-> phase, kind |-> kind, at |-> at]

(* The order of the promise: by pass, then by position in the chain.     *)
PhaseRank == [signature |-> 1, validity |-> 2, anchor |-> 3]
Before(e, f) ==
    \/ PhaseRank[e.phase] < PhaseRank[f.phase]
    \/ e.phase = f.phase /\ e.at < f.at

(* The links (target j, issuer j+1) whose signature does not check.        *)
LinkDefects(ch) ==
    {Err("signature", "signature", j) :
        j \in {j \in 1..Len(ch) - 1 : ~CheckSignature(ch[j], ch[j + 1])}}

(* The certificates that do not parse, or parse and are out of window.     *)
CertDefects(ch) ==
    {Err("validity", IF ParsesAsCertificate(ch[j]) THEN "expired" ELSE "parse", j) :
        j \in {j \in 1..Len(ch) : \/ ~ParsesAsCertificate(ch[j])
                                  \/ ValidityPeriodFails(ch[j])}}

(* The verdict on the last certificate: the first of its defects, in the  *)
(* order the code checks them, if any.                                       *)
TopDefects(ch, reg) ==
    LET n == Len(ch)
        top == ch[n]
        kind == IF ~ParsesAsCertificate(top) THEN "parse"
                ELSE IF FindAnchor(top, reg) = "error" THEN "lookup"
                ELSE IF FindAnchor(top, reg) = "none" THEN "no_anchor"
                ELSE IF AnchorValidationFails(top, SignedBy[top]) THEN "anchor_invalid"
                ELSE "none"
    IN IF kind = "none" THEN {} ELSE {Err("anchor", kind, n)}

DefectSet(ch, reg) == LinkDefects(ch) \cup CertDefects(ch) \cup TopDefects(ch, reg)

(* Every defect of the chain, listed in the promised order: the k-th entry *)
(* is the defect that k - 1 others come before.                            *)
Defects(ch, reg) ==
    LET D == DefectSet(ch, reg) IN
    [k \in 1..Cardinality(D) |->
        CHOOSE e \in D : Cardinality({f \in D : Before(f, e)}) = k - 1]

Init ==
    /\ chain = <<>>
    /\ registry = NoRegistry
    /\ status = "idle"
    /\ result = <<>>

Call(ch, reg) ==
    /\ status = "idle"
    /\ chain' = ch
    /\ registry' = reg
    /\ status' = "busy"
    /\ result' = <<>>

Finish ==
    /\ status = "busy"
    /\ result' = Defects(chain, registry)
    /\ status' = "done"
    /\ UNCHANGED <<chain, registry>>

Return ==
    /\ status = "done"
    /\ status' = "idle"
    /\ chain' = <<>>
    /\ registry' = NoRegistry
    /\ result' = <<>>

Next ==
    \/ \E ch \in Chains, reg \in Registries : Call(ch, reg)
    \/ Finish
    \/ Return

Spec == Init /\ [][Next]_<<chain, registry, status, result>>
=============================================================================
