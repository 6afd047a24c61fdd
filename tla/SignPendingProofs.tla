-------------------------- MODULE SignPendingProofs --------------------------
(***************************************************************************)
(* Proofs about sign_pending_and_retrieve_response (SignPending), for      *)
(* every bound on the queue and every set of expected_to_sign arguments.  *)
(***************************************************************************)
EXTENDS SignPending, TLAPS

(* While a call is under way or has returned, the signatures made and the *)
(* payloads left add up to what was queued, and none went past Some(n);   *)
(* the loop only returns Ok with the queue drained, and Ok(None) only when *)
(* nothing was ready.  The first conjunct is what TypeOK needs: signed    *)
(* grows only while a payload is left, so it never passes MaxPayloads.   *)
IInv ==
    /\ TypeOK
    /\ lpc # "idle" =>
          /\ signed + pending = queued
          /\ \A k \in DOMAIN expected : signed <= expected[k]
    /\ lpc = "returned" /\ result \in {"some", "none"} => pending = 0
    /\ lpc = "returned" /\ result = "none" => response = "none"

(* An expected_to_sign argument is None or Some(n) with n a natural.       *)
LEMMA ExpectedType ==
    ASSUME NEW e \in ExpectedArgs \cup {<<>>}
    PROVE  /\ DOMAIN e \subseteq 1..1
           /\ \A k \in DOMAIN e : e[k] \in Nat
<1>1. e \in Seq(Nat) /\ Len(e) <= 1
    <2>1. CASE e \in ExpectedArgs
        BY <2>1, SignPendingAssumption
    <2>2. CASE e = <<>>
        BY <2>2
    <2>3. QED
        BY <2>1, <2>2
<1>2. QED
    BY <1>1

LEMMA InitIInv == Init => IInv
BY SignPendingAssumption DEF Init, IInv, TypeOK

(* Every step of the loop and of its caller keeps IInv.                    *)
LEMMA StepIInv == IInv /\ [Next]_vars => IInv'
<1> SUFFICES ASSUME IInv, [Next]_vars PROVE IInv'
    OBVIOUS
<1> USE SignPendingAssumption
<1>1. ASSUME NEW exp \in ExpectedArgs, NEW n \in 0..MaxPayloads,
             NEW ready \in {"none", "error", "data"}, NEW kind \in {"error", "data"},
             Call(exp, n, ready, kind)
      PROVE  IInv'
    <2>1. \A k \in DOMAIN exp : exp[k] \in Nat
        BY ExpectedType
    <2>2. QED
        BY <1>1, <2>1 DEF Call, IInv, TypeOK
<1>2. CASE Bail
    BY <1>2 DEF Bail, IInv, TypeOK
<1>3. CASE SignAndSubmit
    <2>1. \A k \in DOMAIN expected : expected[k] \in Nat
        BY ExpectedType DEF IInv, TypeOK
    <2>2. lpc = "loop" /\ signed + pending = queued /\ pending > 0
        BY <1>3 DEF SignAndSubmit, IInv
    <2>3. signed' \in 0..MaxPayloads /\ pending' \in 0..MaxPayloads
        BY <1>3, <2>2 DEF SignAndSubmit, IInv, TypeOK
    <2>4. \A k \in DOMAIN expected' : signed' <= expected'[k]
        <3>1. \A k \in DOMAIN expected : signed < expected[k]
            BY <1>3 DEF SignAndSubmit
        <3>2. signed \in Nat
            BY DEF IInv, TypeOK
        <3>3. expected' = expected /\ signed' = signed + 1
            BY <1>3 DEF SignAndSubmit
        <3>4. QED
            BY <2>1, <3>1, <3>2, <3>3
    <2>5. response' \in {"none", "error", "data"}
        BY <1>3 DEF SignAndSubmit, IInv, TypeOK
    <2>6. QED
        BY <1>3, <2>2, <2>3, <2>4, <2>5 DEF SignAndSubmit, IInv, TypeOK
<1>4. CASE SubmitFails
    BY <1>4 DEF SubmitFails, IInv, TypeOK
<1>5. CASE NoMorePayloads
    BY <1>5 DEF NoMorePayloads, IInv, TypeOK
<1>6. CASE Return
    BY <1>6 DEF Return, IInv, TypeOK
<1>7. CASE UNCHANGED vars
    BY <1>7 DEF vars, IInv, TypeOK
<1>8. QED
    BY <1>1, <1>2, <1>3, <1>4, <1>5, <1>6, <1>7 DEF Next, LoopStep

(* The loop keeps its types: in particular signed never passes the        *)
(* payloads queued, and the queue never goes below empty.                  *)
THEOREM TypeCorrect == Spec => []TypeOK
<1>1. IInv => TypeOK
    BY DEF IInv
<1>2. QED
    BY InitIInv, StepIInv, <1>1, PTL DEF Spec

(* ReturnsWhatItSigned holds for every queue bound and every argument set: *)
(* a call never returns more signatures than Some(n) allows, answers       *)
(* Ok(Some) only with the queue drained, and Ok(None) only with nothing   *)
(* ready.                                                                   *)
THEOREM ReturnsCorrectly == Spec => []ReturnsWhatItSigned
<1>1. IInv => ReturnsWhatItSigned
    BY DEF IInv, ReturnsWhatItSigned
<1>2. QED
    BY InitIInv, StepIInv, <1>1, PTL DEF Spec
=============================================================================
