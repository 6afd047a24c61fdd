-------------------------- MODULE X5ChainWireProofs --------------------------
(***************************************************************************)
(* Proofs about validate_x5chain (X5ChainWire), for every world of         *)
(* certificates, every set of byte-string contents, every registry and     *)
(* every bound on the array length: the decoder accepts exactly the        *)
(* well-formed headers, and validate works on exactly the header's chain.  *)
(***************************************************************************)
EXTENDS X5ChainWire, SequenceTheorems, TLAPS

(* into_cbor against the decoder, whatever the constants.  The header     *)
(* into_cbor writes for a chain carries the chain's certificates, in      *)
(* order, but as raw DER, which serde_cbor::from_slice::<Vec<u8>>         *)
(* rejects: it is never well formed.                                       *)
LEMMA IntoCborShape ==
    ASSUME NEW ch \in Seq(X509), Len(ch) >= 1
    PROVE  /\ WireChain(IntoCbor(ch)) = ch
           /\ ~WellFormedWire(IntoCbor(ch))
<1>1. CASE Len(ch) = 1
    <2>1. IntoCbor(ch) = CBytes([enc |-> "raw", x |-> ch[1]])
        BY <1>1 DEF IntoCbor
    <2>2. ch = <<ch[1]>>
        BY <1>1
    <2>3. QED
        BY <2>1, <2>2 DEF WireChain, WellFormedWire, CBytes, FromSliceOk
<1>2. CASE Len(ch) > 1
    <2> DEFINE its == [j \in 1..Len(ch) |-> CBytes([enc |-> "raw", x |-> ch[j]])]
    <2>1. IntoCbor(ch) = CArray(its)
        BY <1>2 DEF IntoCbor
    <2>2. Len(its) = Len(ch) /\ \A j \in 1..Len(ch) : its[j].content.x = ch[j]
        BY DEF CBytes
    <2>3. WireChain(IntoCbor(ch)) = ch
        BY <2>1, <2>2 DEF WireChain, CArray
    <2>4. ~FromSliceOk(its[1].content)
        BY <1>2 DEF CBytes, FromSliceOk
    <2>5. ~WellFormedWire(IntoCbor(ch))
        <3>1. IntoCbor(ch).type = "array" /\ IntoCbor(ch).items = its
            BY <2>1 DEF CArray
        <3>2. 1 \in 1..Len(IntoCbor(ch).items)
            BY <1>2, <2>2, <3>1
        <3>3. QED
            BY <2>4, <3>1, <3>2 DEF WellFormedWire
    <2>6. QED
        BY <2>3, <2>5
<1>3. Len(ch) \in Nat
    BY LenProperties
<1>4. QED
    BY <1>1, <1>2, <1>3

USE WireAssumption

(* What the decoder knows about the element it looks at.                   *)
LEMMA ItemShape ==
    ASSUME NEW it \in Items
    PROVE  /\ it.type \in {"bytes", "other"}
           /\ it.type = "bytes" => it.content \in ContentValue
BY DEF Items, CBytes, COther

(* A header is a byte string, an array of at most MaxChainLen elements, or *)
(* another value.                                                          *)
LEMMA InputShape ==
    ASSUME NEW v \in WireInputs
    PROVE  /\ v.type \in {"other", "bytes", "array"}
           /\ v.type = "bytes" => v.content \in ContentValue
           /\ v.type = "array" => v.items \in Seq(Items) /\ Len(v.items) <= MaxChainLen
<1>1. CASE v = COther
    BY <1>1 DEF COther
<1>2. CASE v \in {CBytes(c) : c \in Contents}
    BY <1>2 DEF CBytes
<1>3. ASSUME NEW n \in 0..MaxChainLen, NEW s \in [1..n -> Items], v = CArray(s)
      PROVE  v.type = "array" /\ v.items \in Seq(Items) /\ Len(v.items) <= MaxChainLen
    <2>1. s \in Seq(Items) /\ Len(s) = n
        OBVIOUS
    <2>2. QED
        BY <1>3, <2>1 DEF CArray
<1>4. QED
    BY <1>1, <1>2, <1>3 DEF WireInputs

(* The decoder's inductive invariant.  Before validate is entered nothing *)
(* is decided; while the array is decoded, every element before k is a    *)
(* byte string that decodes and decoded holds their certificates in       *)
(* order; validate is entered only for a well-formed header and on its    *)
(* chain; and the decision returned is AcceptsExactlyWellFormed.          *)
Decoding ==
    /\ input.type = "array"
    /\ k \in 1..Len(input.items) + 1
    /\ decoded = [j \in 1..k - 1 |-> input.items[j].content.x]
    /\ \A j \in 1..k - 1 :
          input.items[j].type = "bytes" /\ FromSliceOk(input.items[j].content)

WInv ==
    /\ TypeOK
    /\ wpc \in {"idle", "match", "decode"} => outcome = "none" /\ ~validated
    /\ wpc = "decode" => Decoding
    /\ wpc = "validating" =>
          /\ validated /\ outcome = "none"
          /\ WellFormedWire(input)
          /\ chain = WireChain(input)
    /\ AcceptsExactlyWellFormed

LEMMA OtherInput == COther \in WireInputs
BY Zenon DEF WireInputs

LEMMA InitWInv == Init => WInv
<1> SUFFICES ASSUME Init PROVE WInv
    OBVIOUS
<1>1. V!TypeOK
    BY DEF Init, V!Init, V!TypeOK, V!NoRegistry, V!RegistryValue
<1>2. COther \in WireInputs
    BY OtherInput
<1>3. TypeOK
    <2>1. input \in WireInputs /\ k \in 0..MaxChainLen + 1
        BY <1>2 DEF Init
    <2>2. decoded \in Seq(X509) /\ validated \in BOOLEAN
        <3>1. decoded = <<>> /\ validated = FALSE
            BY DEF Init
        <3>2. <<>> \in Seq(X509)
            OBVIOUS
        <3>3. QED
            BY <3>1, <3>2
    <2>3. wpc = "idle" /\ outcome = "none"
        BY DEF Init
    <2>4. QED
        BY <1>1, <2>1, <2>2, <2>3 DEF TypeOK
<1>4. QED
    BY <1>3 DEF Init, WInv, AcceptsExactlyWellFormed

(* A step of the validate call under way keeps validate's types (the      *)
(* argument of X5ChainProofs!TypeStep, for the instance V).                *)
LEMMA ValidateTypes ==
    ASSUME V!TypeOK, V!SignatureLink \/ V!SignaturePassEnd \/ V!ValidityCheck
                     \/ V!ValidityPassEnd \/ V!AnchorCheck
    PROVE  V!TypeOK'
<1> USE DEF V!TypeOK
<1>1. CASE V!SignatureLink
    <2>1. V!Err("signature", "signature", i) \in V!ErrorRecord
        BY <1>1 DEF V!SignatureLink, V!Err, V!ErrorRecord, V!Phase, V!Kind
    <2>2. errors' \in Seq(V!ErrorRecord)
        BY <1>1, <2>1, AppendProperties DEF V!SignatureLink
    <2>3. QED
        BY <1>1, <2>2 DEF V!SignatureLink
<1>2. CASE V!ValidityCheck
    <2>1. i \in 1..MaxChainLen
        BY <1>2 DEF V!ValidityCheck
    <2>2. V!ValidityErrors(chain, i) \in Seq(V!ErrorRecord)
        <3>1. /\ V!Err("validity", "parse", i) \in V!ErrorRecord
              /\ V!Err("validity", "expired", i) \in V!ErrorRecord
            BY <2>1 DEF V!Err, V!ErrorRecord, V!Phase, V!Kind
        <3>2. QED
            BY <3>1 DEF V!ValidityErrors
    <2>3. errors' \in Seq(V!ErrorRecord)
        BY <1>2, <2>2, ConcatProperties DEF V!ValidityCheck
    <2>4. QED
        BY <1>2, <2>3 DEF V!ValidityCheck
<1>3. CASE V!AnchorCheck
    <2>1. Len(chain) \in 1..MaxChainLen
        BY <1>3 DEF V!AnchorCheck
    <2>2. V!AnchorErrors(chain, registry) \in Seq(V!ErrorRecord)
        <3>1. \A kd \in {"parse", "lookup", "no_anchor", "anchor_invalid"} :
                  V!Err("anchor", kd, Len(chain)) \in V!ErrorRecord
            BY <2>1 DEF V!Err, V!ErrorRecord, V!Phase, V!Kind
        <3>2. QED
            BY <2>1, <3>1 DEF V!AnchorErrors
    <2>3. errors' \in Seq(V!ErrorRecord)
        BY <1>3, <2>2, ConcatProperties DEF V!AnchorCheck
    <2>4. QED
        BY <1>3, <2>3 DEF V!AnchorCheck
<1>4. CASE V!SignaturePassEnd \/ V!ValidityPassEnd
    BY <1>4 DEF V!SignaturePassEnd, V!ValidityPassEnd
<1>5. QED
    BY <1>1, <1>2, <1>3, <1>4

(* Returning an error for a malformed header, before validate is entered, *)
(* keeps WInv.                                                             *)
LEMMA RejectWInv ==
    ASSUME WInv, wpc \in {"match", "decode"},
           NEW why \in {"cbor", "shape", "duplicate", "empty"},
           Reject(why), UNCHANGED <<input, k, decoded>>,
           ~WellFormedWire(input)
    PROVE  WInv'
<1>1. outcome' = why /\ validated' = FALSE /\ wpc' = "returned"
    BY DEF Reject, WInv, TypeOK
<1>2. V!TypeOK'
    BY DEF Reject, WInv, TypeOK, V!TypeOK
<1>3. TypeOK'
    <2>1. input' \in WireInputs /\ k' \in 0..MaxChainLen + 1 /\ decoded' \in Seq(X509)
        BY DEF WInv, TypeOK
    <2>2. QED
        BY <1>1, <1>2, <2>1 DEF TypeOK
<1>4. QED
    BY <1>1, <1>3 DEF WInv, AcceptsExactlyWellFormed

(* Entering validate with the header's chain, for a well-formed header,   *)
(* keeps WInv.                                                             *)
LEMMA StartWInv ==
    ASSUME WInv, wpc \in {"match", "decode"},
           NEW ch \in Seq(X509), Len(ch) \in 1..MaxChainLen,
           StartValidation(ch), UNCHANGED <<input, k, decoded, outcome>>,
           WellFormedWire(input), ch = WireChain(input)
    PROVE  WInv'
<1>1. /\ chain' = ch /\ registry' = registry /\ pc' = "sig" /\ i' = 1
      /\ errors' = <<>>
      /\ wpc' = "validating" /\ validated' = TRUE
    BY DEF StartValidation, V!Validate
<1>2. V!TypeOK'
    BY <1>1 DEF WInv, TypeOK, V!TypeOK
<1>3. outcome = "none"
    BY DEF WInv
<1>4. TypeOK'
    <2>1. input' \in WireInputs /\ k' \in 0..MaxChainLen + 1 /\ decoded' \in Seq(X509)
        BY DEF WInv, TypeOK
    <2>2. QED
        BY <1>1, <1>2, <1>3, <2>1 DEF TypeOK
<1>5. QED
    BY <1>1, <1>3, <1>4 DEF WInv, AcceptsExactlyWellFormed

LEMMA ReceiveWInv ==
    ASSUME WInv, NEW v \in WireInputs, NEW reg \in Registries, Receive(v, reg)
    PROVE  WInv'
<1>1. V!TypeOK'
    BY DEF Receive, WInv, TypeOK, V!TypeOK, RegistryValue, V!RegistryValue
<1>2. /\ wpc' = "match" /\ input' = v /\ k' \in 0..MaxChainLen + 1
      /\ decoded' \in Seq(X509)
      /\ outcome' = "none" /\ validated' = FALSE
    BY DEF Receive, WInv, TypeOK
<1>3. QED
    BY <1>1, <1>2 DEF WInv, TypeOK, AcceptsExactlyWellFormed

LEMMA MatchBytesWInv == WInv /\ MatchBytes => WInv'
<1> SUFFICES ASSUME WInv, MatchBytes PROVE WInv'
    OBVIOUS
<1>1. input.type = "bytes" /\ input.content \in ContentValue /\ wpc = "match"
    BY InputShape DEF MatchBytes, WInv, TypeOK
<1>2. CASE FromSliceOk(input.content)
    <2>1. <<input.content.x>> \in Seq(X509)
        BY <1>1 DEF ContentValue
    <2>2. WellFormedWire(input) /\ <<input.content.x>> = WireChain(input)
        BY <1>1, <1>2 DEF WellFormedWire, WireChain
    <2>3. /\ StartValidation(<<input.content.x>>)
          /\ UNCHANGED <<input, k, decoded, outcome>>
        BY <1>2 DEF MatchBytes
    <2>4. Len(<<input.content.x>>) \in 1..MaxChainLen
        OBVIOUS
    <2>5. QED
        BY <1>1, <2>1, <2>2, <2>3, <2>4, StartWInv
<1>3. CASE ~FromSliceOk(input.content)
    <2>1. ~WellFormedWire(input)
        BY <1>1, <1>3 DEF WellFormedWire
    <2>2. QED
        BY <1>1, <1>3, <2>1, RejectWInv DEF MatchBytes
<1>4. QED
    BY <1>2, <1>3

LEMMA MatchArrayWInv == WInv /\ MatchArray => WInv'
<1> SUFFICES ASSUME WInv, MatchArray PROVE WInv'
    OBVIOUS
<1>1. input.items \in Seq(Items)
    BY InputShape DEF MatchArray, WInv, TypeOK
<1>2. V!TypeOK'
    BY DEF MatchArray, WInv, TypeOK, V!TypeOK
<1>3. /\ wpc' = "decode" /\ k' = 1 /\ decoded' = <<>> /\ input' = input
      /\ outcome' = "none" /\ validated' = FALSE /\ input.type = "array"
    BY DEF MatchArray, WInv, TypeOK
<1>4. TypeOK'
    <2>1. input' \in WireInputs /\ k' \in 0..MaxChainLen + 1 /\ decoded' \in Seq(X509)
        BY <1>3 DEF WInv, TypeOK
    <2>2. QED
        BY <1>2, <1>3, <2>1 DEF TypeOK
<1>5. Decoding'
    BY <1>1, <1>3 DEF Decoding
<1>6. QED
    BY <1>3, <1>4, <1>5 DEF WInv, AcceptsExactlyWellFormed

LEMMA MatchOtherWInv == WInv /\ MatchOther => WInv'
<1> SUFFICES ASSUME WInv, MatchOther PROVE WInv'
    OBVIOUS
<1>1. ~WellFormedWire(input)
    BY DEF MatchOther, WellFormedWire
<1>2. QED
    BY <1>1, RejectWInv DEF MatchOther

(* One array element: a bad element makes the header malformed and is     *)
(* rejected; a good one extends the decoded prefix by its certificate.     *)
LEMMA DecodeWInv == WInv /\ DecodeElement => WInv'
<1> SUFFICES ASSUME WInv, DecodeElement PROVE WInv'
    OBVIOUS
<1> DEFINE item == input.items[k]
<1>1. wpc = "decode" /\ Decoding /\ k \in 1..Len(input.items)
    BY DEF DecodeElement, WInv, Decoding
<1>2. input.items \in Seq(Items) /\ Len(input.items) <= MaxChainLen
    BY <1>1, InputShape DEF WInv, TypeOK, Decoding
<1>3. item \in Items
    BY <1>1, <1>2
<1>4. CASE item.type # "bytes" \/ ~FromSliceOk(item.content)
    <2>1. ~WellFormedWire(input)
        BY <1>1, <1>4 DEF WellFormedWire, Decoding
    <2>2. \E why \in {"shape", "cbor"} :
              Reject(why) /\ UNCHANGED <<input, k, decoded>>
        BY <1>4 DEF DecodeElement
    <2>3. QED
        BY <1>1, <2>1, <2>2, RejectWInv
<1>5. CASE item.type = "bytes" /\ FromSliceOk(item.content)
    <2>1. /\ decoded' = Append(decoded, item.content.x)
          /\ k' = k + 1
          /\ UNCHANGED <<chain, registry, pc, i, errors, wpc, input, outcome,
                         validated>>
        BY <1>5 DEF DecodeElement
    <2>2. item.content.x \in X509
        BY <1>3, <1>5, ItemShape DEF ContentValue
    <2>3. decoded \in Seq(X509) /\ Len(decoded) = k - 1
        BY <1>1 DEF WInv, TypeOK, Decoding
    <2>4. /\ decoded' \in Seq(X509)
          /\ Len(decoded') = k
          /\ \A j \in 1..k - 1 : decoded'[j] = decoded[j]
          /\ decoded'[k] = item.content.x
        <3> DEFINE e == item.content.x
        <3>1. /\ Append(decoded, e) \in Seq(X509)
              /\ Len(Append(decoded, e)) = Len(decoded) + 1
              /\ \A j \in 1..Len(decoded) : Append(decoded, e)[j] = decoded[j]
              /\ Append(decoded, e)[Len(decoded) + 1] = e
            BY <2>2, <2>3, AppendProperties
        <3>2. QED
            BY <1>1, <1>2, <2>1, <2>3, <3>1
    <2>5. decoded' = [j \in 1..k |-> input.items[j].content.x]
        BY <1>1, <2>3, <2>4 DEF Decoding
    <2>6. Decoding'
        BY <1>1, <1>5, <2>1, <2>5 DEF Decoding
    <2>7. TypeOK'
        <3>1. V!TypeOK'
            BY <2>1 DEF WInv, TypeOK, V!TypeOK
        <3>2. input' \in WireInputs /\ k' \in 0..MaxChainLen + 1
            BY <1>1, <1>2, <2>1 DEF WInv, TypeOK
        <3>3. QED
            BY <2>1, <2>4, <3>1, <3>2 DEF WInv, TypeOK
    <2>8. QED
        BY <1>1, <2>1, <2>6, <2>7 DEF WInv, AcceptsExactlyWellFormed
<1>6. QED
    BY <1>4, <1>5

(* After the loop decoded is the header's whole chain, so the duplicate   *)
(* and emptiness checks decide exactly whether the header is well formed. *)
LEMMA CheckUniqueWInv == WInv /\ CheckUnique => WInv'
<1> SUFFICES ASSUME WInv, CheckUnique PROVE WInv'
    OBVIOUS
<1>1. wpc = "decode" /\ Decoding /\ k = Len(input.items) + 1
    BY DEF CheckUnique, WInv, Decoding
<1>2. input.items \in Seq(Items) /\ Len(input.items) <= MaxChainLen
    BY <1>1, InputShape DEF WInv, TypeOK, Decoding
<1>3. /\ decoded = WireChain(input)
      /\ decoded \in Seq(X509)
      /\ Len(decoded) = Len(input.items)
    BY <1>1, <1>2 DEF Decoding, WireChain, WInv, TypeOK
<1>4. HasUniqueElements(decoded) <=>
        \A a, b \in 1..Len(input.items) :
            input.items[a].content.x = input.items[b].content.x => a = b
    <2>1. /\ DOMAIN decoded = 1..Len(input.items)
          /\ \A j \in 1..Len(input.items) : decoded[j] = input.items[j].content.x
        BY <1>1, <1>2 DEF Decoding
    <2>2. QED
        BY <2>1 DEF HasUniqueElements
<1>5. decoded = <<>> <=> Len(input.items) = 0
    BY <1>3
<1>6. WellFormedWire(input) <=> HasUniqueElements(decoded) /\ decoded # <<>>
    BY <1>1, <1>2, <1>4, <1>5 DEF WellFormedWire, Decoding
<1>7. CASE ~HasUniqueElements(decoded) \/ decoded = <<>>
    <2>1. \E why \in {"duplicate", "empty"} :
              Reject(why) /\ UNCHANGED <<input, k, decoded>>
        BY <1>7 DEF CheckUnique
    <2>2. ~WellFormedWire(input)
        BY <1>6, <1>7
    <2>3. QED
        BY <1>1, <2>1, <2>2, RejectWInv
<1>8. CASE HasUniqueElements(decoded) /\ decoded # <<>>
    <2>1. StartValidation(decoded) /\ UNCHANGED <<input, k, decoded, outcome>>
        BY <1>8 DEF CheckUnique
    <2>2. Len(decoded) \in 1..MaxChainLen
        BY <1>2, <1>3, <1>5, <1>8
    <2>3. QED
        BY <1>1, <1>3, <1>6, <1>8, <2>1, <2>2, StartWInv
<1>9. QED
    BY <1>7, <1>8

(* The steps of validate leave the chain and the decoder alone.            *)
LEMMA ValidateStepWInv == WInv /\ ValidateStep => WInv'
<1> SUFFICES ASSUME WInv, ValidateStep PROVE WInv'
    OBVIOUS
<1>1. V!TypeOK'
    BY ValidateTypes DEF ValidateStep, WInv, TypeOK
<1>2. chain' = chain /\ UNCHANGED wireVars
    BY DEF ValidateStep, V!SignatureLink, V!SignaturePassEnd, V!ValidityCheck,
       V!ValidityPassEnd, V!AnchorCheck
<1>3. TypeOK'
    <2>1. input' \in WireInputs /\ k' \in 0..MaxChainLen + 1 /\ decoded' \in Seq(X509)
        BY <1>2 DEF wireVars, WInv, TypeOK
    <2>2. QED
        BY <1>1, <1>2, <2>1 DEF wireVars, WInv, TypeOK
<1>4. QED
    BY <1>2, <1>3 DEF ValidateStep, wireVars, WInv, AcceptsExactlyWellFormed

LEMMA ValidationReturnedWInv == WInv /\ ValidationReturned => WInv'
<1> SUFFICES ASSUME WInv, ValidationReturned PROVE WInv'
    OBVIOUS
<1>1. V!TypeOK'
    BY DEF ValidationReturned, WInv, TypeOK, V!TypeOK
<1>2. WellFormedWire(input) /\ validated = TRUE
    BY DEF ValidationReturned, WInv, TypeOK
<1>3. TypeOK'
    <2>1. input' \in WireInputs /\ k' \in 0..MaxChainLen + 1 /\ decoded' \in Seq(X509)
        BY DEF ValidationReturned, WInv, TypeOK
    <2>2. QED
        BY <1>1, <1>2, <2>1 DEF ValidationReturned, TypeOK
<1>4. QED
    BY <1>2, <1>3 DEF ValidationReturned, WInv, AcceptsExactlyWellFormed

LEMMA ReturnWInv == WInv /\ Return => WInv'
<1> SUFFICES ASSUME WInv, Return PROVE WInv'
    OBVIOUS
<1>0. <<>> \in Seq(X509) /\ chain' = <<>> /\ decoded' = <<>> /\ errors' = <<>>
    BY DEF Return
<1>1. V!TypeOK'
    BY <1>0 DEF Return, V!TypeOK, NoRegistry, V!RegistryValue
<1>2. TypeOK'
    <2>1. input' \in WireInputs /\ k' \in 0..MaxChainLen + 1
        BY OtherInput DEF Return
    <2>2. decoded' \in Seq(X509) /\ validated' \in BOOLEAN
        BY <1>0 DEF Return
    <2>3. QED
        BY <1>1, <2>1, <2>2 DEF Return, TypeOK
<1>3. QED
    BY <1>2 DEF Return, WInv, AcceptsExactlyWellFormed

(* Every step of the decoder, and of the validate call it makes, keeps    *)
(* WInv.                                                                   *)
LEMMA StepWInv == WInv /\ [Next]_vars => WInv'
<1> SUFFICES ASSUME WInv, [Next]_vars PROVE WInv'
    OBVIOUS
<1>1. CASE \E v \in WireInputs, reg \in Registries : Receive(v, reg)
    BY <1>1, ReceiveWInv
<1>2. CASE UNCHANGED vars
    BY <1>2 DEF vars, WInv, TypeOK, V!TypeOK, Decoding, AcceptsExactlyWellFormed
<1>3. QED
    BY <1>1, <1>2, MatchBytesWInv, MatchArrayWInv, MatchOtherWInv, DecodeWInv,
       CheckUniqueWInv, ValidateStepWInv, ValidationReturnedWInv, ReturnWInv
       DEF Next

(* The decoder keeps its types for every bound: in particular the element *)
(* index never runs past the array, and decoded holds only certificates.  *)
THEOREM TypeCorrect == Spec => []TypeOK
<1>1. WInv => TypeOK
    BY DEF WInv
<1>2. QED
    BY InitWInv, StepWInv, <1>1, PTL DEF Spec

(* validate_x5chain returns Ok exactly for the well-formed headers, and   *)
(* has run validate exactly when it returns Ok, for every header shape,   *)
(* every array length and every set of contents: no malformed element,    *)
(* anywhere in the array, and no duplicate slips through.                  *)
THEOREM AcceptsCorrectly == Spec => []AcceptsExactlyWellFormed
<1>1. WInv => AcceptsExactlyWellFormed
    BY DEF WInv
<1>2. QED
    BY InitWInv, StepWInv, <1>1, PTL DEF Spec

(* Whenever validate runs on a header, it runs on the header's chain,     *)
(* element for element and in the order of the array.                     *)
THEOREM ValidatesWireChain == Spec => []ValidatesTheWireChain
<1>1. WInv => ValidatesTheWireChain
    BY DEF WInv, ValidatesTheWireChain
<1>2. QED
    BY InitWInv, StepWInv, <1>1, PTL DEF Spec

(* For every chain length, validate_x5chain returns Err for the header     *)
(* X5Chain::into_cbor writes: what the crate encodes it cannot decode.     *)
THEOREM EncodedChainsRejected ==
    Spec => [](wpc = "returned" /\ (\E ch \in V!Chains : input = IntoCbor(ch))
                 => outcome # "ok")
<1>1. ASSUME NEW ch \in V!Chains PROVE ~WellFormedWire(IntoCbor(ch))
    <2>1. ch \in Seq(X509) /\ Len(ch) >= 1
        BY DEF V!Chains
    <2>2. QED
        BY <2>1, IntoCborShape
<1>2. WInv => (wpc = "returned" /\ (\E ch \in V!Chains : input = IntoCbor(ch))
                 => outcome # "ok")
    BY <1>1 DEF WInv, AcceptsExactlyWellFormed
<1>3. QED
    BY InitWInv, StepWInv, <1>2, PTL DEF Spec
=============================================================================
