------------------------------ MODULE X5ChainWire ------------------------------
(***************************************************************************)
(* validate_x5chain and has_unique_elements (src/src/definitions/x509/     *)
(* x5chain.rs), composed with the stepwise X5Chain::validate they call,    *)
(* and X5Chain::into_cbor, the encoding meant to be read back.             *)
(*                                                                         *)
(* A CBOR value is a byte string, an array, or any other shape.  The       *)
(* content of a byte string is kept as what serde_cbor::from_slice will    *)
(* make of it: "cbor" content is the CBOR encoding of a Vec<u8> (what      *)
(* serde_cbor::to_vec(&x509.bytes) writes), which from_slice::<Vec<u8>>    *)
(* reads back as those bytes; "raw" content is the bytes themselves.  Raw  *)
(* DER begins with the SEQUENCE tag 0x30, which CBOR reads as the integer  *)
(* -17, so from_slice::<Vec<u8>> rejects it.                               *)
(***************************************************************************)
EXTENDS TrustAnchor

CONSTANTS
    MaxChainLen,   \* longest chain, and longest CBOR array, a caller sends
    Registries,    \* registry arguments a caller passes
    Contents       \* byte-string contents a caller may send

VARIABLES
    chain, registry, pc, i, errors,   \* X5Chain::validate, called by the decoder
    wpc,        \* idle, match, decode, unique, validating, returned
    input,      \* the CBOR value of the x5chain header
    k,          \* index of the array element being decoded
    decoded,    \* the Vec<X509> pushed so far
    outcome,    \* "none", "ok", or the decode error returned
    validated   \* whether this call has entered X5Chain::validate

V == INSTANCE X5Chain

wireVars == <<wpc, input, k, decoded, outcome, validated>>
vars == <<chain, registry, pc, i, errors, wpc, input, k, decoded, outcome, validated>>

ContentValue == [enc : {"cbor", "raw"}, x : X509]

ASSUME WireAssumption ==
    /\ MaxChainLen \in Nat \ {0}
    /\ Registries \subseteq RegistryValue
    /\ Contents \subseteq ContentValue
CBytes(c) == [type |-> "bytes", content |-> c]
COther == [type |-> "other"]
CArray(s) == [type |-> "array", items |-> s]

(* serde_cbor::from_slice::<Vec<u8>>(&bytes) is Ok.                        *)
FromSliceOk(c) == c.enc = "cbor"

(* CBOR values a caller sends: any byte string of Contents, arrays of up   *)
(* to MaxChainLen such byte strings or other values, and other values.     *)
Items == {CBytes(c) : c \in Contents} \cup {COther}
WireInputs ==
    {COther} \cup {CBytes(c) : c \in Contents}
      \cup {CArray(s) : s \in UNION {[1..n -> Items] : n \in 0..MaxChainLen}}

(* Seeded fault: duplicates looked for among neighbours only.             *)
HasUniqueNeighbours(s) == \A a \in DOMAIN s : a + 1 \in DOMAIN s => s[a] # s[a + 1]

(* has_unique_elements: inserting every element into a HashSet succeeds.   *)
HasUniqueElements(s) == \A a, b \in DOMAIN s : a # b => s[a] # s[b]

(* X5Chain::into_cbor: one certificate as a byte string, more as an array  *)
(* of byte strings, each holding exactly the stored bytes.                 *)
IntoCbor(ch) ==
    IF Len(ch) = 1 THEN CBytes([enc |-> "raw", x |-> ch[1]])
    ELSE CArray([j \in 1..Len(ch) |-> CBytes([enc |-> "raw", x |-> ch[j]])])

Init ==
    /\ V!Init
    /\ wpc = "idle"
    /\ input = COther
    /\ k = 0
    /\ decoded = <<>>
    /\ outcome = "none"
    /\ validated = FALSE

(* validate_x5chain(x5chain, trust_anchor_registry) is entered.            *)
Receive(v, reg) ==
    /\ wpc = "idle"
    /\ input' = v
    /\ registry' = reg
    /\ wpc' = "match"
    /\ UNCHANGED <<chain, pc, i, errors, k, decoded, outcome, validated>>

(* Hands a decoded chain to X5Chain::validate.                             *)
StartValidation(ch) ==
    /\ V!Validate(ch, registry)
    /\ wpc' = "validating"
    /\ validated' = TRUE

(* Returns Err(...) to the caller; the chain decoded so far is dropped.    *)
Reject(why) ==
    /\ wpc' = "returned"
    /\ outcome' = why
    /\ UNCHANGED <<chain, registry, pc, i, errors, validated>>

(* CborValue::Bytes(bytes): a one-certificate chain.                       *)
MatchBytes ==
    /\ wpc = "match"
    /\ input.type = "bytes"
    /\ IF FromSliceOk(input.content)
       THEN /\ StartValidation(<<input.content.x>>)
            /\ UNCHANGED <<input, k, decoded, outcome>>
       ELSE /\ Reject("cbor")
            /\ UNCHANGED <<input, k, decoded>>

(* CborValue::Array(x509s): decode element by element.                     *)
MatchArray ==
    /\ wpc = "match"
    /\ input.type = "array"
    /\ wpc' = "decode"
    /\ k' = 1
    /\ decoded' = <<>>
    /\ UNCHANGED <<chain, registry, pc, i, errors, input, outcome, validated>>

(* Any other shape: Err(MdocAuth).                                         *)
MatchOther ==
    /\ wpc = "match"
    /\ input.type = "other"
    /\ Reject("shape")
    /\ UNCHANGED <<input, k, decoded>>

(* Seeded fault: each decoded element put in front (insert(0, ..)).       *)
DecodeElementPrepends ==
    LET item == input.items[k] IN
    /\ wpc = "decode"
    /\ k <= Len(input.items)
    /\ CASE item.type # "bytes" ->
              Reject("shape") /\ UNCHANGED <<input, k, decoded>>
         [] ~FromSliceOk(item.content) ->
              Reject("cbor") /\ UNCHANGED <<input, k, decoded>>
         [] OTHER ->
              /\ decoded' = <<item.content.x>> \o decoded
              /\ k' = k + 1
              /\ UNCHANGED <<chain, registry, pc, i, errors, wpc, input,
                             outcome, validated>>

(* One element of the array: push its decoded bytes, or return the error   *)
(* of a non-bytes element or of from_slice.                                *)
DecodeElement ==
    LET item == input.items[k] IN
    /\ wpc = "decode"
    /\ k <= Len(input.items)
    /\ CASE item.type # "bytes" ->
              Reject("shape") /\ UNCHANGED <<input, k, decoded>>
         [] ~FromSliceOk(item.content) ->
              Reject("cbor") /\ UNCHANGED <<input, k, decoded>>
         [] OTHER ->
              /\ decoded' = Append(decoded, item.content.x)
              /\ k' = k + 1
              /\ UNCHANGED <<chain, registry, pc, i, errors, wpc, input,
                             outcome, validated>>

(* Seeded fault: validate called without NonEmptyVec's emptiness check.   *)
CheckUniqueNoEmptyCheck ==
    /\ wpc = "decode"
    /\ k > Len(input.items)
    /\ IF ~HasUniqueElements(decoded)
       THEN Reject("duplicate") /\ UNCHANGED <<input, k, decoded>>
       ELSE StartValidation(decoded) /\ UNCHANGED <<input, k, decoded, outcome>>

(* After the loop: the duplicate check, then NonEmptyVec::try_from, then   *)
(* validate.                                                               *)
CheckUnique ==
    /\ wpc = "decode"
    /\ k > Len(input.items)
    /\ CASE ~HasUniqueElements(decoded) ->
              Reject("duplicate") /\ UNCHANGED <<input, k, decoded>>
         [] decoded = <<>> ->
              Reject("empty") /\ UNCHANGED <<input, k, decoded>>
         [] OTHER ->
              StartValidation(decoded) /\ UNCHANGED <<input, k, decoded, outcome>>

(* A step of the validate call under way.                                  *)
ValidateStep ==
    /\ wpc = "validating"
    /\ \/ V!SignatureLink
       \/ V!SignaturePassEnd
       \/ V!ValidityCheck
       \/ V!ValidityPassEnd
       \/ V!AnchorCheck
    /\ UNCHANGED wireVars

(* validate returned: Ok(errors).                                          *)
ValidationReturned ==
    /\ wpc = "validating"
    /\ pc = "done"
    /\ pc' = "idle"
    /\ wpc' = "returned"
    /\ outcome' = "ok"
    /\ UNCHANGED <<chain, registry, i, errors, input, k, decoded, validated>>

(* The caller takes the result; the decoder is ready for the next header.  *)
Return ==
    /\ wpc = "returned"
    /\ chain' = <<>>
    /\ registry' = NoRegistry
    /\ pc' = "idle"
    /\ i' = 0
    /\ errors' = <<>>
    /\ wpc' = "idle"
    /\ input' = COther
    /\ k' = 0
    /\ decoded' = <<>>
    /\ outcome' = "none"
    /\ validated' = FALSE

Next ==
    \/ \E v \in WireInputs, reg \in Registries : Receive(v, reg)
    \/ MatchBytes
    \/ MatchArray
    \/ MatchOther
    \/ DecodeElement
    \/ CheckUnique
    \/ ValidateStep
    \/ ValidationReturned
    \/ Return

Spec == Init /\ [][Next]_vars

-----------------------------------------------------------------------------
TypeOK ==
    /\ V!TypeOK
    /\ wpc \in {"idle", "match", "decode", "validating", "returned"}
    /\ input \in WireInputs
    /\ k \in 0..MaxChainLen + 1
    /\ decoded \in Seq(X509)
    /\ outcome \in {"none", "ok", "cbor", "shape", "duplicate", "empty"}
    /\ validated \in BOOLEAN

(* The chain a header stands for: its byte strings' decoded contents.      *)
WireChain(v) ==
    IF v.type = "bytes" THEN <<v.content.x>>
    ELSE [j \in 1..Len(v.items) |-> v.items[j].content.x]

(* Spec 4.3 and 6: the headers that are accepted.  A byte string whose     *)
(* content decodes, or a non-empty array of such byte strings no two of    *)
(* which decode to the same certificate.                                   *)
WellFormedWire(v) ==
    \/ v.type = "bytes" /\ FromSliceOk(v.content)
    \/ /\ v.type = "array"
       /\ Len(v.items) >= 1
       /\ \A j \in 1..Len(v.items) :
            v.items[j].type = "bytes" /\ FromSliceOk(v.items[j].content)
       /\ \A a, b \in 1..Len(v.items) :
            v.items[a].content.x = v.items[b].content.x => a = b

(* validate_x5chain returns Ok exactly for the well-formed headers, and it *)
(* ran validate exactly when it returns Ok: a malformed header, a bad      *)
(* element anywhere in the array or a duplicate anywhere in it is rejected *)
(* before any validation error is produced (spec 4.3, 6 and section 8).    *)
AcceptsExactlyWellFormed ==
    wpc = "returned" =>
      /\ outcome = "ok" <=> WellFormedWire(input)
      /\ validated <=> outcome = "ok"

(* The chain validate works on is the header's chain, element for element *)
(* and in the order of the array (leaf first).                             *)
ValidatesTheWireChain ==
    wpc = "validating" => chain = WireChain(input)

(* Spec section 8: encoding a chain with into_cbor and decoding it gives   *)
(* the chain back.                                                         *)
EncodedChainDecodes ==
    wpc = "returned" /\ (\E ch \in V!Chains : input = IntoCbor(ch))
      => outcome = "ok"
=============================================================================
