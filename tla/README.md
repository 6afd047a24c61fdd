# Verification of the x5chain certificate-chain validator and the device/reader example

This directory holds TLA+ models of the certificate-chain code of isomdl
(`src/src/definitions/x509/x5chain.rs`) and of the device/reader session
example in the crate documentation (`src/src/lib.rs`). It also holds the TLC configurations
that check the models, and TLAPS proofs about them. `PROJECT.json` lists the
components, runs, seeded faults (mutants), the source lines each definition
models, the findings, the hazards and the theorems.

## 1. Inventory

### The parts of the system

| Part | Source | State it keeps | Operations |
|---|---|---|---|
| Certificate wrapper | `struct X509`, `X509::public_key`, `check_signature` (x5chain.rs 31-53, 141-148) | the DER bytes only; equality and hashing are over the bytes | parse, extract a public key of a curve `C`, check that the issuer signed the target |
| Chain container | `struct X5Chain(NonEmptyVec<X509>)` (55-81) | a non-empty sequence of certificates, leaf first | `into_cbor`, `validate` |
| Validation orchestrator | `X5Chain::validate` (83-138) | the accumulated `Vec<X509Error>` while it runs | three passes: adjacent links, every certificate's validity window, the top against the registry |
| Wire decoder | `validate_x5chain`, `has_unique_elements` (151-201) | the chain being decoded | decode a CBOR byte string or array, reject non-bytes elements and duplicates, then validate |
| Chain builder | `Builder` (203-251) | the certificates accumulated so far | `with_pem`, `with_der`, `with_pem_from_file`, `with_der_from_file`, `build` |
| Trust-anchor collaborator | `trust_anchor::{check_validity_period, find_anchor, validate_with_trust_anchor}` (not among the sources) | the registry, read only | contract of spec section 6 |
| Signing loop | `sign_pending_and_retrieve_response` (lib.rs 207-233) | the local `signed` counter; the session manager's queue behind a `Mutex` | fetch a payload, bail past `expected_to_sign`, sign and submit, break, `retrieve_response` |
| Doc example `main` | `run_simulated_device_and_reader_interaction` and its helpers (lib.rs 65-205, 235-243) | where `main` is; the `Arc<SessionManager>` shared with the loop | load the key, parse, initialise, establish, `handle_request` with `get_errors`, `create_response`, the reader's `handle_response` |
| Device and reader session managers | `isomdl::presentation::{device, reader}` (not among the sources) | the queue of payloads to sign and the prepared response | the contract the example relies on |

### How they interact

The parts call each other synchronously and share no mutable state.
- The wire decoder builds an `X5Chain` from the CBOR value and calls `validate` on it.
- The builder builds an `X5Chain` from PEM or DER input.
- `validate` calls `check_signature` for each pair of neighbours. It calls the collaborator's `check_validity_period` for each certificate, and `find_anchor` and `validate_with_trust_anchor` for the last one.
- `into_cbor` writes a chain back to the CBOR form that the decoder reads.
- The doc example's `main` calls its helpers in sequence. `handle_request` and `create_response` both call the signing loop on the same `Arc<SessionManager>`: first with `None` to sign any error response (`get_errors`), then with `Some(1)` for the data response.

### What makes it hard

Nothing runs concurrently (the example's `Mutex` is only ever locked by one thread), and the code keeps no persisted state. The hard
parts are about control and data:
- Collect-all errors. `validate` must never stop at the first defect, and it must report every defect, in a fixed order. It does not deduplicate: a top certificate that does not parse gets the same parse error from the validity pass (line 102) and from the anchor check (line 129).
- Boundaries. `windows(2)` is an off-by-one point. A chain of length 1 has no links. The last certificate plays two roles.
- Partial failure. The decoder stops at the first bad element. A failing `with_*` call consumes the builder.
- Conversions between the wire form, the stored bytes and parsed certificates (`serde_cbor::from_slice`, `encode_to_vec`, `to_der`). These are modelled by what they do, never as the identity.
- The issuer key's curve is fixed to P-256 while the key extraction is generic.
- The signing loop ends only through `break`, `bail!` or a failed submit, and its bound `signed >= expected_to_sign` is an off-by-one point.
- `handle_request` matches only `Ok(Some(..))` from `get_errors`: an `Err` there is dropped.

### What makes each part correct

- validate:
  - An empty list implies that the chain is trusted (soundness).
  - Every defect is reported (collect-all).
  - The list equals the chain's defects, in pass order and in chain order.
- Wire decoder:
  - Only well-formed, duplicate-free chains reach `validate`, and in the order given.
  - A decode error means `validate` never ran.
  - `into_cbor` followed by the decoder gives back the chain.
- Builder:
  - `build` never produces an empty chain.
  - Distinct certificates given to the builder stay distinct in the chain.

The `hazards` list of `PROJECT.json` places each of these at its source line.

## 2. Plan

1. **Core (done).** `X509` (certificate abstraction) and `TrustAnchor` (the collaborator's contract) are the data layers. `X5Chain` is the stepwise `validate`. `X5ChainTrust` is its one-step promise, and `X5Chain` refines it. `X5ChainProofs` holds the proofs. `MC_X5Chain` instantiates the model for TLC.
2. **Wire decoder and encoding (done).** `X5ChainWire` models `validate_x5chain`, one action per array element, then the duplicate check, then a call into the `X5Chain` actions through `INSTANCE`. It also models `into_cbor`. Properties:
   - only duplicate-free chains are validated;
   - a decode error means no validation;
   - the round trip `into_cbor` then `validate_x5chain` (a spec section 8 claim).
3. **Builder (done).** `X5ChainBuilder` models the builder: accumulation, consumption on error, `build`'s non-empty check, and the bytes it stores, composed with a `validate` call on the built chain. Still open: a client module that builds, encodes with `into_cbor`, decodes and validates in one run.
4. **Proofs (done).** Every safety invariant of the passing runs is proved for every bound (section 5), and so is the refinement of `X5ChainTrust`. Liveness stays with TLC.
5. **Doc example (done).** `SignPending` models the signing loop against any state of the device session manager; `DeviceInteraction` models `main` with every `?` and the key's `unwrap`, running the loop through `INSTANCE SignPending`. Both carry liveness under weak fairness.

## 3. Modules

### `X509` (certificate wrapper)

- The constant set `X509` has one model value per distinct byte string. Two values are equal exactly when the bytes are equal (the derived `Eq`/`Hash`).
- `Malformed` is the set of byte strings that `Certificate::from_der` rejects. `KeyCurve[x]` is the curve of the subject key. `SignedBy[x]` is the certificate whose key made the signature.
- `ParsesAsCertificate` models the `from_der` calls. `PublicKeyOk(x, C)` models `X509::public_key::<C>`. `CheckSignature` models `check_signature` with its four fallible calls. Its outcome is Ok exactly when the issuer parses, has a P-256 key and signed the target, and the target parses.

### `TrustAnchor` (collaborator; modelled from the spec)

The code of `trust_anchor.rs` is not among the sources, so this module is written from spec section 6 and marked `spec_modelled`.
- A registry is `[present, anchors]`; `NoRegistry` stands for `None`.
- `find_anchor` returns "none" when there is no registry or no anchor matches. It returns "error" when an anchor of the registry does not parse. Otherwise it returns "found", and the anchor is the certificate's issuer.
- `check_validity_period` fails for `Expired` certificates. `validate_with_trust_anchor` fails when the anchor is expired.

### `X5Chain` (validate, stepwise)

Variables:
- `chain`: the chain being validated.
- `registry`: the registry argument.
- `pc`: one of idle, sig, validity, anchor, done.
- `i`: the loop index.
- `errors`: the `Vec<X509Error>`.

Actions, which follow the code's control:
- `Validate(ch, reg)`: the call, with `errors = vec![]`.
- `SignatureLink`: one window `(chain[i], chain[i+1])`. It appends an error when `check_signature` fails.
- `SignaturePassEnd`: the windows are exhausted.
- `ValidityCheck`: one iteration of `for x509 in x5chain`. It appends a parse error or the validity error.
- `ValidityPassEnd`: the validity loop ends.
- `AnchorCheck`: the whole `if let Some(x509) = last` block, with its five outcomes folded into `AnchorErrors` (empty chain, parse error, lookup error, no anchor, and the anchor's own verdict). `AnchorErrors` is an IF/ELSE chain, because the first failing match decides. An earlier `CASE` form had overlapping guards. In TLA+ such a `CASE` may take any arm whose guard holds, and the proof of the refinement exposed this; TLC had hidden it by trying the arms in order.
- `Return`: the caller takes the list.

An error record is tagged with its pass and the 1-based position of the certificate. That tag is the only part of an `X509Error` the properties tell apart. A record stands for what one push or one collaborator call reports for one position. `check_validity_period` (line 100) and `validate_with_trust_anchor` (line 116) return a list of zero or more errors; the model keeps only whether that list is empty, so one record is the whole group. The code's list can hold equal `X509Error`s, such as the parse error pushed for the top at lines 102 and 129. The model tells those apart by their pass tag. So the model's records are never repeated, while the code's errors can be.

`X5ChainTrust` states the promise in one step: `Finish` sets the result to `Defects(chain, registry)`. `DefectSet` is the set of defects:
- the failing links (`LinkDefects`);
- the unparsable or expired certificates (`CertDefects`);
- the top's verdict (`TopDefects`).

`Defects` lists that set in the order `Before`: by pass (`PhaseRank`), then by position. Its k-th entry is the defect that exactly k - 1 others come before. The listing is written without recursion (no `SelectSeq`), so that a prover can reason about it.

`X5Chain!Refinement` maps `pc` to `statusBar` (idle, busy or done). It maps the list to `resultBar`, which is the list once the call is done and empty while it runs.

### `X5ChainWire` (validate_x5chain and into_cbor)

A CBOR header is a byte string, an array or another value. The content of a byte string is kept as what `serde_cbor::from_slice::<Vec<u8>>` makes of it: `"cbor"` content is a CBOR-encoded byte string, which decodes to the certificate's bytes; `"raw"` content is DER itself, whose first byte 0x30 CBOR reads as an integer, so it is rejected. All raw content is modelled as rejected. That is right for DER, but not for arbitrary bytes: the builder's length octets `82 02 10`, for example, decode as `[2, 16]`. The wire model is only ever given DER.
- `Receive`, `MatchBytes`, `MatchArray`, `MatchOther`: the entry and the three arms of the `match`.
- `DecodeElement`: one iteration of `for x509 in x509s`, with its two early returns.
- `CheckUnique`: `has_unique_elements`, then `NonEmptyVec::try_from`, then the call to `validate`.
- `ValidateStep`, `ValidationReturned`: the nested `X5Chain` actions, through `INSTANCE X5Chain`.
- `IntoCbor`: the encoding, a bare byte string for one certificate and an array otherwise, each holding the raw bytes.
- `WireAssumption` gives the types of the constants: `MaxChainLen >= 1`, registries are registry values, and every content is an encoding tag with a certificate.

### `X5ChainBuilder` (Builder, build, and a validate of the result)

- `NewBuilder` is `X5Chain::builder()`. `WithPem`, `WithDer` and the two `*_from_file` variants check their input and push; an `Err` (bad PEM, bad DER, an I/O error of `read_to_end`) consumes the builder, because the methods take it by value.
- The pushed bytes are `LengthDer[x]`, the DER of the `Length` that `encode_to_vec` returns. The constant maps equal-length encodings to the same byte string.
- `Build` is `certs.try_into()`. `ValidateBuilt`, `ValidateStep` and `ValidateReturned` run `validate` on the built chain.
- The ghost variable `given` records the certificates the accepted calls were given; the code keeps no such list.
- `BuilderAssumption` gives the types of the constants: `MaxChainLen >= 1`, registries are registry values, and `LengthDer` maps certificates to byte strings.

### `SignPending` (sign_pending_and_retrieve_response)

- State: the loop's `lpc`, its argument `expected` (`<<>>` for `None`, `<<n>>` for `Some(n)`), the counter `signed`, the `result`, and the session manager's side: `pending` payloads, the `response` `retrieve_response` would give, and the kind of response (`prepared`) the queued payloads are for. `queued` is a history variable: the queue length when the call began.
- `Call` is the call with `signed = 0`. One iteration is `Bail` (a payload is there and `signed >= expected`), `SignAndSubmit` (sign, submit, `signed += 1`; the last submit makes the prepared response ready), `SubmitFails` (the `?` on `submit_next_signature`), or `NoMorePayloads` (`break` and `retrieve_response`). The lock is held for a whole iteration, so each iteration is one step. `Return` hands the result to the caller.
- The session manager contract: `get_next_signature_payload` gives a payload while any is queued; each accepted signature takes one off; a response already prepared has nothing queued.

### `DeviceInteraction` (the doc example's main)

- `step` is where `main` is; `err` is the `.context(..)` of the `Err` it returns; `refused` records whether `process_session_establishment` refused the request.
- One action per call on `main`'s path: `LoadKey` (`from_sec1_pem(..).unwrap()` may panic), `ParseMdl`, `InitialiseSession` (three `?`s), `EstablishReaderSession`, `HandleRequest` (two `?`s, then the session manager it leaves), `Signing` (an iteration of the loop for `get_errors` or `create_response`), `AfterGetErrors` (`if let Ok(Some(response))`: send it to the reader and end with "Errors sent", else go on), `CreateResponse` (`prepare_response` queues `0..MaxPayloads` payloads), `AfterSigning` (the `?` and `ok_or_else`), `ReaderHandleDeviceResponse`.
- Collaborator contract: an accepted request leaves nothing to sign; a refused one leaves an error response, ready at once or after the payloads it queued are signed (the code's comment on `get_errors`: "sign them if needed"); `prepare_response` replaces the queue by the data response's payloads.

## 4. Runs

The runs of `validate` use `MC_X5Chain`. Its world has seven byte strings:
- a P-256 hierarchy `root <- inter <- leaf`;
- `expd`, an expired certificate that `root` signed;
- `r384`, a self-signed P-384 root, and `l384`, which `r384` signed;
- `junk`, bytes that are no certificate.

Chains have every length from 1 to 3 over these seven values (399 chains), including repeated certificates. There are five registries: `None`, `Some({})`, `Some({root})`, `Some({r384})`, and `Some({root, junk})`, whose `junk` anchor does not parse.

These bounds reach every branch of the code:
- a good link, and a link that fails for each of its three reasons (not the signer, non-P-256 issuer, unparsable target or issuer);
- a trusted chain of each length;
- each of the anchor outcomes.

Three is the smallest length at which a middle link exists between two other links.

| Run | Expect | Checks |
|---|---|---|
| `validate_safety` | pass | `TypeOK`; `TrustSoundness` (an empty list implies `Trusted`); `AllDefectsReported` (every failing link, bad certificate and unanchored top has an error) |
| `validate_refines_promise` | pass | `Refinement`: the stepwise validate implements `X5ChainTrust`, so the returned list is exactly `Defects`: every defect's error group, in pass order, then chain order |
| `validate_p384_chain` | violation | `TrustCompleteness` (spec section 8: a genuinely signed, valid, anchored chain gets no error). It fails because of the fixed P-256 curve. |

Each property of a passing run has a seeded fault (`PROJECT.json` "mutants") that TLC catches:
- an `X5Chain` over a plain `Vec`, so that an empty chain reaches `validate` (it breaks `TypeOK`);
- a signature pass that skips the last window;
- a fail-fast `return` at the first failing link;
- a validity pass without `check_validity_period`.

`MC_X5ChainWire` uses `root <- inter` and `junk`, each as CBOR content, and the raw DER of `root` and `inter` (what `into_cbor` writes). Arrays have up to three elements, each one of these byte strings or a non-bytes value: 265 headers, with repeated elements at every distance (adjacent and not).

`MC_X5ChainBuilder` uses `root <- inter <- leaf`, where `root` and `inter` have encodings of the same length. The inputs are the PEM and DER form of each of them and of two byte strings that are no certificate.

| Run | Expect | Checks |
|---|---|---|
| `wire_decoder_safety` | pass | `TypeOK`; `AcceptsExactlyWellFormed` (Ok exactly for a decodable byte string or a non-empty array of decodable, pairwise distinct byte strings; `validate` ran exactly when Ok); `ValidatesTheWireChain` (the validated chain is the header's, in array order) |
| `wire_round_trip` | violation | `EncodedChainDecodes` (spec section 8: decoding what `into_cbor` wrote succeeds) |
| `builder_safety` | pass | `TypeOK` (in particular `validate` never runs on an empty chain) |
| `builder_self_signed` | violation | `SelfSignedGetsOnlyNoAnchor` (spec section 8 scenario) |
| `builder_duplicates` | violation | `ValidatedChainHasNoDuplicates` (the code comment at the duplicate check: distinct certificates given to the builder make a chain without duplicates) |

Their seeded faults: a duplicate check of neighbours only; decoded elements put in front; a missing emptiness check in the decoder and in `build`.

The certificate-chain runs assume no fairness and check no liveness: `validate` is a terminating loop over a finite chain.

The doc example's runs (`MC_SignPending` with `MaxPayloads = 3` and `expected_to_sign` in `{None, Some(0), Some(1), Some(2)}`; `MC_DeviceInteraction` with `MaxPayloads = 4`):

| Run | Expect | Checks |
|---|---|---|
| `sign_pending_loop` | pass | `TypeOK`; `ReturnsWhatItSigned` (never more signatures than `Some(n)` allows; `Ok(Some)` only with the queue drained; `Ok(None)` only when nothing was ready); `CallReturns` (every call returns) |
| `device_flow` | pass | `TypeOK`; `DataResponseFullySigned` (the reader gets a data response only after its one payload was signed); `MainErrorIsTrue` (the bail message and "no response to return" describe what was queued and signed, and an early `Err` leaves the loop untouched); `Terminates` (main always ends) |
| `device_refusal` | violation | `NoDataAfterRefusal` (the comment "Propagate any errors back to the reader") |

The bounds: `Some(0..2)` with up to 3 payloads covers an expected count below, at and above the queue length. Four payloads in the device flow give a refusal whose error response needs signing, and data responses with 0, 1 and more payloads than `Some(1)` allows.

Fairness: the example runs on one thread, and every call it makes returns (the session managers' calls are synchronous). So whenever the program can take a step, it does: `SignPending` assumes `WF_vars(LoopStep)` (the caller's next iteration), and `DeviceInteraction` `WF_vars(Next)`. `device_flow` does not check deadlock: the program ends in `Final`. Seeded faults: a signature with no payload fetched, the bound compared with `>`, a loop that spins instead of `break`, and a `create_response` that prepares again on `Ok(None)`.

## 5. Proofs (TLAPS)

### `X5ChainProofs`

The theorems hold for every world of certificates, every set of registries and every `MaxChainLen`. They rest on the assumptions `X509Assumption`, `TrustAnchorAssumption` and `X5ChainAssumption`, which give the types of the constants and `MaxChainLen >= 1`.

- `TypeCorrect`: `Spec => []TypeOK`. The step lemma `TypeStep` shows that the lists each pass appends are lists of error records (`ValidityErrorsType`, `AnchorErrorsType`), and uses `AppendProperties` and `ConcatProperties`.
- `Soundness`: `Spec => []TrustSoundness`. `TrustSoundness` is not inductive, because the empty list at the end says nothing by itself. The inductive invariant `IInv` adds `LoopBounds` and `CleanSoFar`. `LoopBounds` says the index never passes the chain length plus one. `CleanSoFar` says that while the list is empty, every link and certificate the loops have passed is good, and that at the end the anchor check added nothing. Three lemmas carry the argument:
  - `ConcatEmpty`: a list stays empty only if nothing was appended.
  - `AppendProperties`: an appended list is never empty.
  - `AnchorClean`: an empty anchor list means the top parsed, has an anchor, and the anchor accepts.

  TLC also checks `IInv` on the model above.

### `SignPendingProofs`

For every `MaxPayloads` and every set of `expected_to_sign` arguments (assumption `SignPendingAssumption`: each is `None` or `Some(n)` with `n` natural):
- `TypeCorrect`: `Spec => []TypeOK`;
- `ReturnsCorrectly`: `Spec => []ReturnsWhatItSigned`.

Neither holds inductively as stated: `signed <= MaxPayloads` needs to know that a signature is only made while a payload is left. The inductive invariant `IInv` adds that, while a call runs or has returned, `signed + pending = queued` and `signed` stays within every `Some(n)`. It also records that `Ok` is returned only with the queue drained, and `Ok(None)` only with no response ready. TLC checks `IInv` on the `sign_pending_loop` instance.

### `DeviceInteractionProofs`

For every `MaxPayloads` (assumption `DeviceAssumption`):
- `TypeCorrect`: `Spec => []TypeOK`;
- `FullySigned`: `Spec => []DataResponseFullySigned`;
- `ErrorsAreTrue`: `Spec => []MainErrorIsTrue`.

The inductive invariant is `DInv == TypeOK /\ Counters`:
- `Counters` keeps the loop's sum `signed + pending = queued`.
- Nothing is queued before `handle_request`.
- Once `main` reaches the reader or returns its `Err`, it keeps what the two properties say.
- During `create_response` it keeps `CreateInv`: the loop runs with `Some(1)` on data payloads and has signed at most one, and the data response is ready exactly when that one signature drained the queue.

The proof has one step per action of `main` and, for the loop's iterations, one per iteration kind and caller. `TypeOK` gets its own step lemmas (`StepNames`, `CallType`, `LoopStepType`): the SMT backend does not prove its conjuncts together.

### `X5ChainWireProofs`

For every world of certificates, every set of contents and registries and every `MaxChainLen` (assumption `WireAssumption`):
- `TypeCorrect`: `Spec => []TypeOK`;
- `AcceptsCorrectly`: `Spec => []AcceptsExactlyWellFormed`;
- `ValidatesWireChain`: `Spec => []ValidatesTheWireChain`;
- `EncodedChainsRejected`: whenever the decoder has returned for a header that `into_cbor` wrote for some chain, it returned an `Err`. This holds for every chain length; the `wire_round_trip` run shows it for three certificates.

`AcceptsExactlyWellFormed` speaks only of the returned state, so it is not inductive. The inductive invariant `WInv` adds what the decoder knows at each point:
- Before `validate` is entered, nothing is decided (`outcome` is none and `validated` false).
- While the array is decoded (`Decoding`), every element before `k` is a byte string whose content decodes, and `decoded` is exactly their certificates in order.
- `validate` is entered only for a well-formed header, and on `WireChain(input)`.

With `Decoding`, the duplicate and emptiness checks after the loop decide exactly whether the header is well formed: `decoded` is then the whole header chain (`CheckUniqueWInv`). A bad element makes the header malformed at its own index (`DecodeWInv`). The lemmas `RejectWInv` and `StartWInv` cover the two ways the decoder leaves the `match`: an `Err` for a malformed header, or `validate` entered with the header's chain. `IntoCborShape` states what `into_cbor` writes: the chain's certificates in order, as raw DER, which no header accepts. It holds whatever the constants. TLC checks `WInv` on the `wire_decoder_safety` instance.

### `X5ChainBuilderProofs`

For every world, every `LengthDer` and every `MaxChainLen` (assumption `BuilderAssumption`):
- `TypeCorrect`: `Spec => []TypeOK`.

The inductive invariant `BInv` keeps `certs` and `given` the same length, and that length at most `MaxChainLen`. It also says `given` holds only certificates that parsed and a built chain is non-empty. The length bound is what makes the built chain a valid argument of `validate`. TLC checks `BInv` on the `builder_safety` instance.

The wire and builder proofs restate, for their instance `V` of `X5Chain`, the argument of `X5ChainProofs!TypeStep` (lemma `ValidateTypes`). TLAPS does not carry a theorem of an instantiated module over to the instance, so it cannot be cited.

### `X5ChainReportProofs`

For every world, set of registries and `MaxChainLen`:
- `DefectsReported`: `Spec => []AllDefectsReported`.

The inductive invariant is `RInv == IInv /\ FoundSoFar /\ Sorted(errors)`. At each `pc`, `FoundSoFar` says which set of errors the list holds:
- idle: none;
- `sig`: the failing links before `i` (`LinkFound(chain, i - 1)`);
- `validity`: all failing links, and the certificate errors before `i` (`CertFound`);
- `anchor`: all link and certificate errors;
- done: all of those, and the anchor errors.

This invariant is needed because `AllDefectsReported` speaks only of the returned state, and says nothing of the partial list.

`Sorted` says the records are in the order `Precedes`: by pass, then by position. This is a fact about the model's records, one per pass and position, and the refinement proof needs it. It is preserved because each pass appends errors that come after everything already in the list (`SortedAppend`, `SortedConcat`). `FoundNext` shows that one loop step adds exactly the errors of position `i`. TLC checks `RInv` on the `validate_safety` instance.

### `X5ChainRefinementProofs`

`Implements`: `Spec => Refinement`, for every world, set of registries and `MaxChainLen`. Under the mapping:
- `Validate` is the promise's `Call`;
- the four loop steps are stutters (status busy, result empty);
- `Return` is the promise's `Return`;
- `AnchorCheck` is `Finish` (`FinishStep`).

`FinishStep` argues in three parts:
1. By `RInv'`, the returned list is sorted, and its elements are exactly the link, certificate and anchor errors (`FoundSoFar`).
2. That set is the promise's `DefectSet` (`LinkDefectsFound`, `CertDefectsFound`, `TopDefectsFound`, `DefectSetFound`).
3. A sorted list is the promise's listing of its elements (`SortedIsEnum`). A sorted list has no record twice, because `Precedes` is a strict order (`SortedInjective`). So its length is the set's cardinality (`CountImage`, by `FS_CountingElements`), and exactly k - 1 of its elements come before its k-th (`SortedRank`).

The instance's operators are distinct symbols to the provers. `InstanceSame`, `CardinalitySame` and `BeforeSame` show that they equal this module's.

### What stays with TLC

- `NoDataAfterRefusal`, which is false (a finding).
- Liveness (`CallReturns`, `Terminates`), because TLAPS does not reason about fairness and `ENABLED`.

## 6. Findings

- **Fixed curve.** `check_signature` (x5chain.rs:142) extracts the issuer key as a `NistP256` key and decodes the signature as a P-256 signature. A chain genuinely signed with P-384 keys, valid and anchored, therefore always gets a signature error (run `validate_p384_chain`). Spec section 9 names this as a known limitation. Spec section 8's scenario would need a generic curve.

- **Round trip (`wire_round_trip`).** `into_cbor` (x5chain.rs:71, 77) writes the raw DER into each byte string, while `validate_x5chain` runs `serde_cbor::from_slice::<Vec<u8>>` on the content (lines 160, 170). DER begins with 0x30, which CBOR reads as a negative integer, so every chain written by `into_cbor` is rejected with a CBOR error.
- **Builder stores length octets (`builder_self_signed`, code bug).** `with_pem` and `with_der` store `cert.encode_to_vec(&mut vec![])?.to_der()` (x5chain.rs:217, 229). `encode_to_vec` returns the `Length` it wrote, so the stored bytes are the DER encoding of that length. No built chain parses: the self-signed scenario of spec section 8 gets a validity parse error and an anchor parse error.
- **Distinct certificates become duplicates (`builder_duplicates`, code bug at x5chain.rs:217).** Because of the previous finding, the builder stores length octets. Two distinct certificates of equal encoded length, `root` and `inter`, are therefore stored as the equal entries `<<lenA, lenA>>`. The comment at `validate_x5chain` (line 177) says an x5chain contains no duplicate certificate. Only the decoder's array form checks this, so the built chain reaches `validate` with the duplicate.

- **Dropped `get_errors` error (`device_refusal`).** `handle_request` (lib.rs:179) matches only `Ok(Some(response))`. If the error response of a refused request needs signing and `submit_next_signature` fails, the `Err` is dropped, and `main` goes on to `prepare_response` and sends a data response for the refused session. The comment above the call says errors are propagated back to the reader.

## 7. Not modelled

- The DER/ASN.1 parser and elliptic-curve arithmetic belong to the crypto library (spec section 1). They are abstracted to `Malformed`, `KeyCurve` and `SignedBy`.
- The internal matching logic of the trust-anchor registry is external. Only its contract is modelled (spec section 6).
- The device and reader session managers (`presentation::device`, `presentation::reader`) are not among the sources: only the contract the example relies on is modelled. The cryptography of the session (key exchange, encryption) is theirs.
- `tests/simulated_device_and_reader.rs` calls helpers in `tests/common`, which are not among the sources; its flow is the one `DeviceInteraction` models.
- `Mutex::lock().unwrap()` can only panic on a poisoned lock, which needs a second thread; the example has none.
- Error messages and formatting are left out. An error keeps only its pass, its kind and its position.
