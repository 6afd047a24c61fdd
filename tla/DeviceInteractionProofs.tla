----------------------- MODULE DeviceInteractionProofs -----------------------
(***************************************************************************)
(* Proofs about the documentation example's main (DeviceInteraction), for *)
(* every bound on the payloads prepare_response queues.                    *)
(***************************************************************************)
EXTENDS DeviceInteraction, TLAPS

(* The Errs returned before handle_request calls the signing loop.         *)
EarlyErrors ==
    {"parse", "initialise", "ble_ident", "qr_engagement", "establish",
     "deserialize", "process"}

(* What create_response's call of the loop keeps true: it runs with        *)
(* Some(1) on the data response's payloads, has signed at most one, and   *)
(* the data response is ready exactly once the queue was drained by a     *)
(* signature; the result it returns says which of these happened.          *)
CreateInv ==
    /\ expected = <<1>>
    /\ prepared = "data"
    /\ lpc # "idle"
    /\ signed <= 1
    /\ response \in {"none", "data"}
    /\ response = "data" => pending = 0 /\ signed = 1 /\ queued = 1
    /\ pending = 0 /\ response = "none" => queued = 0
    /\ lpc = "returned" /\ result = "some" => response = "data"
    /\ lpc = "returned" /\ result = "none" => pending = 0 /\ response = "none"
    /\ lpc = "returned" /\ result = "bail" => signed = 1 /\ queued > 1

(* The inductive invariant: the loop's counters add up whenever it runs,   *)
(* nothing was queued before handle_request, CreateInv during              *)
(* create_response, and what DataResponseFullySigned and MainErrorIsTrue   *)
(* say once main reached the reader or returned its Err, which ends main.  *)
Counters ==
    /\ lpc # "idle" => signed + pending = queued
    /\ step \in {"get_errors", "create_response"} => lpc # "idle"
    /\ step \in {"key", "parse", "initialise", "establish", "request"} =>
          lpc = "idle" /\ signed = 0 /\ queued = 0
    /\ step # "failed" => err = "none"
    /\ step = "create_response" => CreateInv
    /\ step \in {"reader", "ok"} => signed = 1 /\ queued = 1
    /\ err \in EarlyErrors => signed = 0 /\ queued = 0
    /\ err = "bail" => signed = 1 /\ queued > 1
    /\ err = "no_response" => queued = 0

DInv == TypeOK /\ Counters

(* The sets of step and error names are data: every proof below sees them. *)
USE DEF Final, ErrorContexts, EarlyErrors

(* What the counter proofs need of TypeOK.                                 *)
LEMMA TypeFacts ==
    ASSUME TypeOK
    PROVE  /\ signed \in Nat /\ pending \in Nat /\ queued \in Nat
           /\ signed <= MaxPayloads /\ pending <= MaxPayloads /\ queued <= MaxPayloads
           /\ lpc \in {"idle", "loop", "returned"}
           /\ prepared \in {"error", "data"}
           /\ response \in {"none", "error", "data"}
BY DeviceAssumption DEF TypeOK, S!TypeOK

LEMMA InitDInv == Init => DInv
<1> SUFFICES ASSUME Init PROVE DInv
    OBVIOUS
<1>1. TypeOK
    <2>1. step \in {"key", "parse", "initialise", "establish", "request", "get_errors",
                 "create", "create_response", "reader"} \cup Final
        BY DEF Init
    <2>2. S!TypeOK
        BY DeviceAssumption DEF Init, S!Init, S!TypeOK
    <2>3. QED
        BY <2>1, <2>2 DEF Init, TypeOK
<1>2. Counters
    BY DEF Init, S!Init, Counters
<1>3. QED
    BY <1>1, <1>2 DEF DInv

(* Every step of main keeps the names of its step and Err in range.        *)
LEMMA StepNames ==
    ASSUME [Next]_vars, TypeOK
    PROVE  /\ step' \in {"key", "parse", "initialise", "establish", "request",
                        "get_errors", "create", "create_response", "reader"} \cup Final
           /\ refused' \in BOOLEAN
           /\ err' \in ErrorContexts \cup {"none"}
<1> DEFINE Names == /\ step' \in {"key", "parse", "initialise", "establish", "request",
                                  "get_errors", "create", "create_response", "reader"} \cup Final
                    /\ refused' \in BOOLEAN
                    /\ err' \in ErrorContexts \cup {"none"}
<1>1. CASE LoadKey
    BY <1>1 DEF LoadKey, TypeOK
<1>2. ASSUME NEW from, NEW to, NEW errs, Fallible(from, to, errs),
             to \in {"initialise", "establish", "request", "ok"},
             errs \subseteq ErrorContexts
      PROVE  Names
    BY <1>2 DEF Fallible, TypeOK
<1>3. CASE ParseMdl \/ InitialiseSession \/ EstablishReaderSession \/ ReaderHandleDeviceResponse
    BY <1>2, <1>3 DEF ParseMdl, InitialiseSession, EstablishReaderSession,
                      ReaderHandleDeviceResponse
<1>4. CASE HandleRequest
    BY <1>4 DEF HandleRequest, TypeOK
<1>5. CASE Signing
    BY <1>5 DEF Signing, TypeOK
<1>6. CASE AfterGetErrors
    BY <1>6 DEF AfterGetErrors, TypeOK
<1>7. CASE CreateResponse
    BY <1>7 DEF CreateResponse, TypeOK
<1>8. CASE AfterSigning
    <2>1. CASE result \in {"bail", "submit_failed"}
        <3>1. err' = result /\ step' = "failed" /\ refused' = refused
            BY <1>8, <2>1 DEF AfterSigning
        <3>2. QED
            BY <2>1, <3>1 DEF TypeOK
    <2>2. CASE result = "some"
        BY <1>8, <2>2 DEF AfterSigning, TypeOK
    <2>3. CASE result = "none"
        BY <1>8, <2>3 DEF AfterSigning, TypeOK
    <2>4. QED
        BY <2>1, <2>2, <2>3 DEF TypeOK, S!TypeOK
<1>9. CASE UNCHANGED vars
    BY <1>9 DEF vars, TypeOK
<1>10. QED
    BY <1>1, <1>3, <1>4, <1>5, <1>6, <1>7, <1>8, <1>9 DEF Next

(* A call of the loop starts it in range.                                  *)
LEMMA CallType ==
    ASSUME NEW exp \in {<<>>, << 1 >>}, NEW n \in 0..MaxPayloads,
           NEW ready \in {"none", "error", "data"}, NEW kind \in {"error", "data"},
           S!Call(exp, n, ready, kind)
    PROVE  S!TypeOK'
BY DeviceAssumption DEF S!Call, S!TypeOK

(* An iteration of the loop keeps it in range: a signature is only made   *)
(* while a payload is left, so signed stays below what was queued.         *)
LEMMA LoopStepType ==
    ASSUME TypeOK, lpc # "idle" => signed + pending = queued, S!LoopStep
    PROVE  S!TypeOK'
<1> USE DeviceAssumption
<1>1. CASE S!SignAndSubmit
    <2>1. signed + 1 <= queued /\ pending - 1 \in Nat
        BY <1>1, TypeFacts DEF S!SignAndSubmit
    <2>2. signed' \in 0..MaxPayloads /\ pending' \in 0..MaxPayloads
        BY <1>1, <2>1, TypeFacts DEF S!SignAndSubmit
    <2>3. response' \in {"none", "error", "data"}
        BY <1>1, TypeFacts DEF S!SignAndSubmit
    <2>4. QED
        BY <1>1, <2>2, <2>3 DEF S!SignAndSubmit, TypeOK, S!TypeOK
<1>2. CASE S!Bail \/ S!SubmitFails \/ S!NoMorePayloads
    BY <1>2 DEF S!Bail, S!SubmitFails, S!NoMorePayloads, TypeOK, S!TypeOK
<1>3. QED
    BY <1>1, <1>2 DEF S!LoopStep

(* Every step of main keeps TypeOK.                                        *)
LEMMA StepType ==
    ASSUME DInv, [Next]_vars
    PROVE  TypeOK'
<1>1. S!TypeOK'
    <2>1. CASE HandleRequest
        <3>1. CASE UNCHANGED loopVars
            BY <3>1 DEF loopVars, DInv, TypeOK, S!TypeOK
        <3>2. CASE S!Call(<<>>, 0, "none", "data")
            BY <3>2, CallType, DeviceAssumption
        <3>3. CASE \E n \in 0..MaxPayloads :
                     S!Call(<<>>, n, IF n = 0 THEN "error" ELSE "none", "error")
            <4>1. PICK n \in 0..MaxPayloads :
                     S!Call(<<>>, n, IF n = 0 THEN "error" ELSE "none", "error")
                BY <3>3
            <4>2. QED
                BY <4>1, CallType
        <3>4. QED
            BY <2>1, <3>1, <3>2, <3>3 DEF HandleRequest
    <2>2. CASE CreateResponse
        BY <2>2, CallType DEF CreateResponse
    <2>3. CASE Signing
        BY <2>3, LoopStepType DEF Signing, DInv, Counters
    <2>4. CASE AfterGetErrors \/ AfterSigning
        BY <2>4 DEF AfterGetErrors, AfterSigning, S!Return, DInv, TypeOK, S!TypeOK
    <2>5. CASE LoadKey \/ ParseMdl \/ InitialiseSession \/ EstablishReaderSession
                  \/ ReaderHandleDeviceResponse \/ UNCHANGED vars
        BY <2>5 DEF LoadKey, ParseMdl, InitialiseSession, EstablishReaderSession,
                    ReaderHandleDeviceResponse, Fallible, loopVars, vars,
                    DInv, TypeOK, S!TypeOK
    <2>6. QED
        BY <2>1, <2>2, <2>3, <2>4, <2>5 DEF Next
<1>2. QED
    BY <1>1, StepNames DEF DInv, TypeOK
(* An iteration of the loop in get_errors keeps the counters: only the     *)
(* first conjunct speaks of the loop there.                                *)
LEMMA GetErrorsCounters ==
    ASSUME DInv, Signing, step = "get_errors"
    PROVE  Counters'
<1>1. lpc = "loop" /\ signed + pending = queued /\ err = "none"
    BY DEF Signing, S!LoopStep, S!Bail, S!SignAndSubmit, S!SubmitFails,
           S!NoMorePayloads, DInv, Counters
<1>2. signed \in Nat /\ pending \in Nat
    BY TypeFacts DEF DInv
<1>3. CASE S!SignAndSubmit
    BY <1>1, <1>2, <1>3 DEF Signing, S!SignAndSubmit, Counters
<1>4. CASE S!Bail \/ S!SubmitFails \/ S!NoMorePayloads
    BY <1>1, <1>4 DEF Signing, S!Bail, S!SubmitFails, S!NoMorePayloads, Counters
<1>5. QED
    BY <1>3, <1>4 DEF Signing, S!LoopStep

(* An iteration of the loop in create_response, with Some(1), keeps        *)
(* CreateInv: one signature at most, and the data response ready exactly  *)
(* when that signature drained the queue.                                  *)
LEMMA CreateCounters ==
    ASSUME DInv, Signing, step = "create_response"
    PROVE  Counters'
<1>1. /\ lpc = "loop" /\ signed + pending = queued /\ err = "none"
      /\ CreateInv
    BY DEF Signing, S!LoopStep, S!Bail, S!SignAndSubmit, S!SubmitFails,
           S!NoMorePayloads, DInv, Counters
<1>2. signed \in Nat /\ pending \in Nat /\ queued \in Nat
    BY TypeFacts DEF DInv
<1>3. CASE S!SignAndSubmit
    <2>1. signed = 0 /\ signed' = 1 /\ pending' = pending - 1 /\ pending > 0
        BY <1>1, <1>2, <1>3 DEF S!SignAndSubmit, CreateInv
    <2>2. pending' = 0 <=> response' = "data"
        BY <1>1, <1>2, <1>3, <2>1 DEF S!SignAndSubmit, CreateInv
    <2>3. CreateInv'
        BY <1>1, <1>2, <1>3, <2>1, <2>2 DEF S!SignAndSubmit, CreateInv
    <2>4. QED
        BY <1>1, <1>2, <1>3, <2>1, <2>3 DEF Signing, S!SignAndSubmit, Counters
<1>4. CASE S!Bail
    <2>1. signed = 1 /\ queued > 1
        BY <1>1, <1>2, <1>4 DEF S!Bail, CreateInv
    <2>2. QED
        BY <1>1, <1>4, <2>1 DEF Signing, S!Bail, CreateInv, Counters
<1>5. CASE S!SubmitFails \/ S!NoMorePayloads
    BY <1>1, <1>5 DEF Signing, S!SubmitFails, S!NoMorePayloads, CreateInv, Counters
<1>6. QED
    BY <1>3, <1>4, <1>5 DEF Signing, S!LoopStep

(* Every step of main keeps the counters.                                  *)
LEMMA StepCounters ==
    ASSUME DInv, [Next]_vars
    PROVE  Counters'
<1>1. CASE LoadKey \/ UNCHANGED vars
    BY <1>1 DEF LoadKey, loopVars, vars, DInv, Counters, CreateInv
<1>2. ASSUME NEW from, NEW to, NEW errs, Fallible(from, to, errs),
             to \in {"initialise", "establish", "request", "ok"},
             from \in {"parse", "initialise", "establish", "reader"},
             from = "reader" <=> to = "ok",
             from # "reader" => errs \subseteq EarlyErrors,
             from = "reader" => errs = {"reader"}
      PROVE  Counters'
    BY <1>2 DEF Fallible, loopVars, DInv, Counters
<1>3. CASE ParseMdl \/ InitialiseSession \/ EstablishReaderSession \/ ReaderHandleDeviceResponse
    BY <1>2, <1>3 DEF ParseMdl, InitialiseSession, EstablishReaderSession,
                      ReaderHandleDeviceResponse
<1>4. CASE HandleRequest
    <2>1. step = "request" /\ lpc = "idle" /\ signed = 0 /\ queued = 0 /\ err = "none"
        BY <1>4 DEF HandleRequest, DInv, Counters
    <2>2. CASE step' = "failed"
        BY <1>4, <2>1, <2>2 DEF HandleRequest, loopVars, Counters
    <2>3. CASE step' = "get_errors"
        BY <1>4, <2>1, <2>3 DEF HandleRequest, S!Call, Counters
    <2>4. QED
        BY <1>4, <2>2, <2>3 DEF HandleRequest
<1>5. CASE Signing
    <2>1. step \in {"get_errors", "create_response"}
        BY <1>5 DEF Signing
    <2>2. QED
        BY <1>5, <2>1, GetErrorsCounters, CreateCounters
<1>6. CASE AfterGetErrors
    BY <1>6 DEF AfterGetErrors, S!Return, DInv, Counters
<1>7. CASE CreateResponse
    <2>1. PICK n \in 0..MaxPayloads : S!Call(<<1>>, n, "none", "data")
        BY <1>7 DEF CreateResponse
    <2>2. QED
        BY <1>7, <2>1 DEF CreateResponse, S!Call, DInv, Counters, CreateInv
<1>8. CASE AfterSigning
    <2>1. CreateInv /\ lpc = "returned" /\ err = "none"
        BY <1>8 DEF AfterSigning, S!Return, DInv, Counters
    <2>2. result \in {"bail", "submit_failed", "none", "some"}
        BY DEF DInv, TypeOK, S!TypeOK
    <2>3. QED
        BY <1>8, <2>1, <2>2 DEF AfterSigning, S!Return, Counters, CreateInv
<1>9. QED
    BY <1>1, <1>3, <1>4, <1>5, <1>6, <1>7, <1>8 DEF Next

(* DInv is inductive.                                                      *)
LEMMA StepDInv == DInv /\ [Next]_vars => DInv'
BY StepType, StepCounters DEF DInv

(* The whole flow keeps its types for every payload bound: the step of   *)
(* main, the error it carries and the state of the signing loop it calls.  *)
THEOREM TypeCorrect == Spec => []TypeOK
<1>1. DInv => TypeOK
    BY DEF DInv
<1>2. QED
    BY InitDInv, StepDInv, <1>1, PTL DEF Spec

(* The reader is handed a data response only after the device signed its  *)
(* payload, exactly one, whatever prepare_response queued.                 *)
THEOREM FullySigned == Spec => []DataResponseFullySigned
<1>1. DInv => DataResponseFullySigned
    BY DEF DInv, Counters, DataResponseFullySigned
<1>2. QED
    BY InitDInv, StepDInv, <1>1, PTL DEF Spec

(* The Err main returns describes the signing truthfully, for every bound: *)
(* the bail after one signature with more queued, "no response to return" *)
(* with nothing queued, and the early Errs before anything was queued.     *)
THEOREM ErrorsAreTrue == Spec => []MainErrorIsTrue
<1>1. DInv => MainErrorIsTrue
    BY DEF DInv, Counters, MainErrorIsTrue
<1>2. QED
    BY InitDInv, StepDInv, <1>1, PTL DEF Spec
=============================================================================
