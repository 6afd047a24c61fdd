---------------------------- MODULE DeviceInteraction ----------------------------
(***************************************************************************)
(* The simulated device and reader interaction of the crate documentation  *)
(* (src/src/lib.rs): run_simulated_device_and_reader_interaction and the   *)
(* functions it calls, with the signing loop of SignPending.  The program   *)
(* is sequential: every call returns before the next one starts.           *)
(*                                                                         *)
(* The device and reader session managers are outside this repository and *)
(* are kept to what the example observes of them: every fallible call may *)
(* return Err; process_session_establishment leaves nothing to sign when  *)
(* it accepted the request, and an error response when it refused it,     *)
(* ready at once or once the payloads it queued are signed (get_errors     *)
(* "sign[s] them if needed"); prepare_response replaces what was queued by *)
(* one payload per document to sign, and the data response is ready once  *)
(* the last is signed.                                                     *)
(***************************************************************************)
EXTENDS Naturals, Sequences

CONSTANT
    MaxPayloads   \* most payloads prepare_response queues

ASSUME DeviceAssumption == MaxPayloads \in Nat

VARIABLES
    step,       \* where main is
    lpc, expected, signed, result, pending, response, queued, prepared,  \* the loop
    refused,    \* the session establishment produced an error response
    err         \* the context of the Err main returns, "none" before

S == INSTANCE SignPending WITH ExpectedArgs <- {<<>>, <<1>>}

vars == <<step, lpc, expected, signed, result, pending, response, queued,
          prepared, refused, err>>
loopVars == <<lpc, expected, signed, result, pending, response, queued, prepared>>

Final == {"ok", "errors_sent", "failed", "panicked"}

(* The `.context(..)` of each `?` on main's path, and the loop's Errs.     *)
ErrorContexts ==
    {"parse", "initialise", "ble_ident", "qr_engagement", "establish",
     "deserialize", "process", "reader_errors", "bail", "submit_failed",
     "no_response", "reader"}

Init ==
    /\ step = "key"
    /\ S!Init
    /\ refused = FALSE
    /\ err = "none"

(* The signing key: from_sec1_pem(..).unwrap() panics on an Err.           *)
LoadKey ==
    /\ step = "key"
    /\ step' \in {"parse", "panicked"}
    /\ UNCHANGED <<loopVars, refused, err>>

(* A function whose `?`s return the Errs `errs`: Ok moves on, an Err ends  *)
(* main with it.                                                           *)
Fallible(from, to, errs) ==
    /\ step = from
    /\ \/ step' = to /\ UNCHANGED err
       \/ step' = "failed" /\ err' \in errs
    /\ UNCHANGED <<loopVars, refused>>

(* parse_mdl; initialise_session (initialise, ble_ident, qr_engagement);  *)
(* establish_reader_session; reader_handle_device_response.               *)
ParseMdl == Fallible("parse", "initialise", {"parse"})
InitialiseSession ==
    Fallible("initialise", "establish", {"initialise", "ble_ident", "qr_engagement"})
EstablishReaderSession == Fallible("establish", "request", {"establish"})
ReaderHandleDeviceResponse == Fallible("reader", "ok", {"reader"})

(* handle_request: from_slice the SessionEstablishment and process it     *)
(* (either may fail), then get_errors, the loop with no expected count.    *)
HandleRequest ==
    /\ step = "request"
    /\ \/ /\ step' = "failed"
          /\ err' \in {"deserialize", "process"}
          /\ UNCHANGED <<loopVars, refused>>
       \/ /\ step' = "get_errors"
          /\ \/ /\ refused' = FALSE
                /\ S!Call(<<>>, 0, "none", "data")
             \/ /\ refused' = TRUE
                /\ \E n \in 0..MaxPayloads :
                      S!Call(<<>>, n, IF n = 0 THEN "error" ELSE "none", "error")
          /\ UNCHANGED err

(* An iteration of the loop, for whichever caller runs it.                 *)
Signing ==
    /\ step \in {"get_errors", "create_response"}
    /\ S!LoopStep
    /\ UNCHANGED <<step, refused, err>>

(* Back in handle_request: Ok(Some(response)) goes to the reader's        *)
(* handle_response (which may fail) and main ends: "Errors sent".  Ok(None) *)
(* and Err alike give Ok(Some(RequestData)), and main goes on.              *)
AfterGetErrors ==
    /\ step = "get_errors"
    /\ S!Return
    /\ step' \in IF result = "some" THEN {"errors_sent", "failed"} ELSE {"create"}
    /\ err' = IF step' = "failed" THEN "reader_errors" ELSE err
    /\ UNCHANGED refused

(* create_response: prepare_response queues the permitted documents'      *)
(* payloads, then the loop runs with Some(1).                              *)
CreateResponse ==
    /\ step = "create"
    /\ step' = "create_response"
    /\ \E n \in 0..MaxPayloads : S!Call(<<1>>, n, "none", "data")
    /\ UNCHANGED <<refused, err>>

(* Seeded fault: create_response prepared and signed again on Ok(None).    *)
AfterSigningRetries ==
    /\ step = "create_response"
    /\ S!Return
    /\ step' = CASE result = "some" -> "reader"
                 [] result = "none" -> "create"
                 [] OTHER -> "failed"
    /\ err' = IF step' = "failed" THEN result ELSE err
    /\ UNCHANGED refused

(* Back in create_response: `?` on the loop's result, then ok_or_else.     *)
AfterSigning ==
    /\ step = "create_response"
    /\ S!Return
    /\ step' = IF result = "some" THEN "reader" ELSE "failed"
    /\ err' = CASE result = "some" -> err
                [] result = "none" -> "no_response"
                [] OTHER -> result
    /\ UNCHANGED refused

Next ==
    \/ LoadKey
    \/ ParseMdl \/ InitialiseSession \/ EstablishReaderSession
    \/ HandleRequest
    \/ Signing
    \/ AfterGetErrors
    \/ CreateResponse
    \/ AfterSigning
    \/ ReaderHandleDeviceResponse

(* main runs on one thread and every call it makes returns: whenever a     *)
(* step is possible, one is taken.                                         *)
Spec == Init /\ [][Next]_vars /\ WF_vars(Next)

-----------------------------------------------------------------------------
TypeOK ==
    /\ step \in {"key", "parse", "initialise", "establish", "request", "get_errors",
                 "create", "create_response", "reader"} \cup Final
    /\ S!TypeOK
    /\ refused \in BOOLEAN
    /\ err \in ErrorContexts \cup {"none"}

(* A response reaches the reader only when the device signed every payload *)
(* prepare_response queued, and there was exactly the one create_response *)
(* expects: with none the response is never ready, with more the loop     *)
(* bails out after the first signature.                                   *)
DataResponseFullySigned ==
    step \in {"reader", "ok"} => signed = queued /\ queued = 1

(* "Propagate any errors back to the reader": once the device refused the *)
(* request with an error response, that response goes to the reader and    *)
(* main ends; the device never prepares a data response for the session.  *)
NoDataAfterRefusal ==
    refused => step \notin {"create", "create_response", "reader", "ok"}

(* The Err main returns tells the truth about the signing: "expected to   *)
(* sign 1 documents, but there are more" comes after exactly one signature *)
(* with more payloads queued, and "no response to return" only when       *)
(* prepare_response queued nothing to sign; any other Err is no failure of *)
(* the signing at all, and leaves the loop untouched.                      *)
MainErrorIsTrue ==
    /\ err = "bail" => signed = 1 /\ queued > 1
    /\ err = "no_response" => queued = 0
    /\ err \in {"parse", "initialise", "ble_ident", "qr_engagement",
                "establish", "deserialize", "process"} => queued = 0 /\ signed = 0

(* Termination: main always returns, with Ok or with an error.            *)
Terminates == <>(step \in Final)
=============================================================================
