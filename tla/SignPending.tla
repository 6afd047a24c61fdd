------------------------------ MODULE SignPending ------------------------------
(***************************************************************************)
(* sign_pending_and_retrieve_response of the crate documentation example   *)
(* (src/src/lib.rs): sign every payload the device session manager has     *)
(* queued, refusing to sign more than expected_to_sign, then return what   *)
(* retrieve_response gives.                                                *)
(*                                                                         *)
(* The device session manager is outside this repository; the loop sees   *)
(* it through three calls.  get_next_signature_payload returns the next    *)
(* queued payload or None; submit_next_signature takes the payload off     *)
(* the queue, the last one making the response ready, or fails;            *)
(* retrieve_response returns the ready response, if any.                   *)
(***************************************************************************)
EXTENDS Naturals, Sequences

CONSTANTS
    MaxPayloads,   \* most payloads queued when the loop is called
    ExpectedArgs   \* expected_to_sign arguments: <<>> is None, <<n>> Some(n)

ASSUME SignPendingAssumption ==
    /\ MaxPayloads \in Nat
    /\ ExpectedArgs \subseteq {e \in Seq(Nat) : Len(e) <= 1}

VARIABLES
    lpc,        \* "idle", "loop" or "returned"
    expected,   \* the expected_to_sign argument
    signed,     \* the local counter
    result,     \* "bail" or "submit_failed" (the two Errs), "none" (Ok(None))
                \* or "some" (Ok(Some(response)))
    pending,    \* payloads the session manager still has queued
    response,   \* what retrieve_response gives: "none", "error" or "data"
    queued,     \* payloads queued when the call started (history)
    prepared    \* the response ("error" or "data") the payloads are for

vars == <<lpc, expected, signed, result, pending, response, queued, prepared>>

Init ==
    /\ lpc = "idle"
    /\ expected = <<>>
    /\ signed = 0
    /\ result = "none"
    /\ pending = 0
    /\ response = "none"
    /\ queued = 0
    /\ prepared = "data"

(* The call: `let mut signed = 0; loop { ... }`, on a session manager      *)
(* with n payloads of a `kind` response queued, whose response is `ready`  *)
(* (a response already prepared has nothing left to sign).                 *)
Call(exp, n, ready, kind) ==
    /\ lpc = "idle"
    /\ n > 0 => ready = "none"
    /\ lpc' = "loop"
    /\ expected' = exp
    /\ signed' = 0
    /\ result' = "none"
    /\ pending' = n
    /\ response' = ready
    /\ queued' = n
    /\ prepared' = kind

(* A payload is there but `signed` already reached Some(expected):         *)
(* anyhow::bail!.                                                          *)
Bail ==
    /\ lpc = "loop"
    /\ pending > 0
    /\ \E k \in DOMAIN expected : signed >= expected[k]
    /\ lpc' = "returned"
    /\ result' = "bail"
    /\ UNCHANGED <<expected, signed, pending, response, queued, prepared>>

(* Seeded fault: the count compared with > instead of >=.                  *)
SignAndSubmitPastExpected ==
    /\ lpc = "loop"
    /\ pending > 0
    /\ \A k \in DOMAIN expected : signed <= expected[k]
    /\ pending' = pending - 1
    /\ response' = IF pending = 1 THEN prepared ELSE response
    /\ signed' = signed + 1
    /\ UNCHANGED <<lpc, expected, result, queued, prepared>>

(* Seeded fault: a signature submitted with no payload fetched.           *)
SignAndSubmitUnguarded ==
    /\ lpc = "loop"
    /\ \A k \in DOMAIN expected : signed < expected[k]
    /\ pending' = pending - 1
    /\ response' = IF pending = 1 THEN prepared ELSE response
    /\ signed' = signed + 1
    /\ UNCHANGED <<lpc, expected, result, queued, prepared>>

(* key.sign(payload), submit_next_signature(..) succeeds, signed += 1.     *)
SignAndSubmit ==
    /\ lpc = "loop"
    /\ pending > 0
    /\ \A k \in DOMAIN expected : signed < expected[k]
    /\ pending' = pending - 1
    /\ response' = IF pending = 1 THEN prepared ELSE response
    /\ signed' = signed + 1
    /\ UNCHANGED <<lpc, expected, result, queued, prepared>>

(* submit_next_signature fails: `.context(..)?` returns the error.         *)
SubmitFails ==
    /\ lpc = "loop"
    /\ pending > 0
    /\ \A k \in DOMAIN expected : signed < expected[k]
    /\ lpc' = "returned"
    /\ result' = "submit_failed"
    /\ UNCHANGED <<expected, signed, pending, response, queued, prepared>>

(* Seeded fault: the loop goes round again where it should break.          *)
NoMorePayloadsSpins ==
    /\ lpc = "loop"
    /\ pending = 0
    /\ UNCHANGED vars

(* get_next_signature_payload is None: break, Ok(retrieve_response()).     *)
NoMorePayloads ==
    /\ lpc = "loop"
    /\ pending = 0
    /\ lpc' = "returned"
    /\ result' = IF response = "none" THEN "none" ELSE "some"
    /\ UNCHANGED <<expected, signed, pending, response, queued, prepared>>

(* The caller takes the result.                                            *)
Return ==
    /\ lpc = "returned"
    /\ lpc' = "idle"
    /\ UNCHANGED <<expected, signed, result, pending, response, queued, prepared>>

LoopStep == Bail \/ SignAndSubmit \/ SubmitFails \/ NoMorePayloads

Next ==
    \/ \E exp \in ExpectedArgs, n \in 0..MaxPayloads,
          ready \in {"none", "error", "data"}, kind \in {"error", "data"} :
          Call(exp, n, ready, kind)
    \/ LoopStep
    \/ Return

(* The loop runs on the caller's thread; once it can step, it does.        *)
Spec == Init /\ [][Next]_vars /\ WF_vars(LoopStep)

-----------------------------------------------------------------------------
TypeOK ==
    /\ lpc \in {"idle", "loop", "returned"}
    /\ expected \in ExpectedArgs \cup {<<>>}
    /\ signed \in 0..MaxPayloads
    /\ result \in {"bail", "submit_failed", "none", "some"}
    /\ pending \in 0..MaxPayloads
    /\ response \in {"none", "error", "data"}
    /\ queued \in 0..MaxPayloads
    /\ prepared \in {"error", "data"}

(* What a call returns: never more signatures than Some(expected) allows, *)
(* whatever the queue holds; Ok(Some(response)) only with the queue        *)
(* drained, so a data response is never handed out with a document left    *)
(* unsigned; Ok(None) only when nothing was ready.                          *)
ReturnsWhatItSigned ==
    lpc = "returned" =>
      /\ \A k \in DOMAIN expected : signed <= expected[k]
      /\ result = "some" => pending = 0
      /\ result = "none" => pending = 0 /\ response = "none"

(* Every call returns: each submitted signature takes a payload off the   *)
(* queue and the loop breaks when none is left, or bails, or fails.       *)
CallReturns == (lpc = "loop") ~> (lpc = "returned")
=============================================================================
