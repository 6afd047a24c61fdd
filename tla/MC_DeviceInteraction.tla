--------------------------- MODULE MC_DeviceInteraction ---------------------------
(***************************************************************************)
(* The documentation example with a device that may queue up to four      *)
(* signature payloads (MaxPayloads in the cfg): none (nothing permitted),  *)
(* the one document the example expects, more than create_response        *)
(* allows, and an error response of a refused request that needs signing. *)
(***************************************************************************)
EXTENDS DeviceInteraction, TLC
=============================================================================
