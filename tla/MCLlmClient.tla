---------------------------- MODULE MCLlmClient ----------------------------
(* Model values for LlmClient. *)
EXTENDS LlmClient
=============================================================================
