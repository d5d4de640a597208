------------------------ MODULE MCAnthropicMessages ------------------------
(* Model checking of AnthropicMessages: nothing but the constants in the .cfg file. *)
EXTENDS AnthropicMessages
=============================================================================
