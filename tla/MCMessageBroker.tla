-------------------------- MODULE MCMessageBroker --------------------------
(***************************************************************************)
(* MessageBroker for TLC: two messages, so that their order matters, next  *)
(* to the error.                                                           *)
(***************************************************************************)
EXTENDS MessageBroker

CONSTANTS a, b

MCMessage == {a, b}
MCElement == {a, b, Error}

=============================================================================
