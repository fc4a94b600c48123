---------------------------- MODULE MCConversation ----------------------------
(* A small instance of Conversation for TLC.                               *)
EXTENDS Conversation, TLC

CONSTANTS t0, t1
===============================================================================
