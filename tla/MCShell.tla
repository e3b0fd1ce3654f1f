------------------------------ MODULE MCShell -------------------------------
(***************************************************************************)
(* An inbox for the model checker: a message of a session, one that sets   *)
(* no position, and one that does but is of no session.                    *)
(***************************************************************************)
EXTENDS Shell

MCInbox == <<"ratchet", "other", "salty">>
=============================================================================
