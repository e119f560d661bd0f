----------------------------- MODULE MCAASigner -----------------------------
(***************************************************************************)
(* Small instances of AASigner, with one signer.  Calls are numbered.      *)
(***************************************************************************)
EXTENDS AASigner

MCIndex == [s \in Signers |-> 0]
MCSignerOf == [c \in Calls |-> 1]

\* Every transaction calls something else.
MCData == [c \in Sends |-> c]
=============================================================================
