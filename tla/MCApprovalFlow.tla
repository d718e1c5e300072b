--------------------------- MODULE MCApprovalFlow ---------------------------
(***************************************************************************)
(* Instances of ApprovalFlow for TLC.  Requests serve as nonces.           *)
(***************************************************************************)
EXTENDS ApprovalFlow

MCNonce == (1..MaxGen) \X Id
=============================================================================
