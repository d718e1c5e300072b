-------------------------- MODULE MCApprovalBroker --------------------------
(***************************************************************************)
(* Instances of ApprovalBroker for TLC.  Time is scaled so that expiry     *)
(* comes before the deadline and the deadline before the client's timer,   *)
(* as in the daemon (10, 30 and 31 minutes).  The runs stop where the      *)
(* bounds on time and connections stop them, so deadlock is not checked.   *)
(* One actor, chat and card per approval are enough here: who may click is *)
(* the subject of ApprovalFlow.                                            *)
(***************************************************************************)
EXTENDS ApprovalBroker

ASSUME ScaleAssumption == SweepAge < Ttl /\ Ttl < HandlerTimeout
=============================================================================
