---------------------------- MODULE MCBrokerRouter ----------------------------
(***************************************************************************)
(* Instance of BrokerRouter for TLC.                                       *)
(***************************************************************************)
EXTENDS BrokerRouter
=============================================================================
