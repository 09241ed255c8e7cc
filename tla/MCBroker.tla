------------------------------ MODULE MCBroker ------------------------------
(* Broker on named connections: p is a plugin process, m an in-memory    *)
(* transport.                                                              *)
EXTENDS Broker
CONSTANTS p, m
=============================================================================
