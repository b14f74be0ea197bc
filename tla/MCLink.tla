------------------------------- MODULE MCLink ---------------------------------
(* One sender and one receiver over any number of connections.               *)
EXTENDS SocketWireLink
===============================================================================
