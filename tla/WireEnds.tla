------------------------------- MODULE WireEnds --------------------------------
(***************************************************************************)
(* The two ends of a wire as the reactive entities see them.  One end is   *)
(* the master of an entity: the models of the plugin are generated so that *)
(* the ends are not both slaves.  The wire is a queue to each end:         *)
(* SocketWireLink and MessageBroker are about why it is one.               *)
(***************************************************************************)
EXTENDS Integers, Sequences

CONSTANTS Master, Slave

ASSUME WireEndsAssumption == Master # Slave

Peers == {Master, Slave}
Other(p) == IF p = Master THEN Slave ELSE Master
is_master(p) == p = Master
===============================================================================
