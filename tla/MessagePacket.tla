--------------------------- MODULE MessagePacket ---------------------------
(***************************************************************************)
(* MessagePacket (comms-lib): a message and the type and instance of its   *)
(* recipients.  A packet is a record; its copies are values, so nothing of *)
(* the memory of the message is left to model.                             *)
(***************************************************************************)
EXTENDS Integers

BROADCAST == -1

Packet(message, type, instance) ==
    [message |-> message, type |-> type, instance |-> instance]

isTypeBroadcast(p) == p.type <= BROADCAST
isInstanceBroadcast(p) == p.instance <= BROADCAST
=============================================================================
