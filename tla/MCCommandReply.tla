--------------------------- MODULE MCCommandReply ---------------------------
(* An instance of CommandReply for TLC. *)
EXTENDS CommandReply

ThreeStatuses == {"booted", "ready", "running"}
=============================================================================
