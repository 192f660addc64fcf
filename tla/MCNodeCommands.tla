--------------------------- MODULE MCNodeCommands ---------------------------
(***************************************************************************)
(* A small network for the node commands: which VM is of which kind.  The  *)
(* names are those terraform gives them, without the environment's.        *)
(***************************************************************************)
EXTENDS NodeCommands

MCKindOf ==
  [v \in VM |-> CASE v = "genesis-1" -> "genesis"
                  [] v \in {"node-1", "node-2"} -> "generic"
                  [] v = "restricted-1" -> "port_restricted"
                  [] OTHER -> "symmetric"]

=============================================================================
