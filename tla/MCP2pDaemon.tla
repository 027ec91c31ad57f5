---------------------------- MODULE MCP2pDaemon ----------------------------
(* Small instances of P2pDaemon for TLC. *)
EXTENDS P2pDaemon

CONSTANTS d1, d2
=============================================================================
