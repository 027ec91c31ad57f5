--------------------------- MODULE MCGatewayClient ---------------------------
(* Small instances of GatewayClient for TLC. *)
EXTENDS GatewayClient

\* A request served by either handler.
MCBothHandlers == {"get_file", "get_file_recursive"}

\* A request served by get_file_recursive.
MCRecursive == {"get_file_recursive"}
=============================================================================
