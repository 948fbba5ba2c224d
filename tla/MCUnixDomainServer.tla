------------------------- MODULE MCUnixDomainServer -------------------------
(* UnixDomainServer for TLC: gateways that fight for the path, and a client *)
(* that blocks the server after one response.                              *)
EXTENDS UnixDomainServer

=============================================================================
