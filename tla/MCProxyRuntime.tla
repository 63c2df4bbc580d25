--------------------------- MODULE MCProxyRuntime ---------------------------
(* ProxyRuntime with a few requests and a health check.                      *)
EXTENDS ProxyRuntime
=============================================================================
