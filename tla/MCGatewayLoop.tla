--------------------------- MODULE MCGatewayLoop ---------------------------
(* Small gateways: three orders, one of which cannot be mapped.             *)
EXTENDS GatewayLoop
============================================================================
