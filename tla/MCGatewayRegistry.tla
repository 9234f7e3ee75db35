--------------------------- MODULE MCGatewayRegistry ---------------------------
(* A gRPC service deployed twice, with different configs, next to an http  *)
(* service deployed once.                                                  *)
EXTENDS GatewayRegistry, TLC

CONSTANTS a, b, grpc, http

TwoConfigs == <<a, b>>
TwoAndOne == grpc :> 2 @@ http :> 1
=============================================================================
