-------------------------- MODULE MCIngressReorder --------------------------
EXTENDS IngressReorder, TLC

CONSTANTS r1, r2, r3

(* two requests of one session and one of another *)
MCSessionOf == r1 :> 2 @@ r2 :> 2 @@ r3 :> 1

(* one latency lies beyond the clamp *)
MCDraw == r1 :> 5 @@ r2 :> 0 @@ r3 :> 0
=============================================================================
