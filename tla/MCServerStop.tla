----------------------------- MODULE MCServerStop -----------------------------
(* Two rounds, one of them asked for again, over two lives of the process.   *)
EXTENDS ServerStop, TLC

CONSTANTS k1, k2, a1, a2, b1

MCKeyOf == a1 :> k1 @@ a2 :> k1 @@ b1 :> k2
=============================================================================
