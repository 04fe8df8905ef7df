----------------------------- MODULE MCPipeline -----------------------------
(* Instances of Pipeline for TLC.                                          *)
EXTENDS Pipeline, TLC

CONSTANTS a, b, w1, w2

(* Two symbols that hash to different workers.                             *)
Spread == a :> w1 @@ b :> w2

(* One symbol, one worker.                                                 *)
Single == a :> w1

=============================================================================
