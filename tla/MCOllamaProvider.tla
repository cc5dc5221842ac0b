-------------------------- MODULE MCOllamaProvider --------------------------
(* Three requests, two of them for one model.  In one configuration the   *)
(* limit of a model binds, both models fit and the queue holds one waiter; *)
(* in the other the bytes bind: two small ones fit beside each other, a    *)
(* small one and a large one do not.                                       *)
EXTENDS OllamaProvider, TLC

CONSTANTS r1, r2, r3, small, large

MCModelOf == r1 :> small @@ r2 :> small @@ r3 :> large
MCSize == small :> 2 @@ large :> 3

LimitedByModel ==
  [max |-> 2, perModel |-> small :> 1 @@ large :> 2, budget |-> 6, margin |-> 1, queue |-> 1]
LimitedByBytes ==
  [max |-> 2, perModel |-> small :> 2 @@ large :> 2, budget |-> 5, margin |-> 1, queue |-> 2]

MCConfigurations == {LimitedByModel, LimitedByBytes}
=============================================================================
