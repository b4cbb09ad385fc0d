--------------------------- MODULE MCParameterClient ---------------------------
EXTENDS ParameterClient, TLC

(* Values are only compared.  (Parameters are not interchangeable: SetToSeq
   fixes an order of them.) *)
Symmetric == Permutations(Value)
================================================================================
