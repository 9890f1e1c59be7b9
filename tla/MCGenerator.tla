---- MODULE MCGenerator ----
(***************************************************************************)
(* Instances of Generator for TLC: one layer with two experts per token,   *)
(* two layers with one, and a prompt of two tokens.                        *)
(***************************************************************************)
EXTENDS Generator

CONSTANTS e1, e2, e3

MCExperts == {e1, e2, e3}
MCKeys == {0, 1} \X MCExperts
MCConfigs ==
    {[num_layers |-> 1, topk |-> 2, prompt |-> 1, max_new |-> 1],
     [num_layers |-> 2, topk |-> 1, prompt |-> 1, max_new |-> 1],
     [num_layers |-> 1, topk |-> 1, prompt |-> 2, max_new |-> 1]}
====
