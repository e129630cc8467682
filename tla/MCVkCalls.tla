------------------------------- MODULE MCVkCalls -------------------------------
(* Values for model-checking VkCalls. *)
EXTENDS VkCalls
CONSTANTS c1, c2, c3
===============================================================================
