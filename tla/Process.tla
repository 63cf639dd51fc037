------------------------------ MODULE Process ------------------------------
(***************************************************************************)
(* The process the library runs in: what the command line is given, or     *)
(* what a Python or C program finds when it calls; `addon` is whether its  *)
(* config and its sends go to a cloud, in Python through an add-on package *)
(* and in C through code built in, and `hangs` whether that cloud never    *)
(* answers.                                                                *)
(***************************************************************************)
VARIABLE
  world   \* [host, command, inputs, config, addon, hangs]: never changes
=============================================================================
