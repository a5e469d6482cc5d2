----------------------------- MODULE MCCharDev -----------------------------
(***************************************************************************)
(* Model-checking instance of PortDev: a greeting of two characters.       *)
(***************************************************************************)
EXTENDS PortDev

Hello == <<1, 2>>
=============================================================================
