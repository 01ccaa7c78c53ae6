------------------------------ MODULE MCOrderLife ------------------------------
(* OrderLife on a small instance; its configurations give the constants.      *)
EXTENDS OrderLife
===============================================================================
