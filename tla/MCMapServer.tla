----------------------------- MODULE MCMapServer -----------------------------
(* The servers that the runs of MapServer consider, and how many calls are  *)
(* made of each: the choice of hash codes multiplies the states of Java's.  *)
EXTENDS MapServer

AllServers == {"go", "java", "python"}
CallBounds == [go |-> 5, java |-> 4, python |-> 5]
=============================================================================
