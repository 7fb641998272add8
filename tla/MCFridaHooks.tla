---------------------------- MODULE MCFridaHooks ----------------------------
(* Programs for FridaHooks: local.c; every program of one thread with at   *)
(* most MaxCalls calls; every one of two threads with at most two each.    *)
EXTENDS FridaHooks

CONSTANTS t1, t2, MaxCalls

UpTo(n) == UNION {[1..k -> Call] : k \in 0..n}

Alone(p) == [t \in Threads |-> IF t = t1 THEN p ELSE <<>>]

MCPrograms ==
    {Alone(Local)} \cup {Alone(p) : p \in UpTo(MaxCalls)}
        \cup {[t \in Threads |-> IF t = t1 THEN p ELSE q] : p, q \in UpTo(2)}
=============================================================================
