------------------------------ MODULE MCOutbox ------------------------------
(* A small instance of Outbox: two messages with keys of their own and one   *)
(* that repeats the key of the first.                                        *)
EXTENDS Outbox, TLC

CONSTANTS m1, m2, m3, k1, k2

MCKeyOf == [m \in Messages |-> IF m = m2 THEN k2 ELSE k1]
=============================================================================
