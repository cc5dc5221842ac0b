------------------------- MODULE MCPersistenceStore -------------------------
(* A small instance of PersistenceStore: m1 and m3 share a key.              *)
EXTENDS PersistenceStore, TLC

CONSTANTS m1, m2, m3, k1, k2

MCKeyOf == [m \in MessageIds |-> IF m = m2 THEN k2 ELSE k1]
=============================================================================
