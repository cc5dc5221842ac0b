---------------------------- MODULE MCMemoryStore ----------------------------
(* Record 1 is a candidate or what the user stated, 2 and 3 want to replace  *)
(* it, 4 marks its deletion.                                                 *)
EXTENDS MemoryStore, TLC
CONSTANTS c1, c2, k1
MCCallers == {c1, c2}
MCKeys == {k1}
MCIds == 1..4
Added(id, variant) == [Request("append", id) EXCEPT !.variant = variant]
MCRequests ==
  {Added(1, "explicit"), Added(1, "candidate"),
   [Added(1, "explicit") EXCEPT !.resurrect = TRUE],
   [Added(2, "candidate") EXCEPT !.supersedes = 1, !.key = k1],
   [Added(3, "fact") EXCEPT !.supersedes = 1, !.key = k1],
   [Request("supersede", 1) EXCEPT !.with = 3],
   [Request("supersede", 2) EXCEPT !.with = 3],
   [Request("tombstone", 1) EXCEPT !.with = 4],
   Request("decide", 1), Request("decide", 2), Request("read", 1), Request("query", 1)}
Symmetry == Permutations(MCCallers)
=============================================================================
