------------------------- MODULE MCLocalArtifactStore -------------------------
(* Two writes of one content and its deletion, with a read or a cleanup, and *)
(* one crash, in each durability mode and on both kinds of platform.         *)
EXTENDS LocalArtifactStore, TLC
CONSTANTS k1, w1, w2, r1, d1, c1
MCKeys == {k1}
MCWrites == {w1, w2}
MCReads == {r1}
MCDeletes == {d1}
MCCleanups == {c1}
MCWorkloads == {{w1, w2, d1, r1}, {w1, w2, d1, c1}}
MCModes == [flush : {TRUE}, posix : BOOLEAN] \cup {[flush |-> FALSE, posix |-> TRUE]}
=============================================================================
