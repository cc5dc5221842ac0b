-------------------------- MODULE MCOpenAiProvider --------------------------
(* One call that streams, with or without a background response to resume,   *)
(* beside one that polls.                                                    *)
EXTENDS OpenAiProvider, TLC
CONSTANTS c1, c2
MCCalls == {c1, c2}
MCAsks == c1 :> Streaming @@ c2 :> {"background"}
=============================================================================
