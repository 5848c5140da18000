----------------------------- MODULE MCBatchManager -----------------------------
(* Prompts over a vocabulary of three tokens, the last one an end of       *)
(* generation, and one token that is not in it.                            *)
EXTENDS BatchManager

MCPrompts == {<<>>, <<0>>, <<0, 0>>, <<0, 1>>, <<0, 1, 0>>, <<0, 1, 1>>, <<0, 2>>,
              <<0, 2, 1>>, <<1, 0>>, <<0, 1, 3>>}
MCEog     == {2}
=============================================================================
