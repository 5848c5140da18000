----------------------------- MODULE MCTokenizer -----------------------------
(* Every word of up to four letters, longer ones in which merges compete,  *)
(* and texts of two words and of none; every list of three of six merges. *)
EXTENDS Tokenizer, SequencesExt

CONSTANTS a, b

Words   == UNION {[1 .. n -> {a, b}] : n \in 1 .. 4}
MCTexts == {<<w>> : w \in Words \union {<<a, b, a, b, a>>, <<a, a, b, a, b, a>>}}
               \union {<<<<a, b, a>>, <<b, a>>>>, << >>}

Pairs == {<<<<a>>, <<b>>>>, <<<<b>>, <<a>>>>, <<<<a>>, <<a>>>>, <<<<a>>, <<b, a>>>>,
          <<<<a, b>>, <<a>>>>,
          <<<<a, b>>, <<a, b>>>>}
(* The last list has a pair twice. *)
MCTables == {t \in [1 .. 3 -> Pairs] : IsInjective(t)}
                \union {<<<<<<a>>, <<a>>>>, <<<<a>>, <<b>>>>, <<<<a>>, <<a>>>>>>}

MCVocab == {<<a>>, <<b>>, <<a, b>>, <<b, a>>, <<a, b, a>>}
=============================================================================
