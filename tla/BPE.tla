--------------------------------- MODULE BPE ---------------------------------
(***************************************************************************)
(* Byte pair encoding as its definition has it: of all neighbouring parts  *)
(* of a word that the list of merges knows, the pair that stands first in  *)
(* the list is joined, the leftmost of equal ones, until there is none.    *)
(***************************************************************************)
EXTENDS Naturals, Sequences

CONSTANTS Texts,     \* texts there may be, split into words
          Tables     \* lists of merges there may be

VARIABLES
    merges,   \* the list, which does not change
    todo,     \* the words still to come
    parts,    \* the parts of the word at hand
    done      \* the parts of the words before it

vars == <<merges, todo, parts, done>>

Init ==
    /\ merges \in Tables
    /\ todo = << >> /\ parts = << >> /\ done = << >>

Encode(text) ==
    /\ todo = << >> /\ parts = << >>
    /\ todo' = text /\ done' = << >>
    /\ UNCHANGED <<merges, parts>>

Letters(word) == [i \in DOMAIN word |-> <<word[i]>>]

Take ==
    /\ parts = << >> /\ todo # << >>
    /\ parts' = Letters(Head(todo)) /\ todo' = Tail(todo)
    /\ UNCHANGED <<merges, done>>

(* Merge m of the list applies to the parts at i and i + 1. *)
Applies(m, i) == i \in 1 .. Len(parts) - 1 /\ merges[m] = <<parts[i], parts[i + 1]>>

Join ==
    \E m \in DOMAIN merges, i \in DOMAIN parts :
        /\ Applies(m, i)
        /\ \A k \in DOMAIN merges, j \in DOMAIN parts :
               Applies(k, j) => m < k \/ (m = k /\ i <= j)
        /\ parts' = SubSeq(parts, 1, i - 1) \o <<parts[i] \o parts[i + 1]>>
                    \o SubSeq(parts, i + 2, Len(parts))
        /\ UNCHANGED <<merges, todo, done>>

Put ==
    /\ \A m \in DOMAIN merges, i \in DOMAIN parts : ~ Applies(m, i)
    /\ done' = done \o parts /\ parts' = << >>
    /\ UNCHANGED <<merges, todo>>

Next == (\E text \in Texts : Encode(text)) \/ Take \/ Join \/ Put

Spec == Init /\ [][Next]_vars
=============================================================================
