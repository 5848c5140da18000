------------------------------ MODULE TokenStore ------------------------------
(***************************************************************************)
(* What the paged KV cache promises its users, with the pages forgotten:   *)
(* each context (a sequence in a layer) is a growing list of cache slots.  *)
(* A token that joins a context gets a slot no live token holds; it keeps  *)
(* that slot until its whole context is dropped.                           *)
(***************************************************************************)
EXTENDS Sequences, Naturals

CONSTANTS Keys,    \* the contexts
          Slots    \* the places a token's key and value rows may be stored

VARIABLE slotOf    \* slotOf[k][i] is the slot of the i-th token of context k

Init == slotOf = [k \in Keys |-> <<>>]

(* A token joins context k in a slot that nobody holds. *)
Add(k) ==
    \E s \in Slots :
        /\ \A c \in Keys : \A i \in DOMAIN slotOf[c] : slotOf[c][i] # s
        /\ slotOf' = [slotOf EXCEPT ![k] = Append(@, s)]

(* All tokens of context k are forgotten. *)
Drop(k) == slotOf' = [slotOf EXCEPT ![k] = <<>>]

Next == \E k \in Keys : Add(k) \/ Drop(k)

Spec == Init /\ [][Next]_slotOf
=============================================================================
