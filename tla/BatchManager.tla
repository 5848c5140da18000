------------------------------ MODULE BatchManager ------------------------------
(***************************************************************************)
(* LLMBatchManager::init: the prompts of a request are tokenized, sorted by *)
(* length, and each one is linked to an earlier one it shares a prefix     *)
(* with; the tokens that are not shared form the main batch, which one of  *)
(* three splits cuts into the ubatches infer works on.                     *)
(*                                                                         *)
(* Positions count from 0 as in the code, sequences of TLA+ from 1.  The   *)
(* order in which std::sort leaves equal sizes is not determined.  The count *)
(* _n_tokens of a ubatch (one less than its rows) is only logged here.     *)
(***************************************************************************)
EXTENDS Integers, FiniteSets, Sequences, SequencesExt

CONSTANTS NSeqs,        \* prompts of the request, their ids count from 0
          Prompts,      \* what tokenize may return for a prompt
          VocabSize,    \* _id_to_token.size()
          Eog,          \* get_eog_tokens()
          MaxBatchSize  \* MAX_BATCH_SIZE

ASSUME NSeqsAssumption    == NSeqs \in Nat
ASSUME PromptsAssumption  == \A tokens \in Prompts : tokens \in Seq(Int)
ASSUME VocabAssumption    == VocabSize \in Nat /\ Eog \subseteq Int
ASSUME MaxBatchAssumption == MaxBatchSize \in Nat \ {0}

Seqs   == 0 .. NSeqs - 1
NoSeq  == -1
Splits == {"simple", "equal", "seq"}

VARIABLES
    prompt,     \* the tokens of each prompt
    split,      \* batch_split_type
    outputAll,  \* output_all
    pc,         \* where init is
    order,      \* prompts: the ids of those that are not empty, sorted
    at,         \* i of the loop over prompts
    parent,     \* _parent_seq_id
    shared,     \* _shared_prefix_len
    finished,   \* _is_finished
    batch,      \* _main_batch, a sequence of rows
    ubatches    \* _ubatches

vars == <<prompt, split, outputAll, pc, order, at, parent, shared, finished,
          batch, ubatches>>

Init ==
    /\ prompt \in [Seqs -> Prompts]
    /\ split \in Splits /\ outputAll \in BOOLEAN
    /\ pc = "sort" /\ order = <<>> /\ at = 1
    /\ parent = [s \in Seqs |-> NoSeq]
    /\ shared = [s \in Seqs |-> 0]
    /\ finished = [s \in Seqs |-> FALSE]
    /\ batch = <<>> /\ ubatches = <<>>

(* The sequences std::sort may make of the elements of S. *)
SortedBy(S, Size(_)) ==
    {o \in SetToSeqs(S) : \A m, n \in DOMAIN o : m < n => Size(o[m]) <= Size(o[n])}

(* A prompt without tokens is left out. *)
Sort ==
    /\ pc = "sort"
    /\ order' \in SortedBy({s \in Seqs : prompt[s] # <<>>}, LAMBDA s : Len(prompt[s]))
    /\ pc' = "link"
    /\ UNCHANGED <<prompt, split, outputAll, at, parent, shared, finished, batch, ubatches>>

-----------------------------------------------------------------------------
SharedLen(s, t) == Len(LongestCommonPrefix({prompt[s], prompt[t]}))

(* The places before `at' of the sequences that can be its parent. *)
Candidates == {j \in 1 .. at - 1 : ~ finished[order[j]] /\ SharedLen(order[at], order[j]) > 0}

(* Mutant: the search ends at the first sequence that shares a token. *)
MutBestParent ==
    IF Candidates = {} THEN NoSeq
    ELSE order[CHOOSE j \in Candidates : \A l \in Candidates : j <= l]

(* The first of those that share the most tokens. *)
BestParent ==
    LET len(j) == SharedLen(order[at], order[j])
        best   == {j \in Candidates : \A l \in Candidates : len(l) <= len(j)}
    IN  IF best = {} THEN NoSeq
        ELSE order[CHOOSE j \in best : \A l \in best : j <= l]

Row(s, p) ==
    [token  |-> prompt[s][p + 1], pos |-> p, seq |-> s,
     logits |-> outputAll \/ p = Len(prompt[s]) - 1]

(* Mutant: the first token that is not shared is left out too. *)
MutRowsFrom(s, start) == [n \in 1 .. Len(prompt[s]) - start - 1 |-> Row(s, start + n)]

RowsFrom(s, start) == [n \in 1 .. Len(prompt[s]) - start |-> Row(s, start + n - 1)]

(* Mutant: the size of the vocabulary passes as a token. *)
MutInVocab(rows) == \A n \in DOMAIN rows : rows[n].token \in 0 .. VocabSize

InVocab(rows) == \A n \in DOMAIN rows : rows[n].token \in 0 .. VocabSize - 1

(* One round of the loop: init returns false at a token that is not in the *)
(* vocabulary, shared ones excepted.                                       *)
Link ==
    /\ pc = "link" /\ at <= Len(order)
    /\ LET s     == order[at]
           p     == BestParent
           start == IF p = NoSeq THEN 0 ELSE SharedLen(s, p)
           rows  == RowsFrom(s, start)
       IN  /\ parent' = [parent EXCEPT ![s] = p]
           /\ shared' = [shared EXCEPT ![s] = start]
           /\ finished' = [finished EXCEPT ![s] = \E token \in ToSet(prompt[s]) : token \in Eog]
           /\ IF InVocab(rows)
              THEN batch' = batch \o rows /\ at' = at + 1 /\ UNCHANGED pc
              ELSE pc' = "failed" /\ UNCHANGED <<batch, at>>
    /\ UNCHANGED <<prompt, split, outputAll, order, ubatches>>

-----------------------------------------------------------------------------
(* The elements of a set of integers, sorted. *)
InOrder(I) ==
    [n \in 1 .. Cardinality(I) |-> CHOOSE i \in I : Cardinality({j \in I : j <= i}) = n]

(* build_sub_batch for the rows of the sequences in S, in their order. *)
RowsOf(S) ==
    LET indices == InOrder({i \in DOMAIN batch : batch[i].seq \in S})
    IN  [n \in DOMAIN indices |-> batch[indices[n]]]

InBatch == {batch[i].seq : i \in DOMAIN batch}

(* How many pieces of MaxBatchSize cover n things, and piece c of them. *)
Pieces(n)   == (n + MaxBatchSize - 1) \div MaxBatchSize
Piece(o, c) == SubSeq(o, (c - 1) * MaxBatchSize + 1,
                      IF c * MaxBatchSize < Len(o) THEN c * MaxBatchSize ELSE Len(o))

ReadyToSplit ==
    /\ pc = "link" /\ at > Len(order)
    /\ pc' = "done"
    /\ UNCHANGED <<prompt, split, outputAll, order, at, parent, shared, finished, batch>>

(* The rows as they come. *)
SplitSimple ==
    /\ split = "simple" /\ ReadyToSplit
    /\ ubatches' = [c \in 1 .. Pieces(Len(batch)) |-> Piece(batch, c)]

(* Whole sequences, those with fewer rows first. *)
SplitEqual ==
    /\ split = "equal" /\ ReadyToSplit
    /\ \E o \in SortedBy(InBatch, LAMBDA s : Len(RowsOf({s}))) :
           ubatches' = [c \in 1 .. Pieces(Len(o)) |-> RowsOf(ToSet(Piece(o, c)))]

(* Mutant: the sequences are gathered in one batch. *)
MutSplitSeq ==
    /\ split = "seq" /\ ReadyToSplit
    /\ ubatches' = IF batch = <<>> THEN <<>> ELSE <<batch>>

(* One sequence each, in the order of their ids. *)
SplitSeq ==
    /\ split = "seq" /\ ReadyToSplit
    /\ LET o == InOrder(InBatch)
       IN  ubatches' = [c \in DOMAIN o |-> RowsOf({o[c]})]

Returned == pc \in {"done", "failed"} /\ UNCHANGED vars

Next ==
    \/ Sort
    \/ Link
    \/ SplitSimple
    \/ SplitEqual
    \/ SplitSeq
    \/ Returned

Spec == Init /\ [][Next]_vars

-----------------------------------------------------------------------------
Rows == [token : 0 .. VocabSize - 1, pos : Nat, seq : Seqs, logits : BOOLEAN]

(* Parents are sequences, and every row of the main batch and of a ubatch  *)
(* has a token of the vocabulary: init refuses the others.                 *)
TypeOK ==
    /\ prompt \in [Seqs -> Prompts]
    /\ split \in Splits /\ outputAll \in BOOLEAN
    /\ pc \in {"sort", "link", "done", "failed"}
    /\ order \in Seq(Seqs) /\ at \in Nat \ {0}
    /\ parent \in [Seqs -> Seqs \union {NoSeq}]
    /\ shared \in [Seqs -> Nat]
    /\ finished \in [Seqs -> BOOLEAN]
    /\ batch \in Seq(Rows)
    /\ ubatches \in Seq(Seq(Rows))

(* s and its ancestors: what every set has that has s and with a sequence  *)
(* the parent it is linked to.                                             *)
Upward(C) == \A t \in C : parent[t] \in C \union {NoSeq}
Ancestors(s) == {t \in Seqs : \A C \in SUBSET Seqs : s \in C /\ Upward(C) => t \in C}

Places == UNION {{<<u, n>> : n \in DOMAIN ubatches[u]} : u \in DOMAIN ubatches}
Placed(x) == ubatches[x[1]][x[2]]
RowsFor(s, p) == {x \in Places : Placed(x).seq = s /\ Placed(x).pos = p}

(* Each token of each prompt is computed exactly once: among a sequence    *)
(* and its ancestors there is exactly one that has the same tokens up to   *)
(* it and a row for it, which is the sequence itself exactly from          *)
(* _shared_prefix_len on.  The splits neither lose nor repeat a row.       *)
PromptsCovered ==
    pc = "done" =>
        \A s \in Seqs : \A p \in 0 .. Len(prompt[s]) - 1 :
            LET owners == {t \in Ancestors(s) :
                              /\ IsPrefix(SubSeq(prompt[s], 1, p + 1), prompt[t])
                              /\ RowsFor(t, p) # {}}
            IN  \E t \in owners :
                    /\ owners = {t} /\ Cardinality(RowsFor(t, p)) = 1
                    /\ t = s <=> p >= shared[s]

(* A prefix that several prompts have is computed once: two rows for the   *)
(* same tokens at the same positions are there only when the sequence that *)
(* was linked first is finished by its own prompt, so that nobody can      *)
(* share with it.                                                          *)
PrefixComputedOnce ==
    \A m, n \in DOMAIN batch :
        LET s == batch[m].seq
            t == batch[n].seq
            p == batch[n].pos
        IN  (m < n /\ s # t /\ batch[m].pos = p
                /\ SubSeq(prompt[s], 1, p + 1) = SubSeq(prompt[t], 1, p + 1))
            => finished[s]

(* The rows of a sequence follow each other by position, within a ubatch   *)
(* and from one to the next; no ubatch is empty or over the limit of its   *)
(* split; and a ubatch of the split by sequence is the rows of one         *)
(* sequence and ends with the one whose output is sampled.                 *)
SplitsKeepOrder ==
    /\ \A x, y \in Places :
         (x[1] < y[1] \/ (x[1] = y[1] /\ x[2] < y[2])) /\ Placed(x).seq = Placed(y).seq
         => Placed(x).pos < Placed(y).pos
    /\ \A u \in DOMAIN ubatches :
         LET rows == ubatches[u]
             seqs == {row.seq : row \in ToSet(rows)}
         IN  /\ rows # <<>>
             /\ split = "simple" => Len(rows) <= MaxBatchSize
             /\ split = "equal" => Cardinality(seqs) <= MaxBatchSize
             /\ split = "seq" =>
                    /\ Cardinality(seqs) = 1
                    /\ rows[Len(rows)].logits
                    /\ outputAll \/ \A n \in 1 .. Len(rows) - 1 : ~ rows[n].logits

(* BatchManager.h:141 and BatchManager.cpp:212 say that the split by       *)
(* sequence makes one batch of every sequence.  A prompt that comes twice  *)
(* shares all of its tokens and gets none, so infer returns fewer strings  *)
(* than there are prompts.                                                 *)
EverySequenceHasBatch ==
    pc = "done" /\ split = "seq" =>
        \A s \in Seqs : prompt[s] # <<>> =>
            \E u \in DOMAIN ubatches : \A n \in DOMAIN ubatches[u] : ubatches[u][n].seq = s

=============================================================================
