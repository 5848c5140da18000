------------------------------ MODULE Tokenizer ------------------------------
(***************************************************************************)
(* LLMTokenizerBPE::tokenize.  The symbols of a word form a list, linked   *)
(* both ways, in which a merge grows the left symbol and empties the right *)
(* one.  The pairs that may be merged wait in a priority queue: they are   *)
(* entered when they become neighbours and never taken back, so many of    *)
(* them are out of date when their turn comes.                             *)
(* A string is a sequence of characters; 0 stands for the index -1.        *)
(***************************************************************************)
EXTENDS Naturals, Sequences

CONSTANTS Chars,     \* characters
          Wide,      \* those of more than one byte
          Texts,     \* texts there may be, as unicode_regex_split splits them
          Tables,    \* lists of merges there may be in a model file
          Vocab      \* the strings that are tokens

Strings == Seq(Chars)
ASSUME WideAssumption   == Wide \subseteq Chars
ASSUME TextsAssumption  == Texts \subseteq Seq(Strings)
ASSUME TablesAssumption == Tables \subseteq Seq(Strings \X Strings)

VARIABLES
    merges,     \* LLM_KV_TOKENIZER_MERGES, from which _bpe_ranks is made
    text,       \* the argument of tokenize, split into words
    todo,       \* the words still to come
    symbols,    \* _symbol_vec
    queue,      \* _work_queue
    out,        \* symbol_vec_tmp
    tokens,     \* the result, each token by its string
    phase       \* "idle", "word" or "merge"

vars == <<merges, text, todo, symbols, queue, out, tokens, phase>>

Init ==
    /\ merges \in Tables
    /\ text = << >> /\ todo = << >> /\ symbols = << >> /\ queue = {}
    /\ out = << >> /\ tokens = << >>
    /\ phase = "idle"

-----------------------------------------------------------------------------
Concat(lists) ==
    LET upTo[i \in 0 .. Len(lists)] == IF i = 0 THEN << >> ELSE upTo[i - 1] \o lists[i]
    IN  upTo[Len(lists)]

(* get_rank; load_bpe enters a pair that is listed twice only once.        *)
Ranks(left, right) ==
    {i \in DOMAIN merges : /\ merges[i] = <<left, right>>
                           /\ \A j \in 1 .. i - 1 : merges[j] # <<left, right>>}

(* add_tuple: the tuple for the symbols l and r, if the pair has a rank.   *)
AddTuple(syms, l, r) ==
    {[left |-> l, right |-> r, text |-> syms[l].text \o syms[r].text, rank |-> i] :
        i \in IF l = 0 \/ r = 0 THEN {} ELSE Ranks(syms[l].text, syms[r].text)}

(* Mutant: the last symbol is linked to one behind it. *)
MutParseSymbol(word) ==
    [i \in DOMAIN word |-> [text |-> <<word[i]>>, prev |-> i - 1, next |-> i + 1]]

(* parse_symbol *)
ParseSymbol(word) ==
    [i \in DOMAIN word |-> [text |-> <<word[i]>>, prev |-> i - 1,
                            next |-> IF i = Len(word) THEN 0 ELSE i + 1]]

(* generate_tuple *)
GenerateTuple(syms) == UNION {AddTuple(syms, i - 1, i) : i \in DOMAIN syms \ {1}}

Tokenize(t) ==
    /\ phase = "idle"
    /\ text' = t /\ todo' = t
    /\ out' = << >> /\ tokens' = << >>
    /\ phase' = "word"
    /\ UNCHANGED <<merges, symbols, queue>>

StartWord ==
    /\ phase = "word" /\ todo # << >>
    /\ symbols' = ParseSymbol(Head(todo))
    /\ queue' = queue \union GenerateTuple(symbols')
    /\ todo' = Tail(todo)
    /\ phase' = "merge"
    /\ UNCHANGED <<merges, text, out, tokens>>

(* Mutant: of equal ranks the last one comes first. *)
MutTop(t) ==
    /\ t \in queue
    /\ \A u \in queue : t.rank < u.rank \/ (t.rank = u.rank /\ u.left <= t.left)

(* comparator *)
Top(t) ==
    /\ t \in queue
    /\ \A u \in queue : t.rank < u.rank \/ (t.rank = u.rank /\ t.left <= u.left)

(* Mutant: only an emptied symbol makes a tuple stale. *)
MutStale(t) ==
    \/ symbols[t.left].text = << >> \/ symbols[t.right].text = << >>

Stale(t) ==
    \/ symbols[t.left].text = << >> \/ symbols[t.right].text = << >>
    \/ symbols[t.left].text \o symbols[t.right].text # t.text

(* Mutant: the loop goes on before it has taken the tuple from the queue.  *)
MutSkipTuple(t) == phase = "merge" /\ Top(t) /\ Stale(t) /\ UNCHANGED vars

SkipTuple(t) ==
    /\ phase = "merge" /\ Top(t) /\ Stale(t)
    /\ queue' = queue \ {t}
    /\ UNCHANGED <<merges, text, todo, symbols, out, tokens, phase>>

(* Mutant: the neighbour on the right keeps its link to the emptied symbol.*)
MutMerged(l, r) ==
    [i \in DOMAIN symbols |->
        IF i = l THEN [text |-> symbols[l].text \o symbols[r].text,
                       prev |-> symbols[l].prev, next |-> symbols[r].next]
        ELSE IF i = r THEN [symbols[r] EXCEPT !.text = << >>]
        ELSE symbols[i]]

Merged(l, r) ==
    [i \in DOMAIN symbols |->
        IF i = l THEN [text |-> symbols[l].text \o symbols[r].text,
                       prev |-> symbols[l].prev, next |-> symbols[r].next]
        ELSE IF i = r THEN [symbols[r] EXCEPT !.text = << >>]
        ELSE IF i = symbols[r].next THEN [symbols[i] EXCEPT !.prev = l]
        ELSE symbols[i]]

(* merge_tuple, one tuple that is up to date. *)
MergeTuple(t) ==
    /\ phase = "merge" /\ Top(t) /\ ~ Stale(t)
    /\ symbols' = Merged(t.left, t.right)
    /\ queue' = (queue \ {t})
                \union AddTuple(symbols', symbols[t.left].prev, t.left)
                \union AddTuple(symbols', t.left, symbols[t.right].next)
    /\ UNCHANGED <<merges, text, todo, out, tokens, phase>>

(* The texts of the symbols that are not empty, in their order.            *)
Live == Concat([i \in DOMAIN symbols |->
                   IF symbols[i].text = << >> THEN << >> ELSE <<symbols[i].text>>])

(* update_symbol *)
UpdateSymbol ==
    /\ phase = "merge" /\ queue = {}
    /\ out' = out \o Live
    /\ phase' = "word"
    /\ UNCHANGED <<merges, text, todo, symbols, queue, tokens>>

(* Mutant: a string that is no token is skipped. *)
MutTokensOf(string) == IF string \in Vocab THEN <<string>> ELSE << >>

(* A string that is no token is given byte by byte, as far as a byte is a  *)
(* token of its own; the bytes of a wide character are not.                *)
TokensOf(string) ==
    IF string \in Vocab THEN <<string>>
    ELSE Concat([i \in DOMAIN string |->
                    IF string[i] \notin Wide /\ <<string[i]>> \in Vocab
                    THEN <<<<string[i]>>>> ELSE << >>])

(* generate_token *)
GenerateToken ==
    /\ phase = "word" /\ todo = << >>
    /\ tokens' = Concat([i \in DOMAIN out |-> TokensOf(out[i])])
    /\ phase' = "idle"
    /\ UNCHANGED <<merges, text, todo, symbols, queue, out>>

Work ==
    \/ StartWord
    \/ \E t \in queue : SkipTuple(t) \/ MergeTuple(t)
    \/ UpdateSymbol
    \/ GenerateToken

Next == (\E t \in Texts : Tokenize(t)) \/ Work

Spec == Init /\ [][Next]_vars

(* The caller of tokenize does nothing else before it returns.             *)
FairSpec == Spec /\ WF_vars(Work)

-----------------------------------------------------------------------------
Index == DOMAIN symbols
Full(i) == symbols[i].text # << >>

(* Links and tuples of the work queue lead to symbols that exist; ranks are *)
(* places in the list of merges; only tokens are given out.                *)
TypeOK ==
    /\ merges \in Tables /\ text \in Texts \union {<< >>} /\ todo \in Seq(Strings)
    /\ symbols \in Seq([text : Strings, prev : Nat, next : Nat])
    /\ \A i \in Index : symbols[i].prev \in Index \union {0} /\ symbols[i].next \in Index \union {0}
    /\ \A t \in queue : /\ t.left \in Index /\ t.right \in Index /\ t.left < t.right
                        /\ t.text \in Strings /\ t.rank \in DOMAIN merges
    /\ out \in Seq(Strings) /\ tokens \in Seq(Vocab)
    /\ phase \in {"idle", "word", "merge"}

(* The links of the symbols that are not empty lead to the nearest such    *)
(* symbol on either side, over all that has been emptied.                  *)
LinksSound ==
    \A i \in Index : Full(i) =>
        /\ \A j \in Index : i < j /\ Full(j) =>
               symbols[i].next # 0 /\ symbols[i].next <= j
        /\ symbols[i].next # 0 => /\ symbols[i].next > i /\ Full(symbols[i].next)
                                  /\ symbols[symbols[i].next].prev = i

(* Among everything the queue holds, a tuple is out of date or the pair it *)
(* merges are neighbours that have this rank now; and no pair of neigh-    *)
(* bours that has a rank is missing.                                       *)
QueueExact ==
    phase = "merge" =>
        /\ \A t \in queue : Stale(t) \/
               /\ symbols[t.left].next = t.right
               /\ t.rank \in Ranks(symbols[t.left].text, symbols[t.right].text)
        /\ \A i \in Index : Full(i) => AddTuple(symbols, i, symbols[i].next) \subseteq queue

(* The queue merges what the definition of byte pair encoding merges, in   *)
(* the same order, and stops when it stops.                                *)
Reference == INSTANCE BPE WITH done <- out,
                 parts <- IF phase = "merge" THEN Live ELSE << >>
ImplementsBPE == Reference!Spec

(* If every character is a token, and every merge yields a token or has no *)
(* wide character, the tokens spell the text: no character is lost.        *)
TokensSpell ==
    (/\ phase = "idle" /\ \A c \in Chars : <<c>> \in Vocab
     /\ \A i \in DOMAIN merges :
            LET string == merges[i][1] \o merges[i][2] IN
            string \in Vocab \/ \A k \in DOMAIN string : string[k] \notin Wide)
    => Concat(tokens) = Concat(text)

(* Every call of tokenize returns. *)
TokenizeReturns == []<>(phase = "idle")
=============================================================================
