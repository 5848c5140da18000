----------------------------- MODULE TokenizerProofs -----------------------------
(***************************************************************************)
(* For every text, every list of merges and every vocabulary, the links of *)
(* the symbols and the content of the work queue are right (IInv), tokens  *)
(* spell the text (SInv), and the queue computes byte pair encoding.       *)
(*                                                                         *)
(* A tuple in the queue that is out of date must be known as such by the   *)
(* texts alone.  It is, because symbols only grow or become empty: unless  *)
(* one of the two is empty, they are the neighbours they were when the     *)
(* tuple was entered, or together longer than the text of the tuple.       *)
(***************************************************************************)
EXTENDS Tokenizer, WellFoundedInduction, TLAPS

Symbol  == [text : Strings, prev : Nat, next : Nat]
Symbols == Seq(Symbol)
Tuple   == [left : Nat, right : Nat, text : Strings, rank : Nat]

FullIn(s, i) == s[i].text # << >>

NextSound(s, i) == s[i].next # 0 =>
    /\ s[i].next \in DOMAIN s /\ i < s[i].next
    /\ FullIn(s, s[i].next) /\ s[s[i].next].prev = i

PrevSound(s, i) == s[i].prev # 0 =>
    /\ s[i].prev \in DOMAIN s /\ s[i].prev < i
    /\ FullIn(s, s[i].prev) /\ s[s[i].prev].next = i

Nearest(s, i) ==
    \A j \in DOMAIN s : i < j /\ FullIn(s, j) => s[i].next # 0 /\ s[i].next <= j

Linked(s) ==
    \A i \in DOMAIN s : FullIn(s, i) => NextSound(s, i) /\ PrevSound(s, i) /\ Nearest(s, i)

(* The tuple t merges neighbours, and its text and rank are theirs.        *)
Fresh(s, t) ==
    /\ s[t.left].next = t.right
    /\ s[t.left].text \o s[t.right].text = t.text
    /\ t.rank \in Ranks(s[t.left].text, s[t.right].text)

FreshOrLonger(s, t) ==
    FullIn(s, t.left) /\ FullIn(s, t.right) =>
        Fresh(s, t) \/ Len(t.text) < Len(s[t.left].text) + Len(s[t.right].text)

TupleSound(s, t) ==
    /\ t \in Tuple /\ t.left \in DOMAIN s /\ t.right \in DOMAIN s /\ t.left < t.right
    /\ FreshOrLonger(s, t)

Queued(s, q) ==
    \A i \in DOMAIN s : FullIn(s, i) => AddTuple(s, i, s[i].next) \subseteq q

IInv ==
    /\ merges \in Tables /\ todo \in Seq(Strings) /\ symbols \in Symbols
    /\ Linked(symbols)
    /\ phase = "merge" => /\ \A t \in queue : TupleSound(symbols, t)
                          /\ Queued(symbols, queue)
    /\ phase # "merge" => queue = {}

-----------------------------------------------------------------------------
(* A symbol is what it says.                                               *)
LEMMA SymbolFields ==
    ASSUME NEW s \in Symbols, NEW i \in DOMAIN s
    PROVE  /\ DOMAIN s = 1 .. Len(s) /\ Len(s) \in Nat /\ i \in Nat \ {0}
           /\ s[i] \in Symbol /\ s[i].text \in Strings /\ s[i].prev \in Nat /\ s[i].next \in Nat
           /\ Len(s[i].text) \in Nat /\ (FullIn(s, i) => Len(s[i].text) > 0)
<1>1. DOMAIN s = 1 .. Len(s) /\ Len(s) \in Nat /\ s[i] \in Symbol
  BY DEF Symbols
<1>2. s[i].text \in Strings /\ s[i].prev \in Nat /\ s[i].next \in Nat
  BY <1>1 DEF Symbol
<1>3. Len(s[i].text) \in Nat /\ (s[i].text # << >> => Len(s[i].text) > 0)
  BY <1>2 DEF Strings
<1> QED
  BY <1>1, <1>2, <1>3 DEF FullIn

(* Every tuple that is entered for a pair has the text and a rank of it.   *)
TupleFor(s, l, r, t) ==
    /\ t \in Tuple /\ t.left = l /\ t.right = r
    /\ t.text = s[l].text \o s[r].text /\ t.rank \in Ranks(s[l].text, s[r].text)

LEMMA Entered ==
    ASSUME merges \in Tables, NEW s \in Symbols, NEW l \in DOMAIN s, NEW r \in DOMAIN s,
           NEW t \in AddTuple(s, l, r)
    PROVE  TupleFor(s, l, r, t)
<1>1. l # 0 /\ r # 0 /\ l \in Nat /\ r \in Nat
      /\ s[l].text \in Strings /\ s[r].text \in Strings
  BY SymbolFields
<1>2. PICK i \in Ranks(s[l].text, s[r].text) :
          t = [left |-> l, right |-> r, text |-> s[l].text \o s[r].text, rank |-> i]
  BY <1>1 DEF AddTuple
<1>3. i \in Nat
  BY <1>2, TablesAssumption DEF Ranks
<1>4. s[l].text \o s[r].text \in Strings
  BY <1>1 DEF Strings
<1> QED
  BY <1>1, <1>2, <1>3, <1>4 DEF Tuple, TupleFor

(* A pair that is entered while its symbols are neighbours is sound.       *)
LEMMA EnteredSound ==
    ASSUME merges \in Tables, NEW s \in Symbols, Linked(s),
           NEW l \in DOMAIN s, FullIn(s, l), NEW r, r = s[l].next
    PROVE  \A t \in AddTuple(s, l, r) : TupleSound(s, t)
<1> SUFFICES ASSUME NEW t \in AddTuple(s, l, r) PROVE TupleSound(s, t)
  OBVIOUS
<1>1. r # 0
  BY DEF AddTuple
<1>2. r \in DOMAIN s /\ l < r
  BY <1>1 DEF Linked, NextSound
<1>3. TupleFor(s, l, r, t)
  BY <1>2, Entered
<1>4. Fresh(s, t)
  BY <1>3 DEF TupleFor, Fresh
<1> QED
  BY <1>2, <1>3, <1>4 DEF TupleFor, TupleSound, FreshOrLonger

(* The symbols of a new word are linked to their neighbours.               *)
LEMMA Parsed ==
    ASSUME NEW word \in Strings
    PROVE  /\ ParseSymbol(word) \in Symbols /\ Linked(ParseSymbol(word))
           /\ DOMAIN ParseSymbol(word) = DOMAIN word
           /\ \A i \in DOMAIN word :
                  /\ ParseSymbol(word)[i].prev = i - 1
                  /\ ParseSymbol(word)[i].next = IF i = Len(word) THEN 0 ELSE i + 1
                  /\ FullIn(ParseSymbol(word), i)
<1> DEFINE s == ParseSymbol(word)
<1>1. DOMAIN word = 1 .. Len(word) /\ Len(word) \in Nat
      /\ \A i \in DOMAIN word : word[i] \in Chars
  BY DEF Strings
<1>2. DOMAIN s = 1 .. Len(word)
  BY <1>1 DEF ParseSymbol
<1>3. ASSUME NEW i \in DOMAIN word
      PROVE  /\ s[i] = [text |-> <<word[i]>>, prev |-> i - 1,
                        next |-> IF i = Len(word) THEN 0 ELSE i + 1]
             /\ s[i].text = <<word[i]>> /\ s[i].prev = i - 1
             /\ s[i].next = IF i = Len(word) THEN 0 ELSE i + 1
  BY <1>3 DEF ParseSymbol
<1>4. ASSUME NEW i \in DOMAIN word
      PROVE  s[i] \in Symbol /\ FullIn(s, i)
  <2>0. word[i] \in Chars
    BY <1>1
  <2>1. <<word[i]>> \in Strings /\ <<word[i]>> # << >>
    <3> DEFINE c == word[i]
    <3> HIDE DEF c
    <3>1. <<c>> \in Strings /\ <<c>> # << >>
      BY <2>0 DEF Strings, c
    <3> QED
      BY <3>1 DEF c
  <2>2. i - 1 \in Nat /\ (IF i = Len(word) THEN 0 ELSE i + 1) \in Nat
    BY <1>1
  <2>3. [text |-> <<word[i]>>, prev |-> i - 1,
         next |-> IF i = Len(word) THEN 0 ELSE i + 1] \in Symbol
    BY <2>1, <2>2 DEF Symbol
  <2> HIDE DEF s
  <2>4. s[i] \in Symbol
    BY <1>3, <2>3
  <2>5. FullIn(s, i)
    BY <1>3, <2>1 DEF FullIn
  <2> QED
    BY <2>4, <2>5
<1>5. s \in Symbols
  <2>1. s \in [1 .. Len(word) -> Symbol]
    <3>1. s = [i \in DOMAIN word |-> s[i]]
      BY DEF ParseSymbol
    <3> HIDE DEF s
    <3> QED
      BY <3>1, <1>1, <1>4
  <2> HIDE DEF s
  <2> QED
    BY <2>1, <1>1 DEF Symbols
<1> HIDE DEF s
<1>6. Linked(s)
  <2>1. ASSUME NEW i \in DOMAIN s, FullIn(s, i) PROVE NextSound(s, i)
    BY <1>1, <1>2, <1>3, <1>4 DEF NextSound
  <2>2. ASSUME NEW i \in DOMAIN s, FullIn(s, i) PROVE PrevSound(s, i)
    BY <1>1, <1>2, <1>3, <1>4 DEF PrevSound
  <2>3. ASSUME NEW i \in DOMAIN s, FullIn(s, i) PROVE Nearest(s, i)
    BY <1>1, <1>2, <1>3, <1>4 DEF Nearest
  <2> QED
    BY <2>1, <2>2, <2>3 DEF Linked
<1> QED
  BY <1>1, <1>2, <1>3, <1>4, <1>5, <1>6 DEF s

(* The tuples of a new word.                                               *)
LEMMA Generated ==
    ASSUME merges \in Tables, NEW word \in Strings, NEW s, s = ParseSymbol(word)
    PROVE  /\ \A t \in GenerateTuple(s) : TupleSound(s, t)
           /\ Queued(s, GenerateTuple(s))
<1>1. /\ s \in Symbols /\ Linked(s) /\ DOMAIN s = 1 .. Len(word) /\ Len(word) \in Nat
      /\ \A i \in DOMAIN s : FullIn(s, i) /\ s[i].next = IF i = Len(word) THEN 0 ELSE i + 1
  <2>1. DOMAIN word = 1 .. Len(word) /\ Len(word) \in Nat
    BY DEF Strings
  <2> QED
    BY <2>1, Parsed
<1>2. ASSUME NEW t \in GenerateTuple(s) PROVE TupleSound(s, t)
  <2>1. PICK i \in DOMAIN s \ {1} : t \in AddTuple(s, i - 1, i)
    BY <1>2 DEF GenerateTuple
  <2> DEFINE l == i - 1
  <2> HIDE DEF l
  <2>2. l \in DOMAIN s /\ FullIn(s, l) /\ i = s[l].next
    BY <1>1, <2>1 DEF l
  <2>3. t \in AddTuple(s, l, i)
    BY <2>1 DEF l
  <2> QED
    BY <1>1, <2>2, <2>3, EnteredSound
<1>3. ASSUME NEW i \in DOMAIN s PROVE AddTuple(s, i, s[i].next) \subseteq GenerateTuple(s)
  <2>1. CASE s[i].next = 0
    BY <2>1 DEF AddTuple
  <2>2. CASE s[i].next # 0
    <3> DEFINE k == i + 1
    <3>1. k \in DOMAIN s \ {1} /\ k - 1 = i /\ s[i].next = k
      BY <1>1, <2>2
    <3> HIDE DEF k
    <3>2. AddTuple(s, k - 1, k) \subseteq GenerateTuple(s)
      BY <3>1 DEF GenerateTuple
    <3> QED
      BY <3>1, <3>2
  <2> QED
    BY <2>1, <2>2
<1> QED
  BY <1>2, <1>3 DEF Queued

-----------------------------------------------------------------------------
(* What a merge of the neighbours l and r leaves in the symbols.           *)
MergeLeaves(n, l, r) ==
    /\ n \in Symbols /\ DOMAIN n = DOMAIN symbols
    /\ n[l].text = symbols[l].text \o symbols[r].text
    /\ n[l].prev = symbols[l].prev /\ n[l].next = symbols[r].next
    /\ n[r].text = << >>
    /\ \A i \in DOMAIN symbols : FullIn(n, i) <=> FullIn(symbols, i) /\ i # r
    /\ \A i \in DOMAIN symbols \ {l, r} :
           /\ n[i].text = symbols[i].text /\ n[i].next = symbols[i].next
           /\ n[i].prev = IF i = symbols[r].next THEN l ELSE symbols[i].prev

LEMMA MergedFields ==
    ASSUME symbols \in Symbols, Linked(symbols),
           NEW l \in DOMAIN symbols, NEW r \in DOMAIN symbols,
           FullIn(symbols, l), FullIn(symbols, r), symbols[l].next = r
    PROVE  MergeLeaves(Merged(l, r), l, r)
<1> DEFINE n == Merged(l, r)
<1>1. DOMAIN n = DOMAIN symbols /\ l # r
  BY SymbolFields DEF Merged, Linked, NextSound
<1>2. /\ n[l] = [text |-> symbols[l].text \o symbols[r].text,
                 prev |-> symbols[l].prev, next |-> symbols[r].next]
      /\ n[r] = [symbols[r] EXCEPT !.text = << >>]
      /\ \A i \in DOMAIN symbols \ {l, r} :
             n[i] = IF i = symbols[r].next THEN [symbols[i] EXCEPT !.prev = l] ELSE symbols[i]
  BY <1>1 DEF Merged
<1>3. \A i \in DOMAIN symbols :
          /\ i \in Nat \ {0} /\ symbols[i] \in Symbol /\ symbols[i].text \in Strings
          /\ symbols[i].prev \in Nat /\ symbols[i].next \in Nat
  BY SymbolFields
<1>4. symbols[l].text \o symbols[r].text \in Strings /\ << >> \in Strings
      /\ symbols[l].text \o symbols[r].text # << >>
  <2>1. symbols[l].text # << >>
    BY DEF FullIn
  <2> DEFINE x == symbols[l].text
             y == symbols[r].text
  <2> HIDE DEF x, y
  <2>2. x \in Seq(Chars) /\ y \in Seq(Chars) /\ x # << >>
    BY <1>3, <2>1 DEF Strings, x, y
  <2>3. x \o y \in Seq(Chars) /\ Len(x \o y) = Len(x) + Len(y) /\ Len(x) > 0 /\ Len(y) >= 0
    BY <2>2
  <2>4. x \o y # << >>
    BY <2>3
  <2> QED
    BY <2>3, <2>4 DEF Strings, x, y
<1> HIDE DEF n
<1>5. n[l] \in Symbol /\ n[r] \in Symbol
  <2>1. n[l] \in Symbol
    BY <1>2, <1>3, <1>4 DEF Symbol
  <2>2. n[r] \in Symbol
    BY <1>2, <1>3, <1>4 DEF Symbol
  <2> QED
    BY <2>1, <2>2
<1>6. ASSUME NEW i \in DOMAIN symbols \ {l, r}
      PROVE  /\ n[i] \in Symbol
             /\ n[i].text = symbols[i].text /\ n[i].next = symbols[i].next
             /\ n[i].prev = IF i = symbols[r].next THEN l ELSE symbols[i].prev
  <2>1. symbols[i] \in Symbol /\ l \in Nat
    BY <1>3
  <2>2. CASE i = symbols[r].next
    BY <1>2, <2>1, <2>2 DEF Symbol
  <2>3. CASE i # symbols[r].next
    BY <1>2, <2>1, <2>3 DEF Symbol
  <2> QED
    BY <2>2, <2>3
<1>7. n \in Symbols
  <2>1. n = [i \in DOMAIN symbols |-> n[i]]
    BY <1>1 DEF n, Merged
  <2>2. DOMAIN symbols = 1 .. Len(symbols) /\ Len(symbols) \in Nat
    BY DEF Symbols
  <2>3. n \in [1 .. Len(symbols) -> Symbol]
    BY <2>1, <2>2, <1>5, <1>6
  <2> QED
    BY <2>2, <2>3 DEF Symbols
<1>8. n[l].text = symbols[l].text \o symbols[r].text
      /\ n[l].prev = symbols[l].prev /\ n[l].next = symbols[r].next
  <2> DEFINE joined == symbols[l].text \o symbols[r].text
  <2>1. n[l] = [text |-> joined, prev |-> symbols[l].prev, next |-> symbols[r].next]
    BY <1>2
  <2> HIDE DEF joined
  <2>2. n[l].text = joined /\ n[l].prev = symbols[l].prev /\ n[l].next = symbols[r].next
    BY <2>1
  <2> QED
    BY <2>2 DEF joined
<1>9. n[r].text = << >>
  <2>1. symbols[r] \in Symbol
    BY <1>3
  <2> QED
    BY <1>2, <2>1 DEF Symbol
<1>10. \A i \in DOMAIN symbols : FullIn(n, i) <=> FullIn(symbols, i) /\ i # r
  <2>1. FullIn(n, l) /\ ~ FullIn(n, r)
    BY <1>4, <1>8, <1>9 DEF FullIn
  <2> QED
    BY <1>1, <1>6, <2>1 DEF FullIn
<1> QED
  BY <1>1, <1>6, <1>7, <1>8, <1>9, <1>10 DEF MergeLeaves, n

(* A merge keeps the links sound.                                          *)
LEMMA MergedLinked ==
    ASSUME symbols \in Symbols, Linked(symbols),
           NEW l \in DOMAIN symbols, NEW r \in DOMAIN symbols,
           FullIn(symbols, l), FullIn(symbols, r), symbols[l].next = r,
           NEW n, MergeLeaves(n, l, r)
    PROVE  Linked(n)
<1>1. \A i \in DOMAIN symbols :
          i \in Nat \ {0} /\ symbols[i].prev \in Nat /\ symbols[i].next \in Nat
  BY SymbolFields
<1>2. DOMAIN n = DOMAIN symbols /\ n[l].prev = symbols[l].prev /\ n[l].next = symbols[r].next
      /\ (\A i \in DOMAIN symbols : FullIn(n, i) <=> FullIn(symbols, i) /\ i # r)
      /\ \A i \in DOMAIN symbols \ {l, r} :
           /\ n[i].next = symbols[i].next
           /\ n[i].prev = IF i = symbols[r].next THEN l ELSE symbols[i].prev
  BY DEF MergeLeaves
<1>3. l < r /\ symbols[r].prev = l
  BY <1>1 DEF Linked, NextSound
<1>4. ASSUME NEW i \in DOMAIN symbols, FullIn(symbols, i)
      PROVE  NextSound(symbols, i) /\ PrevSound(symbols, i) /\ Nearest(symbols, i)
  BY <1>4 DEF Linked
<1>5. ASSUME NEW i \in DOMAIN n, FullIn(n, i) PROVE NextSound(n, i)
  <2>1. i \in DOMAIN symbols /\ FullIn(symbols, i) /\ i # r
    BY <1>2, <1>5
  <2>2. CASE i = l
    BY <1>1, <1>2, <1>3, <1>4, <2>1, <2>2 DEF NextSound
  <2>3. CASE i # l
    <3>1. n[i].next = symbols[i].next /\ symbols[i].next # r
      BY <1>2, <1>3, <1>4, <1>1, <2>1, <2>3 DEF NextSound
    <3>2. CASE symbols[i].next = l
      BY <1>1, <1>2, <1>3, <1>4, <2>1, <2>3, <3>1, <3>2 DEF NextSound
    <3>3. CASE symbols[i].next # l /\ symbols[i].next # 0
      <4> DEFINE k == symbols[i].next
      <4> HIDE DEF k
      <4>1. k \in DOMAIN symbols /\ i < k /\ FullIn(symbols, k) /\ symbols[k].prev = i
        BY <1>4, <2>1, <3>3 DEF NextSound, k
      <4>2. k # symbols[r].next
        BY <1>4, <1>1, <4>1, <2>1, <2>3 DEF NextSound
      <4>3. FullIn(n, k) /\ n[k].prev = i
        BY <1>2, <3>1, <3>3, <4>1, <4>2 DEF k
      <4> QED
        BY <1>2, <3>1, <4>1, <4>3 DEF NextSound, k
    <3> QED
      BY <3>1, <3>2, <3>3 DEF NextSound
  <2> QED
    BY <2>2, <2>3
<1>6. ASSUME NEW i \in DOMAIN n, FullIn(n, i) PROVE PrevSound(n, i)
  <2>1. i \in DOMAIN symbols /\ FullIn(symbols, i) /\ i # r
    BY <1>2, <1>6
  <2>2. CASE i = symbols[r].next
    BY <1>1, <1>2, <1>3, <1>4, <2>1, <2>2 DEF PrevSound, NextSound
  <2>3. CASE i # symbols[r].next
    <3>1. n[i].prev = symbols[i].prev
      BY <1>2, <2>1, <2>3
    <3>2. CASE symbols[i].prev # 0
      <4> DEFINE k == symbols[i].prev
      <4> HIDE DEF k
      <4>1. k \in DOMAIN symbols /\ k < i /\ FullIn(symbols, k) /\ symbols[k].next = i
        BY <1>4, <2>1, <3>2 DEF PrevSound, k
      <4>2. k # r /\ k # l
        BY <4>1, <2>1, <2>3
      <4>3. FullIn(n, k) /\ n[k].next = i
        BY <1>2, <4>1, <4>2
      <4> QED
        BY <1>2, <3>1, <4>1, <4>3 DEF PrevSound, k
    <3> QED
      BY <3>1, <3>2 DEF PrevSound
  <2> QED
    BY <2>2, <2>3
<1>7. ASSUME NEW i \in DOMAIN n, FullIn(n, i) PROVE Nearest(n, i)
  <2>1. i \in DOMAIN symbols /\ FullIn(symbols, i) /\ i # r
    BY <1>2, <1>7
  <2>2. CASE i = l
    <3>1. ASSUME NEW j \in DOMAIN symbols, i < j, FullIn(n, j)
          PROVE  n[i].next # 0 /\ n[i].next <= j
      <4>1. FullIn(symbols, j) /\ j # r
        BY <1>2, <3>1
      <4>2. r <= j
        BY <1>4, <2>1, <2>2, <3>1, <4>1 DEF Nearest
      <4>3. r < j
        BY <1>1, <4>1, <4>2
      <4> QED
        BY <1>2, <1>4, <2>2, <4>1, <4>3 DEF Nearest
    <3> QED
      BY <1>2, <3>1 DEF Nearest
  <2>3. CASE i # l
    BY <1>2, <1>4, <2>1, <2>3 DEF Nearest
  <2> QED
    BY <2>2, <2>3
<1> QED
  BY <1>5, <1>6, <1>7 DEF Linked

(* What is in the queue stays sound: a tuple of a symbol that took part is *)
(* out of date from now on, any other one is as it was.                    *)
LEMMA MergedTuples ==
    ASSUME symbols \in Symbols, Linked(symbols),
           NEW l \in DOMAIN symbols, NEW r \in DOMAIN symbols,
           FullIn(symbols, l), FullIn(symbols, r), symbols[l].next = r,
           NEW n, MergeLeaves(n, l, r),
           NEW t, TupleSound(symbols, t)
    PROVE  TupleSound(n, t)
<1> DEFINE i == t.left
           j == t.right
<1>1. /\ t \in Tuple /\ i \in DOMAIN symbols /\ j \in DOMAIN symbols /\ i < j
      /\ FreshOrLonger(symbols, t) /\ DOMAIN n = DOMAIN symbols
  BY DEF TupleSound, MergeLeaves
<1>2. FreshOrLonger(n, t)
  <2> SUFFICES ASSUME FullIn(n, i), FullIn(n, j)
               PROVE  Fresh(n, t) \/ Len(t.text) < Len(n[i].text) + Len(n[j].text)
    BY DEF FreshOrLonger
  <2>1. FullIn(symbols, i) /\ FullIn(symbols, j) /\ i # r /\ j # r
    BY <1>1 DEF MergeLeaves
  <2>2. /\ symbols[i].text \in Seq(Chars) /\ symbols[j].text \in Seq(Chars)
        /\ symbols[l].text \in Seq(Chars) /\ symbols[r].text \in Seq(Chars)
        /\ Len(symbols[r].text) > 0 /\ t.text \in Seq(Chars) /\ i # j
    BY <1>1, SymbolFields DEF Strings, Tuple
  <2>3. Len(t.text) <= Len(symbols[i].text) + Len(symbols[j].text)
    <3>1. CASE Fresh(symbols, t)
      <4>1. t.text = symbols[i].text \o symbols[j].text
        BY <3>1 DEF Fresh
      <4> DEFINE x == symbols[i].text
                 y == symbols[j].text
      <4> HIDE DEF x, y
      <4>2. x \in Seq(Chars) /\ y \in Seq(Chars)
        BY <2>2 DEF x, y
      <4>3. Len(x \o y) = Len(x) + Len(y)
        BY <4>2
      <4> QED
        BY <2>2, <4>1, <4>3 DEF x, y
    <3>2. CASE Len(t.text) < Len(symbols[i].text) + Len(symbols[j].text)
      <4> DEFINE a == Len(t.text)
                 b == Len(symbols[i].text)
                 c == Len(symbols[j].text)
      <4>1. a \in Nat /\ b \in Nat /\ c \in Nat
        BY <2>2
      <4> HIDE DEF a, b, c
      <4>2. a < b + c => a <= b + c
        BY <4>1
      <4> QED
        BY <3>2, <4>2 DEF a, b, c
    <3> QED
      BY <1>1, <2>1, <3>1, <3>2 DEF FreshOrLonger
  <2>4. Len(n[l].text) > Len(symbols[l].text)
    <3> DEFINE x == symbols[l].text
               y == symbols[r].text
    <3>1. n[l].text = x \o y
      BY DEF MergeLeaves
    <3> HIDE DEF x, y
    <3>2. x \in Seq(Chars) /\ y \in Seq(Chars) /\ Len(y) > 0
      BY <2>2 DEF x, y
    <3>3. Len(x \o y) = Len(x) + Len(y) /\ Len(x) \in Nat /\ Len(y) \in Nat
      BY <3>2
    <3>4. Len(x \o y) > Len(x)
      BY <3>2, <3>3
    <3> QED
      BY <3>1, <3>4 DEF x
  <2>5. \A k \in DOMAIN symbols \ {l, r} :
            n[k].text = symbols[k].text /\ n[k].next = symbols[k].next
    BY DEF MergeLeaves
  <2>6. /\ Len(symbols[i].text) \in Nat /\ Len(symbols[j].text) \in Nat /\ Len(t.text) \in Nat
        /\ Len(symbols[l].text) \in Nat /\ Len(n[l].text) \in Nat
    <3>1. l \in DOMAIN n /\ n \in Symbols
      BY <1>1 DEF MergeLeaves
    <3>2. Len(n[l].text) \in Nat
      BY <3>1, SymbolFields
    <3> QED
      BY <2>2, <3>2
  <2> HIDE DEF i, j
  <2> DEFINE old(k) == Len(symbols[k].text)
             new(k) == Len(n[k].text)
             len    == Len(t.text)
  <2>a. /\ old(i) \in Nat /\ old(j) \in Nat /\ old(l) \in Nat /\ new(l) \in Nat /\ len \in Nat
        /\ len <= old(i) + old(j) /\ new(l) > old(l)
    BY <2>3, <2>4, <2>6
  <2>b. \A k \in DOMAIN symbols \ {l, r} : new(k) = old(k)
    BY <2>5
  <2> HIDE DEF old, new, len
  <2>7. CASE i = l
    <3>1. new(j) = old(j)
      BY <1>1, <2>1, <2>2, <2>7, <2>b
    <3>2. len < new(i) + new(j)
      BY <2>7, <3>1, <2>a
    <3> QED
      BY <3>2 DEF new, len
  <2>8. CASE j = l
    <3>1. new(i) = old(i)
      BY <1>1, <2>1, <2>2, <2>8, <2>b
    <3>2. len < new(i) + new(j)
      BY <2>8, <3>1, <2>a
    <3> QED
      BY <3>2 DEF new, len
  <2>9. CASE i # l /\ j # l
    <3>1. n[i].text = symbols[i].text /\ n[i].next = symbols[i].next
          /\ n[j].text = symbols[j].text
      BY <1>1, <2>1, <2>5, <2>9
    <3> QED
      BY <2>1, <1>1, <3>1 DEF FreshOrLonger, Fresh, i, j
  <2> QED
    BY <2>7, <2>8, <2>9
<1> QED
  BY <1>1, <1>2 DEF TupleSound

(* No pair of neighbours with a rank is missing in the queue.              *)
LEMMA MergedQueued ==
    ASSUME symbols \in Symbols, Linked(symbols),
           NEW l \in DOMAIN symbols, NEW r \in DOMAIN symbols,
           FullIn(symbols, l), FullIn(symbols, r), symbols[l].next = r,
           NEW n, MergeLeaves(n, l, r), merges \in Tables,
           NEW q, Queued(symbols, q), NEW t, t.left = l,
           NEW rest, q \ {t} \subseteq rest,
           AddTuple(n, symbols[l].prev, l) \subseteq rest,
           AddTuple(n, l, symbols[r].next) \subseteq rest
    PROVE  Queued(n, rest)
<1> SUFFICES ASSUME NEW i \in DOMAIN n, FullIn(n, i)
             PROVE  AddTuple(n, i, n[i].next) \subseteq rest
  BY DEF Queued
<1>1. i \in DOMAIN symbols /\ FullIn(symbols, i) /\ i # r /\ DOMAIN n = DOMAIN symbols
  BY DEF MergeLeaves
<1>2. CASE i = l
  BY <1>2 DEF MergeLeaves
<1>3. CASE i # l
  <2> DEFINE k == symbols[i].next
  <2>1. n[i].next = k /\ n[i].text = symbols[i].text
    BY <1>1, <1>3 DEF MergeLeaves
  <2>2. k # 0 => k \in DOMAIN symbols /\ symbols[k].prev = i /\ FullIn(symbols, k)
    BY <1>1 DEF Linked, NextSound
  <2>3. AddTuple(symbols, i, k) \subseteq q
    BY <1>1 DEF Queued
  <2>4. l # 0 /\ r # 0 /\ symbols[r].prev = l
    BY SymbolFields DEF Linked, NextSound
  <2> HIDE DEF k
  <2>5. CASE k = l
    <3>1. symbols[l].prev = i
      BY <2>2, <2>4, <2>5
    <3> QED
      BY <2>1, <2>5, <3>1
  <2>6. CASE k = 0
    BY <2>1, <2>6 DEF AddTuple
  <2>7. CASE k # l /\ k # 0
    <3>1. k # r
      BY <1>3, <2>2, <2>4
    <3>2. n[k].text = symbols[k].text
      BY <2>2, <2>7, <3>1 DEF MergeLeaves
    <3>3. AddTuple(n, i, k) = AddTuple(symbols, i, k)
      BY <2>1, <3>2 DEF AddTuple
    <3>4. \A x \in AddTuple(symbols, i, k) : x.left = i
      <4> SUFFICES ASSUME NEW x \in AddTuple(symbols, i, k) PROVE x.left = i
        OBVIOUS
      <4>1. TupleFor(symbols, i, k, x)
        BY <1>1, <2>2, <2>7, Entered
      <4> QED
        BY <4>1 DEF TupleFor
    <3>5. AddTuple(symbols, i, k) \subseteq q \ {t}
      BY <1>3, <2>3, <3>4
    <3> QED
      BY <2>1, <3>3, <3>5
  <2> QED
    BY <2>5, <2>6, <2>7
<1> QED
  BY <1>2, <1>3

-----------------------------------------------------------------------------
LEMMA InitInvariant == Init => IInv
<1> SUFFICES ASSUME Init PROVE IInv
  OBVIOUS
<1>1. symbols = << >> /\ todo = << >> /\ queue = {} /\ phase = "idle" /\ merges \in Tables
  BY DEF Init
<1>2. symbols \in Symbols /\ todo \in Seq(Strings) /\ DOMAIN symbols = {}
  BY <1>1 DEF Symbols
<1> QED
  BY <1>1, <1>2 DEF IInv, Linked

(* Of the variables, only the list of merges tells which tuples are sound. *)
LEMMA SameTuples ==
    ASSUME merges' = merges, NEW n, symbols' = n, NEW q, queue' = q,
           \A u \in q : TupleSound(n, u)
    PROVE  \A u \in queue' : TupleSound(symbols, u)'
<1> SUFFICES ASSUME NEW u \in q PROVE TupleSound(symbols, u)'
  OBVIOUS
<1>1. TupleSound(n, u)
  OBVIOUS
<1>2. Ranks(symbols[u.left].text, symbols[u.right].text)' = Ranks(n[u.left].text, n[u.right].text)
  BY DEF Ranks
<1>3. Fresh(n, u) => Fresh(symbols, u)'
  BY <1>2 DEF Fresh
<1>4. FreshOrLonger(n, u) => FreshOrLonger(symbols, u)'
  BY <1>3 DEF FreshOrLonger, FullIn
<1> QED
  BY <1>1, <1>4 DEF TupleSound

LEMMA SameQueued ==
    ASSUME merges' = merges, NEW n, symbols' = n, NEW q, queue' = q, Queued(n, q)
    PROVE  Queued(symbols, queue)'
<1> SUFFICES ASSUME NEW i \in DOMAIN n, FullIn(n, i)
             PROVE  AddTuple(symbols, i, symbols[i].next)' \subseteq q
  BY DEF Queued, FullIn
<1>1. AddTuple(n, i, n[i].next) \subseteq q
  BY DEF Queued
<1>2. Ranks(symbols[i].text, symbols[symbols[i].next].text)'
          = Ranks(n[i].text, n[n[i].next].text)
  BY DEF Ranks
<1>3. AddTuple(symbols, i, symbols[i].next)' = AddTuple(n, i, n[i].next)
  BY <1>2 DEF AddTuple
<1> QED
  BY <1>1, <1>3

LEMMA MergeStep ==
    ASSUME IInv, NEW t \in queue, MergeTuple(t)
    PROVE  IInv'
<1> DEFINE l == t.left
           r == t.right
           n == Merged(l, r)
<1>1. /\ phase = "merge" /\ ~ Stale(t) /\ symbols' = n /\ phase' = phase
      /\ queue' = (queue \ {t}) \union AddTuple(n, symbols[l].prev, l)
                                \union AddTuple(n, l, symbols[r].next)
      /\ merges' = merges /\ todo' = todo
  BY DEF MergeTuple
<1>2. /\ merges \in Tables /\ todo \in Seq(Strings) /\ symbols \in Symbols /\ Linked(symbols)
      /\ (\A u \in queue : TupleSound(symbols, u)) /\ Queued(symbols, queue)
  BY <1>1 DEF IInv
<1>3. t \in Tuple /\ l \in DOMAIN symbols /\ r \in DOMAIN symbols /\ FreshOrLonger(symbols, t)
  BY <1>2 DEF TupleSound
<1>4. FullIn(symbols, l) /\ FullIn(symbols, r)
      /\ symbols[l].text \o symbols[r].text = t.text
  BY <1>1 DEF Stale, FullIn
<1>5. symbols[l].next = r
  <2> DEFINE x == symbols[l].text
             y == symbols[r].text
  <2>1. x \in Seq(Chars) /\ y \in Seq(Chars)
    BY <1>2, <1>3, SymbolFields DEF Strings
  <2>2. t.text = x \o y
    BY <1>4
  <2> HIDE DEF x, y
  <2>3. Len(x \o y) = Len(x) + Len(y) /\ Len(x) \in Nat /\ Len(y) \in Nat
    BY <2>1
  <2>4. ~ Len(t.text) < Len(x) + Len(y)
    BY <2>2, <2>3
  <2> QED
    BY <1>3, <1>4, <2>4 DEF FreshOrLonger, Fresh, x, y
<1> HIDE DEF n
<1>6. MergeLeaves(n, l, r)
  BY <1>2, <1>3, <1>4, <1>5, MergedFields DEF n
<1>7. n \in Symbols /\ Linked(n) /\ DOMAIN n = DOMAIN symbols
  BY <1>2, <1>3, <1>4, <1>5, <1>6, MergedLinked DEF MergeLeaves
<1>8. ASSUME NEW u \in queue' PROVE TupleSound(n, u)
  <2>1. CASE u \in queue
    <3>1. TupleSound(symbols, u)
      BY <1>2, <2>1
    <3> QED
      BY <1>2, <1>3, <1>4, <1>5, <1>6, <3>1, MergedTuples
  <2>2. CASE u \in AddTuple(n, symbols[l].prev, l)
    <3> DEFINE k == symbols[l].prev
    <3>1. k # 0
      BY <2>2 DEF AddTuple
    <3>2. k \in DOMAIN symbols /\ k < l /\ FullIn(symbols, k) /\ symbols[k].next = l
      BY <1>2, <1>3, <1>4, <3>1 DEF Linked, PrevSound
    <3>3. l < r
      BY <1>2, <1>3 DEF TupleSound
    <3> HIDE DEF k, l, r
    <3>4. k # l /\ k # r
      BY <1>2, <1>3, <3>2, <3>3, SymbolFields
    <3>5. k \in DOMAIN n /\ FullIn(n, k) /\ n[k].next = l
      BY <1>6, <1>7, <3>2, <3>4 DEF MergeLeaves
    <3>6. u \in AddTuple(n, k, l)
      BY <2>2 DEF k
    <3> QED
      BY <1>2, <1>7, <3>5, <3>6, EnteredSound
  <2>3. CASE u \in AddTuple(n, l, symbols[r].next)
    <3>1. l # r
      BY <1>2, <1>3, SymbolFields DEF TupleSound
    <3>2. FullIn(n, l) /\ n[l].next = symbols[r].next /\ l \in DOMAIN n
      BY <1>3, <1>4, <1>6, <1>7, <3>1 DEF MergeLeaves
    <3> HIDE DEF l, r
    <3> QED
      BY <1>2, <1>7, <2>3, <3>2, EnteredSound
  <2> QED
    BY <1>1, <2>1, <2>2, <2>3
<1>9. Queued(n, queue')
  <2> HIDE DEF r
  <2>1. /\ queue \ {t} \subseteq queue' /\ AddTuple(n, symbols[l].prev, l) \subseteq queue'
        /\ AddTuple(n, l, symbols[r].next) \subseteq queue'
    BY <1>1
  <2>2. t.left = l
    OBVIOUS
  <2> HIDE DEF l
  <2> QED
    BY <1>2, <1>3, <1>4, <1>5, <1>6, <2>1, <2>2, MergedQueued
<1>10. Queued(symbols, queue)' /\ \A u \in queue' : TupleSound(symbols, u)'
  BY <1>1, <1>8, <1>9, SameTuples, SameQueued
<1>11. Linked(symbols)'
  BY <1>1, <1>7 DEF Linked, NextSound, PrevSound, Nearest, FullIn
<1> QED
  BY <1>1, <1>2, <1>7, <1>10, <1>11 DEF IInv

LEMMA SkipStep ==
    ASSUME IInv, NEW t \in queue, SkipTuple(t)
    PROVE  IInv'
<1>1. /\ phase = "merge" /\ Stale(t) /\ queue' = queue \ {t} /\ phase' = phase
      /\ merges' = merges /\ todo' = todo /\ symbols' = symbols
  BY DEF SkipTuple
<1>2. /\ merges \in Tables /\ todo \in Seq(Strings) /\ symbols \in Symbols /\ Linked(symbols)
      /\ (\A u \in queue : TupleSound(symbols, u)) /\ Queued(symbols, queue)
  BY <1>1 DEF IInv
<1>3. ASSUME NEW i \in DOMAIN symbols, FullIn(symbols, i)
      PROVE  t \notin AddTuple(symbols, i, symbols[i].next)
  <2> SUFFICES ASSUME t \in AddTuple(symbols, i, symbols[i].next) PROVE FALSE
    OBVIOUS
  <2> DEFINE k == symbols[i].next
  <2>1. k # 0
    BY DEF AddTuple
  <2>2. k \in DOMAIN symbols /\ FullIn(symbols, k)
    BY <1>2, <1>3, <2>1 DEF Linked, NextSound
  <2> HIDE DEF k
  <2>3. TupleFor(symbols, i, k, t)
    <3>1. t \in AddTuple(symbols, i, k)
      BY DEF k
    <3> QED
      BY <1>2, <2>2, <3>1, Entered
  <2> QED
    BY <1>1, <1>3, <2>2, <2>3 DEF TupleFor, Stale, FullIn
<1>4. Queued(symbols, queue')
  BY <1>1, <1>2, <1>3 DEF Queued
<1>5. Queued(symbols, queue)' /\ \A u \in queue' : TupleSound(symbols, u)'
  <2>1. \A u \in queue' : TupleSound(symbols, u)
    BY <1>1, <1>2
  <2> QED
    BY <1>1, <1>4, <2>1, SameTuples, SameQueued
<1> QED
  BY <1>1, <1>2, <1>5 DEF IInv

LEMMA StartStep ==
    ASSUME IInv, StartWord
    PROVE  IInv'
<1>1. /\ phase = "word" /\ todo # << >> /\ symbols' = ParseSymbol(Head(todo))
      /\ queue' = queue \union GenerateTuple(symbols') /\ todo' = Tail(todo)
      /\ phase' = "merge" /\ merges' = merges
  BY DEF StartWord
<1>2. merges \in Tables /\ todo \in Seq(Strings) /\ queue = {}
  BY <1>1 DEF IInv
<1>3. Head(todo) \in Strings /\ Tail(todo) \in Seq(Strings)
  BY <1>1, <1>2
<1> DEFINE s == symbols'
<1>4. s \in Symbols /\ Linked(s)
  BY <1>1, <1>3, Parsed
<1>5. (\A t \in GenerateTuple(s) : TupleSound(s, t)) /\ Queued(s, GenerateTuple(s))
  BY <1>1, <1>2, <1>3, Generated
<1>6. queue' = GenerateTuple(s)
  BY <1>1, <1>2
<1> HIDE DEF s
<1>7. symbols' = s
  BY DEF s
<1>8. Queued(symbols, queue)' /\ \A u \in queue' : TupleSound(symbols, u)'
  BY <1>1, <1>5, <1>6, <1>7, SameTuples, SameQueued
<1> QED
  BY <1>1, <1>2, <1>3, <1>4, <1>7, <1>8 DEF IInv

LEMMA Induction == IInv /\ [Next]_vars => IInv'
<1> SUFFICES ASSUME IInv, [Next]_vars PROVE IInv'
  OBVIOUS
<1>1. /\ merges \in Tables /\ todo \in Seq(Strings) /\ symbols \in Symbols /\ Linked(symbols)
      /\ (phase # "merge" => queue = {})
  BY DEF IInv
<1>2. ASSUME NEW t \in Texts, Tokenize(t) PROVE IInv'
  <2>1. t \in Seq(Strings)
    BY TextsAssumption
  <2> QED
    BY <1>1, <1>2, <2>1 DEF IInv, Tokenize
<1>3. CASE StartWord
  BY <1>3, StartStep
<1>4. ASSUME NEW t \in queue, SkipTuple(t) \/ MergeTuple(t) PROVE IInv'
  BY <1>4, SkipStep, MergeStep
<1>5. CASE UpdateSymbol
  BY <1>1, <1>5 DEF IInv, UpdateSymbol
<1>6. CASE GenerateToken
  BY <1>1, <1>6 DEF IInv, GenerateToken
<1>7. CASE UNCHANGED vars
  <2>1. merges' = merges /\ todo' = todo /\ symbols' = symbols /\ queue' = queue
        /\ phase' = phase
    BY <1>7 DEF vars
  <2>2. CASE phase = "merge"
    <3>1. Queued(symbols, queue)' /\ \A u \in queue' : TupleSound(symbols, u)'
      BY <2>1, <2>2, SameTuples, SameQueued DEF IInv
    <3> QED
      BY <1>1, <2>1, <2>2, <3>1 DEF IInv
  <2>3. CASE phase # "merge"
    BY <1>1, <2>1, <2>3 DEF IInv
  <2> QED
    BY <2>2, <2>3
<1> QED
  BY <1>2, <1>3, <1>4, <1>5, <1>6, <1>7 DEF Next, Work

LEMMA Invariant == Spec => []IInv
<1> QED
  BY InitInvariant, Induction, PTL DEF Spec

(* Between any two merges the links of the symbols that are left lead to   *)
(* the nearest ones, there and back.                                       *)
THEOREM LinksHold == Spec => []LinksSound
<1>1. IInv => LinksSound
  <2> SUFFICES ASSUME IInv, NEW i \in DOMAIN symbols, FullIn(symbols, i)
               PROVE  /\ \A j \in DOMAIN symbols : i < j /\ FullIn(symbols, j) =>
                             symbols[i].next # 0 /\ symbols[i].next <= j
                      /\ symbols[i].next # 0 =>
                             /\ symbols[i].next > i /\ FullIn(symbols, symbols[i].next)
                             /\ symbols[symbols[i].next].prev = i
    BY DEF LinksSound, Index, Full, FullIn
  <2>1. NextSound(symbols, i) /\ Nearest(symbols, i) /\ symbols \in Symbols
    BY DEF IInv, Linked
  <2>2. i \in Nat /\ symbols[i].next \in Nat
    BY <2>1, SymbolFields
  <2> QED
    BY <2>1, <2>2 DEF NextSound, Nearest
<1> QED
  BY <1>1, Invariant, PTL

(* A tuple that is not stale merges neighbours, whose text and rank it has.*)
LEMMA FreshUnlessStale ==
    ASSUME IInv, phase = "merge", NEW t \in queue, ~ Stale(t)
    PROVE  /\ Fresh(symbols, t) /\ FullIn(symbols, t.left) /\ FullIn(symbols, t.right)
           /\ t.left \in DOMAIN symbols /\ t.right \in DOMAIN symbols
<1> DEFINE x == symbols[t.left].text
           y == symbols[t.right].text
<1>1. FullIn(symbols, t.left) /\ FullIn(symbols, t.right) /\ t.text = x \o y
  BY DEF Stale, FullIn
<1>2. /\ t.left \in DOMAIN symbols /\ t.right \in DOMAIN symbols
      /\ FreshOrLonger(symbols, t)
  BY DEF IInv, TupleSound
<1>3. x \in Seq(Chars) /\ y \in Seq(Chars)
  BY <1>2, SymbolFields DEF Strings, IInv
<1> HIDE DEF x, y
<1>4. Len(x \o y) = Len(x) + Len(y) /\ Len(x) \in Nat /\ Len(y) \in Nat
  BY <1>3
<1>5. ~ Len(t.text) < Len(x) + Len(y)
  BY <1>1, <1>4
<1> QED
  BY <1>1, <1>2, <1>5 DEF FreshOrLonger, x, y

(* A tuple that is not recognised as out of date merges neighbours, with   *)
(* the rank they have; and no pair of neighbours with a rank is missing.   *)
THEOREM QueueHolds == Spec => []QueueExact
<1>1. IInv => QueueExact
  <2> SUFFICES ASSUME IInv, phase = "merge"
               PROVE  /\ \A t \in queue : Stale(t) \/ Fresh(symbols, t)
                      /\ Queued(symbols, queue)
    BY DEF QueueExact, Queued, Fresh, Index, Full, FullIn
  <2>1. Queued(symbols, queue) /\ symbols \in Symbols
    BY DEF IInv
  <2>2. ASSUME NEW t \in queue, ~ Stale(t) PROVE Fresh(symbols, t)
    BY <2>2, FreshUnlessStale
  <2> QED
    BY <2>1, <2>2
<1> QED
  BY <1>1, Invariant, PTL

-----------------------------------------------------------------------------
(* What Concat makes of a list of lists: what stepping through it makes,   *)
(* however the list is taken apart.                                        *)

(* Induction over the natural numbers, as a fact about sets.               *)
LEMMA Least ==
    ASSUME NEW T, T \subseteq Nat, T # {}
    PROVE  \E x \in T : \A y \in T : x <= y
<1> DEFINE R == OpToRel(<, Nat)
<1>1. IsWellFoundedOn(R, Nat)
  BY NatLessThanWellFounded
<1>2. \A x, y \in Nat : x < y <=> <<x, y>> \in R
  BY DEF OpToRel
<1> HIDE DEF R
<1>3. PICK x \in T : \A y \in T : ~ (<<y, x>> \in R)
  BY <1>1, WFMin
<1>4. \A y \in T : ~ (y < x)
  BY <1>2, <1>3
<1> QED
  BY <1>4

(* Steps(f, lists): f[i] is what the first i lists make.                   *)
Steps(f, lists) ==
    /\ f[0] = << >>
    /\ \A i \in 1 .. Len(lists) : f[i] = f[i - 1] \o lists[i]

(* Two functions that go through the same steps end alike.                 *)
LEMMA SameSteps ==
    ASSUME NEW S, NEW lists \in Seq(S), NEW f, NEW g, Steps(f, lists), Steps(g, lists)
    PROVE  \A i \in 0 .. Len(lists) : f[i] = g[i]
<1> DEFINE T == {i \in 0 .. Len(lists) : f[i] # g[i]}
<1>0. Len(lists) \in Nat
  OBVIOUS
<1> SUFFICES ASSUME T # {} PROVE FALSE
  OBVIOUS
<1>1. PICK i \in T : \A j \in T : i <= j
  <2>1. T \subseteq Nat
    BY <1>0
  <2> HIDE DEF T
  <2> QED
    BY <2>1, Least
<1>2. i # 0 /\ i \in 1 .. Len(lists)
  BY <1>0, <1>1 DEF Steps
<1>3. i - 1 \in 0 .. Len(lists) /\ i - 1 \notin T
  BY <1>0, <1>1, <1>2
<1>4. f[i - 1] = g[i - 1]
  BY <1>3
<1> QED
  BY <1>1, <1>2, <1>4 DEF Steps

(* There is a function that goes through the steps, and Concat its end.    *)
LEMMA ConcatSteps ==
    ASSUME NEW S, NEW lists \in Seq(Seq(S))
    PROVE  \E f : /\ Steps(f, lists) /\ Concat(lists) = f[Len(lists)]
                  /\ \A i \in 0 .. Len(lists) : f[i] \in Seq(S)
<1> DEFINE n == Len(lists)
           Up(f, m) == f = [i \in 0 .. m |-> IF i = 0 THEN << >> ELSE f[i - 1] \o lists[i]]
           T == {m \in 0 .. n : ~ \E f : Up(f, m)}
<1>1. n \in Nat /\ DOMAIN lists = 1 .. n /\ \A i \in 1 .. n : lists[i] \in Seq(S)
  OBVIOUS
<1>2. T = {}
  <2> SUFFICES ASSUME T # {} PROVE FALSE
    OBVIOUS
  <2> HIDE DEF n
  <2>1. PICK m \in T : \A j \in T : m <= j
    <3>1. T \subseteq Nat
      <4> HIDE DEF Up
      <4> QED
        BY <1>1
    <3> HIDE DEF T
    <3> QED
      BY <3>1, Least
  <2>2. m # 0
    <3>1. Up([i \in 0 .. 0 |-> << >>], 0)
      OBVIOUS
    <3> QED
      BY <2>1, <3>1
  <2>3. m \in 1 .. n /\ m - 1 \in 0 .. n /\ m - 1 \notin T
    <3>1. m \in 0 .. n
      OBVIOUS
    <3> HIDE DEF T
    <3> QED
      BY <1>1, <2>1, <2>2, <3>1
  <2>4. PICK f : Up(f, m - 1)
    BY <2>3
  <2> DEFINE g == [i \in 0 .. m |-> IF i = m THEN f[m - 1] \o lists[m] ELSE f[i]]
  <2>5. \A i \in 0 .. m : g[i] = IF i = 0 THEN << >> ELSE g[i - 1] \o lists[i]
    <3> SUFFICES ASSUME NEW i \in 0 .. m
                 PROVE  g[i] = IF i = 0 THEN << >> ELSE g[i - 1] \o lists[i]
      OBVIOUS
    <3>1. CASE i = m
      <4>1. g[m] = f[m - 1] \o lists[m] /\ g[m - 1] = f[m - 1]
        BY <1>1, <2>3
      <4> QED
        BY <2>2, <3>1, <4>1
    <3>2. CASE i # m
      <4>1. i \in 0 .. m - 1 /\ g[i] = f[i]
        BY <1>1, <2>3, <3>2
      <4>2. f[i] = IF i = 0 THEN << >> ELSE f[i - 1] \o lists[i]
        BY <2>4, <4>1
      <4>3. i # 0 => g[i - 1] = f[i - 1]
        BY <1>1, <2>3, <4>1
      <4> QED
        BY <4>1, <4>2, <4>3
    <3> QED
      BY <3>1, <3>2
  <2>6. g = [i \in 0 .. m |-> g[i]]
    OBVIOUS
  <2> HIDE DEF g
  <2>7. Up(g, m)
    BY <2>5, <2>6
  <2> QED
    BY <2>1, <2>7
<1> DEFINE f == CHOOSE h : h = [i \in 0 .. Len(lists) |->
                                   IF i = 0 THEN << >> ELSE h[i - 1] \o lists[i]]
<1>3. Concat(lists) = f[n]
  BY Zenon DEF Concat
<1>4. Up(f, n)
  <2>1. n \in 0 .. n /\ n \notin T
    <3> HIDE DEF T, n
    <3> QED
      BY <1>1, <1>2
  <2>2. \E h : Up(h, n)
    <3> HIDE DEF n, Up
    <3> QED
      BY <2>1
  <2> QED
    BY <2>2
<1> HIDE DEF f
<1>5. Steps(f, lists)
  <2>1. f[0] = << >> /\ \A i \in 1 .. n : f[i] = f[i - 1] \o lists[i]
    <3>1. n \in Nat
      OBVIOUS
    <3> HIDE DEF n
    <3>2. f = [i \in 0 .. n |-> IF i = 0 THEN << >> ELSE f[i - 1] \o lists[i]]
      BY <1>4
    <3> HIDE DEF Up, T
    <3>3. \A i \in 0 .. n : f[i] = IF i = 0 THEN << >> ELSE f[i - 1] \o lists[i]
      BY <3>2
    <3>4. 0 \in 0 .. n /\ \A i \in 1 .. n : i \in 0 .. n /\ i # 0
      BY <3>1
    <3> QED
      BY <3>3, <3>4
  <2> QED
    BY <2>1 DEF Steps
<1>6. \A i \in 0 .. n : f[i] \in Seq(S)
  <2> DEFINE U == {i \in 0 .. n : f[i] \notin Seq(S)}
  <2> SUFFICES ASSUME U # {} PROVE FALSE
    OBVIOUS
  <2> HIDE DEF n
  <2>1. PICK i \in U : \A j \in U : i <= j
    <3>1. U \subseteq Nat
      BY <1>1
    <3> HIDE DEF U
    <3> QED
      BY <3>1, Least
  <2>2. i # 0
    <3>1. f[0] = << >> /\ << >> \in Seq(S)
      BY <1>5 DEF Steps
    <3> QED
      BY <3>1
  <2>3. i \in 1 .. n /\ i - 1 \in 0 .. n /\ i - 1 \notin U
    <3>1. i \in 0 .. n
      OBVIOUS
    <3> HIDE DEF U
    <3> QED
      BY <1>1, <2>1, <2>2, <3>1
  <2>4. f[i - 1] \in Seq(S) /\ lists[i] \in Seq(S) /\ f[i] = f[i - 1] \o lists[i]
    BY <1>1, <1>5, <2>3 DEF Steps, n
  <2>5. f[i] \in Seq(S)
    BY <2>4
  <2> QED
    BY <2>1, <2>5
<1> QED
  BY <1>3, <1>5, <1>6

LEMMA ConcatIs ==
    ASSUME NEW S, NEW lists \in Seq(Seq(S)), NEW h, Steps(h, lists)
    PROVE  Concat(lists) = h[Len(lists)] /\ Concat(lists) \in Seq(S)
<1>1. PICK f : /\ Steps(f, lists) /\ Concat(lists) = f[Len(lists)]
               /\ \A i \in 0 .. Len(lists) : f[i] \in Seq(S)
  BY ConcatSteps
<1>2. \A i \in 0 .. Len(lists) : f[i] = h[i]
  BY <1>1, SameSteps
<1>3. Len(lists) \in 0 .. Len(lists)
  OBVIOUS
<1> QED
  BY <1>1, <1>2, <1>3

LEMMA ConcatType ==
    ASSUME NEW S, NEW lists \in Seq(Seq(S))
    PROVE  Concat(lists) \in Seq(S)
<1>1. PICK f : Steps(f, lists)
  BY ConcatSteps
<1> QED
  BY <1>1, ConcatIs

LEMMA ConcatNone == Concat(<< >>) = << >>
<1> DEFINE h == [i \in 0 .. 0 |-> << >>]
<1>1. Steps(h, << >>) /\ h[Len(<< >>)] = << >> /\ << >> \in Seq(Seq({}))
  BY DEF Steps
<1> HIDE DEF h
<1> QED
  BY <1>1, ConcatIs

LEMMA ConcatJoin ==
    ASSUME NEW S, NEW a \in Seq(Seq(S)), NEW b \in Seq(Seq(S))
    PROVE  Concat(a \o b) = Concat(a) \o Concat(b)
<1>1. PICK f : /\ Steps(f, a) /\ Concat(a) = f[Len(a)]
               /\ \A i \in 0 .. Len(a) : f[i] \in Seq(S)
  BY ConcatSteps
<1>2. PICK g : /\ Steps(g, b) /\ Concat(b) = g[Len(b)]
               /\ \A i \in 0 .. Len(b) : g[i] \in Seq(S)
  BY ConcatSteps
<1> DEFINE c == a \o b
           m == Len(a)
           n == Len(b)
           h == [i \in 0 .. m + n |-> IF i <= m THEN f[i] ELSE f[m] \o g[i - m]]
<1>3. /\ m \in Nat /\ n \in Nat /\ Len(c) = m + n /\ c \in Seq(Seq(S))
      /\ \A i \in 1 .. m : c[i] = a[i]
      /\ \A i \in 1 .. n : c[m + i] = b[i] /\ b[i] \in Seq(S)
  OBVIOUS
<1>4. /\ f[0] = << >> /\ \A i \in 1 .. m : f[i] = f[i - 1] \o a[i]
      /\ g[0] = << >> /\ \A i \in 1 .. n : g[i] = g[i - 1] \o b[i]
      /\ f[m] \in Seq(S) /\ \A i \in 0 .. n : g[i] \in Seq(S)
  <2>1. m \in 0 .. m
    BY <1>3
  <2> QED
    BY <1>1, <1>2, <2>1 DEF Steps
<1> HIDE DEF c, m, n
<1>0. m \in Nat /\ n \in Nat
  BY <1>3
<1>5. /\ \A i \in 0 .. m : h[i] = f[i]
      /\ \A i \in 1 .. n : h[m + i] = f[m] \o g[i]
  <2>1. \A i \in 0 .. m : i \in 0 .. m + n /\ i <= m
    BY <1>0
  <2>2. \A i \in 1 .. n : m + i \in 0 .. m + n /\ ~ (m + i <= m) /\ (m + i) - m = i
    BY <1>0
  <2> QED
    BY <2>1, <2>2
<1>6. h[m] = f[m] \o g[0]
  <2>1. f[m] \o << >> = f[m]
    BY <1>4
  <2> QED
    BY <1>3, <1>4, <1>5, <2>1
<1> HIDE DEF h
<1>7. \A i \in 0 .. n : h[m + i] = f[m] \o g[i]
  <2> SUFFICES ASSUME NEW i \in 0 .. n PROVE h[m + i] = f[m] \o g[i]
    OBVIOUS
  <2>1. CASE i = 0
    <3>1. m + i = m /\ g[i] = g[0]
      BY <1>0, <2>1
    <3> QED
      BY <1>6, <3>1
  <2>2. CASE i # 0
    <3>1. i \in 1 .. n
      BY <1>0, <2>2
    <3> QED
      BY <1>5, <3>1
  <2> QED
    BY <2>1, <2>2
<1>8. Steps(h, c)
  <2>1. h[0] = << >>
    BY <1>3, <1>4, <1>5
  <2>2. ASSUME NEW i \in 1 .. m + n PROVE h[i] = h[i - 1] \o c[i]
    <3>1. CASE i <= m
      <4>1. i \in 1 .. m /\ i \in 0 .. m /\ i - 1 \in 0 .. m
        BY <1>3, <3>1
      <4> QED
        BY <1>3, <1>4, <1>5, <4>1
    <3>2. CASE i > m
      <4>1. PICK j \in 1 .. n : i = m + j /\ j - 1 \in 0 .. n /\ j \in 0 .. n /\ i - 1 = m + (j - 1)
        <5>1. i - m \in 1 .. n /\ i = m + (i - m) /\ i - m - 1 \in 0 .. n
          BY <1>3, <3>2
        <5> QED
          BY <1>3, <5>1
      <4>2. h[i] = f[m] \o g[j] /\ h[i - 1] = f[m] \o g[j - 1] /\ c[i] = b[j]
        BY <1>3, <1>7, <4>1
      <4>3. g[j] = g[j - 1] \o b[j] /\ g[j - 1] \in Seq(S) /\ b[j] \in Seq(S)
        BY <1>3, <1>4, <4>1
      <4> QED
        <5> DEFINE x == f[m]
                   y == g[j - 1]
                   z == b[j]
        <5>1. x \in Seq(S) /\ y \in Seq(S) /\ z \in Seq(S)
          BY <1>4, <4>3
        <5>2. h[i] = x \o (y \o z) /\ h[i - 1] \o c[i] = (x \o y) \o z
          BY <4>2, <4>3
        <5> HIDE DEF x, y, z
        <5>3. (x \o y) \o z = x \o (y \o z)
          BY <5>1
        <5> QED
          BY <5>2, <5>3
    <3> QED
      BY <1>3, <3>1, <3>2
  <2> QED
    BY <1>3, <2>1, <2>2 DEF Steps
<1>9. h[m + n] = f[m] \o g[n]
  <2>1. n \in 0 .. n
    BY <1>0
  <2> QED
    BY <1>7, <2>1
<1>10. Concat(c) = h[m + n]
  BY <1>3, <1>8, ConcatIs
<1> QED
  BY <1>1, <1>2, <1>9, <1>10 DEF c, m, n

LEMMA ConcatOne ==
    ASSUME NEW S, NEW x \in Seq(S)
    PROVE  Concat(<<x>>) = x
<1> DEFINE h == [i \in 0 .. 1 |-> IF i = 0 THEN << >> ELSE x]
<1>1. << >> \o x = x
  OBVIOUS
<1>2. Steps(h, <<x>>) /\ h[Len(<<x>>)] = x /\ <<x>> \in Seq(Seq(S))
  BY <1>1 DEF Steps
<1> HIDE DEF h
<1> QED
  BY <1>2, ConcatIs

(* It is the same to join lists of lists first or last.                    *)
LEMMA ConcatNested ==
    ASSUME NEW S, NEW lists \in Seq(Seq(Seq(S)))
    PROVE  Concat(Concat(lists)) = Concat([i \in DOMAIN lists |-> Concat(lists[i])])
<1> DEFINE n == Len(lists)
           each == [i \in 1 .. n |-> Concat(lists[i])]
<1>1. n \in Nat /\ DOMAIN lists = 1 .. n /\ \A i \in 1 .. n : lists[i] \in Seq(Seq(S))
  OBVIOUS
<1>2. PICK f : /\ Steps(f, lists) /\ Concat(lists) = f[n]
               /\ \A i \in 0 .. n : f[i] \in Seq(Seq(S))
  BY ConcatSteps
<1> DEFINE h == [i \in 0 .. n |-> Concat(f[i])]
<1>3. \A i \in 1 .. n : Concat(lists[i]) \in Seq(S)
  BY <1>1, ConcatType
<1>4. each \in Seq(Seq(S)) /\ Len(each) = n
  <2> HIDE DEF n
  <2> QED
    BY <1>1, <1>3
<1>5. f[0] = << >> /\ \A i \in 1 .. n : f[i] = f[i - 1] \o lists[i]
  BY <1>2 DEF Steps
<1> HIDE DEF n
<1>6. ASSUME NEW i \in 1 .. n PROVE h[i] = h[i - 1] \o each[i]
  <2>1. i \in 0 .. n /\ i - 1 \in 0 .. n
    BY <1>1
  <2>2. Concat(f[i - 1] \o lists[i]) = Concat(f[i - 1]) \o Concat(lists[i])
    BY <1>1, <1>2, <2>1, ConcatJoin
  <2> QED
    BY <1>5, <2>1, <2>2
<1>7. h[0] = << >> /\ h[n] = Concat(Concat(lists))
  BY <1>1, <1>2, <1>5, ConcatNone
<1> HIDE DEF h, each
<1>8. Steps(h, each)
  BY <1>4, <1>6, <1>7 DEF Steps
<1>9. Concat(each) = h[n]
  BY <1>4, <1>8, ConcatIs
<1> QED
  BY <1>1, <1>7, <1>9 DEF each

(* The letters of a string spell it.                                       *)
LEMMA ConcatLetters ==
    ASSUME NEW S, NEW w \in Seq(S)
    PROVE  Concat([i \in DOMAIN w |-> <<w[i]>>]) = w
<1> DEFINE n == Len(w)
           each == [i \in 1 .. n |-> <<w[i]>>]
           h == [i \in 0 .. n |-> SubSeq(w, 1, i)]
<1>1. n \in Nat /\ DOMAIN w = 1 .. n /\ w \in [1 .. n -> S]
  OBVIOUS
<1>2. each \in Seq(Seq(S)) /\ Len(each) = n
  <2> HIDE DEF n
  <2>1. \A i \in 1 .. n : <<w[i]>> \in Seq(S)
    BY <1>1
  <2> QED
    BY <1>1, <2>1
<1>3. ASSUME NEW i \in 1 .. n PROVE SubSeq(w, 1, i) = SubSeq(w, 1, i - 1) \o <<w[i]>>
  OBVIOUS
<1>4. SubSeq(w, 1, 0) = << >> /\ SubSeq(w, 1, n) = w
  OBVIOUS
<1> HIDE DEF n
<1>5. ASSUME NEW i \in 1 .. n PROVE h[i] = h[i - 1] \o each[i]
  <2>1. i \in 0 .. n /\ i - 1 \in 0 .. n
    BY <1>1
  <2>2. h[i] = SubSeq(w, 1, i) /\ h[i - 1] = SubSeq(w, 1, i - 1) /\ each[i] = <<w[i]>>
    BY <2>1
  <2>3. SubSeq(w, 1, i) = SubSeq(w, 1, i - 1) \o <<w[i]>>
    BY <1>3
  <2> QED
    BY <2>2, <2>3
<1>6. h[0] = << >> /\ h[n] = w
  BY <1>1, <1>4
<1> HIDE DEF h, each
<1>7. Steps(h, each)
  BY <1>2, <1>5, <1>6 DEF Steps
<1>8. Concat(each) = h[n]
  BY <1>2, <1>7, ConcatIs
<1> QED
  BY <1>1, <1>6, <1>8 DEF each

-----------------------------------------------------------------------------
(* Merging moves a text over symbols that are empty.                       *)

(* A list grows by the one that is emptied, over lists that are empty.     *)
Moved(a, b, l, r) ==
    /\ Len(b) = Len(a) /\ l \in 1 .. Len(a) /\ r \in 1 .. Len(a) /\ l < r
    /\ b[l] = a[l] \o a[r] /\ b[r] = << >>
    /\ \A i \in 1 .. Len(a) : /\ i # l /\ i # r => b[i] = a[i]
                              /\ l < i /\ i < r => a[i] = << >>

LEMMA ConcatMoved ==
    ASSUME NEW S, NEW a \in Seq(Seq(S)), NEW b \in Seq(Seq(S)), NEW l, NEW r,
           Moved(a, b, l, r)
    PROVE  Concat(b) = Concat(a)
<1> DEFINE n == Len(a)
<1>1. PICK f : /\ Steps(f, a) /\ Concat(a) = f[n]
               /\ \A i \in 0 .. n : f[i] \in Seq(S)
  BY ConcatSteps
<1> DEFINE h == [i \in 0 .. n |-> IF l <= i /\ i < r THEN f[i] \o a[r] ELSE f[i]]
<1>2. n \in Nat /\ l \in 1 .. n /\ r \in 1 .. n /\ l < r
  BY DEF Moved
<1>11. \A i \in 1 .. n : a[i] \in Seq(S)
  OBVIOUS
<1>3. f[0] = << >> /\ \A i \in 1 .. n : f[i] = f[i - 1] \o a[i]
  BY <1>1 DEF Steps
<1>9. /\ \A i \in 1 .. n : (i # l /\ i # r => b[i] = a[i]) /\ (l < i /\ i < r => a[i] = << >>)
      /\ b[l] = a[l] \o a[r] /\ b[r] = << >>
  BY DEF Moved
<1>10. \A i \in 0 .. n : h[i] = IF l <= i /\ i < r THEN f[i] \o a[r] ELSE f[i]
  OBVIOUS
<1> HIDE DEF n, h
<1>4. ASSUME NEW i \in 1 .. n PROVE h[i] = h[i - 1] \o b[i]
  <2> DEFINE x == f[i - 1]
             y == a[i]
             z == a[r]
  <2>1. i - 1 \in 0 .. n /\ i \in 0 .. n
    BY <1>2
  <2>2. x \in Seq(S) /\ y \in Seq(S) /\ z \in Seq(S) /\ f[i] = x \o y
    BY <1>1, <1>2, <1>3, <1>11, <2>1
  <2>3. CASE i < l \/ i > r
    <3>1. h[i] = f[i] /\ h[i - 1] = x /\ b[i] = y
      <4>1. i # l /\ i # r /\ ~ (l <= i /\ i < r) /\ ~ (l <= i - 1 /\ i - 1 < r)
        BY <1>2, <2>3
      <4>2. h[i] = (IF l <= i /\ i < r THEN f[i] \o z ELSE f[i])
            /\ h[i - 1] = (IF l <= i - 1 /\ i - 1 < r THEN x \o z ELSE x)
        BY <1>10, <2>1
      <4> QED
        BY <1>9, <4>1, <4>2
    <3> QED
      BY <2>2, <3>1
  <2>4. CASE i = l
    <3>1. h[i] = f[i] \o z /\ h[i - 1] = x /\ b[i] = y \o z
      <4>1. l <= i /\ i < r /\ ~ (l <= i - 1) /\ i = l
        BY <1>2, <2>4
      <4>2. h[i] = (IF l <= i /\ i < r THEN f[i] \o z ELSE f[i])
            /\ h[i - 1] = (IF l <= i - 1 /\ i - 1 < r THEN x \o z ELSE x)
        BY <1>10, <2>1
      <4> QED
        BY <1>9, <4>1, <4>2
    <3> HIDE DEF x, y, z
    <3>2. (x \o y) \o z = x \o (y \o z)
      <4>1. x \in Seq(S) /\ y \in Seq(S) /\ z \in Seq(S)
        BY <2>2
      <4> QED
        BY <4>1
    <3> QED
      BY <2>2, <3>1, <3>2
  <2>5. CASE l < i /\ i < r
    <3>1. h[i] = f[i] \o z /\ h[i - 1] = x \o z /\ b[i] = << >> /\ y = << >>
      <4>1. i # l /\ i # r /\ l <= i /\ i < r /\ l <= i - 1 /\ i - 1 < r
        BY <1>2, <2>5
      <4>2. h[i] = (IF l <= i /\ i < r THEN f[i] \o z ELSE f[i])
            /\ h[i - 1] = (IF l <= i - 1 /\ i - 1 < r THEN x \o z ELSE x)
        BY <1>10, <2>1
      <4>3. b[i] = << >> /\ a[i] = << >>
        BY <1>9, <2>5, <4>1
      <4>4. h[i] = f[i] \o z /\ h[i - 1] = x \o z
        <5> HIDE DEF x, z
        <5> QED
          BY <4>1, <4>2
      <4> QED
        BY <4>3, <4>4
    <3> HIDE DEF x, y, z
    <3>2. x \o << >> = x /\ (x \o z) \o << >> = x \o z
      BY <2>2
    <3> QED
      BY <2>2, <3>1, <3>2
  <2>6. CASE i = r
    <3>1. h[i] = f[i] /\ h[i - 1] = x \o z /\ b[i] = << >> /\ y = z
      <4>1. ~ (i < r) /\ l <= i - 1 /\ i - 1 < r /\ i = r
        BY <1>2, <2>6
      <4>2. h[i] = (IF l <= i /\ i < r THEN f[i] \o z ELSE f[i])
            /\ h[i - 1] = (IF l <= i - 1 /\ i - 1 < r THEN x \o z ELSE x)
        BY <1>10, <2>1
      <4> QED
        BY <1>9, <4>1, <4>2
    <3> HIDE DEF x, y, z
    <3>2. (x \o z) \o << >> = x \o z
      BY <2>2
    <3> QED
      BY <2>2, <3>1, <3>2
  <2>7. i < l \/ i > r \/ i = l \/ i = r \/ (l < i /\ i < r)
    BY <1>2
  <2> QED
    BY <2>3, <2>4, <2>5, <2>6, <2>7
<1>5. h[0] = << >> /\ h[n] = f[n]
  <2>1. /\ 0 \in 0 .. n /\ n \in 0 .. n /\ ~ (l <= 0 /\ 0 < r) /\ ~ (l <= n /\ n < r)
    BY <1>2
  <2> QED
    BY <1>3, <1>10, <2>1
<1>6. Len(b) = n
  BY DEF n, Moved
<1>7. Steps(h, b)
  BY <1>4, <1>5, <1>6 DEF Steps
<1>8. Concat(b) = h[n]
  BY <1>6, <1>7, ConcatIs
<1> QED
  BY <1>1, <1>5, <1>8

-----------------------------------------------------------------------------
TextsOf(s) == [i \in DOMAIN s |-> s[i].text]
Part(s, i) == IF s[i].text = << >> THEN << >> ELSE <<s[i].text>>
PartsOf(s) == [i \in DOMAIN s |-> Part(s, i)]

LEMMA TextsType ==
    ASSUME NEW s \in Symbols
    PROVE  /\ TextsOf(s) \in Seq(Strings) /\ Len(TextsOf(s)) = Len(s)
           /\ \A i \in 1 .. Len(s) : TextsOf(s)[i] = s[i].text
<1> DEFINE n == Len(s)
<1>1. n \in Nat /\ DOMAIN s = 1 .. n
  BY DEF Symbols
<1>2. \A i \in DOMAIN s : s[i].text \in Strings
  BY SymbolFields
<1> HIDE DEF n
<1>3. TextsOf(s) = [i \in 1 .. n |-> s[i].text]
  BY <1>1 DEF TextsOf
<1>4. TextsOf(s) \in Seq(Strings) /\ Len(TextsOf(s)) = n
  BY <1>1, <1>2, <1>3
<1> QED
  BY <1>3, <1>4 DEF n

(* What every text of a symbol has, the parts have.                        *)
LEMMA PartsType ==
    ASSUME NEW s \in Symbols, NEW X, \A i \in DOMAIN s : s[i].text = << >> \/ s[i].text \in X
    PROVE  PartsOf(s) \in Seq(Seq(X)) /\ Concat(PartsOf(s)) \in Seq(X)
<1> DEFINE n == Len(s)
<1>1. n \in Nat /\ DOMAIN s = 1 .. n
  BY DEF Symbols
<1>2. \A i \in DOMAIN s : Part(s, i) \in Seq(X)
  BY DEF Part
<1> HIDE DEF n
<1>3. PartsOf(s) \in Seq(Seq(X))
  BY <1>1, <1>2 DEF PartsOf
<1> QED
  BY <1>3, ConcatType

LEMMA LiveSpells ==
    ASSUME NEW s \in Symbols
    PROVE  Concat(Concat(PartsOf(s))) = Concat(TextsOf(s))
<1>1. \A i \in DOMAIN s : s[i].text \in Strings
  BY SymbolFields
<1>2. PartsOf(s) \in Seq(Seq(Strings))
  BY <1>1, PartsType
<1>3. PartsOf(s) \in Seq(Seq(Seq(Chars)))
  BY <1>2 DEF Strings
<1>4. Concat(Concat(PartsOf(s))) = Concat([i \in DOMAIN PartsOf(s) |-> Concat(PartsOf(s)[i])])
  BY <1>3, ConcatNested
<1>5. ASSUME NEW i \in DOMAIN s PROVE Concat(PartsOf(s)[i]) = s[i].text
  <2>1. PartsOf(s)[i] = Part(s, i)
    BY DEF PartsOf
  <2>2. CASE s[i].text = << >>
    BY <2>1, <2>2, ConcatNone DEF Part
  <2>3. CASE s[i].text # << >>
    <3>1. s[i].text \in Seq(Chars)
      BY <1>1 DEF Strings
    <3> QED
      BY <2>1, <2>3, <3>1, ConcatOne DEF Part
  <2> QED
    BY <2>2, <2>3
<1>6. DOMAIN PartsOf(s) = DOMAIN s
  BY DEF PartsOf
<1>7. [i \in DOMAIN PartsOf(s) |-> Concat(PartsOf(s)[i])] = TextsOf(s)
  BY <1>5, <1>6 DEF TextsOf
<1> QED
  BY <1>4, <1>7

(* A string that is a token, or has no wide character, is spelled by its   *)
(* tokens when every character is one.                                     *)
Spellable == {x \in Strings : x \in Vocab \/ \A k \in DOMAIN x : x[k] \notin Wide}

LEMMA TokensType ==
    ASSUME NEW x \in Strings
    PROVE  TokensOf(x) \in Seq(Vocab)
<1> DEFINE n == Len(x)
           each == [i \in DOMAIN x |-> IF x[i] \notin Wide /\ <<x[i]>> \in Vocab
                                       THEN <<<<x[i]>>>> ELSE << >>]
<1>1. n \in Nat /\ DOMAIN x = 1 .. n
  BY DEF Strings
<1>2. each \in Seq(Seq(Vocab))
  <2> HIDE DEF n
  <2>1. \A i \in DOMAIN x : each[i] \in Seq(Vocab)
    OBVIOUS
  <2>2. DOMAIN each = 1 .. n
    BY <1>1
  <2>3. each = [i \in 1 .. n |-> each[i]]
    BY <2>2
  <2> HIDE DEF each
  <2> QED
    BY <1>1, <2>1, <2>3
<1>3. Concat(each) \in Seq(Vocab)
  <2> HIDE DEF each
  <2> QED
    BY <1>2, ConcatType
<1> HIDE DEF n
<1>4. x \in Vocab => <<x>> \in Seq(Vocab)
  OBVIOUS
<1> QED
  BY <1>3, <1>4 DEF TokensOf

LEMMA TokensSpellString ==
    ASSUME NEW x \in Spellable, \A c \in Chars : <<c>> \in Vocab
    PROVE  TokensOf(x) \in Seq(Seq(Chars)) /\ Concat(TokensOf(x)) = x
<1>1. x \in Seq(Chars)
  BY DEF Spellable, Strings
<1>2. CASE x \in Vocab
  <2>1. TokensOf(x) = <<x>>
    BY <1>2 DEF TokensOf
  <2> QED
    BY <1>1, <2>1, ConcatOne
<1>3. CASE x \notin Vocab
  <2> DEFINE w == [i \in DOMAIN x |-> <<x[i]>>]
             each == [i \in DOMAIN x |-> IF x[i] \notin Wide /\ <<x[i]>> \in Vocab
                                         THEN <<<<x[i]>>>> ELSE << >>]
  <2>1. \A i \in DOMAIN x : x[i] \in Chars
    BY <1>1
  <2>2. \A i \in DOMAIN x : x[i] \notin Wide /\ <<x[i]>> \in Vocab
    BY <1>3, <2>1 DEF Spellable
  <2>3. w \in Seq(Seq(Chars))
    <3> DEFINE n == Len(x)
    <3>1. n \in Nat /\ DOMAIN x = 1 .. n
      BY <1>1
    <3> HIDE DEF n
    <3>2. \A i \in DOMAIN x : <<x[i]>> \in Seq(Chars)
      BY <2>1
    <3> QED
      BY <3>1, <3>2
  <2>4. each = [i \in DOMAIN w |-> <<w[i]>>]
    BY <2>2
  <2>5. TokensOf(x) = Concat(each)
    BY <1>3 DEF TokensOf
  <2>6. Concat(w) = x
    BY <1>1, ConcatLetters
  <2> HIDE DEF w, each
  <2>7. Concat(each) = w
    BY <2>3, <2>4, ConcatLetters
  <2> QED
    BY <2>3, <2>5, <2>6, <2>7
<1> QED
  BY <1>2, <1>3

-----------------------------------------------------------------------------
(* The types.                                                              *)

LinksIn(s) ==
    \A i \in DOMAIN s : s[i].prev \in DOMAIN s \union {0} /\ s[i].next \in DOMAIN s \union {0}

(* With IInv, the types. *)
TInv ==
    /\ text \in Texts \union {<< >>} /\ out \in Seq(Strings) /\ tokens \in Seq(Vocab)
    /\ phase \in {"idle", "word", "merge"} /\ (phase = "idle" => todo = << >>)
    /\ LinksIn(symbols)
    /\ \A t \in queue : t.rank \in DOMAIN merges

LEMMA RanksListed ==
    ASSUME NEW s, NEW l, NEW r, NEW t \in AddTuple(s, l, r)
    PROVE  t.rank \in DOMAIN merges
<1>1. PICK i \in IF l = 0 \/ r = 0 THEN {} ELSE Ranks(s[l].text, s[r].text) :
          t = [left |-> l, right |-> r, text |-> s[l].text \o s[r].text, rank |-> i]
  BY DEF AddTuple
<1> QED
  BY <1>1 DEF Ranks

LEMMA TypesOfMerge ==
    ASSUME IInv, TInv, NEW t \in queue, MergeTuple(t)
    PROVE  TInv'
<1> DEFINE l == t.left
           r == t.right
<1>1. /\ phase = "merge" /\ ~ Stale(t) /\ symbols' = Merged(l, r)
      /\ queue' = (queue \ {t}) \union AddTuple(symbols', symbols[l].prev, l)
                                \union AddTuple(symbols', l, symbols[r].next)
      /\ UNCHANGED <<merges, text, todo, out, tokens, phase>>
  BY DEF MergeTuple
<1>2. l \in DOMAIN symbols /\ r \in DOMAIN symbols
  BY <1>1, FreshUnlessStale
<1>3. symbols \in Symbols
  BY DEF IInv
<1>4. \A i \in DOMAIN symbols : symbols[i] \in Symbol
  BY <1>3, SymbolFields
<1> HIDE DEF l, r
<1>5. DOMAIN symbols' = DOMAIN symbols
  BY <1>1 DEF Merged
<1>6. ASSUME NEW i \in DOMAIN symbols
      PROVE  /\ symbols'[i].prev \in DOMAIN symbols \union {0}
             /\ symbols'[i].next \in DOMAIN symbols \union {0}
  <2>1. /\ symbols[i].prev \in DOMAIN symbols \union {0}
        /\ symbols[i].next \in DOMAIN symbols \union {0}
        /\ symbols[l].prev \in DOMAIN symbols \union {0}
        /\ symbols[r].next \in DOMAIN symbols \union {0}
    BY <1>2, <1>6 DEF TInv, LinksIn
  <2>2. CASE i = l
    <3>1. symbols'[i] = [text |-> symbols[l].text \o symbols[r].text,
                         prev |-> symbols[l].prev, next |-> symbols[r].next]
      BY <1>1, <1>6, <2>2 DEF Merged
    <3> QED
      BY <2>1, <3>1
  <2>3. CASE i # l /\ i = r
    <3>1. symbols'[i] = [symbols[i] EXCEPT !.text = << >>]
      BY <1>1, <1>6, <2>3 DEF Merged
    <3> QED
      BY <1>4, <2>1, <3>1 DEF Symbol
  <2>4. CASE i # l /\ i # r
    <3>1. symbols'[i] = IF i = symbols[r].next THEN [symbols[i] EXCEPT !.prev = l] ELSE symbols[i]
      BY <1>1, <1>6, <2>4 DEF Merged
    <3> QED
      BY <1>2, <1>4, <2>1, <3>1 DEF Symbol
  <2> QED
    BY <2>2, <2>3, <2>4
<1>7. LinksIn(symbols)'
  BY <1>5, <1>6 DEF LinksIn
<1>8. \A u \in queue' : u.rank \in DOMAIN merges
  BY <1>1, RanksListed DEF TInv
<1> QED
  BY <1>1, <1>7, <1>8 DEF TInv

LEMMA TypesKept == IInv /\ TInv /\ [Next]_vars => TInv'
<1> SUFFICES ASSUME IInv, TInv, [Next]_vars PROVE TInv'
  OBVIOUS
<1>1. ASSUME NEW t \in Texts, Tokenize(t) PROVE TInv'
  <2>1. << >> \in Seq(Strings) /\ << >> \in Seq(Vocab)
    OBVIOUS
  <2> QED
    BY <1>1, <2>1 DEF TInv, Tokenize, LinksIn
<1>2. CASE StartWord
  <2> DEFINE word == Head(todo)
  <2>1. /\ symbols' = ParseSymbol(word) /\ queue' = queue \union GenerateTuple(symbols')
        /\ phase' = "merge" /\ UNCHANGED <<merges, text, out, tokens>> /\ todo # << >>
    BY <1>2 DEF StartWord
  <2>2. word \in Strings
    BY <2>1 DEF IInv
  <2> HIDE DEF word
  <2>3. DOMAIN word = 1 .. Len(word) /\ Len(word) \in Nat
    BY <2>2 DEF Strings
  <2>4. DOMAIN symbols' = DOMAIN word
        /\ \A i \in DOMAIN word : symbols'[i].prev = i - 1
               /\ symbols'[i].next = IF i = Len(word) THEN 0 ELSE i + 1
    BY <2>1, <2>2, Parsed
  <2>5. LinksIn(symbols)'
    <3>1. \A i \in 1 .. Len(word) : /\ i - 1 \in (1 .. Len(word)) \union {0}
                                    /\ i # Len(word) => i + 1 \in 1 .. Len(word)
      <4> DEFINE n == Len(word)
      <4>1. n \in Nat
        BY <2>3
      <4> HIDE DEF n
      <4>2. ASSUME NEW i \in 1 .. n
            PROVE  (i - 1 = 0 \/ i - 1 \in 1 .. n) /\ (i # n => i + 1 \in 1 .. n)
        BY <4>1
      <4> QED
        BY <4>2 DEF n
    <3> QED
      BY <2>3, <2>4, <3>1 DEF LinksIn
  <2>6. \A t \in GenerateTuple(symbols') : t.rank \in DOMAIN merges
    <3> SUFFICES ASSUME NEW t \in GenerateTuple(symbols') PROVE t.rank \in DOMAIN merges
      OBVIOUS
    <3>1. PICK i \in DOMAIN symbols' \ {1} : t \in AddTuple(symbols', i - 1, i)
      BY DEF GenerateTuple
    <3> QED
      BY <3>1, RanksListed
  <2> QED
    BY <2>1, <2>5, <2>6 DEF TInv
<1>3. ASSUME NEW t \in queue, SkipTuple(t) PROVE TInv'
  BY <1>3 DEF TInv, SkipTuple, LinksIn
<1>4. ASSUME NEW t \in queue, MergeTuple(t) PROVE TInv'
  BY <1>4, TypesOfMerge
<1>5. CASE UpdateSymbol
  <2>1. \A i \in DOMAIN symbols : symbols[i].text \in Strings
    BY SymbolFields DEF IInv
  <2>2. symbols \in Symbols
    BY DEF IInv
  <2>3. Concat(PartsOf(symbols)) \in Seq(Strings)
    BY <2>1, <2>2, PartsType
  <2>4. Live = Concat(PartsOf(symbols))
    BY DEF Live, PartsOf, Part
  <2>5. out \in Seq(Strings) /\ Live \in Seq(Strings)
    BY <2>3, <2>4 DEF TInv
  <2> HIDE DEF Live
  <2>6. out \o Live \in Seq(Strings)
    BY <2>5
  <2> QED
    BY <1>5, <2>6 DEF TInv, UpdateSymbol, LinksIn
<1>6. CASE GenerateToken
  <2> DEFINE each == [i \in DOMAIN out |-> TokensOf(out[i])]
             n == Len(out)
  <2>1. n \in Nat /\ DOMAIN out = 1 .. n /\ \A i \in 1 .. n : out[i] \in Strings
    BY DEF TInv
  <2>2. \A i \in 1 .. n : TokensOf(out[i]) \in Seq(Vocab)
    BY <2>1, TokensType
  <2> HIDE DEF n
  <2>3. each \in Seq(Seq(Vocab))
    BY <2>1, <2>2
  <2>4. tokens' = Concat(each)
    BY <1>6 DEF GenerateToken
  <2> HIDE DEF each
  <2>5. tokens' \in Seq(Vocab)
    BY <2>3, <2>4, ConcatType
  <2> QED
    BY <1>6, <2>5 DEF TInv, GenerateToken, LinksIn
<1>7. CASE UNCHANGED vars
  BY <1>7 DEF TInv, vars, LinksIn
<1> QED
  BY <1>1, <1>2, <1>3, <1>4, <1>5, <1>6, <1>7 DEF Next, Work

LEMMA TypesInvariant == Spec => [](IInv /\ TInv)
<1>1. Init => TInv
  <2> SUFFICES ASSUME Init PROVE TInv
    OBVIOUS
  <2>1. << >> \in Seq(Strings) /\ << >> \in Seq(Vocab) /\ DOMAIN << >> = {}
    OBVIOUS
  <2> QED
    BY <2>1 DEF Init, TInv, LinksIn
<1> QED
  BY <1>1, InitInvariant, Induction, TypesKept, PTL DEF Spec

(* Links and tuples lead to symbols that are there, ranks are listed, and  *)
(* what tokenize gives out is tokens.                                      *)
THEOREM TypeCorrect == Spec => []TypeOK
<1>1. IInv /\ TInv => TypeOK
  <2> SUFFICES ASSUME IInv, TInv PROVE TypeOK
    OBVIOUS
  <2>1. ASSUME NEW t \in queue
        PROVE  t.left \in Index /\ t.right \in Index /\ t.left < t.right /\ t.text \in Strings
    BY DEF IInv, TupleSound, Tuple, Index
  <2>2. symbols \in Seq([text : Strings, prev : Nat, next : Nat])
    BY DEF IInv, Symbols, Symbol
  <2> QED
    BY <2>1, <2>2 DEF IInv, TInv, TypeOK, LinksIn, Index
<1> QED
  BY <1>1, TypesInvariant, PTL

-----------------------------------------------------------------------------
(* The spelling.                                                           *)

(* The hypothesis of TokensSpell. *)
CanSpell ==
    /\ \A c \in Chars : <<c>> \in Vocab
    /\ \A i \in DOMAIN merges :
           LET string == merges[i][1] \o merges[i][2] IN
           string \in Vocab \/ \A k \in DOMAIN string : string[k] \notin Wide

(* What is done, at hand and still to come is the text; and everything at  *)
(* hand can be spelled.                                                    *)
SInv ==
    /\ phase = "word" => Concat(out) \o Concat(todo) = Concat(text)
    /\ phase = "merge" =>
           Concat(out) \o (Concat(TextsOf(symbols)) \o Concat(todo)) = Concat(text)
    /\ CanSpell => /\ out \in Seq(Spellable)
                   /\ phase = "merge" => \A i \in DOMAIN symbols : symbols[i].text \in Spellable
                   /\ phase = "idle" => Concat(tokens) = Concat(text)

LEMMA EmptySpellable == << >> \in Spellable
<1>1. << >> \in Seq(Chars) /\ DOMAIN << >> = {}
  OBVIOUS
<1> QED
  BY <1>1 DEF Spellable, Strings

LEMMA MergeSpells ==
    ASSUME IInv, NEW t \in queue, MergeTuple(t)
    PROVE  /\ Concat(TextsOf(symbols')) = Concat(TextsOf(symbols))
           /\ CanSpell /\ (\A i \in DOMAIN symbols : symbols[i].text \in Spellable) =>
                  \A i \in DOMAIN symbols' : symbols'[i].text \in Spellable
<1> DEFINE l == t.left
           r == t.right
           n == Merged(l, r)
<1>1. phase = "merge" /\ ~ Stale(t) /\ symbols' = n
  BY DEF MergeTuple
<1>2. /\ symbols \in Symbols /\ Linked(symbols) /\ merges \in Tables
      /\ TupleSound(symbols, t)
  BY <1>1 DEF IInv
<1>3. /\ Fresh(symbols, t) /\ FullIn(symbols, l) /\ FullIn(symbols, r)
      /\ l \in DOMAIN symbols /\ r \in DOMAIN symbols
  BY <1>1, FreshUnlessStale
<1>4. symbols[l].next = r /\ t.rank \in Ranks(symbols[l].text, symbols[r].text)
  BY <1>3 DEF Fresh
<1>5. l < r
  BY <1>2 DEF TupleSound
<1> HIDE DEF l, r, n
<1>6. MergeLeaves(n, l, r)
  BY <1>2, <1>3, <1>4, MergedFields DEF n
<1>7. n \in Symbols /\ DOMAIN n = DOMAIN symbols
  BY <1>6 DEF MergeLeaves
<1> DEFINE a == TextsOf(symbols)
           b == TextsOf(n)
<1>8. /\ a \in Seq(Strings) /\ Len(a) = Len(symbols)
      /\ \A i \in 1 .. Len(symbols) : a[i] = symbols[i].text
  BY <1>2, TextsType
<1>9. /\ b \in Seq(Strings) /\ Len(b) = Len(n)
      /\ \A i \in 1 .. Len(n) : b[i] = n[i].text
  BY <1>7, TextsType
<1>10. DOMAIN symbols = 1 .. Len(symbols) /\ Len(n) = Len(symbols) /\ Len(symbols) \in Nat
       /\ \A i \in DOMAIN symbols : i \in Nat
  BY <1>2, <1>7 DEF Symbols
<1>11. ASSUME NEW i \in DOMAIN symbols, l < i, i < r PROVE symbols[i].text = << >>
  <2>1. FullIn(symbols, i) => symbols[l].next <= i
    BY <1>2, <1>3, <1>11 DEF Linked, Nearest
  <2> QED
    BY <1>3, <1>4, <1>10, <1>11, <2>1 DEF FullIn
<1> HIDE DEF a, b
<1>12. Moved(a, b, l, r)
  <2>1. Len(b) = Len(a) /\ l \in 1 .. Len(a) /\ r \in 1 .. Len(a)
    BY <1>3, <1>8, <1>9, <1>10
  <2>2. b[l] = a[l] \o a[r] /\ b[r] = << >>
    BY <1>3, <1>6, <1>8, <1>9, <1>10 DEF MergeLeaves
  <2>3. ASSUME NEW i \in 1 .. Len(a)
        PROVE  (i # l /\ i # r => b[i] = a[i]) /\ (l < i /\ i < r => a[i] = << >>)
    <3>1. i \in DOMAIN symbols /\ a[i] = symbols[i].text /\ b[i] = n[i].text
      BY <1>8, <1>9, <1>10
    <3> QED
      BY <1>6, <1>11, <3>1 DEF MergeLeaves
  <2> QED
    BY <1>5, <2>1, <2>2, <2>3 DEF Moved
<1>13. Concat(b) = Concat(a)
  BY <1>8, <1>9, <1>12, ConcatMoved DEF Strings
<1>14. ASSUME CanSpell, \A i \in DOMAIN symbols : symbols[i].text \in Spellable
       PROVE  \A i \in DOMAIN n : n[i].text \in Spellable
  <2> SUFFICES ASSUME NEW i \in DOMAIN n PROVE n[i].text \in Spellable
    OBVIOUS
  <2>1. CASE i = l
    <3> DEFINE string == symbols[l].text \o symbols[r].text
    <3>1. n[l].text = string /\ string \in Strings
      <4>1. n[l].text = string
        BY <1>6 DEF MergeLeaves
      <4>2. n[l].text \in Strings
        BY <1>3, <1>7, SymbolFields
      <4> QED
        BY <4>1, <4>2
    <3>2. t.rank \in DOMAIN merges /\ merges[t.rank] = <<symbols[l].text, symbols[r].text>>
      BY <1>4 DEF Ranks
    <3>3. string = merges[t.rank][1] \o merges[t.rank][2]
      <4> DEFINE x == symbols[l].text
                 y == symbols[r].text
      <4> HIDE DEF x, y
      <4>1. merges[t.rank] = <<x, y>>
        BY <3>2 DEF x, y
      <4>2. merges[t.rank][1] = x /\ merges[t.rank][2] = y
        BY <4>1
      <4> QED
        BY <4>2 DEF x, y
    <3> HIDE DEF string
    <3>4. string \in Vocab \/ \A k \in DOMAIN string : string[k] \notin Wide
      BY <1>14, <3>2, <3>3 DEF CanSpell
    <3> QED
      BY <2>1, <3>1, <3>4 DEF Spellable
  <2>2. CASE i = r
    BY <1>6, <2>2, EmptySpellable DEF MergeLeaves
  <2>3. CASE i # l /\ i # r
    BY <1>6, <1>7, <1>14, <2>3 DEF MergeLeaves
  <2> QED
    BY <2>1, <2>2, <2>3
<1> QED
  BY <1>1, <1>13, <1>14 DEF a, b

LEMMA StartSpells ==
    ASSUME IInv, TInv, SInv, StartWord
    PROVE  SInv'
<1> DEFINE word == Head(todo)
           s == ParseSymbol(word)
<1>1. /\ symbols' = s /\ todo' = Tail(todo) /\ phase = "word" /\ phase' = "merge"
      /\ UNCHANGED <<merges, text, out, tokens>> /\ todo # << >>
  BY DEF StartWord
<1>2. word \in Seq(Chars) /\ Tail(todo) \in Seq(Seq(Chars)) /\ todo = <<word>> \o Tail(todo)
  BY <1>1 DEF IInv, Strings
<1>3. <<word>> \in Seq(Seq(Chars))
  BY <1>2
<1> HIDE DEF word, s
<1>4. Concat(todo) = word \o Concat(Tail(todo))
  <2>1. Concat(<<word>> \o Tail(todo)) = Concat(<<word>>) \o Concat(Tail(todo))
    BY <1>2, <1>3, ConcatJoin
  <2>2. Concat(<<word>>) = word
    BY <1>2, ConcatOne
  <2> QED
    BY <1>2, <2>1, <2>2
<1>5. DOMAIN s = DOMAIN word /\ \A i \in DOMAIN word : s[i].text = <<word[i]>>
  BY DEF s, ParseSymbol
<1>6. Concat(TextsOf(s)) = word
  <2>1. TextsOf(s) = [i \in DOMAIN word |-> <<word[i]>>]
    BY <1>5 DEF TextsOf
  <2> QED
    BY <1>2, <2>1, ConcatLetters
<1>7. Concat(out) \o Concat(todo) = Concat(text)
  BY <1>1 DEF SInv
<1>8. CanSpell => \A i \in DOMAIN s : s[i].text \in Spellable
  <2> SUFFICES ASSUME CanSpell, NEW i \in DOMAIN word PROVE <<word[i]>> \in Spellable
    BY <1>5
  <2>1. word[i] \in Chars
    BY <1>2
  <2>2. <<word[i]>> \in Strings /\ <<word[i]>> \in Vocab
    BY <2>1 DEF CanSpell, Strings
  <2> QED
    BY <2>2 DEF Spellable
<1>9. CanSpell' = CanSpell
  BY <1>1 DEF CanSpell
<1>10. Concat(out) \o (Concat(TextsOf(s)) \o Concat(Tail(todo))) = Concat(text)
  BY <1>4, <1>6, <1>7
<1>11. TextsOf(symbols)' = TextsOf(s)
  BY <1>1 DEF TextsOf
<1>12. CanSpell => out \in Seq(Spellable)
  BY DEF SInv
<1> QED
  BY <1>1, <1>8, <1>9, <1>10, <1>11, <1>12 DEF SInv

LEMMA UpdateSpells ==
    ASSUME IInv, TInv, SInv, UpdateSymbol
    PROVE  SInv'
<1>1. /\ phase = "merge" /\ out' = out \o Live /\ phase' = "word"
      /\ UNCHANGED <<merges, text, todo, symbols, queue, tokens>>
  BY DEF UpdateSymbol
<1>2. symbols \in Symbols /\ todo \in Seq(Seq(Chars))
  BY DEF IInv, Strings
<1>3. Live = Concat(PartsOf(symbols))
  BY DEF Live, PartsOf, Part
<1> HIDE DEF Live
<1>4. \A i \in DOMAIN symbols : symbols[i].text \in Strings
  BY <1>2, SymbolFields
<1>5. Live \in Seq(Seq(Chars)) /\ out \in Seq(Seq(Chars))
  <2>1. Concat(PartsOf(symbols)) \in Seq(Strings)
    BY <1>2, <1>4, PartsType
  <2> QED
    BY <1>3, <2>1 DEF TInv, Strings
<1>6. Concat(out \o Live) = Concat(out) \o Concat(TextsOf(symbols))
  BY <1>2, <1>3, <1>5, ConcatJoin, LiveSpells
<1>7. (Concat(out) \o Concat(TextsOf(symbols))) \o Concat(todo) = Concat(text)
  <2> DEFINE x == Concat(out)
             y == Concat(TextsOf(symbols))
             z == Concat(todo)
  <2>1. TextsOf(symbols) \in Seq(Seq(Chars))
    BY <1>2, TextsType DEF Strings
  <2>2. x \in Seq(Chars) /\ y \in Seq(Chars) /\ z \in Seq(Chars)
    BY <1>2, <1>5, <2>1, ConcatType
  <2>3. x \o (y \o z) = Concat(text)
    BY <1>1 DEF SInv
  <2> HIDE DEF x, y, z
  <2>4. (x \o y) \o z = x \o (y \o z)
    BY <2>2
  <2> QED
    BY <2>3, <2>4 DEF x, y, z
<1>8. CanSpell => out' \in Seq(Spellable)
  <2> SUFFICES ASSUME CanSpell PROVE out' \in Seq(Spellable)
    OBVIOUS
  <2>1. out \in Seq(Spellable) /\ \A i \in DOMAIN symbols : symbols[i].text \in Spellable
    BY <1>1 DEF SInv
  <2>2. Live \in Seq(Spellable)
    BY <1>2, <1>3, <2>1, PartsType
  <2> QED
    BY <1>1, <2>1, <2>2
<1>9. CanSpell' = CanSpell
  BY <1>1 DEF CanSpell
<1> QED
  BY <1>1, <1>6, <1>7, <1>8, <1>9 DEF SInv

LEMMA GenerateSpells ==
    ASSUME IInv, TInv, SInv, GenerateToken
    PROVE  SInv'
<1> DEFINE each == [i \in DOMAIN out |-> TokensOf(out[i])]
           n == Len(out)
<1>1. /\ phase = "word" /\ phase' = "idle" /\ todo = << >> /\ tokens' = Concat(each)
      /\ UNCHANGED <<merges, text, todo, symbols, queue, out>>
  BY DEF GenerateToken
<1>2. out \in Seq(Seq(Chars)) /\ n \in Nat /\ DOMAIN out = 1 .. n
  BY DEF TInv, Strings
<1>3. Concat(out) = Concat(text)
  <2>1. Concat(out) \o << >> = Concat(text)
    BY <1>1, ConcatNone DEF SInv
  <2>2. Concat(out) \in Seq(Chars)
    BY <1>2, ConcatType
  <2> QED
    BY <2>1, <2>2
<1>4. ASSUME CanSpell PROVE out \in Seq(Spellable) /\ Concat(tokens') = Concat(out)
  <2>1. out \in Seq(Spellable)
    BY <1>4 DEF SInv
  <2>2. \A c \in Chars : <<c>> \in Vocab
    BY <1>4 DEF CanSpell
  <2>3. \A i \in 1 .. n : out[i] \in Spellable
    BY <1>2, <2>1
  <2>4. \A i \in 1 .. n : TokensOf(out[i]) \in Seq(Seq(Chars)) /\ Concat(TokensOf(out[i])) = out[i]
    BY <2>2, <2>3, TokensSpellString
  <2> HIDE DEF n
  <2>5. each \in Seq(Seq(Seq(Chars))) /\ DOMAIN each = 1 .. n
    BY <1>2, <2>4
  <2>6. [i \in DOMAIN each |-> Concat(each[i])] = out
    <3>1. \A i \in 1 .. n : Concat(each[i]) = out[i]
      BY <1>2, <2>4
    <3>2. out = [i \in 1 .. n |-> out[i]]
      BY <1>2
    <3> HIDE DEF each
    <3>3. [i \in 1 .. n |-> Concat(each[i])] = [i \in 1 .. n |-> out[i]]
      BY <3>1
    <3> QED
      BY <2>5, <3>2, <3>3
  <2> HIDE DEF each
  <2>7. Concat(Concat(each)) = Concat([i \in DOMAIN each |-> Concat(each[i])])
    BY <2>5, ConcatNested
  <2> QED
    BY <1>1, <2>1, <2>6, <2>7
<1>5. CanSpell' = CanSpell
  BY <1>1 DEF CanSpell
<1> HIDE DEF each
<1> QED
  BY <1>1, <1>3, <1>4, <1>5 DEF SInv

LEMMA SpellingKept == IInv /\ TInv /\ SInv /\ [Next]_vars => SInv'
<1> SUFFICES ASSUME IInv, TInv, SInv, [Next]_vars PROVE SInv'
  OBVIOUS
<1>1. ASSUME NEW t \in Texts, Tokenize(t) PROVE SInv'
  <2>1. /\ text' = t /\ todo' = t /\ out' = << >> /\ phase' = "word" /\ merges' = merges
    BY <1>1 DEF Tokenize
  <2>2. << >> \in Seq(Spellable) /\ t \in Seq(Seq(Chars))
    BY TextsAssumption DEF Strings
  <2>3. Concat(t) \in Seq(Chars)
    BY <2>2, ConcatType
  <2>4. Concat(<< >>) \o Concat(t) = Concat(t)
    BY <2>3, ConcatNone
  <2> QED
    BY <2>1, <2>2, <2>4 DEF SInv
<1>2. CASE StartWord
  BY <1>2, StartSpells
<1>3. ASSUME NEW t \in queue, SkipTuple(t) PROVE SInv'
  BY <1>3 DEF SInv, SkipTuple, CanSpell, TextsOf
<1>4. ASSUME NEW t \in queue, MergeTuple(t) PROVE SInv'
  <2>1. /\ phase = "merge" /\ phase' = "merge"
        /\ UNCHANGED <<merges, text, todo, out, tokens>>
    BY <1>4 DEF MergeTuple
  <2>2. TextsOf(symbols)' = TextsOf(symbols')
    BY DEF TextsOf
  <2>3. CanSpell' = CanSpell
    BY <2>1 DEF CanSpell
  <2> QED
    BY <1>4, <2>1, <2>2, <2>3, MergeSpells DEF SInv
<1>5. CASE UpdateSymbol
  BY <1>5, UpdateSpells
<1>6. CASE GenerateToken
  BY <1>6, GenerateSpells
<1>7. CASE UNCHANGED vars
  BY <1>7 DEF SInv, vars, CanSpell, TextsOf
<1> QED
  BY <1>1, <1>2, <1>3, <1>4, <1>5, <1>6, <1>7 DEF Next, Work

(* Unless the vocabulary misses a character or a merge of wide ones, the   *)
(* tokens put together are the text: tokenize loses and repeats nothing.   *)
THEOREM TokensAreTheText == Spec => []TokensSpell
<1>1. Init => SInv
  <2> SUFFICES ASSUME Init PROVE SInv
    OBVIOUS
  <2>1. << >> \in Seq(Spellable)
    OBVIOUS
  <2> QED
    BY <2>1 DEF Init, SInv
<1>2. SInv => TokensSpell
  BY DEF SInv, TokensSpell, CanSpell
<1>3. Spec => []SInv
  BY <1>1, TypesInvariant, SpellingKept, PTL DEF Spec
<1> QED
  BY <1>2, <1>3, PTL

-----------------------------------------------------------------------------
(* The refinement of byte pair encoding. A symbol that is not empty has a  *)
(* place in the list of those that are left, which the queue knows nothing *)
(* of: it is the number of nonempty symbols up to it.                      *)

LiveOf(s) == Concat(PartsOf(s))

(* p[i] counts the symbols up to i that are not empty: where in the list   *)
(* of what is left the text of such a symbol stands.                       *)
Placing(s, p) ==
    /\ p[0] = 0 /\ \A i \in 0 .. Len(s) : p[i] \in Nat
    /\ \A i \in 1 .. Len(s) : p[i] = IF FullIn(s, i) THEN p[i - 1] + 1 ELSE p[i - 1]

(* Counted this way, places are in the order of the symbols, ...           *)
LEMMA PlacesGrow ==
    ASSUME NEW s, Len(s) \in Nat, NEW p, Placing(s, p),
           NEW i \in 0 .. Len(s), NEW j \in 0 .. Len(s), i <= j
    PROVE  p[i] <= p[j] /\ (i < j /\ FullIn(s, j) => p[i] < p[j])
<1> DEFINE n == Len(s)
           T == {k \in i .. n : ~ p[i] <= p[k]}
<1>1. /\ \A k \in 0 .. n : p[k] \in Nat
      /\ \A k \in 1 .. n : p[k] = IF FullIn(s, k) THEN p[k - 1] + 1 ELSE p[k - 1]
  BY DEF Placing
<1>2. n \in Nat /\ i \in 0 .. n /\ j \in 0 .. n
  OBVIOUS
<1> HIDE DEF n
<1>3. T = {}
  <2> SUFFICES ASSUME T # {} PROVE FALSE
    OBVIOUS
  <2>1. T \subseteq Nat
    BY <1>2
  <2> HIDE DEF T
  <2>2. PICK k \in T : \A m \in T : k <= m
    BY <2>1, Least
  <2> USE DEF T
  <2>3. k \in i .. n /\ ~ p[i] <= p[k]
    BY <2>2
  <2> HIDE DEF T
  <2>4. k # i /\ k \in 1 .. n /\ k - 1 \in i .. n /\ k - 1 \in 0 .. n /\ i \in 0 .. n /\ k \in 0 .. n
    BY <1>1, <1>2, <2>3
  <2>5. k - 1 \notin T
    BY <2>2, <2>4
  <2>6. p[i] <= p[k - 1]
    BY <2>4, <2>5 DEF T
  <2>7. p[k - 1] <= p[k]
    BY <1>1, <2>4
  <2> QED
    BY <1>1, <2>3, <2>4, <2>6, <2>7
<1>4. \A k \in i .. n : p[i] <= p[k]
  BY <1>3
<1> HIDE DEF T
<1>5. p[i] <= p[j]
  BY <1>2, <1>4
<1>6. ASSUME i < j, FullIn(s, j) PROVE p[i] < p[j]
  <2>1. j - 1 \in i .. n /\ j \in 1 .. n /\ j - 1 \in 0 .. n
    BY <1>2, <1>6
  <2>2. p[i] <= p[j - 1] /\ p[j] = p[j - 1] + 1
    BY <1>1, <1>4, <1>6, <2>1
  <2> QED
    BY <1>1, <1>2, <2>1, <2>2
<1> QED
  BY <1>5, <1>6

(* ... and every place is that of a symbol.                                *)
LEMMA PlacesTaken ==
    ASSUME NEW s, Len(s) \in Nat, NEW p, Placing(s, p), NEW k \in 1 .. p[Len(s)]
    PROVE  \E i \in 1 .. Len(s) : FullIn(s, i) /\ p[i] = k
<1> DEFINE n == Len(s)
           T == {i \in 0 .. n : k <= p[i]}
<1>1. /\ p[0] = 0 /\ \A i \in 0 .. n : p[i] \in Nat
      /\ \A i \in 1 .. n : p[i] = IF FullIn(s, i) THEN p[i - 1] + 1 ELSE p[i - 1]
  BY DEF Placing
<1>2. n \in Nat /\ k \in 1 .. p[n]
  OBVIOUS
<1> HIDE DEF n
<1>3. n \in T /\ T \subseteq Nat
  BY <1>1, <1>2
<1> HIDE DEF T
<1>4. PICK i \in T : \A j \in T : i <= j
  BY <1>3, Least
<1>5. i \in 0 .. n /\ k <= p[i]
  BY <1>4 DEF T
<1>6. i # 0
  BY <1>1, <1>2, <1>5
<1>7. i \in 1 .. n /\ i - 1 \in 0 .. n /\ i - 1 \notin T
  BY <1>2, <1>4, <1>5, <1>6
<1>8. ~ k <= p[i - 1] /\ p[i - 1] \in Nat
  BY <1>1, <1>7 DEF T
<1>9. k \in Nat
  BY <1>1, <1>2
<1>10. p[i] = IF FullIn(s, i) THEN p[i - 1] + 1 ELSE p[i - 1]
  BY <1>1, <1>7
<1>11. FullIn(s, i) /\ p[i] = k
  BY <1>5, <1>8, <1>9, <1>10
<1> QED
  BY <1>7, <1>11 DEF n

(* The list of what is left has the texts at their places.                 *)
PlacedBy(s, p) ==
    /\ Placing(s, p) /\ LiveOf(s) \in Seq(Strings) /\ Len(LiveOf(s)) = p[Len(s)]
    /\ \A i \in 1 .. Len(s) : FullIn(s, i) =>
           p[i] \in 1 .. p[Len(s)] /\ LiveOf(s)[p[i]] = s[i].text

LEMMA Placed ==
    ASSUME NEW s \in Symbols
    PROVE  \E p : PlacedBy(s, p)
<1> DEFINE n == Len(s)
           d == PartsOf(s)
<1>1. n \in Nat /\ DOMAIN s = 1 .. n /\ \A i \in 1 .. n : s[i].text \in Strings
  BY SymbolFields DEF Symbols
<1>2. d \in Seq(Seq(Strings)) /\ LiveOf(s) \in Seq(Strings)
  BY <1>1, PartsType DEF LiveOf
<1>3. PICK f : /\ Steps(f, d) /\ Concat(d) = f[Len(d)]
               /\ \A i \in 0 .. Len(d) : f[i] \in Seq(Strings)
  BY <1>2, ConcatSteps
<1>4. Len(d) = n /\ \A i \in 1 .. n : d[i] = Part(s, i)
  <2> HIDE DEF n
  <2>1. d = [i \in 1 .. n |-> Part(s, i)]
    BY <1>1 DEF PartsOf
  <2> HIDE DEF d
  <2> QED
    BY <1>1, <2>1
<1> DEFINE p == [i \in 0 .. n |-> Len(f[i])]
<1>5. f[0] = << >> /\ \A i \in 1 .. n : f[i] = f[i - 1] \o Part(s, i)
  BY <1>3, <1>4 DEF Steps
<1>6. \A i \in 0 .. n : f[i] \in Seq(Strings) /\ p[i] = Len(f[i]) /\ p[i] \in Nat
  BY <1>3, <1>4
<1>7. LiveOf(s) = f[n]
  BY <1>3, <1>4 DEF LiveOf
<1> HIDE DEF n, d, p
<1>8. ASSUME NEW i \in 1 .. n
      PROVE  /\ p[i] = IF FullIn(s, i) THEN p[i - 1] + 1 ELSE p[i - 1]
             /\ \A k \in 1 .. p[i - 1] : f[i][k] = f[i - 1][k]
             /\ FullIn(s, i) => f[i][p[i]] = s[i].text
  <2> DEFINE x == f[i - 1]
  <2>1. i - 1 \in 0 .. n /\ i \in 0 .. n
    BY <1>1
  <2>2. x \in Seq(Strings) /\ p[i - 1] = Len(x) /\ p[i] = Len(f[i]) /\ f[i] = x \o Part(s, i)
    BY <1>5, <1>6, <2>1
  <2> HIDE DEF x
  <2>3. CASE FullIn(s, i)
    <3> DEFINE y == s[i].text
    <3>1. f[i] = x \o <<y>> /\ y \in Strings
      BY <1>1, <2>2, <2>3 DEF Part, FullIn
    <3> HIDE DEF y
    <3>2. Len(x \o <<y>>) = Len(x) + 1 /\ (x \o <<y>>)[Len(x) + 1] = y
          /\ \A k \in 1 .. Len(x) : (x \o <<y>>)[k] = x[k]
      BY <2>2, <3>1
    <3> QED
      BY <2>2, <2>3, <3>1, <3>2 DEF x, y
  <2>4. CASE ~ FullIn(s, i)
    <3>1. Part(s, i) = << >>
      BY <2>4 DEF Part, FullIn
    <3>2. x \o << >> = x
      BY <2>2
    <3> QED
      BY <2>2, <2>4, <3>1, <3>2 DEF x
  <2> QED
    BY <2>3, <2>4
<1>9. p[0] = 0
  BY <1>1, <1>5, <1>6
<1>10. Placing(s, p)
  BY <1>6, <1>8, <1>9 DEF Placing, n
<1>11. ASSUME NEW i \in 1 .. n, FullIn(s, i)
       PROVE  \A j \in i .. n : p[i] \in 1 .. p[j] /\ f[j][p[i]] = s[i].text
  <2> DEFINE T == {j \in i .. n : ~ (p[i] \in 1 .. p[j] /\ f[j][p[i]] = s[i].text)}
  <2> SUFFICES ASSUME T # {} PROVE FALSE
    OBVIOUS
  <2>1. T \subseteq Nat
    BY <1>1
  <2>2. \A j \in T : j \in i .. n /\ ~ (p[i] \in 1 .. p[j] /\ f[j][p[i]] = s[i].text)
    OBVIOUS
  <2>3. \A j \in i .. n : j \notin T => p[i] \in 1 .. p[j] /\ f[j][p[i]] = s[i].text
    OBVIOUS
  <2> HIDE DEF T
  <2>4. PICK j \in T : \A k \in T : j <= k
    BY <2>1, Least
  <2>5. i \in 0 .. n /\ i - 1 \in 0 .. n /\ p[i] \in Nat /\ p[i - 1] \in Nat
    BY <1>1, <1>6
  <2>6. p[i] \in 1 .. p[i] /\ f[i][p[i]] = s[i].text
    BY <1>8, <1>11, <2>5
  <2>7. j # i /\ j \in i .. n
    BY <2>2, <2>4, <2>6
  <2>8. j \in 1 .. n /\ j - 1 \in i .. n /\ j - 1 \in 0 .. n /\ j \in 0 .. n /\ j - 1 \notin T
    BY <1>1, <2>4, <2>7
  <2>9. p[i] \in 1 .. p[j - 1] /\ f[j - 1][p[i]] = s[i].text
    BY <2>3, <2>8
  <2>10. p[j - 1] <= p[j] /\ p[j] \in Nat /\ p[j - 1] \in Nat
    <3>1. p[j] \in Nat /\ p[j - 1] \in Nat
      BY <1>6, <2>8
    <3>2. p[j] = IF FullIn(s, j) THEN p[j - 1] + 1 ELSE p[j - 1]
      BY <1>8, <2>8
    <3> QED
      BY <3>1, <3>2
  <2>11. p[i] \in 1 .. p[j] /\ f[j][p[i]] = s[i].text
    BY <1>8, <2>5, <2>8, <2>9, <2>10
  <2> QED
    BY <2>2, <2>4, <2>11
<1>12. \A i \in 1 .. n : n \in i .. n
  BY <1>1
<1>13. Len(f[n]) = p[n]
  BY <1>1, <1>6
<1> QED
  BY <1>2, <1>7, <1>10, <1>11, <1>12, <1>13 DEF n, PlacedBy

(* Neighbours stand next to each other in what is left, and the other way  *)
(* round.                                                                  *)
LEMMA Adjoining ==
    ASSUME NEW s \in Symbols, Linked(s), NEW p, Placing(s, p),
           NEW i \in DOMAIN s, NEW j \in DOMAIN s, FullIn(s, i), FullIn(s, j)
    PROVE  s[i].next = j <=> p[j] = p[i] + 1
<1> DEFINE n == Len(s)
<1>1. n \in Nat /\ DOMAIN s = 1 .. n
  BY DEF Symbols
<1>2. \A k \in 0 .. n : p[k] \in Nat
  BY DEF Placing
<1>3. /\ i \in 1 .. n /\ j \in 1 .. n /\ i \in 0 .. n /\ j \in 0 .. n /\ n \in 0 .. n
      /\ p[i] \in Nat /\ p[j] \in Nat /\ p[n] \in Nat
  BY <1>1, <1>2
<1>4. \A k \in 0 .. n, m \in 0 .. n : k <= m => p[k] <= p[m] /\ (k < m /\ FullIn(s, m) => p[k] < p[m])
  BY <1>1, PlacesGrow
<1>5. \A m \in 1 .. n : i < m /\ FullIn(s, m) => s[i].next # 0 /\ s[i].next <= m
  BY <1>1 DEF Linked, Nearest
<1>6. s[i].next # 0 => s[i].next \in 1 .. n /\ i < s[i].next /\ FullIn(s, s[i].next)
  BY <1>1 DEF Linked, NextSound
<1>7. \A k \in 1 .. p[n] : \E m \in 1 .. n : FullIn(s, m) /\ p[m] = k
  BY <1>1, PlacesTaken
<1> HIDE DEF n
<1>8. ASSUME s[i].next = j PROVE p[j] = p[i] + 1
  <2>1. j # 0 /\ i < j
    BY <1>3, <1>6, <1>8
  <2>2. p[i] < p[j] /\ p[j] <= p[n]
    BY <1>1, <1>3, <1>4, <2>1
  <2>3. p[i] + 1 \in 1 .. p[n]
    BY <1>3, <2>2
  <2>4. PICK m \in 1 .. n : FullIn(s, m) /\ p[m] = p[i] + 1
    BY <1>7, <2>3
  <2>5. m \in 0 .. n /\ ~ m <= i
    BY <1>1, <1>3, <1>4, <2>4
  <2>6. j <= m
    BY <1>3, <1>5, <1>8, <2>4, <2>5
  <2>7. p[j] <= p[m]
    BY <1>3, <1>4, <2>5, <2>6
  <2> QED
    BY <1>3, <2>2, <2>4, <2>7
<1>9. ASSUME p[j] = p[i] + 1 PROVE s[i].next = j
  <2>1. i < j
    BY <1>3, <1>4, <1>9
  <2> DEFINE k == s[i].next
  <2>2. k \in 1 .. n /\ i < k /\ FullIn(s, k) /\ k <= j
    BY <1>3, <1>5, <1>6, <2>1
  <2> HIDE DEF k
  <2>3. k \in 0 .. n /\ p[k] \in Nat /\ p[i] < p[k]
    BY <1>1, <1>2, <1>3, <1>4, <2>2
  <2>4. ~ k < j
    BY <1>3, <1>4, <1>9, <2>3
  <2> QED
    BY <1>3, <2>2, <2>4 DEF k
<1> QED
  BY <1>8, <1>9

-----------------------------------------------------------------------------
(* Behind the symbol that a merge empties, everything moves up by one.     *)
LEMMA PlacesMove ==
    ASSUME symbols \in Symbols, NEW n \in Symbols, NEW l \in DOMAIN symbols,
           NEW r \in DOMAIN symbols, FullIn(symbols, r), MergeLeaves(n, l, r),
           NEW p, Placing(symbols, p), NEW q, Placing(n, q)
    PROVE  \A i \in 0 .. Len(symbols) : q[i] = IF i < r THEN p[i] ELSE p[i] - 1
<1> DEFINE len == Len(symbols)
           T == {i \in 0 .. len : ~ q[i] = IF i < r THEN p[i] ELSE p[i] - 1}
<1>1. len \in Nat /\ DOMAIN symbols = 1 .. len /\ Len(n) = len
  BY DEF Symbols, MergeLeaves
<1>2. /\ p[0] = 0 /\ (\A i \in 0 .. len : p[i] \in Nat)
      /\ \A i \in 1 .. len : p[i] = IF FullIn(symbols, i) THEN p[i - 1] + 1 ELSE p[i - 1]
  BY DEF Placing
<1>3. /\ q[0] = 0 /\ (\A i \in 0 .. len : q[i] \in Nat)
      /\ \A i \in 1 .. len : q[i] = IF FullIn(n, i) THEN q[i - 1] + 1 ELSE q[i - 1]
  BY <1>1 DEF Placing
<1>4. r \in 1 .. len /\ FullIn(symbols, r)
      /\ \A i \in 1 .. len : FullIn(n, i) <=> FullIn(symbols, i) /\ i # r
  BY <1>1 DEF MergeLeaves
<1> HIDE DEF len
<1> SUFFICES ASSUME T # {} PROVE FALSE
  BY DEF len
<1>5. T \subseteq Nat
  BY <1>1
<1>6. \A i \in 0 .. len : i \in T <=> ~ q[i] = IF i < r THEN p[i] ELSE p[i] - 1
  OBVIOUS
<1>7. T \subseteq 0 .. len
  OBVIOUS
<1> HIDE DEF T
<1>8. PICK i \in T : \A j \in T : i <= j
  BY <1>5, Least
<1>9. i # 0
  BY <1>1, <1>2, <1>3, <1>4, <1>6, <1>7, <1>8
<1>10. i \in 1 .. len /\ i - 1 \in 0 .. len /\ i \in 0 .. len /\ i - 1 \notin T
  BY <1>1, <1>7, <1>8, <1>9
<1>11. q[i - 1] = IF i - 1 < r THEN p[i - 1] ELSE p[i - 1] - 1
  BY <1>6, <1>10
<1>12. /\ p[i] \in Nat /\ p[i - 1] \in Nat /\ i \in Nat /\ r \in Nat
       /\ p[i] = IF FullIn(symbols, i) THEN p[i - 1] + 1 ELSE p[i - 1]
  BY <1>1, <1>2, <1>4, <1>10
<1>13. q[i] = IF FullIn(symbols, i) /\ i # r THEN q[i - 1] + 1 ELSE q[i - 1]
  BY <1>3, <1>4, <1>10
<1>14. q[i] = IF i < r THEN p[i] ELSE p[i] - 1
  <2>1. CASE i < r
    <3>1. i - 1 < r /\ i # r
      BY <1>12, <2>1
    <3> QED
      BY <1>11, <1>12, <1>13, <2>1, <3>1
  <2>2. CASE i = r
    <3>1. i - 1 < r /\ ~ i < r
      BY <1>12, <2>2
    <3> QED
      BY <1>4, <1>11, <1>12, <1>13, <2>2, <3>1
  <2>3. CASE i > r
    <3>1. ~ i - 1 < r /\ ~ i < r /\ i # r
      BY <1>12, <2>3
    <3> QED
      BY <1>11, <1>12, <1>13, <2>3, <3>1
  <2> QED
    BY <1>12, <2>1, <2>2, <2>3
<1> QED
  BY <1>6, <1>8, <1>10, <1>14

(* The parts at k and k + 1 of a list joined. *)
Joined(x, k) == SubSeq(x, 1, k - 1) \o <<x[k] \o x[k + 1]>> \o SubSeq(x, k + 2, Len(x))

Glue(a, w, c) == (a \o <<w>>) \o c

IsGlued(z, a, w, c) ==
    /\ Len(z) = Len(a) + 1 + Len(c)
    /\ \A i \in 1 .. Len(a) : z[i] = a[i]
    /\ z[Len(a) + 1] = w
    /\ \A i \in 1 .. Len(c) : z[Len(a) + 1 + i] = c[i]

LEMMA Glued ==
    ASSUME NEW S, NEW a \in Seq(S), NEW w \in S, NEW c \in Seq(S)
    PROVE  Glue(a, w, c) \in Seq(S) /\ IsGlued(Glue(a, w, c), a, w, c)
<1> DEFINE b == a \o <<w>>
<1>1. /\ b \in Seq(S) /\ Len(b) = Len(a) + 1 /\ Len(a) \in Nat /\ Len(c) \in Nat
      /\ b[Len(a) + 1] = w /\ \A i \in 1 .. Len(a) : b[i] = a[i]
  OBVIOUS
<1> HIDE DEF b
<1>2. /\ b \o c \in Seq(S) /\ Len(b \o c) = Len(b) + Len(c)
      /\ \A i \in 1 .. Len(b) : (b \o c)[i] = b[i]
      /\ \A i \in 1 .. Len(c) : (b \o c)[Len(b) + i] = c[i]
  BY <1>1
<1>3. \A i \in 1 .. Len(a) : i \in 1 .. Len(b)
  BY <1>1
<1>4. Len(a) + 1 \in 1 .. Len(b)
  BY <1>1
<1>5. (b \o c)[Len(a) + 1] = w /\ \A i \in 1 .. Len(a) : (b \o c)[i] = a[i]
  BY <1>1, <1>2, <1>3, <1>4
<1> QED
  BY <1>1, <1>2, <1>5 DEF b, Glue, IsGlued

LEMMA SameSequence ==
    ASSUME NEW S, NEW y \in Seq(S), NEW z \in Seq(S), Len(y) = Len(z),
           \A i \in 1 .. Len(y) : y[i] = z[i]
    PROVE  y = z
<1> DEFINE n == Len(y)
<1>1. y = [i \in 1 .. n |-> y[i]] /\ z = [i \in 1 .. n |-> z[i]]
  OBVIOUS
<1>2. \A i \in 1 .. n : y[i] = z[i]
  OBVIOUS
<1> HIDE DEF n
<1>3. [i \in 1 .. n |-> z[i]] = [i \in 1 .. n |-> y[i]]
  BY <1>2
<1> QED
  BY <1>1, <1>3

IsJoined(x, y, k) ==
    /\ k \in 1 .. Len(x) - 1 /\ Len(y) = Len(x) - 1 /\ y[k] = x[k] \o x[k + 1]
    /\ \A i \in 1 .. k - 1 : y[i] = x[i]
    /\ \A i \in k + 1 .. Len(y) : y[i] = x[i + 1]

LEMMA JoinedBy ==
    ASSUME NEW x \in Seq(Strings), NEW y \in Seq(Strings), NEW k, IsJoined(x, y, k)
    PROVE  y = Joined(x, k)
<1> DEFINE a == SubSeq(x, 1, k - 1)
           w == x[k] \o x[k + 1]
           c == SubSeq(x, k + 2, Len(x))
           n == Len(x)
<1>1. n \in Nat /\ k \in Nat /\ 1 <= k /\ k < n
  BY DEF IsJoined
<1>2. a \in Seq(Strings) /\ Len(a) = k - 1 /\ \A i \in 1 .. k - 1 : a[i] = x[i]
  BY <1>1
<1>3. c \in Seq(Strings) /\ Len(c) = n - k - 1 /\ \A i \in 1 .. n - k - 1 : c[i] = x[i + k + 1]
  BY <1>1
<1>4. w \in Strings
  <2> DEFINE u == x[k]
             v == x[k + 1]
  <2>1. u \in Seq(Chars) /\ v \in Seq(Chars)
    BY <1>1 DEF Strings
  <2> HIDE DEF u, v
  <2>2. u \o v \in Seq(Chars)
    BY <2>1
  <2> QED
    BY <2>2 DEF u, v, Strings
<1>5. /\ Len(y) = n - 1 /\ y[k] = w
      /\ \A i \in 1 .. k - 1 : y[i] = x[i]
      /\ \A i \in k + 1 .. n - 1 : y[i] = x[i + 1]
  BY DEF IsJoined
<1> HIDE DEF a, w, c, n
<1> DEFINE z == Glue(a, w, c)
<1>6. /\ z \in Seq(Strings) /\ Len(z) = Len(a) + 1 + Len(c)
      /\ \A i \in 1 .. Len(a) : z[i] = a[i]
      /\ z[Len(a) + 1] = w
      /\ \A i \in 1 .. Len(c) : z[Len(a) + 1 + i] = c[i]
  <2>1. a \in Seq(Strings) /\ w \in Strings /\ c \in Seq(Strings)
    BY <1>2, <1>3, <1>4
  <2>2. z \in Seq(Strings) /\ IsGlued(z, a, w, c)
    BY <2>1, Glued
  <2> HIDE DEF z
  <2> QED
    BY <2>1, <2>2 DEF IsGlued
<1> HIDE DEF z
<1>7. Len(z) = n - 1 /\ z[k] = w /\ \A i \in 1 .. k - 1 : z[i] = x[i]
  <2>1. Len(a) + 1 = k /\ Len(a) + 1 + Len(c) = n - 1
    BY <1>1, <1>2, <1>3
  <2> QED
    BY <1>2, <1>6, <2>1
<1>8. ASSUME NEW i \in k + 1 .. n - 1 PROVE z[i] = x[i + 1]
  <2> DEFINE j == i - k
  <2>1. j \in 1 .. n - k - 1 /\ j + k + 1 = i + 1 /\ Len(a) + 1 + j = i
    BY <1>1, <1>2
  <2> HIDE DEF j
  <2>2. z[Len(a) + 1 + j] = c[j] /\ c[j] = x[j + k + 1]
    BY <1>3, <1>6, <2>1
  <2> QED
    BY <2>1, <2>2
<1>9. ASSUME NEW i \in 1 .. n - 1 PROVE z[i] = y[i]
  <2>1. i \in 1 .. k - 1 \/ i = k \/ i \in k + 1 .. n - 1
    BY <1>1
  <2> QED
    BY <1>5, <1>7, <1>8, <2>1
<1>10. z = y
  BY <1>5, <1>6, <1>7, <1>9, SameSequence
<1> QED
  BY <1>10 DEF z, Glue, a, w, c, n, Joined

-----------------------------------------------------------------------------
(* The top of the queue is the merge that byte pair encoding makes next.   *)

(* Join, of a list x that becomes y. *)
AppliesTo(x, m, i) == i \in 1 .. Len(x) - 1 /\ merges[m] = <<x[i], x[i + 1]>>
IsFirst(x, m, i) ==
    \A k \in DOMAIN merges, j \in DOMAIN x :
        AppliesTo(x, k, j) => m < k \/ (m = k /\ i <= j)
JoinOf(x, y) ==
    \E m \in DOMAIN merges, i \in DOMAIN x :
        AppliesTo(x, m, i) /\ IsFirst(x, m, i) /\ y = Joined(x, i)

(* Wherever a merge applies, the queue has a tuple for it that is ranked   *)
(* no later.                                                               *)
LEMMA AppliesQueued ==
    ASSUME IInv, phase = "merge", NEW p, PlacedBy(symbols, p),
           NEW m \in DOMAIN merges, NEW j, AppliesTo(LiveOf(symbols), m, j)
    PROVE  \E u \in queue : /\ u.rank \in Nat /\ u.rank <= m
                            /\ u.left \in DOMAIN symbols /\ p[u.left] = j
<1> DEFINE x == LiveOf(symbols)
           n == Len(symbols)
<1>1. /\ symbols \in Symbols /\ Linked(symbols) /\ Queued(symbols, queue)
      /\ merges \in Seq(Strings \X Strings)
  BY TablesAssumption DEF IInv
<1>2. /\ Placing(symbols, p) /\ x \in Seq(Strings) /\ Len(x) = p[n]
      /\ \A i \in 1 .. n : FullIn(symbols, i) => x[p[i]] = symbols[i].text
  BY DEF PlacedBy
<1>3. n \in Nat /\ DOMAIN symbols = 1 .. n
  BY <1>1 DEF Symbols
<1>4. j \in 1 .. p[n] /\ j + 1 \in 1 .. p[n] /\ merges[m] = <<x[j], x[j + 1]>>
  <2>1. Len(x) \in Nat /\ j \in 1 .. Len(x) - 1 /\ merges[m] = <<x[j], x[j + 1]>>
    BY <1>2 DEF AppliesTo
  <2> HIDE DEF x
  <2> QED
    BY <1>2, <2>1
<1>5. \A k \in 1 .. p[n] : \E i \in 1 .. n : FullIn(symbols, i) /\ p[i] = k
  BY <1>2, <1>3, PlacesTaken
<1> HIDE DEF n, x
<1>6. PICK l \in DOMAIN symbols : FullIn(symbols, l) /\ p[l] = j
  BY <1>3, <1>4, <1>5
<1>7. PICK r \in DOMAIN symbols : FullIn(symbols, r) /\ p[r] = j + 1
  BY <1>3, <1>4, <1>5
<1>8. symbols[l].next = r
  BY <1>1, <1>2, <1>6, <1>7, Adjoining
<1> DEFINE a == symbols[l].text
           b == symbols[r].text
<1>9. merges[m] = <<a, b>>
  BY <1>2, <1>3, <1>4, <1>6, <1>7
<1> HIDE DEF a, b
<1> DEFINE T == {k \in DOMAIN merges : merges[k] = <<a, b>>}
<1>10. DOMAIN merges = 1 .. Len(merges) /\ Len(merges) \in Nat
  BY <1>1
<1>11. T \subseteq Nat /\ T # {}
  BY <1>9, <1>10
<1>12. \A k : k \in T <=> k \in DOMAIN merges /\ merges[k] = <<a, b>>
  OBVIOUS
<1> HIDE DEF T
<1>13. PICK k \in T : \A i \in T : k <= i
  BY <1>11, Least
<1>14. k \in Ranks(a, b) /\ k \in Nat /\ k <= m
  <2>1. m \in T /\ k \in DOMAIN merges /\ merges[k] = <<a, b>>
    BY <1>9, <1>12, <1>13
  <2>2. \A i \in 1 .. k - 1 : i \notin T /\ i \in DOMAIN merges
    BY <1>10, <1>13, <2>1
  <2>3. \A i \in 1 .. k - 1 : merges[i] # <<a, b>>
    BY <1>12, <2>2
  <2> QED
    BY <1>11, <1>13, <2>1, <2>3 DEF Ranks
<1> DEFINE u == [left |-> l, right |-> r, text |-> a \o b, rank |-> k]
<1>15. u \in AddTuple(symbols, l, r)
  <2>1. l # 0 /\ r # 0
    BY <1>3
  <2> QED
    BY <1>14, <2>1 DEF AddTuple, a, b
<1>16. u \in queue
  BY <1>1, <1>6, <1>8, <1>15 DEF Queued
<1>17. u.rank = k /\ u.left = l
  OBVIOUS
<1> QED
  BY <1>6, <1>14, <1>16, <1>17

(* A merge of the queue joins what the definition joins. *)
LEMMA MergeIsJoin ==
    ASSUME IInv, TInv, NEW t \in queue, MergeTuple(t)
    PROVE  JoinOf(LiveOf(symbols), LiveOf(symbols'))
<1> DEFINE l == t.left
           r == t.right
           new == Merged(l, r)
           x == LiveOf(symbols)
           y == LiveOf(new)
           n == Len(symbols)
<1>1. phase = "merge" /\ ~ Stale(t) /\ Top(t) /\ symbols' = new
  BY DEF MergeTuple
<1>2. /\ symbols \in Symbols /\ Linked(symbols) /\ TupleSound(symbols, t)
      /\ merges \in Seq(Strings \X Strings)
  BY <1>1, TablesAssumption DEF IInv
<1>3. /\ Fresh(symbols, t) /\ FullIn(symbols, l) /\ FullIn(symbols, r)
      /\ l \in DOMAIN symbols /\ r \in DOMAIN symbols
  BY <1>1, FreshUnlessStale
<1>4. symbols[l].next = r /\ t.rank \in Ranks(symbols[l].text, symbols[r].text)
  BY <1>3 DEF Fresh
<1>5. l < r /\ t.rank \in DOMAIN merges
  BY <1>2 DEF TupleSound, TInv
<1>6. merges[t.rank] = <<symbols[l].text, symbols[r].text>>
  BY <1>4 DEF Ranks
<1>7. \A u \in queue : t.rank < u.rank \/ (t.rank = u.rank /\ l <= u.left)
  BY <1>1 DEF Top
<1> HIDE DEF l, r, new
<1>8. MergeLeaves(new, l, r)
  BY <1>2, <1>3, <1>4, MergedFields DEF new
<1>9. new \in Symbols /\ DOMAIN new = DOMAIN symbols
  BY <1>8 DEF MergeLeaves
<1>10. PICK p : PlacedBy(symbols, p)
  BY <1>2, Placed
<1>11. PICK q : PlacedBy(new, q)
  BY <1>9, Placed
<1>12. n \in Nat /\ DOMAIN symbols = 1 .. n /\ Len(new) = n
  BY <1>2, <1>9 DEF Symbols
<1>13. /\ Placing(symbols, p) /\ x \in Seq(Strings) /\ Len(x) = p[n]
       /\ \A i \in 1 .. n : FullIn(symbols, i) => p[i] \in 1 .. p[n] /\ x[p[i]] = symbols[i].text
  BY <1>10 DEF PlacedBy
<1>14. /\ Placing(new, q) /\ y \in Seq(Strings) /\ Len(y) = q[n]
       /\ \A i \in 1 .. n : FullIn(new, i) => q[i] \in 1 .. q[n] /\ y[q[i]] = new[i].text
  BY <1>11, <1>12 DEF PlacedBy
<1>15. \A i \in 0 .. n : q[i] = IF i < r THEN p[i] ELSE p[i] - 1
  BY <1>2, <1>3, <1>8, <1>9, <1>13, <1>14, PlacesMove
<1>16. p[r] = p[l] + 1
  BY <1>2, <1>3, <1>4, <1>13, Adjoining
<1>17. \A i \in 1 .. n : FullIn(symbols, i) => ~ (l < i /\ i < r)
  BY <1>2, <1>3, <1>4, <1>12 DEF Linked, Nearest
<1>18. \A i \in 0 .. n, j \in 0 .. n :
           i <= j => p[i] <= p[j] /\ (i < j /\ FullIn(symbols, j) => p[i] < p[j])
  BY <1>12, <1>13, PlacesGrow
<1>19. \A k \in 1 .. q[n] : \E i \in 1 .. n : FullIn(new, i) /\ q[i] = k
  BY <1>12, <1>14, PlacesTaken
<1>20. \A i \in 0 .. n : p[i] \in Nat /\ q[i] \in Nat
  BY <1>12, <1>13, <1>14 DEF Placing
<1>21. \A i \in 1 .. n : FullIn(new, i) <=> FullIn(symbols, i) /\ i # r
  BY <1>8, <1>12 DEF MergeLeaves
<1>22. /\ new[l].text = symbols[l].text \o symbols[r].text
       /\ \A i \in 1 .. n : i # l /\ i # r => new[i].text = symbols[i].text
  BY <1>8, <1>12 DEF MergeLeaves
<1> HIDE DEF x, y, n
<1> DEFINE k == p[l]
<1>23. /\ l \in 1 .. n /\ r \in 1 .. n /\ l \in 0 .. n /\ r \in 0 .. n /\ n \in 0 .. n
       /\ k \in Nat /\ p[n] \in Nat /\ q[n] \in Nat /\ l \in Nat /\ r \in Nat /\ r <= n
  BY <1>3, <1>12, <1>20
<1>24. /\ k \in 1 .. p[n] - 1 /\ x[k] = symbols[l].text /\ x[k + 1] = symbols[r].text
  <2>1. p[l] \in 1 .. p[n] /\ p[r] \in 1 .. p[n] /\ x[p[l]] = symbols[l].text /\ x[p[r]] = symbols[r].text
    BY <1>3, <1>13, <1>23
  <2> QED
    BY <1>16, <1>23, <2>1
<1>25. q[n] = p[n] - 1 /\ q[l] = k
  BY <1>5, <1>15, <1>23
<1>26. ASSUME NEW i \in 1 .. q[n]
       PROVE  y[i] = IF i < k THEN x[i] ELSE IF i = k THEN x[k] \o x[k + 1] ELSE x[i + 1]
  <2>1. PICK j \in 1 .. n : FullIn(new, j) /\ q[j] = i
    BY <1>19
  <2>2. FullIn(symbols, j) /\ j # r /\ y[i] = new[j].text /\ x[p[j]] = symbols[j].text
    BY <1>13, <1>14, <1>21, <2>1
  <2>3. j \in 0 .. n /\ j \in Nat /\ i \in Nat /\ p[j] \in Nat
    BY <1>12, <1>20, <1>23
  <2>4. CASE j < l
    <3>1. p[j] < p[l] /\ j < r
      BY <1>3, <1>5, <1>18, <1>23, <2>3, <2>4
    <3>2. i = p[j] /\ i < k
      BY <1>15, <2>1, <2>3, <3>1
    <3>3. j # l
      BY <2>4, <2>3, <1>23
    <3>4. y[i] = x[i]
      BY <1>22, <2>2, <3>2, <3>3
    <3> QED
      BY <3>2, <3>4
  <2>5. CASE j = l
    <3>1. i = k /\ y[i] = x[k] \o x[k + 1]
      BY <1>22, <1>24, <1>25, <2>1, <2>2, <2>5
    <3>2. ~ i < k /\ i = k
      BY <1>23, <3>1
    <3> HIDE DEF k
    <3> QED
      BY <3>1, <3>2
  <2>6. CASE l < j
    <3>1. r < j
      BY <1>17, <1>23, <2>2, <2>3, <2>6
    <3>2. p[r] < p[j] /\ i = p[j] - 1 /\ ~ j < r
      BY <1>15, <1>18, <1>23, <2>1, <2>2, <2>3, <3>1
    <3>3. ~ i < k /\ i # k /\ i + 1 = p[j]
      BY <1>16, <1>23, <2>3, <3>2
    <3>4. y[i] = x[i + 1]
      BY <1>22, <1>23, <2>2, <2>3, <2>6, <3>3
    <3> QED
      BY <3>3, <3>4
  <2> QED
    BY <1>23, <2>3, <2>4, <2>5, <2>6
<1>27. IsJoined(x, y, k)
  <2>1. Len(x) = p[n] /\ Len(y) = Len(x) - 1 /\ k \in 1 .. Len(x) - 1
    BY <1>13, <1>14, <1>24, <1>25
  <2>2. k \in 1 .. q[n] /\ ~ k < k
    BY <1>23, <1>24, <1>25
  <2>3. y[k] = x[k] \o x[k + 1]
    BY <1>26, <2>2
  <2>4. ASSUME NEW i \in 1 .. k - 1 PROVE y[i] = x[i]
    <3>1. i \in 1 .. q[n] /\ i < k
      BY <1>23, <2>2
    <3> QED
      BY <1>26, <3>1
  <2>5. ASSUME NEW i \in k + 1 .. Len(y) PROVE y[i] = x[i + 1]
    <3>1. i \in 1 .. q[n] /\ ~ i < k /\ i # k
      BY <1>14, <1>23, <1>25, <2>1
    <3> QED
      BY <1>26, <3>1
  <2> QED
    BY <2>1, <2>3, <2>4, <2>5 DEF IsJoined
<1>28. y = Joined(x, k)
  BY <1>13, <1>14, <1>27, JoinedBy
<1>29. AppliesTo(x, t.rank, k) /\ k \in DOMAIN x
  <2>1. merges[t.rank] = <<x[k], x[k + 1]>>
    BY <1>6, <1>24
  <2>2. k \in 1 .. Len(x) - 1 /\ k \in 1 .. Len(x) /\ DOMAIN x = 1 .. Len(x)
    BY <1>13, <1>23, <1>24
  <2> QED
    BY <2>1, <2>2 DEF AppliesTo
<1>30. IsFirst(x, t.rank, k)
  <2> SUFFICES ASSUME NEW m \in DOMAIN merges, NEW j \in DOMAIN x, AppliesTo(x, m, j)
               PROVE  t.rank < m \/ (t.rank = m /\ k <= j)
    BY DEF IsFirst
  <2>1. PICK u \in queue : /\ u.rank \in Nat /\ u.rank <= m
                           /\ u.left \in DOMAIN symbols /\ p[u.left] = j
    BY <1>1, <1>10, AppliesQueued DEF x
  <2>2. t.rank < u.rank \/ (t.rank = u.rank /\ l <= u.left)
    BY <1>7
  <2>3. m \in Nat /\ t.rank \in Nat
    BY <1>2, <1>5
  <2>4. l <= u.left => k <= j
    <3>1. u.left \in 0 .. n
      BY <1>12, <2>1
    <3> QED
      BY <1>18, <1>23, <2>1, <3>1
  <2> QED
    BY <2>1, <2>2, <2>3, <2>4
<1>31. JoinOf(x, y)
  BY <1>5, <1>28, <1>29, <1>30 DEF JoinOf
<1> QED
  BY <1>1, <1>31 DEF x, y

LEMMA LiveIs == Live = LiveOf(symbols) /\ Live' = LiveOf(symbols')
<1> QED
  BY DEF Live, LiveOf, PartsOf, Part

(* What a step of the tokenizer does to the parts, it does in BPE.         *)
LEMMA EncodeStep ==
    ASSUME TInv, NEW t \in Texts, Tokenize(t)
    PROVE  Reference!Encode(t)
<1> QED
  BY DEF TInv, Tokenize, Reference!Encode

LEMMA TakeStep ==
    ASSUME IInv, StartWord
    PROVE  Reference!Take
<1> DEFINE word == Head(todo)
           s == ParseSymbol(word)
           w == [i \in DOMAIN word |-> <<word[i]>>]
<1>1. /\ symbols' = s /\ todo' = Tail(todo) /\ phase = "word" /\ phase' = "merge"
      /\ UNCHANGED <<merges, out>> /\ todo # << >>
  BY DEF StartWord
<1>2. word \in Seq(Chars)
  BY <1>1 DEF IInv, Strings
<1> HIDE DEF word
<1>3. PartsOf(s) = [i \in DOMAIN w |-> <<w[i]>>]
  <2>1. DOMAIN s = DOMAIN word /\ \A i \in DOMAIN word : s[i].text = <<word[i]>>
    BY DEF ParseSymbol
  <2>2. \A i \in DOMAIN word : Part(s, i) = <<<<word[i]>>>>
    BY <2>1 DEF Part
  <2> HIDE DEF s
  <2> QED
    BY <2>1, <2>2 DEF PartsOf
<1>4. w \in Seq(Seq(Chars))
  <2> DEFINE n == Len(word)
  <2>1. n \in Nat /\ DOMAIN word = 1 .. n /\ \A i \in 1 .. n : word[i] \in Chars
    BY <1>2
  <2> HIDE DEF n
  <2>2. \A i \in 1 .. n : <<word[i]>> \in Seq(Chars)
    BY <2>1
  <2> QED
    BY <2>1, <2>2
<1>5. w = Reference!Letters(word)
  BY DEF Reference!Letters
<1> HIDE DEF w, s
<1>6. Concat(PartsOf(s)) = w
  BY <1>3, <1>4, ConcatLetters
<1>7. Live' = Reference!Letters(word)
  BY <1>1, <1>5, <1>6, LiveIs DEF LiveOf
<1> HIDE DEF Live
<1> QED
  BY <1>1, <1>7 DEF Reference!Take, word

LEMMA JoinStep ==
    ASSUME IInv, TInv, NEW t \in queue, MergeTuple(t)
    PROVE  Reference!Join
<1>1. phase = "merge" /\ phase' = "merge" /\ UNCHANGED <<merges, todo, out>>
  BY DEF MergeTuple
<1>2. JoinOf(Live, Live')
  BY MergeIsJoin, LiveIs
<1> HIDE DEF Live
<1> QED
  BY <1>1, <1>2 DEF JoinOf, AppliesTo, IsFirst, Joined, Reference!Join, Reference!Applies

LEMMA PutStep ==
    ASSUME IInv, TInv, UpdateSymbol
    PROVE  Reference!Put
<1>1. /\ phase = "merge" /\ phase' = "word" /\ queue = {} /\ out' = out \o Live
      /\ UNCHANGED <<merges, todo>>
  BY DEF UpdateSymbol
<1>2. symbols \in Symbols
  BY DEF IInv
<1>3. PICK p : PlacedBy(symbols, p)
  BY <1>2, Placed
<1>4. \A m \in DOMAIN merges, i \in DOMAIN Live : ~ AppliesTo(Live, m, i)
  BY <1>1, <1>3, AppliesQueued, LiveIs
<1> HIDE DEF Live
<1> QED
  BY <1>1, <1>4 DEF AppliesTo, Reference!Put, Reference!Applies

LEMMA StepIsReferenceStep == IInv /\ TInv /\ [Next]_vars => [Reference!Next]_(Reference!vars)
<1> SUFFICES ASSUME IInv, TInv, [Next]_vars PROVE [Reference!Next]_(Reference!vars)
  OBVIOUS
<1>1. ASSUME NEW t \in Texts, Tokenize(t) PROVE Reference!Next
  BY <1>1, EncodeStep DEF Reference!Next
<1>2. CASE StartWord
  BY <1>2, TakeStep DEF Reference!Next
<1>3. ASSUME NEW t \in queue, SkipTuple(t) PROVE UNCHANGED Reference!vars
  <2>1. /\ phase' = phase /\ symbols' = symbols /\ UNCHANGED <<merges, todo, out>>
    BY <1>3 DEF SkipTuple
  <2>2. Live' = Live
    BY <2>1, LiveIs
  <2> HIDE DEF Live
  <2> QED
    BY <2>1, <2>2 DEF Reference!vars
<1>4. ASSUME NEW t \in queue, MergeTuple(t) PROVE Reference!Next
  BY <1>4, JoinStep DEF Reference!Next
<1>5. CASE UpdateSymbol
  BY <1>5, PutStep DEF Reference!Next
<1>6. CASE GenerateToken
  BY <1>6 DEF GenerateToken, Reference!vars
<1>7. CASE UNCHANGED vars
  <2>1. phase' = phase /\ symbols' = symbols /\ UNCHANGED <<merges, todo, out>>
    BY <1>7 DEF vars
  <2>2. Live' = Live
    BY <2>1, LiveIs
  <2> HIDE DEF Live
  <2> QED
    BY <2>1, <2>2 DEF Reference!vars
<1> QED
  BY <1>1, <1>2, <1>3, <1>4, <1>5, <1>6, <1>7 DEF Next, Work

(* The work queue, with tuples that are never taken back and merges done   *)
(* in place, computes byte pair encoding as its definition has it, for     *)
(* every text and every list of merges.                                    *)
THEOREM TokenizerImplementsBPE == Spec => ImplementsBPE
<1>1. Init => Reference!Init
  BY DEF Init, Reference!Init
<1>2. IInv /\ TInv /\ [Next]_vars => [Reference!Next]_(Reference!vars)
  BY StepIsReferenceStep
<1> QED
  BY <1>1, <1>2, TypesInvariant, PTL DEF Spec, ImplementsBPE, Reference!Spec
=============================================================================
