------------------------------ MODULE WordTree ------------------------------
(***************************************************************************)
(* dict_tree.c: a tree of letters that counts words, under the menu of     *)
(* main.  A node is named by the word that leads to it, so the tree is the *)
(* function from those words to their counts; the root is the empty word.  *)
(***************************************************************************)
EXTENDS Integers, SequencesExt

CONSTANTS
    LetterCount,  \* letters are 0 .. LetterCount - 1, as charmapping has them
    MaxLen,       \* bound: the longest word entered
    MaxWords,     \* bound: how many words the tree holds
    MaxBelow,     \* bound: how far below zero an entered number is
    MaxOdd        \* bound: how many orders have a number below one

Letters == 0 .. LetterCount - 1

\* scanf("%s") never reads an empty word.
Words == BoundedSeq(Letters, MaxLen) \ {<<>>}

VARIABLES
    count,     \* count of every node of the tree
    live,      \* nodes from create_newnode that have not been freed
    entered,   \* history: how often each word is in the dictionary
    crashed,   \* a pointer that was never set has been given to free
    odd        \* history: how many orders had a number below one

vars == <<count, live, entered, crashed, odd>>

Root == <<>>

\* init_trie: the count of one keeps the root.
Init ==
    /\ count = [w \in {Root} |-> 1]
    /\ live = 0
    /\ entered = [w \in Words |-> 0]
    /\ crashed = FALSE
    /\ odd = 0

NodesTo(w) == {SubSeq(w, 1, k) : k \in 1 .. Len(w)}
Children(w) == {Append(w, c) : c \in Letters} \cap DOMAIN count

\* What is left of the count of a node without its children: how often its own
\* word is in the tree.
OwnCount(w) == count[w] - FoldFunctionOnSet(LAMBDA x, y : x + y, 0, count, Children(w))

\* Mutant: the last node of a word is not counted.
update_way(w, num) ==
    /\ count' = [p \in DOMAIN count \cup NodesTo(w) |->
                    (IF p \in DOMAIN count THEN count[p] ELSE 0)
                        + (IF p \in (NodesTo(w) \cup {Root}) \ {w} THEN num ELSE 0)]
    /\ live' = live + Cardinality(NodesTo(w) \ DOMAIN count)

update(w, num) ==
    /\ count' = [p \in DOMAIN count \cup NodesTo(w) |->
                    (IF p \in DOMAIN count THEN count[p] ELSE 0)
                        + (IF p \in NodesTo(w) \cup {Root} THEN num ELSE 0)]
    /\ live' = live + Cardinality(NodesTo(w) \ DOMAIN count)

search(w, num) ==
    /\ \A p \in NodesTo(w) : p \in DOMAIN count /\ count[p] >= num
    /\ OwnCount(w) >= num

\* Mutant: only the unlinked node is freed.
freed_top_only(w, top) == 1

\* The nodes free gets when the node of the first top letters is unlinked: those
\* from there on to the word.
freed(w, top) == Len(w) - top + 1

\* erase walks down until a count becomes zero.  That node leaves the tree with
\* all below it.  If none does, what is freed is a pointer that was never set.
erase(w, num) ==
    LET emptied == {k \in 1 .. Len(w) : count[SubSeq(w, 1, k)] = num}
        unlinked(p) == emptied # {} /\ IsPrefix(SubSeq(w, 1, Min(emptied)), p)
    IN  /\ count' = [p \in {q \in DOMAIN count : ~unlinked(q)} |->
                        IF p \in NodesTo(w) \cup {Root} THEN count[p] - num ELSE count[p]]
        /\ live' = IF emptied = {} THEN live ELSE live - freed(w, Min(emptied))
        /\ IF emptied = {} THEN crashed' \in BOOLEAN ELSE UNCHANGED crashed

\* printall: the words of a node, then those of its children in the order of
\* their letters.
PrintAll ==
    LET printed[w \in DOMAIN count] ==
            FoldLeft(LAMBDA out, c : IF Append(w, c) \in DOMAIN count
                                     THEN out \o printed[Append(w, c)] ELSE out,
                     [i \in 1 .. OwnCount(w) |-> w],
                     [c \in 1 .. LetterCount |-> c - 1])
    IN  printed[Root]

-------------------------------------------------------------------------------
(* The orders of main.  The others leave the tree alone.                   *)

Entered(num) ==
    /\ num < 1 => odd < MaxOdd
    /\ odd' = IF num < 1 THEN odd + 1 ELSE odd

\* MaxWords bounds the counts, which the code does not.
Insert(w, num) ==
    /\ ~crashed
    /\ count[Root] - 1 + num <= MaxWords
    /\ Entered(num)
    /\ update(w, num)
    /\ entered' = [entered EXCEPT ![w] = entered[w] + num]
    /\ UNCHANGED crashed

\* main searches before it erases.
Delete(w, num) ==
    /\ ~crashed
    /\ Entered(num)
    /\ search(w, num)
    /\ erase(w, num)
    /\ entered' = [entered EXCEPT ![w] = entered[w] - num]

\* main takes any number that scanf reads.
Next == \E w \in Words, num \in -MaxBelow .. MaxWords : Insert(w, num) \/ Delete(w, num)

-------------------------------------------------------------------------------
(* Properties, as long as no number below one has been entered.  A zero    *)
(* adds nodes that count nothing; a number below zero makes the count of a *)
(* node smaller than those of its children, and an erase then unlinks them *)
(* with their words, and frees only the nodes of its own word.             *)

TypeOK ==
    /\ DOMAIN count \subseteq Words \cup {Root}
    /\ \A w \in DOMAIN count : count[w] \in Int
    /\ live \in Int
    /\ entered \in [Words -> Int]
    /\ crashed \in BOOLEAN
    /\ odd \in Nat
    /\ odd = 0 =>
        /\ \A w \in DOMAIN count : count[w] \in 0 .. MaxWords + 1
        /\ live \in 0 .. Cardinality(Words)
        /\ \A w \in Words : entered[w] \in 0 .. MaxWords

\* After any insertions and deletions a search finds a word exactly as often as
\* it is in the dictionary, although no node stores that number: it is the
\* difference between the count of a node and those of its children, all of
\* which a deletion must keep in step.
SearchIsExact ==
    odd = 0 => \A w \in Words, num \in 1 .. MaxWords : search(w, num) = (entered[w] >= num)

\* Every node that was created and not freed is in the tree and on the way to
\* some word: a deletion frees what it unlinks, to the last node, and unlinks
\* no word but its own.
NoUselessNodes ==
    odd = 0 =>
        /\ live = Cardinality(DOMAIN count) - 1
        /\ \A p \in DOMAIN count \ {Root} : \E w \in Words : entered[w] > 0 /\ IsPrefix(p, w)

Before(v, w) ==
    \/ IsStrictPrefix(v, w)
    \/ \E k \in DOMAIN v \cap DOMAIN w : v[k] < w[k] /\ SubSeq(v, 1, k - 1) = SubSeq(w, 1, k - 1)

\* The tree is printed in dictionary order, each word as often as it was
\* entered, and once the empty word, for which the root counts one.
PrintedInOrder ==
    odd = 0 =>
        /\ \A i \in 1 .. Len(PrintAll) - 1 :
               PrintAll[i] = PrintAll[i + 1] \/ Before(PrintAll[i], PrintAll[i + 1])
        /\ \A w \in Words \cup {Root} :
               Cardinality({i \in DOMAIN PrintAll : PrintAll[i] = w})
                   = IF w = Root THEN 1 ELSE entered[w]
===============================================================================
