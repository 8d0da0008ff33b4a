-------------------------------- MODULE Acmp --------------------------------
(***************************************************************************)
(* The phrase matcher of @pm and @pmFromFile (utils/acmp.cc): a trie of    *)
(* the phrases, links to the node to go on from when a letter does not     *)
(* fit, and the search.  A node is the sequence of letters that leads to   *)
(* it; the root is << >>.  Letters are numbers: those of a phrase come     *)
(* from a char, those of the text from an unsigned char.                   *)
(***************************************************************************)
EXTENDS Integers, Sequences, FiniteSets

Root == << >>

(* tolower, of the letters that have an upper case form here.              *)
Folded(c) == IF c \in 65..90 THEN c + 32 ELSE c
FoldedWord(w) == [i \in DOMAIN w |-> Folded(w[i])]

(* acmp_strtoucs: a char, where it has a sign (as on x86), becomes a long. *)
UcsOf(c) == IF c > 127 THEN c - 256 ELSE c

(* acmp_add_pattern: the prefixes of a phrase become nodes; the last one   *)
(* ends a phrase.                                                          *)
NoTrie == [nodes |-> {Root}, is_last |-> {}]
acmp_add_pattern(trie, phrase) ==
    LET w == FoldedWord([i \in DOMAIN phrase |-> UcsOf(phrase[i])])
    IN  [nodes |-> trie.nodes \cup {SubSeq(w, 1, i) : i \in 0..Len(w)},
         is_last |-> trie.is_last \cup (IF w = << >> THEN {} ELSE {w})]

ParentOf(n) == SubSeq(n, 1, Len(n) - 1)
LetterOf(n) == n[Len(n)]

(* acmp_child_for_code, a walk over the siblings.                          *)
HasChild(trie, n, c) == Append(n, c) \in trie.nodes

(* acmp_connect_fail_branches: the child, by the same letter, of the       *)
(* parent's fail node, or the root.  It is not tried further back.         *)
FailStep(trie, parentFail, n) ==
    IF Len(n) > 1 /\ HasChild(trie, parentFail, LetterOf(n))
      THEN Append(parentFail, LetterOf(n)) ELSE Root

FailLinks(trie) ==
    LET fail[n \in trie.nodes] ==
            IF n = Root THEN Root ELSE FailStep(trie, fail[ParentOf(n)], n)
    IN  fail


(* acmp_connect_other_matches: a node on the way back ends a phrase.       *)
OtherMatch(trie, fail, n) ==
    LET back[i \in 0..Len(n)] == IF i = 0 THEN n ELSE fail[back[i - 1]]
    IN  \E i \in 1..Len(n) : back[i] \in trie.is_last

-----------------------------------------------------------------------------
(* The children of a node are looked up in a binary tree, built from their *)
(* letters in order: the middle one on top, and so on for what lies left   *)
(* and right of it.                                                        *)
Letters(trie, n) == {LetterOf(c) : c \in {d \in trie.nodes : d # Root /\ ParentOf(d) = n}}
SortedLetters(trie, n) ==
    LET s == Letters(trie, n)
    IN  [i \in 0..(Cardinality(s) - 1) |-> CHOOSE c \in s : Cardinality({d \in s : d < c}) = i]

(* acmp_build_binary_tree and acmp_add_btree_leaves, with the walk of      *)
(* acmp_btree_find.  The bounds are one higher than in the code, whose lb  *)
(* starts at -1.                                                           *)
acmp_btree_find(letters, c) ==
    LET count == Cardinality(DOMAIN letters)
        find[pos \in 0..count, lb \in 0..(count + 1), rb \in 0..(count + 1)] ==
            IF pos >= count THEN FALSE
            ELSE IF letters[pos] = c THEN TRUE
            ELSE IF letters[pos] > c
              THEN IF (pos + 1) - lb > 1
                     THEN find[(lb + (((pos + 1) - lb) \div 2)) - 1, lb, pos + 1] ELSE FALSE
            ELSE IF rb - (pos + 1) > 1
                   THEN find[((pos + 1) + ((rb - (pos + 1)) \div 2)) - 1, pos + 1, rb] ELSE FALSE
    IN  count > 0 /\ find[count \div 2, 0, count + 1]

-----------------------------------------------------------------------------
(* acmp_process_quick: for each letter, back along the fail links until it *)
(* fits.  It stops at the end of a phrase, or at a node with one on its    *)
(* way back; what it reports then is that node's text.                     *)
NotFound == [found |-> FALSE, node |-> Root]

acmp_goto(trie, n, c) == acmp_btree_find(SortedLetters(trie, n), c)

ProcessLetter(trie, fail, at, c) ==
    LET back[i \in 0..(Len(at) + 1)] == IF i = 0 THEN at ELSE fail[back[i - 1]]
        fits == {i \in 0..Len(at) : acmp_goto(trie, back[i], c)}
        next == IF fits = {} THEN Root
                ELSE Append(back[CHOOSE i \in fits : \A j \in fits : i <= j], c)
    IN  [found |-> next \in trie.is_last \/ OtherMatch(trie, fail, next), node |-> next]

acmp_process_quick(trie, text) ==
    LET fail == FailLinks(trie)
        at[i \in 0..Len(text)] ==
            IF i = 0 THEN NotFound
            ELSE IF at[i - 1].found THEN at[i - 1]
            ELSE ProcessLetter(trie, fail, at[i - 1].node, Folded(text[i]))
    IN  at[Len(text)]

-----------------------------------------------------------------------------
EndsWith(s, t) == Len(t) <= Len(s) /\ SubSeq(s, (Len(s) - Len(t)) + 1, Len(s)) = t
Holds(text, phrase) ==
    \E i \in Len(phrase)..Len(text) : EndsWith(SubSeq(FoldedWord(text), 1, i), FoldedWord(phrase))

(* Every node fails to its longest suffix in the trie.                     *)
FailsAreLongest(trie) ==
    LET fail == FailLinks(trie)
    IN  \A n \in trie.nodes \ {Root} :
            \A m \in trie.nodes : m # n /\ EndsWith(n, m) => Len(m) <= Len(fail[n])
=============================================================================
