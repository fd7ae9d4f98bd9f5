----------------------------- MODULE SortedTree -----------------------------
(***************************************************************************)
(* src/src/common/tree.cpp: "it's not really a tree", but an array of      *)
(* pointers kept in the order of a comparison, searched by halving.        *)
(*                                                                         *)
(* A tree is a sequence; the key compared is fixed, so a comparison is a   *)
(* function of the element: cmp[x] is negative if the key goes before x.   *)
(* Positions are the code's, from 0.  A NULL tree is the empty one.        *)
(***************************************************************************)
EXTENDS Integers, Sequences, SequencesExt

NotFound  == -1
Duplicate == -1
Lost      == -2

\* Mutant: the last element is never looked at.
mybsearch_Short(t, cmp) ==
    LET search[lu \in (0..Len(t)) \X (0..Len(t))] ==
            LET l   == lu[1]
                u   == lu[2]
                idx == (l + u) \div 2
                c   == cmp[t[idx + 1]]
            IN IF l >= u THEN NotFound
               ELSE IF c < 0 THEN search[<<l, idx>>]
               ELSE IF c > 0 THEN search[<<idx + 1, u>>]
               ELSE idx
    IN search[<<0, IF Len(t) > 1 THEN Len(t) - 1 ELSE Len(t)>>]

mybsearch(t, cmp) ==
    LET search[lu \in (0..Len(t)) \X (0..Len(t))] ==
            LET l   == lu[1]
                u   == lu[2]
                idx == (l + u) \div 2
                c   == cmp[t[idx + 1]]
            IN IF l >= u THEN NotFound
               ELSE IF c < 0 THEN search[<<l, idx>>]
               ELSE IF c > 0 THEN search[<<idx + 1, u>>]
               ELSE idx
    IN search[<<0, Len(t)>>]

\* Where the key goes, or Duplicate. The loop has no end of its own: it would be Lost in an
\* array that is not in the order of the comparison.
tree_find_insertion_pos(t, cmp) ==
    LET n == Len(t)
        seek[lu \in (0..n) \X (0..n)] ==
            LET l   == lu[1]
                u   == lu[2]
                idx == (l + u) \div 2
                c   == cmp[t[idx + 1]]
            IN IF c = 0 THEN Duplicate
               ELSE IF c > 0 /\ cmp[t[idx + 2]] < 0 THEN idx + 1
               ELSE IF l >= u THEN Lost
               ELSE IF c < 0 THEN seek[<<l, idx>>] ELSE seek[<<idx + 1, u>>]
    IN IF n = 0 THEN 0
       ELSE IF n = 1
       THEN LET c == cmp[t[1]]
            IN IF c = 0 THEN Duplicate ELSE IF c > 0 THEN 1 ELSE 0
       ELSE IF cmp[t[1]] < 0 THEN 0
       ELSE IF cmp[t[n]] > 0 THEN n
       ELSE seek[<<0, n - 1>>]

\* The tree with k put in its place; a duplicate is left out.
tree_insert(t, k, cmp) ==
    LET pos == tree_find_insertion_pos(t, cmp)
    IN IF pos = Duplicate THEN t ELSE InsertAt(t, pos + 1, k)

\* The tree without what compares equal to the key, if the search finds it.
tree_remove(t, cmp) ==
    LET pos == mybsearch(t, cmp)
    IN IF pos = NotFound THEN t ELSE RemoveAt(t, pos + 1)
=============================================================================
