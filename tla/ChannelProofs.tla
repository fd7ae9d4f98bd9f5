---------------------------- MODULE ChannelProofs ----------------------------
(***************************************************************************)
(* Proofs about what is kept of a channel: its nicks (Userlist, on the     *)
(* sorted arrays of tree.cpp) and its modes (Modes).                       *)
(*                                                                         *)
(* The searches by halving find what they look for in an array Ordered by  *)
(* the comparison, which the keys of a SortedBy array make it; every       *)
(* comparison of the list is by such a Key.  UserlistInv: each tree is     *)
(* InOrder and holds the allocated users, and the Books are theirs.        *)
(*                                                                         *)
(* ModesInv looks ahead: what the client will keep when it has read the    *)
(* lines on their way agrees with the server (Reads), and what the server  *)
(* will have taken when it has read the others is what was asked (Asks).   *)
(* The functions over lines are unrolled into tables, one row a change.    *)
(***************************************************************************)
EXTENDS Userlist, Modes, SequenceTheorems, FunctionTheorems, FiniteSetTheorems, WellFoundedInduction, TLAPS

-----------------------------------------------------------------------------
(* Numbers, sequences and recursive definitions.                           *)

LEMMA NatMin ==
    ASSUME NEW T, T \subseteq Nat, T # {}
    PROVE  \E x \in T : \A y \in T : ~(y < x)
<1> DEFINE R == {ss \in Nat \X Nat : ss[1] < ss[2]}
<1>1. IsWellFoundedOn(R, Nat)
  BY NatLessThanWellFounded DEF OpToRel
<1> HIDE DEF R
<1>2. PICK x \in T : \A y \in T : <<y, x>> \notin R
  BY <1>1, WFMin
<1>3. \A y \in T : y < x => <<y, x>> \in R
  BY DEF R
<1> QED BY <1>2, <1>3

LEMMA NatInduct ==
    ASSUME NEW T, 0 \in T, \A n \in Nat : n \in T => n + 1 \in T
    PROVE  \A n \in Nat : n \in T
<1> SUFFICES ASSUME NEW n \in Nat, n \notin T PROVE FALSE
  OBVIOUS
<1> DEFINE U == Nat \ T
<1>1. PICK x \in U : \A y \in U : ~(y < x)
  <2>1. U \subseteq Nat /\ U # {}
    OBVIOUS
  <2> HIDE DEF U
  <2> QED BY <2>1, NatMin
<1>2. x \in Nat /\ x # 0 /\ x - 1 \in Nat /\ x - 1 < x
  OBVIOUS
<1>3. x - 1 \in T
  BY <1>1, <1>2
<1> QED BY <1>1, <1>2, <1>3

\* What RemoveAt makes of a sequence.
LEMMA RemoveAtProps ==
    ASSUME NEW S, NEW q \in Seq(S), NEW i \in 1..Len(q)
    PROVE  /\ RemoveAt(q, i) \in Seq(S) /\ Len(RemoveAt(q, i)) = Len(q) - 1
           /\ \A j \in 1..(i-1) : RemoveAt(q, i)[j] = q[j]
           /\ \A j \in i..(Len(q)-1) : RemoveAt(q, i)[j] = q[j+1]
<1> DEFINE a == SubSeq(q, 1, i - 1)
           b == SubSeq(q, i + 1, Len(q))
           r == a \o b
<1>1. /\ a \in Seq(S) /\ Len(a) = i - 1
      /\ b \in Seq(S) /\ Len(b) = Len(q) - i
  BY SubSeqProperties
<1>2. \A j \in 1..(i-1) : a[j] = q[j]
  OBVIOUS
<1>3. \A j \in 1..(Len(q)-i) : b[j] = q[i + j]
  OBVIOUS
<1>4. RemoveAt(q, i) = r
  BY DEF RemoveAt
<1> HIDE DEF a, b, r
<1>5. /\ r \in Seq(S) /\ Len(r) = Len(a) + Len(b)
      /\ \A j \in 1..(Len(a) + Len(b)) :
            r[j] = IF j <= Len(a) THEN a[j] ELSE b[j - Len(a)]
  <2>1. /\ a \o b \in Seq(S) /\ Len(a \o b) = Len(a) + Len(b)
        /\ \A j \in 1..(Len(a) + Len(b)) :
              (a \o b)[j] = IF j <= Len(a) THEN a[j] ELSE b[j - Len(a)]
    BY <1>1, ConcatProperties
  <2> QED BY <2>1 DEF r
<1>6. ASSUME NEW j \in 1..(i-1) PROVE r[j] = q[j]
  <2>1. j <= Len(a) /\ j \in 1..(Len(a) + Len(b))
    BY <1>1
  <2>2. r[j] = a[j]
    BY <1>5, <2>1
  <2> QED BY <1>2, <2>2
<1>7. ASSUME NEW j \in i..(Len(q)-1) PROVE r[j] = q[j+1]
  <2>1. /\ j - (i - 1) \in 1..(Len(q) - i) /\ ~(j <= Len(a))
        /\ j \in 1..(Len(a) + Len(b)) /\ i + (j - (i - 1)) = j + 1
    BY <1>1
  <2>2. r[j] = b[j - (i - 1)]
    BY <1>1, <1>5, <2>1
  <2> QED BY <1>3, <2>1, <2>2
<1>8. /\ r \in Seq(S) /\ Len(r) = Len(q) - 1
      /\ \A j \in 1..(i-1) : r[j] = q[j]
      /\ \A j \in i..(Len(q)-1) : r[j] = q[j+1]
  <2>1. Len(r) = Len(q) - 1
    BY <1>1, <1>5
  <2> QED BY <1>5, <1>6, <1>7, <2>1
<1> QED BY <1>4, <1>8


\* What InsertAt makes of a sequence, with e before its i-th element.
LEMMA InsertAtProps ==
    ASSUME NEW S, NEW q \in Seq(S), NEW i \in 1..(Len(q)+1), NEW e \in S
    PROVE  /\ InsertAt(q, i, e) \in Seq(S) /\ Len(InsertAt(q, i, e)) = Len(q) + 1
           /\ \A j \in 1..(i-1) : InsertAt(q, i, e)[j] = q[j]
           /\ InsertAt(q, i, e)[i] = e
           /\ \A j \in (i+1)..(Len(q)+1) : InsertAt(q, i, e)[j] = q[j-1]
<1> DEFINE a == SubSeq(q, 1, i - 1)
           m == a \o <<e>>
           b == SubSeq(q, i, Len(q))
           r == m \o b
<1>1. /\ a \in Seq(S) /\ Len(a) = i - 1
      /\ b \in Seq(S) /\ Len(b) = Len(q) - i + 1
  BY SubSeqProperties
<1>2. \A j \in 1..(i-1) : a[j] = q[j]
  OBVIOUS
<1>3. \A j \in 1..(Len(q)-i+1) : b[j] = q[i + j - 1]
  OBVIOUS
<1>4. InsertAt(q, i, e) = r
  BY DEF InsertAt
<1>5. <<e>> \in Seq(S) /\ Len(<<e>>) = 1 /\ <<e>>[1] = e
  OBVIOUS
<1> HIDE DEF a, b
<1>6. /\ m \in Seq(S) /\ Len(m) = i
      /\ \A j \in 1..(i-1) : m[j] = q[j]
      /\ m[i] = e
  <2>1. /\ a \o <<e>> \in Seq(S) /\ Len(a \o <<e>>) = Len(a) + 1
        /\ \A j \in 1..(Len(a) + 1) :
              (a \o <<e>>)[j] = IF j <= Len(a) THEN a[j] ELSE <<e>>[j - Len(a)]
    BY <1>1, <1>5, ConcatProperties
  <2>2. Len(m) = i
    BY <1>1, <2>1
  <2>3. ASSUME NEW j \in 1..(i-1) PROVE m[j] = q[j]
    BY <1>1, <1>2, <2>1
  <2>4. m[i] = e
    BY <1>1, <1>5, <2>1
  <2> QED BY <2>1, <2>2, <2>3, <2>4
<1> HIDE DEF m, r
<1>7. /\ r \in Seq(S) /\ Len(r) = Len(m) + Len(b)
      /\ \A j \in 1..(Len(m) + Len(b)) :
            r[j] = IF j <= Len(m) THEN m[j] ELSE b[j - Len(m)]
  <2>1. /\ m \o b \in Seq(S) /\ Len(m \o b) = Len(m) + Len(b)
        /\ \A j \in 1..(Len(m) + Len(b)) :
              (m \o b)[j] = IF j <= Len(m) THEN m[j] ELSE b[j - Len(m)]
    BY <1>1, <1>6, ConcatProperties
  <2> QED BY <2>1 DEF r
<1>8. ASSUME NEW j \in 1..(i-1) PROVE r[j] = q[j]
  <2>1. j <= Len(m) /\ j \in 1..(Len(m) + Len(b))
    BY <1>1, <1>6
  <2> QED BY <1>6, <1>7, <2>1
<1>9. r[i] = e
  <2>1. i <= Len(m) /\ i \in 1..(Len(m) + Len(b))
    BY <1>1, <1>6
  <2> QED BY <1>6, <1>7, <2>1
<1>10. ASSUME NEW j \in (i+1)..(Len(q)+1) PROVE r[j] = q[j-1]
  <2>1. /\ j - i \in 1..(Len(q) - i + 1) /\ ~(j <= Len(m))
        /\ j \in 1..(Len(m) + Len(b)) /\ i + (j - i) - 1 = j - 1
    BY <1>1, <1>6
  <2>2. r[j] = b[j - i]
    BY <1>6, <1>7, <2>1
  <2> QED BY <1>3, <2>1, <2>2
<1>11. Len(r) = Len(q) + 1
  BY <1>1, <1>6, <1>7
<1> QED BY <1>4, <1>7, <1>8, <1>9, <1>10, <1>11

Unwound(D, Stop, val, to, g) ==
    g = [r \in D |-> IF r \in Stop THEN val[r] ELSE g[to[r]]]

\* A recursion on a set D that stops at Stop and else goes on at a place of
\* smaller measure has a solution.
LEMMA Unwinds ==
    ASSUME NEW D, NEW Stop, NEW val, NEW to, NEW mu, NEW K \in Nat,
           \A r \in D : mu[r] \in 0..K,
           \A r \in D : r \notin Stop => to[r] \in D /\ mu[to[r]] < mu[r]
    PROVE  \E g : Unwound(D, Stop, val, to, g)
<1> DEFINE Good(g, k) == \A r \in D : mu[r] < k =>
                            g[r] = IF r \in Stop THEN val[r] ELSE g[to[r]]
           T == {k \in Nat : \E g : Good(g, k)}
<1>1. 0 \in T
  <2>1. Good(val, 0)
    OBVIOUS
  <2> QED BY <2>1
<1>2. ASSUME NEW k \in Nat, k \in T PROVE k + 1 \in T
  <2>1. PICK g : Good(g, k)
    BY <1>2
  <2> DEFINE h == [r \in D |-> IF mu[r] < k THEN g[r]
                               ELSE IF r \in Stop THEN val[r] ELSE g[to[r]]]
  <2>2. ASSUME NEW r \in D, mu[r] < k + 1
        PROVE  h[r] = IF r \in Stop THEN val[r] ELSE h[to[r]]
    <3>1. CASE r \in Stop
      <4>1. h[r] = val[r]
        BY <2>1, <3>1
      <4> QED BY <3>1, <4>1
    <3>2. CASE r \notin Stop
      <4>1. to[r] \in D /\ mu[to[r]] < mu[r]
        BY <3>2
      <4>2. mu[to[r]] < k
        BY <2>2, <4>1
      <4>3. h[to[r]] = g[to[r]]
        BY <4>1, <4>2
      <4>4. h[r] = g[to[r]]
        BY <2>1, <3>2
      <4> QED BY <3>2, <4>3, <4>4
    <3> QED BY <3>1, <3>2
  <2>3. Good(h, k + 1)
    <3> HIDE DEF h
    <3> QED BY <2>2
  <2>4. \E f : Good(f, k + 1)
    <3> HIDE DEF h, Good
    <3> QED BY <2>3
  <2> HIDE DEF Good
  <2> QED BY <2>4
<1>3. K + 1 \in T
  <2> HIDE DEF T
  <2>1. \A k \in Nat : k \in T
    BY <1>1, <1>2, NatInduct
  <2> QED BY <2>1
<1>4. PICK g : Good(g, K + 1)
  BY <1>3
<1>5. \A r \in D : mu[r] < K + 1
  OBVIOUS
<1> DEFINE h == [r \in D |-> g[r]]
<1>6. ASSUME NEW r \in D PROVE h[r] = IF r \in Stop THEN val[r] ELSE h[to[r]]
  <2>1. g[r] = IF r \in Stop THEN val[r] ELSE g[to[r]]
    BY <1>4, <1>5
  <2>2. r \notin Stop => h[to[r]] = g[to[r]]
    OBVIOUS
  <2>3. h[r] = g[r]
    OBVIOUS
  <2> HIDE DEF h
  <2> QED BY <2>1, <2>2, <2>3
<1>7. h = [r \in D |-> h[r]]
  OBVIOUS
<1> HIDE DEF h
<1>8. h = [r \in D |-> IF r \in Stop THEN val[r] ELSE h[to[r]]]
  BY <1>6, <1>7
<1> QED BY <1>8 DEF Unwound

\* The middle of a range that is not empty is in it.
LEMMA Halving ==
    ASSUME NEW l \in Nat, NEW u \in Nat, l < u
    PROVE  (l + u) \div 2 \in l..(u - 1)
<1> DEFINE x == l + u
           h == x \div 2
<1>1. x \in Nat
  OBVIOUS
<1>2. h \in Int /\ 2 * h <= x /\ x <= 2 * h + 1
  <2> HIDE DEF x
  <2> QED BY <1>1
<1> HIDE DEF h
<1>3. l <= h /\ h <= u - 1
  BY <1>2
<1> QED BY <1>2, <1>3 DEF h

\* The key belongs after the elements that compare positive, with the one
\* that compares zero, if there is one, and before the others.
Ordered(t, cmp) ==
    /\ \A i \in 1..Len(t) : cmp[t[i]] \in Int
    /\ \A i, j \in 1..Len(t) : i < j /\ cmp[t[i]] <= 0 => cmp[t[j]] < 0

\* The table the search of mybsearch is read from.
Searches(t, cmp, g) ==
    g = [lu \in (0..Len(t)) \X (0..Len(t)) |->
            LET l   == lu[1]
                u   == lu[2]
                idx == (l + u) \div 2
                c   == cmp[t[idx + 1]]
            IN IF l >= u THEN NotFound
               ELSE IF c < 0 THEN g[<<l, idx>>]
               ELSE IF c > 0 THEN g[<<idx + 1, u>>]
               ELSE idx]

LEMMA SearchExists ==
    ASSUME NEW t, NEW cmp, Len(t) \in Nat
    PROVE  \E g : Searches(t, cmp, g)
<1> DEFINE D == (0..Len(t)) \X (0..Len(t))
           mid(lu) == (lu[1] + lu[2]) \div 2
           c(lu) == cmp[t[mid(lu) + 1]]
           Stop == {lu \in D : lu[1] >= lu[2] \/ ~(c(lu) < 0 \/ c(lu) > 0)}
           val == [lu \in D |-> IF lu[1] >= lu[2] THEN NotFound ELSE mid(lu)]
           to == [lu \in D |-> IF c(lu) < 0 THEN <<lu[1], mid(lu)>> ELSE <<mid(lu) + 1, lu[2]>>]
           mu == [lu \in D |-> IF lu[1] >= lu[2] THEN 0 ELSE lu[2] - lu[1]]
<1>1. \A r \in D : mu[r] \in 0..Len(t)
  OBVIOUS
<1>2. ASSUME NEW r \in D, r \notin Stop PROVE to[r] \in D /\ mu[to[r]] < mu[r]
  <2>1. r[1] \in Nat /\ r[2] \in Nat /\ r[1] < r[2] /\ r[2] <= Len(t)
    BY <1>2
  <2>2. mid(r) \in r[1]..(r[2] - 1)
    BY <2>1, Halving
  <2> DEFINE m == mid(r)
  <2>3. to[r] = <<r[1], m>> \/ to[r] = <<m + 1, r[2]>>
    OBVIOUS
  <2> HIDE DEF m, to
  <2>4. m \in r[1]..(r[2] - 1)
    BY <2>2 DEF m
  <2>5. <<r[1], m>> \in D /\ <<m + 1, r[2]>> \in D
    BY <2>1, <2>4
  <2>6. mu[r] = r[2] - r[1]
    BY <2>1
  <2>7. mu[<<r[1], m>>] < r[2] - r[1]
    BY <2>1, <2>4, <2>5
  <2>8. mu[<<m + 1, r[2]>>] < r[2] - r[1]
    BY <2>1, <2>4, <2>5
  <2> QED BY <2>3, <2>5, <2>6, <2>7, <2>8
<1>3. PICK g : Unwound(D, Stop, val, to, g)
  <2> HIDE DEF D, Stop, val, to, mu
  <2>1. \A r \in D : r \notin Stop => to[r] \in D /\ mu[to[r]] < mu[r]
    BY <1>2
  <2> QED BY <1>1, <2>1, Unwinds
<1>4. ASSUME NEW lu \in D
      PROVE  (IF lu \in Stop THEN val[lu] ELSE g[to[lu]])
             = IF lu[1] >= lu[2] THEN NotFound
               ELSE IF c(lu) < 0 THEN g[<<lu[1], mid(lu)>>]
               ELSE IF c(lu) > 0 THEN g[<<mid(lu) + 1, lu[2]>>]
               ELSE mid(lu)
  <2> HIDE DEF mid
  <2> QED OBVIOUS
<1>5. Searches(t, cmp, g)
  <2> HIDE DEF Stop, val, to, mu
  <2>1. g = [lu \in D |-> IF lu[1] >= lu[2] THEN NotFound
               ELSE IF c(lu) < 0 THEN g[<<lu[1], mid(lu)>>]
               ELSE IF c(lu) > 0 THEN g[<<mid(lu) + 1, lu[2]>>]
               ELSE mid(lu)]
    <3> HIDE DEF D, mid, c
    <3> QED BY <1>3, <1>4 DEF Unwound
  <2> QED BY <2>1 DEF Searches
<1> QED BY <1>5

\* The search finds the element that compares zero, if there is one.
LEMMA SearchFinds ==
    ASSUME NEW t, NEW cmp, Len(t) \in Nat, Ordered(t, cmp)
    PROVE  \/ /\ mybsearch(t, cmp) = NotFound
              /\ \A i \in 1..Len(t) : cmp[t[i]] # 0
           \/ /\ mybsearch(t, cmp) \in 0..(Len(t) - 1)
              /\ cmp[t[mybsearch(t, cmp) + 1]] = 0
<1> DEFINE g == CHOOSE g : Searches(t, cmp, g)
<1>1. Searches(t, cmp, g)
  BY SearchExists
<1>2. mybsearch(t, cmp) = g[<<0, Len(t)>>]
  BY DEF mybsearch, Searches
<1> HIDE DEF g
<1> DEFINE n == Len(t)
           Right(l, u) == \/ /\ g[<<l, u>>] = NotFound
                             /\ \A i \in (l+1)..u : cmp[t[i]] # 0
                          \/ /\ g[<<l, u>>] \in l..(u-1)
                             /\ cmp[t[g[<<l, u>>] + 1]] = 0
           T == {k \in Nat : \A l \in 0..n, u \in 0..n : u - l <= k => Right(l, u)}
<1>3. ASSUME NEW l \in 0..n, NEW u \in 0..n
      PROVE  g[<<l, u>>] =
                IF l >= u THEN NotFound
                ELSE IF cmp[t[(l + u) \div 2 + 1]] < 0 THEN g[<<l, (l + u) \div 2>>]
                ELSE IF cmp[t[(l + u) \div 2 + 1]] > 0 THEN g[<<(l + u) \div 2 + 1, u>>]
                ELSE (l + u) \div 2
  <2>1. <<l, u>> \in (0..Len(t)) \X (0..Len(t)) /\ <<l, u>>[1] = l /\ <<l, u>>[2] = u
    OBVIOUS
  <2> QED BY <1>1, <2>1 DEF Searches
<1>4. ASSUME NEW l \in 0..n, NEW u \in 0..n, l >= u PROVE Right(l, u)
  <2>1. g[<<l, u>>] = NotFound
    BY <1>3, <1>4
  <2>2. ASSUME NEW i \in (l+1)..u PROVE FALSE
    BY <1>4
  <2> QED BY <2>1, <2>2
<1>5. 0 \in T
  BY <1>4
<1>6. ASSUME NEW k \in Nat, k \in T PROVE k + 1 \in T
  <2> SUFFICES ASSUME NEW l \in 0..n, NEW u \in 0..n, u - l <= k + 1 PROVE Right(l, u)
    OBVIOUS
  <2>1. CASE l >= u
    BY <1>4, <2>1
  <2>2. CASE l < u
    <3> DEFINE m == (l + u) \div 2
    <3>1. m \in l..(u-1)
      BY <2>2, Halving
    <3>2. g[<<l, u>>] = IF cmp[t[m + 1]] < 0 THEN g[<<l, m>>]
                        ELSE IF cmp[t[m + 1]] > 0 THEN g[<<m + 1, u>>]
                        ELSE m
      BY <1>3, <2>2
    <3> HIDE DEF m
    <3>3. Right(l, m) /\ Right(m + 1, u)
      <4>1. m \in 0..n /\ m + 1 \in 0..n /\ m - l <= k /\ u - (m + 1) <= k
        BY <3>1
      <4> HIDE DEF Right
      <4> QED BY <1>6, <4>1
    <3>4. m + 1 \in 1..n /\ cmp[t[m + 1]] \in Int
      BY <3>1 DEF Ordered
    <3>5. CASE cmp[t[m + 1]] < 0
      <4>1. \A i \in (m+1)..u : cmp[t[i]] # 0
        BY <3>1, <3>4, <3>5 DEF Ordered
      <4> QED BY <3>1, <3>2, <3>3, <3>5, <4>1
    <3>6. CASE cmp[t[m + 1]] > 0
      <4>1. ASSUME NEW i \in (l+1)..(m+1) PROVE cmp[t[i]] # 0
        BY <3>1, <3>4, <3>6 DEF Ordered
      <4>2. g[<<l, u>>] = g[<<m + 1, u>>]
        BY <3>2, <3>4, <3>6
      <4>3. \A i \in (l+1)..u : i \in (l+1)..(m+1) \/ i \in (m+1+1)..u
        BY <3>1
      <4>4. \A i \in (m+1)..(u-1) : i \in l..(u-1)
        BY <3>1
      <4> QED BY <3>3, <4>1, <4>2, <4>3, <4>4
    <3>7. CASE cmp[t[m + 1]] = 0
      BY <3>1, <3>2, <3>7
    <3> QED BY <3>4, <3>5, <3>6, <3>7
  <2> QED BY <2>1, <2>2
<1>7. Right(0, n)
  <2> HIDE DEF T
  <2>1. \A k \in Nat : k \in T
    BY <1>5, <1>6, NatInduct
  <2>2. n \in T
    BY <2>1
  <2> QED BY <2>2 DEF T
<1> QED BY <1>2, <1>7

\* The table the loop of tree_find_insertion_pos is read from.
Seeks(t, cmp, g) ==
    g = [lu \in (0..Len(t)) \X (0..Len(t)) |->
            LET l   == lu[1]
                u   == lu[2]
                idx == (l + u) \div 2
                c   == cmp[t[idx + 1]]
            IN IF c = 0 THEN Duplicate
               ELSE IF c > 0 /\ cmp[t[idx + 2]] < 0 THEN idx + 1
               ELSE IF l >= u THEN Lost
               ELSE IF c < 0 THEN g[<<l, idx>>] ELSE g[<<idx + 1, u>>]]

LEMMA SeekExists ==
    ASSUME NEW t, NEW cmp, Len(t) \in Nat
    PROVE  \E g : Seeks(t, cmp, g)
<1> DEFINE D == (0..Len(t)) \X (0..Len(t))
           mid(lu) == (lu[1] + lu[2]) \div 2
           c(lu) == cmp[t[mid(lu) + 1]]
           between(lu) == c(lu) > 0 /\ cmp[t[mid(lu) + 2]] < 0
           Stop == {lu \in D : c(lu) = 0 \/ between(lu) \/ lu[1] >= lu[2]}
           val == [lu \in D |-> IF c(lu) = 0 THEN Duplicate
                                ELSE IF between(lu) THEN mid(lu) + 1 ELSE Lost]
           to == [lu \in D |-> IF c(lu) < 0 THEN <<lu[1], mid(lu)>> ELSE <<mid(lu) + 1, lu[2]>>]
           mu == [lu \in D |-> IF lu[1] >= lu[2] THEN 0 ELSE lu[2] - lu[1]]
<1>1. \A r \in D : mu[r] \in 0..Len(t)
  OBVIOUS
<1>2. ASSUME NEW r \in D, r \notin Stop PROVE to[r] \in D /\ mu[to[r]] < mu[r]
  <2>1. r[1] \in Nat /\ r[2] \in Nat /\ r[1] < r[2] /\ r[2] <= Len(t)
    BY <1>2
  <2>2. mid(r) \in r[1]..(r[2] - 1)
    BY <2>1, Halving
  <2> DEFINE m == mid(r)
  <2>3. to[r] = <<r[1], m>> \/ to[r] = <<m + 1, r[2]>>
    OBVIOUS
  <2> HIDE DEF m, to
  <2>4. m \in r[1]..(r[2] - 1)
    BY <2>2 DEF m
  <2>5. <<r[1], m>> \in D /\ <<m + 1, r[2]>> \in D
    BY <2>1, <2>4
  <2>6. mu[r] = r[2] - r[1]
    BY <2>1
  <2>7. mu[<<r[1], m>>] < r[2] - r[1]
    BY <2>1, <2>4, <2>5
  <2>8. mu[<<m + 1, r[2]>>] < r[2] - r[1]
    BY <2>1, <2>4, <2>5
  <2> QED BY <2>3, <2>5, <2>6, <2>7, <2>8
<1>3. PICK g : Unwound(D, Stop, val, to, g)
  <2> HIDE DEF D, Stop, val, to, mu
  <2>1. \A r \in D : r \notin Stop => to[r] \in D /\ mu[to[r]] < mu[r]
    BY <1>2
  <2> QED BY <1>1, <2>1, Unwinds
<1>4. ASSUME NEW lu \in D
      PROVE  (IF lu \in Stop THEN val[lu] ELSE g[to[lu]])
             = IF c(lu) = 0 THEN Duplicate
               ELSE IF between(lu) THEN mid(lu) + 1
               ELSE IF lu[1] >= lu[2] THEN Lost
               ELSE IF c(lu) < 0 THEN g[<<lu[1], mid(lu)>>] ELSE g[<<mid(lu) + 1, lu[2]>>]
  <2> HIDE DEF mid, between
  <2> QED OBVIOUS
<1>5. Seeks(t, cmp, g)
  <2> HIDE DEF Stop, val, to, mu
  <2>1. g = [lu \in D |-> IF c(lu) = 0 THEN Duplicate
               ELSE IF between(lu) THEN mid(lu) + 1
               ELSE IF lu[1] >= lu[2] THEN Lost
               ELSE IF c(lu) < 0 THEN g[<<lu[1], mid(lu)>>] ELSE g[<<mid(lu) + 1, lu[2]>>]]
    <3> HIDE DEF D, mid, c, between
    <3> QED BY <1>3, <1>4 DEF Unwound
  <2> QED BY <2>1 DEF Seeks
<1> QED BY <1>5

\* All before the first p elements go before the key, and the key before the others.
Suits(t, cmp, p) ==
    /\ p \in 0..Len(t)
    /\ \A i \in 1..p : cmp[t[i]] > 0
    /\ \A i \in (p+1)..Len(t) : cmp[t[i]] < 0

\* The loop that looks for the place ends at one, or at the duplicate.
LEMMA SeekFinds ==
    ASSUME NEW t, NEW cmp, NEW g, Len(t) \in Nat, Len(t) > 1, Ordered(t, cmp),
           Seeks(t, cmp, g), cmp[t[1]] >= 0, cmp[t[Len(t)]] <= 0
    PROVE  \/ /\ g[<<0, Len(t) - 1>>] = Duplicate
              /\ \E i \in 1..Len(t) : cmp[t[i]] = 0
           \/ Suits(t, cmp, g[<<0, Len(t) - 1>>])
<1> DEFINE n == Len(t)
           Right(l, u) == \/ /\ g[<<l, u>>] = Duplicate
                             /\ \E i \in 1..n : cmp[t[i]] = 0
                          \/ Suits(t, cmp, g[<<l, u>>])
           Around(l, u) == l <= u /\ u < n /\ cmp[t[l + 1]] >= 0 /\ cmp[t[u + 1]] <= 0
           T == {k \in Nat : \A l \in 0..n, u \in 0..n : u - l < k /\ Around(l, u) => Right(l, u)}
<1>1. ASSUME NEW l \in 0..n, NEW u \in 0..n
      PROVE  g[<<l, u>>] =
                IF cmp[t[(l + u) \div 2 + 1]] = 0 THEN Duplicate
                ELSE IF cmp[t[(l + u) \div 2 + 1]] > 0 /\ cmp[t[(l + u) \div 2 + 2]] < 0
                THEN (l + u) \div 2 + 1
                ELSE IF l >= u THEN Lost
                ELSE IF cmp[t[(l + u) \div 2 + 1]] < 0 THEN g[<<l, (l + u) \div 2>>]
                ELSE g[<<(l + u) \div 2 + 1, u>>]
  <2>1. <<l, u>> \in (0..Len(t)) \X (0..Len(t)) /\ <<l, u>>[1] = l /\ <<l, u>>[2] = u
    OBVIOUS
  <2> QED BY <2>1 DEF Seeks
<1>2. 0 \in T
  OBVIOUS
<1>3. ASSUME NEW k \in Nat, k \in T PROVE k + 1 \in T
  <2> SUFFICES ASSUME NEW l \in 0..n, NEW u \in 0..n, u - l < k + 1, Around(l, u)
               PROVE  Right(l, u)
    OBVIOUS
  <2> DEFINE m == (l + u) \div 2
  <2>1. m \in l..u /\ (l < u => m < u)
    <3>1. CASE l < u
      BY <3>1, Halving
    <3>2. CASE l = u
      <4>1. l + u = 2 * l /\ l \in Nat
        BY <3>2
      <4>2. (2 * l) \div 2 = l
        BY <4>1
      <4> QED BY <3>2, <4>1, <4>2
    <3> QED BY <3>1, <3>2
  <2>2. g[<<l, u>>] =
           IF cmp[t[m + 1]] = 0 THEN Duplicate
           ELSE IF cmp[t[m + 1]] > 0 /\ cmp[t[m + 2]] < 0 THEN m + 1
           ELSE IF l >= u THEN Lost
           ELSE IF cmp[t[m + 1]] < 0 THEN g[<<l, m>>] ELSE g[<<m + 1, u>>]
    BY <1>1
  <2> HIDE DEF m
  <2>3. m + 1 \in 1..n /\ cmp[t[m + 1]] \in Int
    BY <2>1 DEF Ordered
  <2>4. l + 1 \in 1..n /\ cmp[t[l + 1]] \in Int /\ u + 1 \in 1..n /\ cmp[t[u + 1]] \in Int
    BY DEF Ordered
  <2>5. CASE cmp[t[m + 1]] = 0
    BY <2>2, <2>3, <2>5
  <2>6. CASE cmp[t[m + 1]] < 0
    <3>1. l < u
      BY <2>1, <2>4, <2>6
    <3>2. g[<<l, u>>] = g[<<l, m>>]
      BY <2>2, <2>3, <2>6, <3>1
    <3>3. m \in 0..n /\ m - l < k /\ Around(l, m)
      BY <2>1, <2>3, <2>6, <3>1
    <3>4. Right(l, m)
      <4> HIDE DEF Right, Around
      <4> QED BY <1>3, <3>3
    <3> QED BY <3>2, <3>4
  <2>7. CASE cmp[t[m + 1]] > 0
    <3>1. m < u
      BY <2>1, <2>4, <2>7
    <3>2. m + 2 \in 1..n /\ cmp[t[m + 2]] \in Int
      BY <2>1, <3>1 DEF Ordered
    <3>3. \A i \in 1..(m+1) : cmp[t[i]] > 0
      <4> SUFFICES ASSUME NEW i \in 1..(m+1) PROVE cmp[t[i]] > 0
        OBVIOUS
      <4>1. i \in 1..n /\ (i = m + 1 \/ i < m + 1)
        BY <2>3
      <4>2. cmp[t[i]] \in Int
        BY <4>1 DEF Ordered
      <4> QED BY <2>3, <2>7, <4>1, <4>2 DEF Ordered
    <3>4. CASE cmp[t[m + 2]] < 0
      <4>1. g[<<l, u>>] = m + 1
        BY <2>2, <2>3, <2>7, <3>4
      <4>2. \A i \in (m+1+1)..n : cmp[t[i]] < 0
        <5> SUFFICES ASSUME NEW i \in (m+1+1)..n PROVE cmp[t[i]] < 0
          OBVIOUS
        <5>1. i \in 1..n /\ (i = m + 2 \/ m + 2 < i)
          BY <2>1
        <5> QED BY <3>2, <3>4, <5>1 DEF Ordered
      <4>3. m + 1 \in 0..n
        BY <2>3
      <4> QED BY <3>3, <4>1, <4>2, <4>3 DEF Suits
    <3>5. CASE ~(cmp[t[m + 2]] < 0)
      <4>1. g[<<l, u>>] = g[<<m + 1, u>>]
        BY <2>1, <2>2, <2>3, <2>7, <3>1, <3>5
      <4>2. m + 1 \in 0..n /\ u - (m + 1) < k /\ Around(m + 1, u)
        <5>1. m + 1 \in 0..n /\ u - (m + 1) < k
          BY <2>1, <3>1
        <5>2. m + 1 <= u /\ u < n /\ cmp[t[u + 1]] <= 0
          BY <2>1, <3>1
        <5>3. cmp[t[m + 1 + 1]] >= 0
          <6>1. m + 1 + 1 = m + 2
            BY <2>1
          <6> QED BY <3>2, <3>5, <6>1
        <5> QED BY <5>1, <5>2, <5>3
      <4>3. Right(m + 1, u)
        <5> HIDE DEF Right, Around
        <5> QED BY <1>3, <4>2
      <4> QED BY <4>1, <4>3
    <3> QED BY <3>4, <3>5
  <2> QED BY <2>3, <2>5, <2>6, <2>7
<1>4. Right(0, n - 1)
  <2>1. 0 \in 0..n /\ n - 1 \in 0..n /\ Around(0, n - 1)
    OBVIOUS
  <2>2. (n - 1) - 0 < n
    OBVIOUS
  <2> HIDE DEF Right, Around
  <2>3. n \in T
    <3> HIDE DEF T
    <3>1. \A k \in Nat : k \in T
      BY <1>2, <1>3, NatInduct
    <3> QED BY <3>1
  <2> QED BY <2>1, <2>2, <2>3
<1> QED BY <1>4

LEMMA Members ==
    ASSUME NEW S, NEW q \in Seq(S)
    PROVE  /\ Len(q) \in Nat /\ \A i \in 1..Len(q) : q[i] \in S
           /\ ToSet(q) = {q[i] : i \in 1..Len(q)}
<1>1. DOMAIN q = 1..Len(q) /\ Len(q) \in Nat
  OBVIOUS
<1>2. \A i \in 1..Len(q) : q[i] \in S
  OBVIOUS
<1>3. ToSet(q) = {q[i] : i \in 1..Len(q)}
  BY <1>1, Zenon DEF ToSet
<1> QED BY <1>1, <1>2, <1>3

\* tree_find_insertion_pos: where the key belongs, or Duplicate.
LEMMA InsertionPos ==
    ASSUME NEW t, NEW cmp, Len(t) \in Nat, Ordered(t, cmp)
    PROVE  \/ /\ tree_find_insertion_pos(t, cmp) = Duplicate
              /\ \E i \in 1..Len(t) : cmp[t[i]] = 0
           \/ Suits(t, cmp, tree_find_insertion_pos(t, cmp))
<1> DEFINE g == CHOOSE g : Seeks(t, cmp, g)
           n == Len(t)
           pos == tree_find_insertion_pos(t, cmp)
<1>1. Seeks(t, cmp, g)
  BY SeekExists
<1>2. pos = IF n = 0 THEN 0
            ELSE IF n = 1
            THEN IF cmp[t[1]] = 0 THEN Duplicate ELSE IF cmp[t[1]] > 0 THEN 1 ELSE 0
            ELSE IF cmp[t[1]] < 0 THEN 0
            ELSE IF cmp[t[n]] > 0 THEN n
            ELSE g[<<0, n - 1>>]
  BY DEF tree_find_insertion_pos, Seeks
<1> HIDE DEF g, pos
<1>3. CASE n = 0
  BY <1>2, <1>3 DEF Suits, pos
<1>4. CASE n = 1
  <2>1. cmp[t[1]] \in Int
    BY <1>4 DEF Ordered
  <2>2. CASE cmp[t[1]] = 0
    BY <1>2, <1>4, <2>2 DEF pos
  <2>3. CASE cmp[t[1]] > 0
    <3>1. pos = 1 /\ \A i \in 1..1 : i = 1
      BY <1>2, <1>4, <2>1, <2>3
    <3> QED BY <1>4, <2>3, <3>1 DEF Suits, pos
  <2>4. CASE cmp[t[1]] < 0
    <3>1. pos = 0 /\ \A i \in (0+1)..1 : i = 1
      BY <1>2, <1>4, <2>1, <2>4
    <3> QED BY <1>4, <2>4, <3>1 DEF Suits, pos
  <2> QED BY <2>1, <2>2, <2>3, <2>4
<1>5. CASE n > 1
  <2>1. 1 \in 1..n /\ n \in 1..n /\ cmp[t[1]] \in Int /\ cmp[t[n]] \in Int
    BY <1>5 DEF Ordered
  <2>5. pos = IF cmp[t[1]] < 0 THEN 0 ELSE IF cmp[t[n]] > 0 THEN n ELSE g[<<0, n - 1>>]
    <3>1. n # 0 /\ n # 1
      BY <1>5
    <3> HIDE DEF n
    <3> QED BY <1>2, <3>1
  <2>2. CASE cmp[t[1]] < 0
    <3>1. pos = 0
      BY <2>2, <2>5
    <3>2. ASSUME NEW i \in (0+1)..n PROVE cmp[t[i]] < 0
      <4>1. i = 1 \/ 1 < i
        OBVIOUS
      <4> QED BY <2>1, <2>2, <4>1 DEF Ordered
    <3> QED BY <3>1, <3>2 DEF Suits, pos
  <2>3. CASE cmp[t[n]] > 0
    <3>1. ASSUME NEW i \in 1..n PROVE cmp[t[i]] > 0
      <4>1. i = n \/ i < n
        OBVIOUS
      <4>2. cmp[t[i]] \in Int
        BY DEF Ordered
      <4> QED BY <2>1, <2>3, <4>1, <4>2 DEF Ordered
    <3>2. cmp[t[1]] > 0
      BY <2>1, <3>1
    <3>3. pos = n
      BY <2>1, <2>3, <2>5, <3>2
    <3>4. \A i \in (n+1)..n : FALSE
      OBVIOUS
    <3> QED BY <3>1, <3>3, <3>4 DEF Suits, pos
  <2>4. CASE cmp[t[1]] >= 0 /\ cmp[t[n]] <= 0
    <3>1. pos = g[<<0, n - 1>>]
      BY <2>1, <2>4, <2>5
    <3>2. \/ g[<<0, n - 1>>] = Duplicate /\ \E i \in 1..n : cmp[t[i]] = 0
          \/ Suits(t, cmp, g[<<0, n - 1>>])
      BY <1>1, <1>5, <2>4, SeekFinds
    <3> QED BY <3>1, <3>2 DEF pos
  <2> QED BY <2>1, <2>2, <2>3, <2>4
<1>6. n \in Nat
  OBVIOUS
<1>7. n = 0 \/ n = 1 \/ n > 1
  <2> HIDE DEF n
  <2> QED BY <1>6
<1> QED BY <1>3, <1>4, <1>5, <1>7

-----------------------------------------------------------------------------
(* Trees in the order of a key of two numbers.                             *)

Order(i, j) == IF i < 0 THEN -1 ELSE IF i > 0 THEN 1 ELSE Sign(j)

\* How the key <<p, q>> compares with the users.
Against(p, q, maj, min) == [x \in Ids |-> Order(p - maj[x], q - min[x])]

SortedBy(t, maj, min) ==
    \A i, j \in 1..Len(t) :
        i < j => Order(maj[t[i]] - maj[t[j]], min[t[i]] - min[t[j]]) < 0

\* t is in the order of the keys.
Keyed(t, maj, min) ==
    /\ t \in Seq(Ids) /\ maj \in [Ids -> Int] /\ min \in [Ids -> Int]
    /\ SortedBy(t, maj, min)

LEMMA SortedIsOrdered ==
    ASSUME NEW t \in Seq(Ids), NEW maj \in [Ids -> Int], NEW min \in [Ids -> Int],
           SortedBy(t, maj, min), NEW p \in Int, NEW q \in Int
    PROVE  Ordered(t, Against(p, q, maj, min))
<1>1. \A i \in 1..Len(t) : t[i] \in Ids
  OBVIOUS
<1>2. \A x \in Ids : Against(p, q, maj, min)[x] = Order(p - maj[x], q - min[x])
  BY DEF Against
<1>3. ASSUME NEW x \in Ids, NEW y \in Ids, Order(p - maj[x], q - min[x]) <= 0,
             Order(maj[x] - maj[y], min[x] - min[y]) < 0
      PROVE  Order(p - maj[y], q - min[y]) < 0
  <2>1. maj[x] \in Int /\ maj[y] \in Int /\ min[x] \in Int /\ min[y] \in Int
    OBVIOUS
  <2> QED BY <1>3, <2>1 DEF Order, Sign
<1>4. \A x \in Ids : Order(p - maj[x], q - min[x]) \in Int
  BY DEF Order, Sign
<1>5. ASSUME NEW i \in 1..Len(t), NEW j \in 1..Len(t), i < j,
             Against(p, q, maj, min)[t[i]] <= 0
      PROVE  Against(p, q, maj, min)[t[j]] < 0
  <2>1. t[i] \in Ids /\ t[j] \in Ids
    BY <1>1
  <2>2. Order(maj[t[i]] - maj[t[j]], min[t[i]] - min[t[j]]) < 0
    BY <1>5 DEF SortedBy
  <2> QED BY <1>2, <1>3, <1>5, <2>1, <2>2
<1> QED BY <1>1, <1>2, <1>4, <1>5 DEF Ordered

LEMMA SortedIsInjective ==
    ASSUME NEW t \in Seq(Ids), NEW maj \in [Ids -> Int], NEW min \in [Ids -> Int],
           SortedBy(t, maj, min)
    PROVE  /\ IsInjective(t)
           /\ \A i, j \in 1..Len(t) :
                 maj[t[i]] = maj[t[j]] /\ min[t[i]] = min[t[j]] => i = j
<1>1. ASSUME NEW i \in 1..Len(t), NEW j \in 1..Len(t),
             maj[t[i]] = maj[t[j]], min[t[i]] = min[t[j]]
      PROVE  ~(i < j)
  <2>1. t[i] \in Ids /\ t[j] \in Ids
    OBVIOUS
  <2>2. maj[t[i]] \in Int /\ maj[t[j]] \in Int /\ min[t[i]] \in Int /\ min[t[j]] \in Int
    BY <2>1
  <2>3. Order(maj[t[i]] - maj[t[j]], min[t[i]] - min[t[j]]) = 0
    BY <1>1, <2>2 DEF Order, Sign
  <2> QED BY <2>3 DEF SortedBy
<1>2. \A i, j \in 1..Len(t) : maj[t[i]] = maj[t[j]] /\ min[t[i]] = min[t[j]] => i = j
  <2> SUFFICES ASSUME NEW i \in 1..Len(t), NEW j \in 1..Len(t),
                      maj[t[i]] = maj[t[j]], min[t[i]] = min[t[j]], i # j
               PROVE  FALSE
    OBVIOUS
  <2>1. i < j \/ j < i
    OBVIOUS
  <2> QED BY <1>1, <2>1
<1>3. DOMAIN t = 1..Len(t)
  OBVIOUS
<1> QED BY <1>2, <1>3 DEF IsInjective

\* tree_insert puts the user in its place, or finds one with the same key there.
LEMMA TreeInsert ==
    ASSUME NEW t, NEW maj, NEW min, Keyed(t, maj, min), NEW x \in Ids
    PROVE  LET r == tree_insert(t, x, Against(maj[x], min[x], maj, min))
           IN \/ /\ r = t
                 /\ \E y \in ToSet(t) : maj[y] = maj[x] /\ min[y] = min[x]
              \/ /\ r # t
                 /\ ToSet(r) = ToSet(t) \cup {x}
                 /\ Keyed(r, maj, min)
                 /\ \A y \in ToSet(t) : ~(maj[y] = maj[x] /\ min[y] = min[x])
<1> t \in Seq(Ids) /\ maj \in [Ids -> Int] /\ min \in [Ids -> Int] /\ SortedBy(t, maj, min)
  BY DEF Keyed
<1> DEFINE cmp == Against(maj[x], min[x], maj, min)
           n == Len(t)
           pos == tree_find_insertion_pos(t, cmp)
           r == tree_insert(t, x, cmp)
<1>1. n \in Nat /\ (\A i \in 1..n : t[i] \in Ids) /\ ToSet(t) = {t[i] : i \in 1..n}
  BY Members
<1>2. Ordered(t, cmp)
  BY SortedIsOrdered
<1>3. /\ maj[x] \in Int /\ min[x] \in Int
      /\ \A y \in Ids : maj[y] \in Int /\ min[y] \in Int
      /\ \A y \in Ids : cmp[y] = Order(maj[x] - maj[y], min[x] - min[y])
  BY DEF Against
<1>4. \A y \in Ids : cmp[y] = 0 <=> maj[y] = maj[x] /\ min[y] = min[x]
  BY <1>3 DEF Order, Sign
<1>5. \A y \in Ids : cmp[y] > 0 => Order(maj[y] - maj[x], min[y] - min[x]) < 0
  BY <1>3 DEF Order, Sign
<1> HIDE DEF cmp
<1>6. r = IF pos = Duplicate THEN t ELSE InsertAt(t, pos + 1, x)
  BY DEF tree_insert
<1>7. \/ pos = Duplicate /\ \E i \in 1..n : cmp[t[i]] = 0
      \/ Suits(t, cmp, pos)
  <2>1. Len(t) \in Nat
    BY <1>1
  <2>2. \/ /\ tree_find_insertion_pos(t, cmp) = Duplicate
           /\ \E i \in 1..Len(t) : cmp[t[i]] = 0
        \/ Suits(t, cmp, tree_find_insertion_pos(t, cmp))
    BY <1>2, <2>1, InsertionPos
  <2> QED BY <2>2
<1> HIDE DEF r, pos
<1>8. CASE pos = Duplicate /\ \E i \in 1..n : cmp[t[i]] = 0
  <2>1. PICK i \in 1..n : cmp[t[i]] = 0
    BY <1>8
  <2>2. t[i] \in ToSet(t) /\ maj[t[i]] = maj[x] /\ min[t[i]] = min[x]
    BY <1>1, <1>4, <2>1
  <2> QED BY <1>6, <1>8, <2>2 DEF r, cmp
<1>9. CASE Suits(t, cmp, pos)
  <2>1. /\ pos \in 0..n /\ pos # Duplicate
        /\ \A i \in 1..pos : cmp[t[i]] > 0
        /\ \A i \in (pos+1)..n : cmp[t[i]] < 0
    BY <1>9 DEF Suits, Duplicate
  <2> DEFINE k == pos + 1
  <2>2. k \in 1..(n+1)
    BY <2>1
  <2>3. r = InsertAt(t, k, x)
    BY <1>6, <2>1
  <2>4. /\ r \in Seq(Ids) /\ Len(r) = n + 1
        /\ \A j \in 1..(k-1) : r[j] = t[j]
        /\ r[k] = x
        /\ \A j \in (k+1)..(n+1) : r[j] = t[j-1]
    <3> HIDE DEF k
    <3>1. /\ InsertAt(t, k, x) \in Seq(Ids) /\ Len(InsertAt(t, k, x)) = Len(t) + 1
          /\ \A j \in 1..(k-1) : InsertAt(t, k, x)[j] = t[j]
          /\ InsertAt(t, k, x)[k] = x
          /\ \A j \in (k+1)..(Len(t)+1) : InsertAt(t, k, x)[j] = t[j-1]
      BY <2>2, InsertAtProps
    <3> QED BY <2>3, <3>1
  <2> HIDE DEF k, n
  <2>5. r # t
    BY <1>1, <2>4 DEF n
  <2>6. ASSUME NEW i \in 1..n PROVE t[i] \in Ids /\ cmp[t[i]] \in Int /\ cmp[t[i]] # 0
    <3>1. t[i] \in Ids
      BY <1>1
    <3>2. cmp[t[i]] \in Int
      BY <1>2 DEF Ordered, n
    <3>3. i \in 1..pos \/ i \in (pos+1)..n
      BY <2>1, <1>1
    <3> QED BY <2>1, <3>1, <3>2, <3>3
  <2>7. \A y \in ToSet(t) : ~(maj[y] = maj[x] /\ min[y] = min[x])
    BY <1>1, <1>4, <2>6
  <2>8. ToSet(r) = ToSet(t) \cup {x}
    <3>1. ToSet(r) = {r[i] : i \in 1..(n+1)}
      BY <2>4, Members
    <3>2. ASSUME NEW i \in 1..(n+1) PROVE r[i] \in ToSet(t) \cup {x}
      <4>1. i \in 1..(k-1) \/ i = k \/ i \in (k+1)..(n+1)
        BY <2>2, <1>1
      <4>2. CASE i \in 1..(k-1)
        <5>1. i \in 1..n
          BY <2>2, <1>1, <4>2
        <5> QED BY <1>1, <2>4, <4>2, <5>1
      <4>3. CASE i \in (k+1)..(n+1)
        <5>1. i - 1 \in 1..n
          BY <2>2, <1>1, <4>3
        <5> QED BY <1>1, <2>4, <4>3, <5>1
      <4> QED BY <2>4, <4>1, <4>2, <4>3
    <3>3. ASSUME NEW i \in 1..n PROVE t[i] \in ToSet(r)
      <4>1. CASE i \in 1..(k-1)
        <5>1. i \in 1..(n+1)
          BY <1>1
        <5> QED BY <2>4, <3>1, <4>1, <5>1
      <4>2. CASE i + 1 \in (k+1)..(n+1)
        <5>1. i + 1 \in 1..(n+1) /\ (i + 1) - 1 = i
          BY <1>1
        <5>2. r[i + 1] = t[i]
          BY <2>4, <4>2, <5>1
        <5> QED BY <3>1, <5>1, <5>2
      <4> QED BY <2>2, <1>1, <4>1, <4>2
    <3>4. x \in ToSet(r)
      <4>1. k \in 1..(n+1)
        BY <2>2
      <4> QED BY <2>4, <3>1, <4>1
    <3> QED BY <1>1, <3>1, <3>2, <3>3, <3>4
  <2>9. SortedBy(r, maj, min)
    <3> DEFINE before(y, z) == Order(maj[y] - maj[z], min[y] - min[z]) < 0
    <3>1. \A i, j \in 1..n : i < j => before(t[i], t[j])
      BY DEF SortedBy, n
    <3>2. \A i \in 1..(k-1) : before(t[i], x)
      <4> SUFFICES ASSUME NEW i \in 1..(k-1) PROVE before(t[i], x)
        OBVIOUS
      <4>1. i \in 1..n /\ i \in 1..pos
        BY <2>1, <1>1 DEF k
      <4> QED BY <1>5, <2>1, <2>6, <4>1
    <3>3. \A i \in k..n : before(x, t[i])
      <4> SUFFICES ASSUME NEW i \in k..n PROVE before(x, t[i])
        OBVIOUS
      <4>1. i \in 1..n /\ i \in (pos+1)..n
        BY <2>1, <1>1 DEF k
      <4> QED BY <1>3, <2>1, <2>6, <4>1
    <3> HIDE DEF before
    <3>4. ASSUME NEW i \in 1..(n+1), NEW j \in 1..(n+1), i < j PROVE before(r[i], r[j])
      <4>1. CASE j < k
        <5>1. i \in 1..(k-1) /\ j \in 1..(k-1) /\ i \in 1..n /\ j \in 1..n
          BY <1>1, <2>2, <3>4, <4>1
        <5> QED BY <2>4, <3>1, <3>4, <5>1
      <4>2. CASE j = k
        <5>1. i \in 1..(k-1)
          BY <1>1, <2>2, <3>4, <4>2
        <5> QED BY <2>4, <3>2, <4>2, <5>1
      <4>3. CASE j > k
        <5>1. j \in (k+1)..(n+1) /\ j - 1 \in k..n /\ j - 1 \in 1..n
          BY <1>1, <2>2, <3>4, <4>3
        <5>2. r[j] = t[j - 1]
          BY <2>4, <5>1
        <5>3. CASE i < k
          <6>1. i \in 1..(k-1) /\ i \in 1..n /\ i < j - 1
            BY <1>1, <2>2, <5>1, <5>3
          <6> QED BY <2>4, <3>1, <5>1, <5>2, <6>1
        <5>4. CASE i = k
          BY <2>4, <3>3, <5>1, <5>2, <5>4
        <5>5. CASE i > k
          <6>1. i \in (k+1)..(n+1) /\ i - 1 \in 1..n /\ i - 1 < j - 1
            BY <1>1, <2>2, <3>4, <5>1, <5>5
          <6> QED BY <2>4, <3>1, <5>1, <5>2, <6>1
        <5> QED BY <2>2, <1>1, <5>3, <5>4, <5>5
      <4> QED BY <2>2, <1>1, <4>1, <4>2, <4>3
    <3> QED BY <2>4, <3>4 DEF SortedBy, before
  <2>10. Keyed(r, maj, min)
    BY <2>4, <2>9 DEF Keyed
  <2> QED BY <2>5, <2>7, <2>8, <2>10 DEF r, cmp
<1> QED BY <1>7, <1>8, <1>9

\* mybsearch finds who has the key, or that nobody has it.
LEMMA TreeFind ==
    ASSUME NEW t, NEW maj, NEW min, Keyed(t, maj, min), NEW p \in Int, NEW q \in Int
    PROVE  LET pos == mybsearch(t, Against(p, q, maj, min))
           IN \/ /\ pos = NotFound
                 /\ \A y \in ToSet(t) : ~(maj[y] = p /\ min[y] = q)
              \/ /\ pos \in 0..(Len(t) - 1)
                 /\ maj[t[pos + 1]] = p /\ min[t[pos + 1]] = q
<1> t \in Seq(Ids) /\ maj \in [Ids -> Int] /\ min \in [Ids -> Int] /\ SortedBy(t, maj, min)
  BY DEF Keyed
<1> DEFINE cmp == Against(p, q, maj, min)
           n == Len(t)
           pos == mybsearch(t, cmp)
<1>1. n \in Nat /\ (\A i \in 1..n : t[i] \in Ids) /\ ToSet(t) = {t[i] : i \in 1..n}
  BY Members
<1>2. Ordered(t, cmp)
  BY SortedIsOrdered
<1>3. ASSUME NEW y \in Ids PROVE cmp[y] = 0 <=> maj[y] = p /\ min[y] = q
  <2>1. maj[y] \in Int /\ min[y] \in Int /\ cmp[y] = Order(p - maj[y], q - min[y])
    BY DEF Against
  <2> QED BY <2>1 DEF Order, Sign
<1>4. \/ pos = NotFound /\ \A i \in 1..n : cmp[t[i]] # 0
      \/ pos \in 0..(n - 1) /\ cmp[t[pos + 1]] = 0
  <2> HIDE DEF cmp
  <2> QED BY <1>2, SearchFinds
<1>5. CASE pos = NotFound /\ \A i \in 1..n : cmp[t[i]] # 0
  <2> HIDE DEF pos, cmp, n
  <2>1. \A y \in ToSet(t) : ~(maj[y] = p /\ min[y] = q)
    BY <1>1, <1>3, <1>5
  <2> QED BY <1>5, <2>1 DEF pos, cmp
<1>6. CASE pos \in 0..(n - 1) /\ cmp[t[pos + 1]] = 0
  <2> HIDE DEF pos, cmp
  <2>1. t[pos + 1] \in Ids
    <3>1. pos + 1 \in 1..n
      BY <1>1, <1>6
    <3> QED BY <1>1, <3>1
  <2>2. maj[t[pos + 1]] = p /\ min[t[pos + 1]] = q
    BY <1>3, <1>6, <2>1
  <2> QED BY <1>6, <2>2 DEF pos, cmp
<1> QED BY <1>4, <1>5, <1>6

\* tree_remove takes out the user it is asked to.
LEMMA TreeRemove ==
    ASSUME NEW t, NEW maj, NEW min, Keyed(t, maj, min), NEW x \in ToSet(t)
    PROVE  LET r == tree_remove(t, Against(maj[x], min[x], maj, min))
           IN Keyed(r, maj, min) /\ ToSet(r) = ToSet(t) \ {x}
<1> t \in Seq(Ids) /\ maj \in [Ids -> Int] /\ min \in [Ids -> Int] /\ SortedBy(t, maj, min)
  BY DEF Keyed
<1> DEFINE cmp == Against(maj[x], min[x], maj, min)
           n == Len(t)
           pos == mybsearch(t, cmp)
           r == tree_remove(t, cmp)
<1>1. n \in Nat /\ (\A i \in 1..n : t[i] \in Ids) /\ ToSet(t) = {t[i] : i \in 1..n}
  BY Members
<1>2. x \in Ids /\ maj[x] \in Int /\ min[x] \in Int
  BY <1>1
<1>3. pos \in 0..(n - 1) /\ maj[t[pos + 1]] = maj[x] /\ min[t[pos + 1]] = min[x]
  <2>1. \/ /\ pos = NotFound
           /\ \A y \in ToSet(t) : ~(maj[y] = maj[x] /\ min[y] = min[x])
        \/ /\ pos \in 0..(n - 1)
           /\ maj[t[pos + 1]] = maj[x] /\ min[t[pos + 1]] = min[x]
    BY <1>2, TreeFind
  <2> QED BY <2>1
<1> HIDE DEF cmp
<1>4. r = RemoveAt(t, pos + 1)
  <2>1. pos # NotFound
    BY <1>1, <1>3 DEF NotFound
  <2> QED BY <2>1 DEF tree_remove
<1> HIDE DEF pos, r, n
<1> DEFINE k == pos + 1
<1>5. k \in 1..n
  BY <1>1, <1>3
<1>6. /\ r \in Seq(Ids) /\ Len(r) = n - 1
      /\ \A j \in 1..(k-1) : r[j] = t[j]
      /\ \A j \in k..(n-1) : r[j] = t[j+1]
  <2> HIDE DEF k
  <2>1. k \in 1..Len(t)
    BY <1>5 DEF n
  <2>2. /\ RemoveAt(t, k) \in Seq(Ids) /\ Len(RemoveAt(t, k)) = Len(t) - 1
        /\ \A j \in 1..(k-1) : RemoveAt(t, k)[j] = t[j]
        /\ \A j \in k..(Len(t)-1) : RemoveAt(t, k)[j] = t[j+1]
    BY <2>1, RemoveAtProps
  <2>3. r = RemoveAt(t, k)
    BY <1>4 DEF k
  <2> QED BY <2>2, <2>3 DEF n
<1>7. \A i, j \in 1..n : maj[t[i]] = maj[t[j]] /\ min[t[i]] = min[t[j]] => i = j
  BY SortedIsInjective DEF n
<1>8. t[k] = x
  <2>1. PICK i \in 1..n : t[i] = x
    BY <1>1
  <2>2. i = k
    BY <1>3, <1>5, <1>7, <2>1
  <2> QED BY <2>1, <2>2
<1> HIDE DEF k
<1>9. \A j \in 1..(n-1) : r[j] = t[IF j < k THEN j ELSE j + 1] /\ (IF j < k THEN j ELSE j + 1) \in (1..n) \ {k}
  <2> SUFFICES ASSUME NEW j \in 1..(n-1)
               PROVE  /\ r[j] = t[IF j < k THEN j ELSE j + 1]
                      /\ (IF j < k THEN j ELSE j + 1) \in (1..n) \ {k}
    OBVIOUS
  <2>1. CASE j < k
    <3>1. j \in 1..(k-1) /\ j \in (1..n) \ {k}
      BY <1>1, <1>5, <2>1
    <3> QED BY <1>6, <2>1, <3>1
  <2>2. CASE ~(j < k)
    <3>1. j \in k..(n-1) /\ j + 1 \in (1..n) \ {k}
      BY <1>1, <1>5, <2>2
    <3> QED BY <1>6, <2>2, <3>1
  <2> QED BY <2>1, <2>2
<1>10. ToSet(r) = ToSet(t) \ {x}
  <2>1. ToSet(r) = {r[i] : i \in 1..(n-1)}
    BY <1>6, Members
  <2>2. ASSUME NEW i \in 1..(n-1) PROVE r[i] \in ToSet(t) \ {x}
    <3>1. PICK j \in (1..n) \ {k} : r[i] = t[j]
      BY <1>9
    <3>2. t[j] # x
      BY <1>5, <1>7, <1>8, <3>1
    <3> QED BY <1>1, <3>1, <3>2
  <2>3. ASSUME NEW i \in 1..n, t[i] # x PROVE t[i] \in ToSet(r)
    <3>1. CASE i < k
      <4>1. i \in 1..(k-1) /\ i \in 1..(n-1)
        BY <1>1, <1>5, <3>1
      <4> QED BY <1>6, <2>1, <4>1
    <3>2. CASE i > k
      <4>1. i - 1 \in k..(n-1) /\ i - 1 \in 1..(n-1) /\ (i - 1) + 1 = i
        BY <1>1, <1>5, <3>2
      <4>2. r[i - 1] = t[i]
        BY <1>6, <4>1
      <4> QED BY <2>1, <4>1, <4>2
    <3> QED BY <1>1, <1>5, <1>8, <2>3, <3>1, <3>2
  <2> QED BY <1>1, <2>1, <2>2, <2>3
<1>11. SortedBy(r, maj, min)
  <2> DEFINE before(y, z) == Order(maj[y] - maj[z], min[y] - min[z]) < 0
  <2>1. \A i, j \in 1..n : i < j => before(t[i], t[j])
    BY DEF SortedBy, n
  <2> HIDE DEF before
  <2>2. ASSUME NEW i \in 1..(n-1), NEW j \in 1..(n-1), i < j PROVE before(r[i], r[j])
    <3> DEFINE a == IF i < k THEN i ELSE i + 1
               b == IF j < k THEN j ELSE j + 1
    <3>1. a < b
      BY <1>1, <1>5, <2>2
    <3>2. a \in 1..n /\ b \in 1..n /\ r[i] = t[a] /\ r[j] = t[b]
      BY <1>9
    <3> QED BY <2>1, <3>1, <3>2
  <2> QED BY <1>6, <2>2 DEF SortedBy, before
<1>12. Keyed(r, maj, min)
  BY <1>6, <1>11 DEF Keyed
<1> QED BY <1>10, <1>12 DEF r, cmp

\* The order of a tree depends on its users only.
LEMMA SortedElsewhere ==
    ASSUME NEW t \in Seq(Ids), NEW maj, NEW min, NEW maj2, NEW min2, SortedBy(t, maj, min),
           \A x \in ToSet(t) : maj2[x] = maj[x] /\ min2[x] = min[x]
    PROVE  SortedBy(t, maj2, min2)
<1>1. \A i \in 1..Len(t) : t[i] \in ToSet(t)
  BY Members
<1> QED BY <1>1 DEF SortedBy

-----------------------------------------------------------------------------
(* The comparisons of the list.                                            *)

\* The place of the highest level, or the one after the last.
LevelOf(a) == IF a = {} THEN Len(NickPrefixes) + 1 ELSE Highest(a)

Major(s, a) == IF s = 0 THEN LevelOf(a) ELSE IF s = 2 THEN -LevelOf(a) ELSE 0

Minor(s, n) == IF s \in {0, 1} THEN n ELSE -n

LEMMA LevelsAreNumbers == Levels = 1..Len(NickPrefixes) /\ Len(NickPrefixes) \in Nat
BY NickAssumption DEF Levels

LEMMA HighestIsLeast ==
    ASSUME NEW a \in SUBSET Levels, a # {}
    PROVE  Highest(a) \in a /\ Highest(a) \in Nat /\ \A k \in a : Highest(a) <= k
<1>1. a \subseteq Nat
  BY LevelsAreNumbers
<1>2. PICK l \in a : \A k \in a : ~(k < l)
  BY <1>1, NatMin
<1>3. \A k \in a : l <= k
  BY <1>1, <1>2
<1> QED BY <1>1, <1>3 DEF Highest

LEMMA RankIsNumber ==
    ASSUME NEW a \in SUBSET Levels
    PROVE  LevelOf(a) \in Nat
BY HighestIsLeast, LevelsAreNumbers DEF LevelOf

\* nick_cmp_az_ops compares the highest levels, then the nicks.
LEMMA OpsFirst ==
    ASSUME NEW n \in Nicks, NEW a \in SUBSET Levels, NEW u \in User
    PROVE  nick_cmp_az_ops(n, a, u) = Order(LevelOf(a) - LevelOf(u.access), n - u.nick)
<1> DEFINE b == u.access
<1>1. b \in SUBSET Levels
  BY DEF User
<1> HIDE DEF b
<1>2. LevelOf(a) \in Nat /\ LevelOf(b) \in Nat
  BY <1>1, RankIsNumber
<1>3. nick_cmp_az_ops(n, a, u) =
        IF a = b \/ (a \cap b # {} /\ Highest(a \cap b) = Highest(a \cup b))
        THEN Sign(n - u.nick)
        ELSE IF Highest(a \cup b) \in a THEN -1 ELSE 1
  BY DEF nick_cmp_az_ops, b
<1>4. CASE a = b
  BY <1>2, <1>3, <1>4 DEF Order, b
<1>5. CASE a # b
  <2> DEFINE h == Highest(a \cup b)
  <2>1. h \in a \cup b /\ h \in Nat /\ \A k \in a \cup b : h <= k
    BY <1>1, <1>5, HighestIsLeast
  <2> HIDE DEF h
  <2>2. a \subseteq Nat /\ b \subseteq Nat /\ a \subseteq 1..Len(NickPrefixes) /\ b \subseteq 1..Len(NickPrefixes)
    BY <1>1, LevelsAreNumbers
  <2>3. h \in a => LevelOf(a) = h
    <3> SUFFICES ASSUME h \in a PROVE LevelOf(a) = h
      OBVIOUS
    <3>1. Highest(a) \in a /\ Highest(a) \in Nat /\ \A k \in a : Highest(a) <= k
      BY HighestIsLeast
    <3>2. Highest(a) <= h /\ h <= Highest(a)
      BY <2>1, <3>1
    <3> QED BY <2>1, <3>1, <3>2 DEF LevelOf
  <2>4. h \in b => LevelOf(b) = h
    <3> SUFFICES ASSUME h \in b PROVE LevelOf(b) = h
      OBVIOUS
    <3>1. Highest(b) \in b /\ Highest(b) \in Nat /\ \A k \in b : Highest(b) <= k
      BY <1>1, HighestIsLeast
    <3>2. Highest(b) <= h /\ h <= Highest(b)
      BY <2>1, <3>1
    <3> QED BY <2>1, <3>1, <3>2 DEF LevelOf
  <2>5. h \notin a => LevelOf(a) > h
    <3> SUFFICES ASSUME h \notin a PROVE LevelOf(a) > h
      OBVIOUS
    <3>1. CASE a = {}
      BY <2>1, <2>2, <3>1, LevelsAreNumbers DEF LevelOf
    <3>2. CASE a # {}
      <4>1. Highest(a) \in a /\ Highest(a) \in Nat
        BY <3>2, HighestIsLeast
      <4>2. h <= Highest(a) /\ h # Highest(a)
        BY <2>1, <4>1
      <4> QED BY <2>1, <3>2, <4>1, <4>2 DEF LevelOf
    <3> QED BY <3>1, <3>2
  <2>6. h \notin b => LevelOf(b) > h
    <3> SUFFICES ASSUME h \notin b PROVE LevelOf(b) > h
      OBVIOUS
    <3>1. CASE b = {}
      BY <2>1, <2>2, <3>1, LevelsAreNumbers DEF LevelOf
    <3>2. CASE b # {}
      <4>1. Highest(b) \in b /\ Highest(b) \in Nat
        BY <1>1, <3>2, HighestIsLeast
      <4>2. h <= Highest(b) /\ h # Highest(b)
        BY <2>1, <4>1
      <4> QED BY <2>1, <3>2, <4>1, <4>2 DEF LevelOf
    <3> QED BY <3>1, <3>2
  <2>7. (a \cap b # {} /\ Highest(a \cap b) = h) <=> (h \in a /\ h \in b)
    <3>1. ASSUME a \cap b # {}, Highest(a \cap b) = h PROVE h \in a /\ h \in b
      <4>1. Highest(a \cap b) \in a \cap b
        BY <1>1, <3>1, HighestIsLeast
      <4> QED BY <3>1, <4>1
    <3>2. ASSUME h \in a, h \in b PROVE a \cap b # {} /\ Highest(a \cap b) = h
      <4>1. a \cap b \in SUBSET Levels /\ a \cap b # {}
        BY <1>1, <3>2
      <4>2. /\ Highest(a \cap b) \in a \cap b /\ Highest(a \cap b) \in Nat
            /\ \A k \in a \cap b : Highest(a \cap b) <= k
        BY <4>1, HighestIsLeast
      <4>3. Highest(a \cap b) <= h /\ h <= Highest(a \cap b)
        BY <2>1, <3>2, <4>2
      <4> QED BY <2>1, <4>1, <4>2, <4>3
    <3> QED BY <3>1, <3>2
  <2>8. nick_cmp_az_ops(n, a, u) =
          IF h \in a /\ h \in b THEN Sign(n - u.nick) ELSE IF h \in a THEN -1 ELSE 1
    BY <1>3, <1>5, <2>7 DEF h
  <2>9. nick_cmp_az_ops(n, a, u) = Order(LevelOf(a) - LevelOf(b), n - u.nick)
    <3>1. CASE h \in a /\ h \in b
      <4>1. LevelOf(a) - LevelOf(b) = 0
        BY <1>2, <2>3, <2>4, <3>1
      <4> QED BY <2>8, <3>1, <4>1 DEF Order
    <3>2. CASE h \in a /\ h \notin b
      <4>1. LevelOf(a) - LevelOf(b) < 0
        BY <1>2, <2>1, <2>3, <2>6, <3>2
      <4> QED BY <2>8, <3>2, <4>1 DEF Order
    <3>3. CASE h \notin a /\ h \in b
      <4>1. LevelOf(a) - LevelOf(b) > 0 /\ ~(LevelOf(a) - LevelOf(b) < 0)
        BY <1>2, <2>1, <2>4, <2>5, <3>3
      <4> QED BY <2>8, <3>3, <4>1 DEF Order
    <3> QED BY <2>1, <3>1, <3>2, <3>3
  <2> QED BY <2>9 DEF b
<1> QED BY <1>4, <1>5

Majors(s, us) == [x \in Ids |-> Major(s, us[x].access)]
Minors(s, us) == [x \in Ids |-> Minor(s, us[x].nick)]

\* How the key of nick n and access a compares under the sort mode s.
Key(us, s, n, a) == Against(Major(s, a), Minor(s, n), Majors(s, us), Minors(s, us))

InOrder(t, s, us) == SortedBy(t, Majors(s, us), Minors(s, us))

LEMMA KeysAreNumbers ==
    ASSUME NEW us \in [Ids -> User], NEW s \in 0..3
    PROVE  /\ Majors(s, us) \in [Ids -> Int] /\ Minors(s, us) \in [Ids -> Int]
           /\ \A n \in Nicks : Minor(s, n) \in Int
           /\ \A a \in SUBSET Levels : Major(s, a) \in Int
<1>1. \A n \in Nicks : Minor(s, n) \in Int
  BY NickAssumption DEF Minor
<1>2. \A a \in SUBSET Levels : Major(s, a) \in Int
  <2> SUFFICES ASSUME NEW a \in SUBSET Levels PROVE Major(s, a) \in Int
    OBVIOUS
  <2>1. LevelOf(a) \in Nat
    BY RankIsNumber
  <2> QED BY <2>1 DEF Major
<1>3. \A x \in Ids : us[x].access \in SUBSET Levels /\ us[x].nick \in Nicks
  BY DEF User
<1>4. Majors(s, us) \in [Ids -> Int]
  BY <1>2, <1>3 DEF Majors
<1>5. Minors(s, us) \in [Ids -> Int]
  BY <1>1, <1>3 DEF Minors
<1> QED BY <1>1, <1>2, <1>4, <1>5

\* The comparisons of both trees are such keys.
LEMMA PreferenceIsKey ==
    ASSUME NEW us \in [Ids -> User], sort \in 0..3, NEW n \in Nicks, NEW a \in SUBSET Levels
    PROVE  ByPreference(us, n, a) = Key(us, sort, n, a)
<1>1. ASSUME NEW x \in Ids
      PROVE  nick_cmp(n, a, us[x])
             = Order(Major(sort, a) - Major(sort, us[x].access),
                     Minor(sort, n) - Minor(sort, us[x].nick))
  <2> DEFINE u == us[x]
  <2>1. u \in User /\ u.access \in SUBSET Levels /\ u.nick \in Nicks
    BY DEF User
  <2> HIDE DEF u
  <2>2. n \in Int /\ u.nick \in Int /\ LevelOf(a) \in Int /\ LevelOf(u.access) \in Int
    BY <2>1, NickAssumption, RankIsNumber
  <2>3. nick_cmp_az_ops(n, a, u) = Order(LevelOf(a) - LevelOf(u.access), n - u.nick)
    BY <2>1, OpsFirst
  <2> DEFINE i == LevelOf(a)
             j == LevelOf(u.access)
  <2> HIDE DEF i, j
  <2>4. nick_cmp(n, a, u) = Order(Major(sort, a) - Major(sort, u.access),
                                  Minor(sort, n) - Minor(sort, u.nick))
    <3>1. CASE sort = 0
      BY <2>3, <3>1 DEF nick_cmp, Major, Minor
    <3>2. CASE sort = 1
      BY <2>2, <3>2 DEF nick_cmp, Major, Minor, Order
    <3>3. CASE sort = 2
      <4>1. nick_cmp(n, a, u) = -Order(i - j, n - u.nick)
        BY <2>3, <3>3 DEF nick_cmp, i, j
      <4>2. /\ Major(sort, a) = -i /\ Major(sort, u.access) = -j
            /\ Minor(sort, n) = -n /\ Minor(sort, u.nick) = -u.nick
        BY <3>3 DEF Major, Minor, i, j
      <4>3. i \in Int /\ j \in Int
        BY <2>2 DEF i, j
      <4> QED BY <2>2, <4>1, <4>2, <4>3 DEF Order, Sign
    <3>4. CASE sort = 3
      <4>1. nick_cmp(n, a, u) = -Sign(n - u.nick)
        BY <3>4 DEF nick_cmp
      <4>2. /\ Major(sort, a) = 0 /\ Major(sort, u.access) = 0
            /\ Minor(sort, n) = -n /\ Minor(sort, u.nick) = -u.nick
        BY <3>4 DEF Major, Minor
      <4> QED BY <2>2, <4>1, <4>2 DEF Order, Sign
    <3>5. sort = 0 \/ sort = 1 \/ sort = 2 \/ sort = 3
      OBVIOUS
    <3> QED BY <3>1, <3>2, <3>3, <3>4, <3>5
  <2> QED BY <2>4 DEF u
<1>2. \A x \in Ids : /\ Majors(sort, us)[x] = Major(sort, us[x].access)
                     /\ Minors(sort, us)[x] = Minor(sort, us[x].nick)
  BY DEF Majors, Minors
<1> QED BY <1>1, <1>2 DEF ByPreference, Key, Against

LEMMA NickIsKey ==
    ASSUME NEW us \in [Ids -> User], NEW n \in Nicks, NEW a \in SUBSET Levels
    PROVE  ByNick(us, n) = Key(us, 1, n, a)
<1>1. \A x \in Ids : Majors(1, us)[x] = 0 /\ Minors(1, us)[x] = us[x].nick
  BY DEF Majors, Minors, Major, Minor
<1>2. Major(1, a) = 0 /\ Minor(1, n) = n
  BY DEF Major, Minor
<1>3. ASSUME NEW i \in Int, NEW j \in Int PROVE Order(0 - 0, i - j) = Sign(i - j)
  BY DEF Order
<1>4. \A x \in Ids : n \in Int /\ us[x].nick \in Int
  <2>1. \A x \in Ids : us[x].nick \in Nicks
    BY DEF User
  <2>2. Nicks \subseteq Int
    BY NickAssumption
  <2> QED BY <2>1, <2>2
<1> QED BY <1>1, <1>2, <1>3, <1>4 DEF ByNick, Key, Against

LEMMA SameKey ==
    ASSUME NEW us \in [Ids -> User], NEW s \in 0..3, NEW n \in Nicks, NEW m \in Nicks
    PROVE  Minor(s, n) = Minor(s, m) <=> n = m
<1>1. n \in Int /\ m \in Int
  BY NickAssumption
<1> QED BY <1>1 DEF Minor

LEMMA TreeRefuse ==
    ASSUME NEW t, NEW maj, NEW min, Keyed(t, maj, min),
           NEW x \in Ids, NEW y \in ToSet(t), maj[y] = maj[x], min[y] = min[x]
    PROVE  tree_insert(t, x, Against(maj[x], min[x], maj, min)) = t
<1> DEFINE r == tree_insert(t, x, Against(maj[x], min[x], maj, min))
<1>1. \/ r = t
      \/ \A z \in ToSet(t) : ~(maj[z] = maj[x] /\ min[z] = min[x])
  BY TreeInsert
<1> QED BY <1>1

\* A list in order under the keys of the users.
LEMMA ListIsKeyed ==
    ASSUME NEW us \in [Ids -> User], NEW s \in 0..3, NEW t
    PROVE  /\ t \in Seq(Ids) /\ InOrder(t, s, us) <=> Keyed(t, Majors(s, us), Minors(s, us))
           /\ \A x \in Ids : Key(us, s, us[x].nick, us[x].access)
                   = Against(Majors(s, us)[x], Minors(s, us)[x], Majors(s, us), Minors(s, us))
<1>1. t \in Seq(Ids) /\ InOrder(t, s, us) <=> Keyed(t, Majors(s, us), Minors(s, us))
  BY KeysAreNumbers DEF Keyed, InOrder
<1>2. \A x \in Ids : /\ Majors(s, us)[x] = Major(s, us[x].access)
                     /\ Minors(s, us)[x] = Minor(s, us[x].nick)
  BY DEF Majors, Minors
<1> QED BY <1>1, <1>2 DEF Key

\* An insertion into a list in order: the user is now in it, and it is in
\* order, if nobody in it has the nick.
LEMMA ListInsert ==
    ASSUME NEW us \in [Ids -> User], NEW s \in 0..3, NEW t \in Seq(Ids), InOrder(t, s, us),
           NEW id \in Ids, \A y \in ToSet(t) : us[y].nick # us[id].nick
    PROVE  LET r == tree_insert(t, id, Key(us, s, us[id].nick, us[id].access))
           IN r \in Seq(Ids) /\ r # t /\ ToSet(r) = ToSet(t) \cup {id} /\ InOrder(r, s, us)
<1> DEFINE maj == Majors(s, us)
           min == Minors(s, us)
<1>1. ASSUME NEW y \in ToSet(t) PROVE min[y] # min[id]
  <2>1. y \in Ids
    BY Members
  <2>2. us[y].nick \in Nicks /\ us[id].nick \in Nicks
    BY <2>1 DEF User
  <2>3. us[y].nick # us[id].nick
    OBVIOUS
  <2>4. min[y] = Minor(s, us[y].nick) /\ min[id] = Minor(s, us[id].nick)
    BY <2>1 DEF Minors
  <2> QED BY <2>2, <2>3, <2>4, SameKey
<1>2. Keyed(t, maj, min) /\ Key(us, s, us[id].nick, us[id].access) = Against(maj[id], min[id], maj, min)
  BY ListIsKeyed
<1> DEFINE r == tree_insert(t, id, Against(maj[id], min[id], maj, min))
<1>3. Keyed(r, maj, min) /\ r # t /\ ToSet(r) = ToSet(t) \cup {id}
  <2> HIDE DEF maj, min
  <2> QED BY <1>1, <1>2, TreeInsert
<1> HIDE DEF r
<1>4. r \in Seq(Ids) /\ InOrder(r, s, us)
  BY <1>3, ListIsKeyed
<1> QED BY <1>2, <1>3, <1>4 DEF r

\* In the order of the nicks alone a second user of a nick is left out.
LEMMA ListRefuse ==
    ASSUME NEW us \in [Ids -> User], NEW s \in {1, 3}, NEW t \in Seq(Ids), InOrder(t, s, us),
           NEW id \in Ids, \E y \in ToSet(t) : us[y].nick = us[id].nick
    PROVE  tree_insert(t, id, Key(us, s, us[id].nick, us[id].access)) = t
<1> DEFINE maj == Majors(s, us)
           min == Minors(s, us)
<1>1. Keyed(t, maj, min) /\ Key(us, s, us[id].nick, us[id].access) = Against(maj[id], min[id], maj, min)
  <2>1. s \in 0..3
    OBVIOUS
  <2> QED BY <2>1, ListIsKeyed
<1>2. PICK y \in ToSet(t) : us[y].nick = us[id].nick
  OBVIOUS
<1>3. y \in Ids
  BY Members
<1>4. maj[y] = maj[id] /\ min[y] = min[id]
  BY <1>2, <1>3 DEF Majors, Minors, Major
<1>5. tree_insert(t, id, Against(maj[id], min[id], maj, min)) = t
  <2> HIDE DEF maj, min
  <2> QED BY <1>1, <1>4, TreeRefuse
<1> QED BY <1>1, <1>5

\* A removal from a list in order, by the keys the list is in the order of.
LEMMA ListRemove ==
    ASSUME NEW us \in [Ids -> User], NEW s \in 0..3, NEW t \in Seq(Ids), InOrder(t, s, us),
           NEW id \in ToSet(t)
    PROVE  LET r == tree_remove(t, Key(us, s, us[id].nick, us[id].access))
           IN r \in Seq(Ids) /\ ToSet(r) = ToSet(t) \ {id} /\ InOrder(r, s, us)
<1> DEFINE maj == Majors(s, us)
           min == Minors(s, us)
<1>1. id \in Ids
  BY Members
<1>2. Keyed(t, maj, min) /\ Key(us, s, us[id].nick, us[id].access) = Against(maj[id], min[id], maj, min)
  BY <1>1, ListIsKeyed
<1> DEFINE r == tree_remove(t, Against(maj[id], min[id], maj, min))
<1>3. Keyed(r, maj, min) /\ ToSet(r) = ToSet(t) \ {id}
  <2> HIDE DEF maj, min
  <2> QED BY <1>2, TreeRemove
<1> HIDE DEF r
<1>4. r \in Seq(Ids) /\ InOrder(r, s, us)
  BY <1>3, ListIsKeyed
<1> QED BY <1>2, <1>3, <1>4 DEF r

\* A list stays in order whatever becomes of others.
LEMMA ListKeeps ==
    ASSUME NEW us, NEW us2, NEW s, NEW t \in Seq(Ids), InOrder(t, s, us),
           \A x \in ToSet(t) : us2[x] = us[x]
    PROVE  InOrder(t, s, us2)
<1>1. \A x \in ToSet(t) : x \in Ids
  BY Members
<1>2. \A x \in ToSet(t) : /\ Majors(s, us2)[x] = Majors(s, us)[x]
                          /\ Minors(s, us2)[x] = Minors(s, us)[x]
  BY <1>1 DEF Majors, Minors
<1> QED BY <1>2, SortedElsewhere DEF InOrder

-----------------------------------------------------------------------------
(* The two trees of the channel.                                           *)

\* The orders the comparisons make, chosen off the channel; with the nicks alone
\* compared, and only then, the list may be sent a nick twice.
Orderly == SortModes \subseteq 0..3 /\ DupSorts \subseteq {1, 3} /\ ~MaySwitch

ListTypes ==
    /\ user \in [Ids -> User] /\ live \subseteq Ids
    /\ usertree \in Seq(Ids) /\ usertree_alpha \in Seq(Ids)
    /\ nick \in Nicks /\ sort \in SortModes

\* Each tree is in its order, and holds the allocated users.
ListInv ==
    /\ ListTypes
    /\ ToSet(usertree) = live /\ ToSet(usertree_alpha) = live
    /\ InOrder(usertree, sort, user) /\ InOrder(usertree_alpha, 1, user)

LEMMA InsertedByKey ==
    ASSUME NEW us \in [Ids -> User], sort \in 0..3, NEW t, NEW id \in Ids
    PROVE  /\ Inserted(us, t, id) = tree_insert(t, id, Key(us, sort, us[id].nick, us[id].access))
           /\ InsertedAlpha(us, t, id) = tree_insert(t, id, Key(us, 1, us[id].nick, us[id].access))
<1>1. us[id].nick \in Nicks /\ us[id].access \in SUBSET Levels
  BY DEF User
<1> QED BY <1>1, PreferenceIsKey, NickIsKey DEF Inserted, InsertedAlpha

LEMMA RemovedByKey ==
    ASSUME user \in [Ids -> User], sort \in 0..3, NEW t, NEW id \in Ids
    PROVE  /\ Removed(t, id) = tree_remove(t, Key(user, sort, user[id].nick, user[id].access))
           /\ RemovedAlpha(t, id) = tree_remove(t, Key(user, 1, user[id].nick, user[id].access))
<1>1. user[id].nick \in Nicks /\ user[id].access \in SUBSET Levels
  BY DEF User
<1> QED BY <1>1, PreferenceIsKey, NickIsKey DEF Removed, RemovedAlpha

\* The lookup, in the tree of the nicks.
LEMMA Found ==
    ASSUME ListInv, NEW n \in Nicks
    PROVE  \/ userlist_find(n) = NoUser /\ \A x \in live : user[x].nick # n
           \/ userlist_find(n) \in live /\ user[userlist_find(n)].nick = n
<1> DEFINE maj == Majors(1, user)
           min == Minors(1, user)
           t == usertree_alpha
<1>1. user \in [Ids -> User] /\ t \in Seq(Ids) /\ InOrder(t, 1, user) /\ ToSet(t) = live /\ live \subseteq Ids
  BY DEF ListInv, ListTypes
<1>2. Keyed(t, maj, min)
  BY <1>1, ListIsKeyed
<1>3. ByNick(user, n) = Against(0, n, maj, min)
  <2>1. {} \in SUBSET Levels
    OBVIOUS
  <2>2. ByNick(user, n) = Key(user, 1, n, {})
    BY <1>1, <2>1, NickIsKey
  <2>3. Major(1, {}) = 0 /\ Minor(1, n) = n
    BY DEF Major, Minor
  <2> QED BY <2>2, <2>3 DEF Key
<1>4. \A x \in Ids : maj[x] = 0 /\ min[x] = user[x].nick
  BY DEF Majors, Minors, Major, Minor
<1>5. n \in Int
  BY NickAssumption
<1> DEFINE pos == mybsearch(t, Against(0, n, maj, min))
<1>6. userlist_find(n) = IF pos = NotFound THEN NoUser ELSE t[pos + 1]
  BY <1>3 DEF userlist_find
<1> HIDE DEF maj, min
<1>7. \/ pos = NotFound /\ \A y \in ToSet(t) : ~(maj[y] = 0 /\ min[y] = n)
      \/ pos \in 0..(Len(t) - 1) /\ maj[t[pos + 1]] = 0 /\ min[t[pos + 1]] = n
  BY <1>2, <1>5, TreeFind
<1> HIDE DEF pos
<1>8. CASE pos = NotFound /\ \A y \in ToSet(t) : ~(maj[y] = 0 /\ min[y] = n)
  BY <1>1, <1>4, <1>6, <1>8
<1>9. CASE pos \in 0..(Len(t) - 1) /\ maj[t[pos + 1]] = 0 /\ min[t[pos + 1]] = n
  <2>1. pos # NotFound /\ pos + 1 \in 1..Len(t)
    BY <1>1, <1>9 DEF NotFound
  <2>2. t[pos + 1] \in ToSet(t)
    BY <1>1, <2>1, Members
  <2>3. t[pos + 1] \in live /\ t[pos + 1] \in Ids
    BY <1>1, <2>2
  <2> QED BY <1>4, <1>6, <1>9, <2>1, <2>3
<1> QED BY <1>7, <1>8, <1>9

\* Nobody has another's nick.
LEMMA NicksDiffer ==
    ASSUME ListInv, NEW x \in live, NEW y \in live, user[x].nick = user[y].nick
    PROVE  x = y
<1> DEFINE maj == Majors(1, user)
           min == Minors(1, user)
           t == usertree_alpha
<1>1. user \in [Ids -> User] /\ t \in Seq(Ids) /\ InOrder(t, 1, user) /\ ToSet(t) = live /\ live \subseteq Ids
  BY DEF ListInv, ListTypes
<1>2. /\ maj \in [Ids -> Int] /\ min \in [Ids -> Int] /\ SortedBy(t, maj, min)
  <2>1. 1 \in 0..3
    OBVIOUS
  <2>2. maj \in [Ids -> Int] /\ min \in [Ids -> Int]
    BY <1>1, <2>1, KeysAreNumbers
  <2>3. SortedBy(t, maj, min)
    BY <1>1 DEF InOrder
  <2> QED BY <2>2, <2>3
<1>3. \A z \in Ids : maj[z] = 0 /\ min[z] = user[z].nick
  BY DEF Majors, Minors, Major, Minor
<1> HIDE DEF maj, min
<1>4. \A i, j \in 1..Len(t) : maj[t[i]] = maj[t[j]] /\ min[t[i]] = min[t[j]] => i = j
  BY <1>1, <1>2, SortedIsInjective
<1>5. ToSet(t) = {t[i] : i \in 1..Len(t)}
  BY <1>1, Members
<1>6. PICK i \in 1..Len(t) : t[i] = x
  BY <1>1, <1>5
<1>7. PICK j \in 1..Len(t) : t[j] = y
  BY <1>1, <1>5
<1>8. i = j
  BY <1>1, <1>3, <1>4, <1>6, <1>7
<1> QED BY <1>6, <1>7, <1>8

\* A user is taken out of both trees.
LEMMA TakenOut ==
    ASSUME ListInv, Orderly, NEW id \in live
    PROVE  /\ Removed(usertree, id) \in Seq(Ids)
           /\ ToSet(Removed(usertree, id)) = live \ {id}
           /\ InOrder(Removed(usertree, id), sort, user)
           /\ RemovedAlpha(usertree_alpha, id) \in Seq(Ids)
           /\ ToSet(RemovedAlpha(usertree_alpha, id)) = live \ {id}
           /\ InOrder(RemovedAlpha(usertree_alpha, id), 1, user)
<1>1. /\ user \in [Ids -> User] /\ id \in Ids /\ sort \in 0..3 /\ 1 \in 0..3
      /\ usertree \in Seq(Ids) /\ usertree_alpha \in Seq(Ids)
      /\ InOrder(usertree, sort, user) /\ InOrder(usertree_alpha, 1, user)
      /\ ToSet(usertree) = live /\ ToSet(usertree_alpha) = live
  BY DEF ListInv, ListTypes, Orderly
<1> DEFINE r == tree_remove(usertree, Key(user, sort, user[id].nick, user[id].access))
           q == tree_remove(usertree_alpha, Key(user, 1, user[id].nick, user[id].access))
<1>2. r = Removed(usertree, id) /\ q = RemovedAlpha(usertree_alpha, id)
  BY <1>1, RemovedByKey
<1>3. id \in ToSet(usertree) /\ id \in ToSet(usertree_alpha)
  BY <1>1
<1>4. r \in Seq(Ids) /\ ToSet(r) = ToSet(usertree) \ {id} /\ InOrder(r, sort, user)
  BY <1>1, <1>3, ListRemove
<1>5. q \in Seq(Ids) /\ ToSet(q) = ToSet(usertree_alpha) \ {id} /\ InOrder(q, 1, user)
  BY <1>1, <1>3, ListRemove
<1> HIDE DEF r, q
<1> QED BY <1>1, <1>2, <1>4, <1>5

\* A user with a nick nobody has is put in two lists of the same users.
LEMMA PutIn ==
    ASSUME NEW us \in [Ids -> User], sort \in 0..3, NEW t \in Seq(Ids), NEW ta \in Seq(Ids),
           NEW L, ToSet(t) = L, ToSet(ta) = L, InOrder(t, sort, us), InOrder(ta, 1, us),
           NEW id \in Ids, \A y \in L : us[y].nick # us[id].nick
    PROVE  /\ Inserted(us, t, id) \in Seq(Ids) /\ Inserted(us, t, id) # t
           /\ ToSet(Inserted(us, t, id)) = L \cup {id}
           /\ InOrder(Inserted(us, t, id), sort, us)
           /\ InsertedAlpha(us, ta, id) \in Seq(Ids)
           /\ ToSet(InsertedAlpha(us, ta, id)) = L \cup {id}
           /\ InOrder(InsertedAlpha(us, ta, id), 1, us)
<1> DEFINE r == tree_insert(t, id, Key(us, sort, us[id].nick, us[id].access))
           q == tree_insert(ta, id, Key(us, 1, us[id].nick, us[id].access))
<1>1. r = Inserted(us, t, id) /\ q = InsertedAlpha(us, ta, id)
  BY InsertedByKey
<1>2. \A y \in ToSet(t) : us[y].nick # us[id].nick
  OBVIOUS
<1>3. \A y \in ToSet(ta) : us[y].nick # us[id].nick
  OBVIOUS
<1>4. r \in Seq(Ids) /\ r # t /\ ToSet(r) = ToSet(t) \cup {id} /\ InOrder(r, sort, us)
  BY <1>2, ListInsert
<1>5. q \in Seq(Ids) /\ ToSet(q) = ToSet(ta) \cup {id} /\ InOrder(q, 1, us)
  <2>1. 1 \in 0..3
    OBVIOUS
  <2> QED BY <1>3, <2>1, ListInsert
<1> HIDE DEF r, q
<1> QED BY <1>1, <1>4, <1>5

\* A user is taken out, changed and put in again.
LEMMA PutBack ==
    ASSUME ListInv, Orderly, NEW id \in live, NEW us \in [Ids -> User],
           \A x \in live \ {id} : us[x] = user[x] /\ us[x].nick # us[id].nick
    PROVE  /\ Inserted(us, Removed(usertree, id), id) \in Seq(Ids)
           /\ ToSet(Inserted(us, Removed(usertree, id), id)) = live
           /\ InOrder(Inserted(us, Removed(usertree, id), id), sort, us)
           /\ InsertedAlpha(us, RemovedAlpha(usertree_alpha, id), id) \in Seq(Ids)
           /\ ToSet(InsertedAlpha(us, RemovedAlpha(usertree_alpha, id), id)) = live
           /\ InOrder(InsertedAlpha(us, RemovedAlpha(usertree_alpha, id), id), 1, us)
<1> DEFINE t == Removed(usertree, id)
           ta == RemovedAlpha(usertree_alpha, id)
           L == live \ {id}
<1>1. id \in Ids /\ sort \in 0..3
  BY DEF ListInv, ListTypes, Orderly
<1>2. /\ t \in Seq(Ids) /\ ToSet(t) = L /\ InOrder(t, sort, user)
      /\ ta \in Seq(Ids) /\ ToSet(ta) = L /\ InOrder(ta, 1, user)
  BY TakenOut
<1> HIDE DEF t, ta
<1>3. InOrder(t, sort, us) /\ InOrder(ta, 1, us)
  BY <1>2, ListKeeps
<1>4. \A y \in L : us[y].nick # us[id].nick
  OBVIOUS
<1> HIDE DEF L
<1>5. /\ Inserted(us, t, id) \in Seq(Ids)
      /\ ToSet(Inserted(us, t, id)) = L \cup {id}
      /\ InOrder(Inserted(us, t, id), sort, us)
      /\ InsertedAlpha(us, ta, id) \in Seq(Ids)
      /\ ToSet(InsertedAlpha(us, ta, id)) = L \cup {id}
      /\ InOrder(InsertedAlpha(us, ta, id), 1, us)
  BY <1>1, <1>2, <1>3, <1>4, PutIn
<1>6. L \cup {id} = live
  BY DEF L
<1> QED BY <1>5, <1>6 DEF t, ta

-----------------------------------------------------------------------------
(* What is kept beside the trees.                                          *)

\* The flags and the counters are those of the levels; me is our own entry.
Books ==
    /\ IsFiniteSet(live)
    /\ \A x \in live : user[x].flags = Flags(user[x].access)
    /\ count \in [Counted -> Int]
    /\ CountsExact
    /\ MeIsOwnEntry

Holders(p) == {x \in live : p \in Flags(user[x].access)}

LEMMA OneMoreMember ==
    ASSUME NEW S, IsFiniteSet(S), NEW x, x \notin S
    PROVE  IsFiniteSet(S \cup {x}) /\ Cardinality(S \cup {x}) = Cardinality(S) + 1
BY FS_AddElement

LEMMA OneLess ==
    ASSUME NEW S, IsFiniteSet(S), NEW x \in S
    PROVE  IsFiniteSet(S \ {x}) /\ Cardinality(S \ {x}) = Cardinality(S) - 1
BY FS_RemoveElement

LEMMA HoldersFinite ==
    ASSUME Books, NEW p
    PROVE  IsFiniteSet(Holders(p)) /\ Holders(p) \subseteq live
<1>1. Holders(p) \subseteq live
  BY DEF Holders
<1> QED BY <1>1, FS_Subset DEF Books

LEMMA BlankIsUser == ASSUME ListTypes PROVE Blank \in User
<1>1. (CHOOSE n \in Nicks : TRUE) \in Nicks
  BY DEF ListTypes
<1> QED BY <1>1 DEF Blank, User

LEMMA FlagsProps ==
    ASSUME IsInjective(NickPrefixes), NEW l \in Levels, NEW a \in SUBSET Levels
    PROVE  /\ Flags(a) \subseteq Counted
           /\ Flags(a \cup {l}) = Flags(a) \cup Flags({l})
           /\ Flags(a \ {l}) = Flags(a) \ Flags({l})
           /\ \A p \in Flags({l}) : p \in Flags(a) <=> l \in a
<1>1. \A k, m \in Levels : NickPrefixes[k] = NickPrefixes[m] => k = m
  BY DEF IsInjective, Levels
<1>2. Flags(a \ {l}) = Flags(a) \ Flags({l})
  BY <1>1 DEF Flags
<1>3. \A p \in Flags({l}) : p \in Flags(a) <=> l \in a
  BY <1>1 DEF Flags
<1>4. Flags(a) \subseteq Counted /\ Flags(a \cup {l}) = Flags(a) \cup Flags({l})
  BY DEF Flags
<1> QED BY <1>2, <1>3, <1>4

-----------------------------------------------------------------------------
(* The steps.                                                              *)

UserlistInv == ListInv /\ Books

LEMMA EmptyInOrder ==
    ASSUME NEW t \in Seq(Ids), ToSet(t) = {}, NEW s, NEW us
    PROVE  InOrder(t, s, us)
<1>1. ASSUME NEW i \in 1..Len(t) PROVE FALSE
  <2>1. ToSet(t) = {t[j] : j \in 1..Len(t)}
    BY Members
  <2>2. t[i] \in {t[j] : j \in 1..Len(t)}
    OBVIOUS
  <2> QED BY <2>1, <2>2
<1> QED BY <1>1 DEF InOrder, SortedBy

LEMMA InitInv == Init => UserlistInv
<1> SUFFICES ASSUME Init PROVE UserlistInv
  OBVIOUS
<1>1. ListTypes
  <2>1. (CHOOSE n \in Nicks : TRUE) \in Nicks
    BY DEF Init
  <2>2. Blank \in User
    BY <2>1 DEF Blank, User
  <2> QED BY <2>2 DEF Init, ListTypes
<1>2. usertree \in Seq(Ids) /\ usertree_alpha \in Seq(Ids) /\ ToSet(usertree) = {} /\ ToSet(usertree_alpha) = {}
  BY DEF Init, ToSet
<1>3. ListInv
  BY <1>1, <1>2, EmptyInOrder DEF ListInv, Init
<1>4. Cardinality({}) = 0 /\ IsFiniteSet({})
  BY FS_EmptySet
<1>5. Books
  <2>1. \A p \in Counted : {x \in live : p \in Flags(user[x].access)} = {}
    BY DEF Init
  <2>2. CountsExact
    BY <1>4, <2>1 DEF CountsExact, Init
  <2>3. MeIsOwnEntry
    BY DEF MeIsOwnEntry, Init
  <2> QED BY <1>4, <2>2, <2>3 DEF Books, Init
<1> QED BY <1>3, <1>5 DEF UserlistInv

LEMMA AddKeeps ==
    ASSUME UserlistInv, Orderly, IsInjective(NickPrefixes), userlist_add
    PROVE  UserlistInv'
<1> ListInv /\ ListTypes /\ Books
  BY DEF UserlistInv, ListInv
<1>1. PICK id \in Ids \ (live \cup ToSet(usertree) \cup ToSet(usertree_alpha)) :
        \E n \in Nicks, a \in SUBSET Levels :
            LET us == [user EXCEPT ![id] = [nick |-> n, access |-> a,
                                            flags |-> Flags(a), me |-> n = nick]]
                dup == Inserted(us, usertree, id) = usertree
            IN /\ sort \notin DupSorts => \A x \in live : user[x].nick # n
               /\ usertree' = Inserted(us, usertree, id)
               /\ usertree_alpha' = InsertedAlpha(us, usertree_alpha, id)
               /\ IF dup THEN UNCHANGED <<user, live, count, total, me>>
                  ELSE /\ user' = us
                       /\ live' = live \cup {id}
                       /\ count' = [p \in Counted |->
                                      IF p \in Flags(a) THEN count[p] + 1 ELSE count[p]]
                       /\ total' = total + 1
                       /\ me' = IF n = nick THEN id ELSE me
               /\ UNCHANGED <<nick, sort>>
  BY DEF userlist_add
<1>2. PICK n \in Nicks : \E a \in SUBSET Levels :
            LET us == [user EXCEPT ![id] = [nick |-> n, access |-> a,
                                            flags |-> Flags(a), me |-> n = nick]]
                dup == Inserted(us, usertree, id) = usertree
            IN /\ sort \notin DupSorts => \A x \in live : user[x].nick # n
               /\ usertree' = Inserted(us, usertree, id)
               /\ usertree_alpha' = InsertedAlpha(us, usertree_alpha, id)
               /\ IF dup THEN UNCHANGED <<user, live, count, total, me>>
                  ELSE /\ user' = us
                       /\ live' = live \cup {id}
                       /\ count' = [p \in Counted |->
                                      IF p \in Flags(a) THEN count[p] + 1 ELSE count[p]]
                       /\ total' = total + 1
                       /\ me' = IF n = nick THEN id ELSE me
               /\ UNCHANGED <<nick, sort>>
  BY <1>1
<1>3. PICK a \in SUBSET Levels :
            LET us == [user EXCEPT ![id] = [nick |-> n, access |-> a,
                                            flags |-> Flags(a), me |-> n = nick]]
                dup == Inserted(us, usertree, id) = usertree
            IN /\ sort \notin DupSorts => \A x \in live : user[x].nick # n
               /\ usertree' = Inserted(us, usertree, id)
               /\ usertree_alpha' = InsertedAlpha(us, usertree_alpha, id)
               /\ IF dup THEN UNCHANGED <<user, live, count, total, me>>
                  ELSE /\ user' = us
                       /\ live' = live \cup {id}
                       /\ count' = [p \in Counted |->
                                      IF p \in Flags(a) THEN count[p] + 1 ELSE count[p]]
                       /\ total' = total + 1
                       /\ me' = IF n = nick THEN id ELSE me
               /\ UNCHANGED <<nick, sort>>
  BY <1>2
<1> DEFINE new == [nick |-> n, access |-> a, flags |-> Flags(a), me |-> n = nick]
           us == [user EXCEPT ![id] = new]
<1>4. new \in User /\ new.nick = n /\ new.access = a /\ new.flags = Flags(a)
  BY DEF User, Flags
<1> HIDE DEF new
<1>5. /\ us \in [Ids -> User] /\ us[id] = new /\ id \in Ids /\ id \notin live
      /\ \A x \in live : us[x] = user[x] /\ x \in Ids
  BY <1>1, <1>4 DEF ListTypes
<1>6. /\ sort \notin DupSorts => \A x \in live : user[x].nick # n
      /\ usertree' = Inserted(us, usertree, id)
      /\ usertree_alpha' = InsertedAlpha(us, usertree_alpha, id)
      /\ Inserted(us, usertree, id) = usertree => UNCHANGED <<user, live, count, total, me>>
      /\ Inserted(us, usertree, id) # usertree =>
            /\ user' = us
            /\ live' = live \cup {id}
            /\ count' = [p \in Counted |-> IF p \in Flags(a) THEN count[p] + 1 ELSE count[p]]
            /\ total' = total + 1
            /\ me' = IF n = nick THEN id ELSE me
      /\ UNCHANGED <<nick, sort>>
  BY <1>3 DEF new
<1> HIDE DEF us
<1>7. /\ usertree \in Seq(Ids) /\ usertree_alpha \in Seq(Ids) /\ sort \in 0..3
      /\ ToSet(usertree) = live /\ ToSet(usertree_alpha) = live
      /\ InOrder(usertree, sort, user) /\ InOrder(usertree_alpha, 1, user)
  BY DEF ListInv, ListTypes, Orderly
<1>8. InOrder(usertree, sort, us) /\ InOrder(usertree_alpha, 1, us)
  BY <1>5, <1>7, ListKeeps
<1>9. CASE \E x \in live : user[x].nick = n
  <2>1. sort \in {1, 3} /\ \E y \in live : us[y].nick = us[id].nick
    BY <1>4, <1>5, <1>6, <1>9 DEF Orderly
  <2>2. Inserted(us, usertree, id) = usertree
    <3>1. \E y \in ToSet(usertree) : us[y].nick = us[id].nick
      BY <1>7, <2>1
    <3>2. tree_insert(usertree, id, Key(us, sort, us[id].nick, us[id].access)) = usertree
      BY <1>5, <1>7, <1>8, <2>1, <3>1, ListRefuse
    <3> QED BY <1>5, <1>7, <3>2, InsertedByKey
  <2>3. InsertedAlpha(us, usertree_alpha, id) = usertree_alpha
    <3>1. 1 \in {1, 3} /\ \E y \in ToSet(usertree_alpha) : us[y].nick = us[id].nick
      BY <1>7, <2>1
    <3>2. tree_insert(usertree_alpha, id, Key(us, 1, us[id].nick, us[id].access)) = usertree_alpha
      BY <1>5, <1>7, <1>8, <3>1, ListRefuse
    <3> QED BY <1>5, <1>7, <3>2, InsertedByKey
  <2>4. UNCHANGED vars
    BY <1>6, <2>2, <2>3 DEF vars
  <2> QED BY <2>4 DEF UserlistInv, ListInv, ListTypes, Books, CountsExact, MeIsOwnEntry, vars
<1>10. CASE \A x \in live : user[x].nick # n
  <2>1. \A y \in live : us[y].nick # us[id].nick
    BY <1>4, <1>5, <1>10
  <2>2. /\ usertree' \in Seq(Ids) /\ usertree' # usertree
        /\ ToSet(usertree') = live \cup {id}
        /\ InOrder(usertree', sort, us)
        /\ usertree_alpha' \in Seq(Ids)
        /\ ToSet(usertree_alpha') = live \cup {id}
        /\ InOrder(usertree_alpha', 1, us)
    <3> DEFINE r == Inserted(us, usertree, id)
               q == InsertedAlpha(us, usertree_alpha, id)
    <3>1. /\ r \in Seq(Ids) /\ r # usertree /\ ToSet(r) = live \cup {id} /\ InOrder(r, sort, us)
          /\ q \in Seq(Ids) /\ ToSet(q) = live \cup {id} /\ InOrder(q, 1, us)
      BY <1>5, <1>7, <1>8, <2>1, PutIn
    <3> HIDE DEF r, q
    <3>2. usertree' = r /\ usertree_alpha' = q
      BY <1>6 DEF r, q
    <3> QED BY <3>1, <3>2
  <2>3. /\ user' = us /\ live' = live \cup {id}
        /\ count' = [p \in Counted |-> IF p \in Flags(a) THEN count[p] + 1 ELSE count[p]]
        /\ total' = total + 1
        /\ me' = (IF n = nick THEN id ELSE me)
        /\ nick' = nick /\ sort' = sort
    BY <1>6, <2>2
  <2>4. ListInv'
    <3>1. ListTypes'
      BY <1>5, <2>2, <2>3 DEF ListTypes
    <3> QED BY <2>2, <2>3, <3>1 DEF ListInv
  <2>5. IsFiniteSet(live') /\ total' = Cardinality(live')
    BY <1>5, <2>3, OneMoreMember DEF Books, CountsExact
  <2>6. \A x \in live' : user'[x].flags = Flags(user'[x].access)
    BY <1>4, <1>5, <2>3 DEF Books
  <2>7. count' \in [Counted -> Int]
    BY <2>3 DEF Books
  <2>8. ASSUME NEW p \in Counted
        PROVE  count'[p] = Cardinality({x \in live' : p \in Flags(user'[x].access)})
    <3> DEFINE H == {x \in live' : p \in Flags(user'[x].access)}
    <3>1. IsFiniteSet(Holders(p)) /\ Holders(p) \subseteq live
      BY HoldersFinite
    <3>2. count[p] = Cardinality(Holders(p))
      BY DEF Books, CountsExact, Holders
    <3>3. CASE p \in Flags(a)
      <4>1. H = Holders(p) \cup {id}
        BY <1>4, <1>5, <2>3, <3>3 DEF Holders
      <4>2. Cardinality(Holders(p) \cup {id}) = Cardinality(Holders(p)) + 1
        BY <1>5, <3>1, OneMoreMember
      <4> HIDE DEF H
      <4>3. count'[p] = count[p] + 1
        BY <2>3, <3>3
      <4> QED BY <3>2, <4>1, <4>2, <4>3 DEF H
    <3>4. CASE p \notin Flags(a)
      <4>1. H = Holders(p)
        BY <1>4, <1>5, <2>3, <3>4 DEF Holders
      <4> HIDE DEF H
      <4>2. count'[p] = count[p]
        BY <2>3, <3>4
      <4> QED BY <3>2, <4>1, <4>2 DEF H
    <3> QED BY <3>3, <3>4
  <2>9. MeIsOwnEntry'
    <3> DEFINE own == {x \in live : user[x].nick = nick}
               now == {x \in live' : user'[x].nick = nick'}
    <3>1. IF own = {} THEN me = NoUser ELSE me \in own
      BY DEF Books, MeIsOwnEntry
    <3>2. now = IF n = nick THEN own \cup {id} ELSE own
      BY <1>4, <1>5, <2>3
    <3> QED BY <2>3, <3>1, <3>2 DEF MeIsOwnEntry
  <2>10. Books'
    <3>1. CountsExact'
      BY <2>5, <2>8 DEF CountsExact
    <3> QED BY <2>5, <2>6, <2>7, <2>9, <3>1 DEF Books
  <2> QED BY <2>4, <2>10 DEF UserlistInv
<1> QED BY <1>9, <1>10

LEMMA RemoveKeeps ==
    ASSUME UserlistInv, Orderly, NEW n \in Nicks, userlist_remove(n)
    PROVE  UserlistInv'
<1> ListInv /\ ListTypes /\ Books
  BY DEF UserlistInv, ListInv
<1> DEFINE id == userlist_find(n)
<1>1. /\ id # NoUser
      /\ count' = [p \in Counted |-> IF p \in user[id].flags THEN count[p] - 1 ELSE count[p]]
      /\ total' = total - 1
      /\ me' = IF me = id THEN NoUser ELSE me
      /\ usertree' = Removed(usertree, id)
      /\ usertree_alpha' = RemovedAlpha(usertree_alpha, id)
      /\ live' = live \ {id}
      /\ user' = [user EXCEPT ![id] = IF id \in ToSet(usertree') THEN @ ELSE Blank]
      /\ nick' = nick /\ sort' = sort
  BY DEF userlist_remove
<1>2. id \in live /\ user[id].nick = n
  BY <1>1, Found
<1> HIDE DEF id
<1>3. /\ usertree' \in Seq(Ids) /\ ToSet(usertree') = live \ {id} /\ InOrder(usertree', sort, user)
      /\ usertree_alpha' \in Seq(Ids) /\ ToSet(usertree_alpha') = live \ {id}
      /\ InOrder(usertree_alpha', 1, user)
  BY <1>1, <1>2, TakenOut
<1>4. /\ user' \in [Ids -> User]
      /\ live \subseteq Ids
      /\ \A x \in live \ {id} : user'[x] = user[x]
  BY <1>1, <1>2, BlankIsUser DEF ListTypes
<1>5. ListInv'
  <2>1. ListTypes'
    BY <1>1, <1>3, <1>4 DEF ListTypes
  <2>2. InOrder(usertree', sort, user') /\ InOrder(usertree_alpha', 1, user')
    BY <1>3, <1>4, ListKeeps
  <2> QED BY <1>1, <1>3, <2>1, <2>2 DEF ListInv
<1>6. IsFiniteSet(live') /\ total' = Cardinality(live')
  BY <1>1, <1>2, OneLess DEF Books, CountsExact
<1>7. \A x \in live' : user'[x].flags = Flags(user'[x].access)
  BY <1>1, <1>4 DEF Books
<1>8. count' \in [Counted -> Int]
  BY <1>1 DEF Books
<1>9. ASSUME NEW p \in Counted
      PROVE  count'[p] = Cardinality({x \in live' : p \in Flags(user'[x].access)})
  <2> DEFINE H == {x \in live' : p \in Flags(user'[x].access)}
  <2>1. IsFiniteSet(Holders(p)) /\ Holders(p) \subseteq live
    BY HoldersFinite
  <2>2. count[p] = Cardinality(Holders(p))
    BY DEF Books, CountsExact, Holders
  <2>3. user[id].flags = Flags(user[id].access)
    BY <1>2 DEF Books
  <2>4. CASE p \in user[id].flags
    <3>1. H = Holders(p) \ {id} /\ id \in Holders(p)
      BY <1>1, <1>2, <1>4, <2>3, <2>4 DEF Holders
    <3>2. Cardinality(Holders(p) \ {id}) = Cardinality(Holders(p)) - 1
      BY <2>1, <3>1, OneLess
    <3> HIDE DEF H
    <3>3. count'[p] = count[p] - 1
      BY <1>1, <2>4
    <3> QED BY <2>2, <3>1, <3>2, <3>3 DEF H
  <2>5. CASE p \notin user[id].flags
    <3>1. H = Holders(p)
      BY <1>1, <1>2, <1>4, <2>3, <2>5 DEF Holders
    <3> HIDE DEF H
    <3>2. count'[p] = count[p]
      BY <1>1, <2>5
    <3> QED BY <2>2, <3>1, <3>2 DEF H
  <2> QED BY <2>4, <2>5
<1>10. MeIsOwnEntry'
  <2> DEFINE own == {x \in live : user[x].nick = nick}
             now == {x \in live' : user'[x].nick = nick'}
  <2>1. IF own = {} THEN me = NoUser ELSE me \in own
    BY DEF Books, MeIsOwnEntry
  <2>2. now = own \ {id}
    BY <1>1, <1>4
  <2>3. \A x \in own, y \in own : x = y
    BY NicksDiffer
  <2>4. \A x \in own : x # NoUser
    BY <1>4, NoUserAssumption
  <2> HIDE DEF own, now
  <2>5. IF now = {} THEN me' = NoUser ELSE me' \in now
    <3>1. CASE own = {}
      BY <1>1, <2>1, <2>2, <3>1
    <3>2. CASE own # {} /\ me = id
      <4>1. me' = NoUser /\ now = {}
        BY <1>1, <2>1, <2>2, <2>3, <3>2
      <4> QED BY <4>1
    <3>3. CASE own # {} /\ me # id
      <4>1. me' = me /\ me \in now
        BY <1>1, <2>1, <2>2, <3>3
      <4> QED BY <4>1
    <3> QED BY <3>1, <3>2, <3>3
  <2> QED BY <2>5 DEF MeIsOwnEntry, now
<1>11. Books'
  <2>1. CountsExact'
    BY <1>6, <1>9 DEF CountsExact
  <2> QED BY <1>6, <1>7, <1>8, <1>10, <2>1 DEF Books
<1> QED BY <1>5, <1>11 DEF UserlistInv

LEMMA UpdateModeKeeps ==
    ASSUME UserlistInv, Orderly, IsInjective(NickPrefixes),
           NEW n \in Nicks, NEW l \in Levels, NEW plus \in BOOLEAN,
           userlist_update_mode(n, l, plus)
    PROVE  UserlistInv'
<1> ListInv /\ ListTypes /\ Books
  BY DEF UserlistInv, ListInv
<1> DEFINE id == userlist_find(n)
           old == user[id]
           new == [old EXCEPT !.access = IF plus THEN @ \cup {l} ELSE @ \ {l},
                              !.flags  = IF plus THEN @ \cup Flags({l}) ELSE @ \ Flags({l})]
           us == [user EXCEPT ![id] = new]
<1>1. /\ id # NoUser
      /\ user' = us
      /\ count' = [p \in Counted |->
                     IF p \notin Flags({l}) \/ (l \in old.access <=> plus)
                     THEN count[p]
                     ELSE IF plus THEN count[p] + 1 ELSE count[p] - 1]
      /\ usertree' = Inserted(us, Removed(usertree, id), id)
      /\ usertree_alpha' = InsertedAlpha(us, RemovedAlpha(usertree_alpha, id), id)
      /\ live' = live /\ total' = total /\ me' = me /\ nick' = nick /\ sort' = sort
  BY DEF userlist_update_mode
<1>2. id \in live /\ id \in Ids
  BY <1>1, Found DEF ListTypes
<1> HIDE DEF id
<1>3. /\ old \in User /\ old.access \in SUBSET Levels
      /\ old.flags = Flags(old.access)
  BY <1>2 DEF ListTypes, User, Books
<1>4. /\ Flags({l}) \subseteq Counted
      /\ Flags(old.access \cup {l}) = Flags(old.access) \cup Flags({l})
      /\ Flags(old.access \ {l}) = Flags(old.access) \ Flags({l})
      /\ \A p \in Flags({l}) : p \in Flags(old.access) <=> l \in old.access
  BY <1>3, FlagsProps DEF Flags
<1>5. /\ new \in User /\ new.nick = old.nick
      /\ new.access = IF plus THEN old.access \cup {l} ELSE old.access \ {l}
      /\ new.flags = Flags(new.access)
  <2>1. /\ new.nick = old.nick
        /\ new.access = IF plus THEN old.access \cup {l} ELSE old.access \ {l}
        /\ new.flags = IF plus THEN old.flags \cup Flags({l}) ELSE old.flags \ Flags({l})
    BY <1>3 DEF User
  <2>2. new \in User
    BY <1>3, <1>4 DEF User
  <2> QED BY <1>3, <1>4, <2>1, <2>2
<1>6. \A p : p \in Flags(new.access) <=>
               IF p \in Flags({l}) THEN plus = TRUE ELSE p \in Flags(old.access)
  BY <1>4, <1>5
<1> HIDE DEF new
<1>7. /\ us \in [Ids -> User] /\ us[id] = new /\ \A x \in Ids \ {id} : us[x] = user[x]
  BY <1>2, <1>5 DEF ListTypes
<1> HIDE DEF us
<1>8. ListInv'
  <2>1. \A x \in live \ {id} : us[x] = user[x] /\ us[x].nick # us[id].nick
    <3> SUFFICES ASSUME NEW x \in live \ {id} PROVE us[x] = user[x] /\ us[x].nick # us[id].nick
      OBVIOUS
    <3>1. us[x] = user[x]
      BY <1>7 DEF ListTypes
    <3>2. user[x].nick # old.nick
      BY <1>2, NicksDiffer
    <3> QED BY <1>5, <1>7, <3>1, <3>2
  <2> DEFINE r == Inserted(us, Removed(usertree, id), id)
             q == InsertedAlpha(us, RemovedAlpha(usertree_alpha, id), id)
  <2>2. /\ r \in Seq(Ids) /\ ToSet(r) = live /\ InOrder(r, sort, us)
        /\ q \in Seq(Ids) /\ ToSet(q) = live /\ InOrder(q, 1, us)
    BY <1>2, <1>7, <2>1, PutBack
  <2>3. usertree' = r /\ usertree_alpha' = q
    BY <1>1
  <2> HIDE DEF r, q
  <2>4. ListTypes'
    BY <1>1, <1>7, <2>2, <2>3 DEF ListTypes
  <2> QED BY <1>1, <2>2, <2>3, <2>4 DEF ListInv
<1>9. \A x \in live' : user'[x].flags = Flags(user'[x].access)
  BY <1>1, <1>5, <1>7 DEF Books, ListTypes
<1>10. count' \in [Counted -> Int]
  BY <1>1 DEF Books
<1>11. ASSUME NEW p \in Counted
       PROVE  count'[p] = Cardinality({x \in live' : p \in Flags(user'[x].access)})
  <2> DEFINE H == {x \in live' : p \in Flags(user'[x].access)}
  <2>1. IsFiniteSet(Holders(p)) /\ Holders(p) \subseteq live
    BY HoldersFinite
  <2>2. count[p] = Cardinality(Holders(p))
    BY DEF Books, CountsExact, Holders
  <2>3. \A x \in live \ {id} : x \in H <=> x \in Holders(p)
    BY <1>1, <1>7 DEF Holders, ListTypes
  <2>4. H \subseteq live /\ (id \in H <=> p \in Flags(new.access)) /\ (id \in Holders(p) <=> p \in Flags(old.access))
    BY <1>1, <1>2, <1>7 DEF Holders
  <2> HIDE DEF H
  <2>5. CASE p \notin Flags({l}) \/ (l \in old.access <=> plus)
    <3>1. p \in Flags(new.access) <=> p \in Flags(old.access)
      BY <1>4, <1>6, <2>5
    <3>2. H = Holders(p)
      BY <1>2, <2>1, <2>3, <2>4, <3>1
    <3>3. count'[p] = count[p]
      BY <1>1, <2>5
    <3> QED BY <2>2, <3>2, <3>3 DEF H
  <2>6. CASE p \in Flags({l}) /\ l \notin old.access /\ plus = TRUE
    <3>1. id \in H /\ id \notin Holders(p)
      BY <1>4, <1>6, <2>4, <2>6
    <3>2. H = Holders(p) \cup {id}
      BY <2>1, <2>3, <2>4, <3>1
    <3>3. Cardinality(Holders(p) \cup {id}) = Cardinality(Holders(p)) + 1
      BY <2>1, <3>1, OneMoreMember
    <3>4. count'[p] = count[p] + 1
      BY <1>1, <2>6
    <3> QED BY <2>2, <3>2, <3>3, <3>4 DEF H
  <2>7. CASE p \in Flags({l}) /\ l \in old.access /\ plus = FALSE
    <3>1. id \notin H /\ id \in Holders(p)
      BY <1>4, <1>6, <2>4, <2>7
    <3>2. H = Holders(p) \ {id}
      BY <2>1, <2>3, <2>4, <3>1
    <3>3. Cardinality(Holders(p) \ {id}) = Cardinality(Holders(p)) - 1
      BY <2>1, <3>1, OneLess
    <3>4. count'[p] = count[p] - 1
      BY <1>1, <2>7
    <3> QED BY <2>2, <3>2, <3>3, <3>4 DEF H
  <2> QED BY <2>5, <2>6, <2>7
<1>12. MeIsOwnEntry'
  <2>1. \A x \in live : user'[x].nick = user[x].nick
    BY <1>1, <1>5, <1>7 DEF ListTypes
  <2>2. {x \in live' : user'[x].nick = nick'} = {x \in live : user[x].nick = nick}
    BY <1>1, <2>1
  <2> QED BY <1>1, <2>2 DEF MeIsOwnEntry, Books
<1>13. Books'
  <2>1. CountsExact'
    BY <1>1, <1>11 DEF CountsExact, Books
  <2> QED BY <1>1, <1>9, <1>10, <1>12, <2>1 DEF Books
<1> QED BY <1>8, <1>13 DEF UserlistInv

LEMMA NewnickKeeps ==
    ASSUME UserlistInv, Orderly, NEW n \in Nicks, NEW m \in Nicks, inbound_newnick(n, m)
    PROVE  UserlistInv'
<1> ListInv /\ ListTypes /\ Books
  BY DEF UserlistInv, ListInv
<1> DEFINE id == userlist_find(n)
           us == [user EXCEPT ![id].nick = m]
<1>1. /\ m # nick /\ n # m
      /\ \A x \in live : user[x].nick # m
      /\ nick' = IF n = nick THEN m ELSE nick
      /\ userlist_change(n, m)
      /\ live' = live /\ count' = count /\ total' = total /\ me' = me /\ sort' = sort
  BY DEF inbound_newnick
<1>2. CASE id = NoUser
  <2>1. \A x \in live : user[x].nick # n
    <3>1. \A x \in live : x # NoUser
      BY NoUserAssumption DEF ListTypes
    <3> QED BY <1>2, <3>1, Found
  <2>2. user' = user /\ usertree' = usertree /\ usertree_alpha' = usertree_alpha
    BY <1>1, <1>2 DEF userlist_change
  <2> HIDE DEF id
  <2>3. ListInv'
    BY <1>1, <2>2 DEF ListInv, ListTypes
  <2>4. {x \in live' : user'[x].nick = nick'} = {x \in live : user[x].nick = nick}
    BY <1>1, <2>1, <2>2
  <2>5. MeIsOwnEntry'
    BY <1>1, <2>4 DEF MeIsOwnEntry, Books
  <2>6. Books'
    BY <1>1, <2>2, <2>5 DEF Books, CountsExact
  <2> QED BY <2>3, <2>6 DEF UserlistInv
<1>3. CASE id # NoUser
  <2>1. /\ user' = us
        /\ usertree' = Inserted(us, Removed(usertree, id), id)
        /\ usertree_alpha' = InsertedAlpha(us, RemovedAlpha(usertree_alpha, id), id)
    BY <1>1, <1>3 DEF userlist_change
  <2>2. id \in live /\ id \in Ids /\ user[id].nick = n
    BY <1>3, Found DEF ListTypes
  <2> HIDE DEF id
  <2>3. /\ us \in [Ids -> User]
        /\ us[id].nick = m /\ us[id].access = user[id].access /\ us[id].flags = user[id].flags
        /\ \A x \in Ids \ {id} : us[x] = user[x]
    BY <2>2 DEF ListTypes, User
  <2> HIDE DEF us
  <2>4. ListInv'
    <3>1. \A x \in live \ {id} : us[x] = user[x] /\ us[x].nick # us[id].nick
      BY <1>1, <2>3 DEF ListTypes
    <3> DEFINE r == Inserted(us, Removed(usertree, id), id)
               q == InsertedAlpha(us, RemovedAlpha(usertree_alpha, id), id)
    <3>2. /\ r \in Seq(Ids) /\ ToSet(r) = live /\ InOrder(r, sort, us)
          /\ q \in Seq(Ids) /\ ToSet(q) = live /\ InOrder(q, 1, us)
      BY <2>2, <2>3, <3>1, PutBack
    <3>3. usertree' = r /\ usertree_alpha' = q
      BY <2>1
    <3> HIDE DEF r, q
    <3>4. ListTypes'
      BY <1>1, <2>1, <2>3, <3>2, <3>3 DEF ListTypes
    <3> QED BY <1>1, <2>1, <3>2, <3>3, <3>4 DEF ListInv
  <2>5. \A x \in live : /\ user'[x].access = user[x].access
                        /\ user'[x].flags = user[x].flags
                        /\ user'[x].nick = IF x = id THEN m ELSE user[x].nick
    BY <2>1, <2>3 DEF ListTypes
  <2>6. CountsExact'
    <3>1. \A p : {x \in live' : p \in Flags(user'[x].access)} = {x \in live : p \in Flags(user[x].access)}
      BY <1>1, <2>5
    <3> QED BY <1>1, <3>1 DEF CountsExact, Books
  <2>7. MeIsOwnEntry'
    <3>1. \A x \in live : user[x].nick = n => x = id
      BY <2>2, NicksDiffer
    <3>2. \A x \in live : user'[x].nick = nick' <=> user[x].nick = nick
      <4> SUFFICES ASSUME NEW x \in live
                   PROVE  user'[x].nick = nick' <=> user[x].nick = nick
        OBVIOUS
      <4>1. CASE x = id
        BY <1>1, <2>2, <2>5, <4>1
      <4>2. CASE x # id
        <5>1. user'[x].nick = user[x].nick /\ user[x].nick # n /\ user[x].nick # m
          BY <1>1, <2>5, <3>1, <4>2
        <5> QED BY <1>1, <5>1
      <4> QED BY <4>1, <4>2
    <3>3. {x \in live' : user'[x].nick = nick'} = {x \in live : user[x].nick = nick}
      BY <1>1, <3>2
    <3> QED BY <1>1, <3>3 DEF MeIsOwnEntry, Books
  <2>8. Books'
    BY <1>1, <2>5, <2>6, <2>7 DEF Books
  <2> QED BY <2>4, <2>8 DEF UserlistInv
<1> QED BY <1>2, <1>3

LEMMA ClearKeeps ==
    ASSUME UserlistInv, userlist_clear
    PROVE  UserlistInv'
<1> ListInv /\ ListTypes /\ Books
  BY DEF UserlistInv, ListInv
<1>1. /\ live' = live \ ToSet(usertree)
      /\ user' = [id \in Ids |-> IF id \in ToSet(usertree) THEN Blank ELSE user[id]]
      /\ usertree' = <<>> /\ usertree_alpha' = <<>>
      /\ count' = [p \in Counted |-> 0] /\ total' = 0
      /\ me' = NoUser
      /\ nick' = nick /\ sort' = sort
  BY DEF userlist_clear
<1>2. live' = {} /\ user' \in [Ids -> User]
  BY <1>1, BlankIsUser DEF ListInv, ListTypes
<1>3. /\ usertree' \in Seq(Ids) /\ usertree_alpha' \in Seq(Ids)
      /\ ToSet(usertree') = {} /\ ToSet(usertree_alpha') = {}
  BY <1>1 DEF ToSet
<1>4. ListInv'
  <2>1. ListTypes'
    BY <1>1, <1>2, <1>3 DEF ListTypes
  <2>2. InOrder(usertree', sort', user') /\ InOrder(usertree_alpha', 1, user')
    BY <1>3, EmptyInOrder
  <2> QED BY <1>2, <1>3, <2>1, <2>2 DEF ListInv
<1>5. Books'
  <2>1. IsFiniteSet({}) /\ Cardinality({}) = 0
    BY FS_EmptySet
  <2>2. \A p : {x \in live' : p \in Flags(user'[x].access)} = {}
    BY <1>2
  <2>3. CountsExact'
    BY <1>1, <1>2, <2>1, <2>2 DEF CountsExact
  <2>4. MeIsOwnEntry'
    BY <1>1, <1>2 DEF MeIsOwnEntry
  <2>5. count' \in [Counted -> Int]
    BY <1>1
  <2>6. IsFiniteSet(live') /\ \A x \in live' : FALSE
    BY <1>2, <2>1
  <2> QED BY <2>3, <2>4, <2>5, <2>6 DEF Books
<1> QED BY <1>4, <1>5 DEF UserlistInv

LEMMA SetSortKeeps ==
    ASSUME UserlistInv, Orderly, SetSort
    PROVE  UserlistInv'
<1> ListInv /\ ListTypes /\ Books
  BY DEF UserlistInv, ListInv
<1>1. /\ live = {} /\ sort' \in SortModes
      /\ user' = user /\ live' = live /\ usertree' = usertree
      /\ usertree_alpha' = usertree_alpha /\ count' = count /\ total' = total
      /\ me' = me /\ nick' = nick
  BY DEF SetSort, Orderly
<1>2. usertree \in Seq(Ids) /\ ToSet(usertree) = {}
  BY <1>1 DEF ListInv, ListTypes
<1>3. InOrder(usertree, sort', user)
  BY <1>2, EmptyInOrder
<1>4. ListInv'
  BY <1>1, <1>3 DEF ListInv, ListTypes
<1>5. Books'
  BY <1>1 DEF Books, CountsExact, MeIsOwnEntry
<1> QED BY <1>4, <1>5 DEF UserlistInv

LEMMA InvIsKept ==
    ASSUME Orderly, IsInjective(NickPrefixes)
    PROVE  Spec => []UserlistInv
<1>1. Init => UserlistInv
  BY InitInv
<1>2. UserlistInv /\ [Next]_vars => UserlistInv'
  <2> SUFFICES ASSUME UserlistInv, [Next]_vars PROVE UserlistInv'
    OBVIOUS
  <2>1. CASE userlist_add
    BY <2>1, AddKeeps
  <2>2. CASE \E n \in Nicks : userlist_remove(n)
    BY <2>2, RemoveKeeps
  <2>3. CASE \E n \in Nicks, l \in Levels, plus \in BOOLEAN : userlist_update_mode(n, l, plus)
    BY <2>3, UpdateModeKeeps
  <2>4. CASE \E n, m \in Nicks : inbound_newnick(n, m)
    BY <2>4, NewnickKeeps
  <2>5. CASE userlist_clear
    BY <2>5, ClearKeeps
  <2>6. CASE SetSort
    BY <2>6, SetSortKeeps
  <2>7. CASE UNCHANGED vars
    BY <2>7 DEF vars, UserlistInv, ListInv, ListTypes, Books, CountsExact, MeIsOwnEntry
  <2> QED BY <2>1, <2>2, <2>3, <2>4, <2>5, <2>6, <2>7 DEF Next
<1> QED BY <1>1, <1>2, PTL DEF Spec

-----------------------------------------------------------------------------
(* Theorems.                                                               *)

\* The structures, the trees and the counters keep their types: no counter
\* falls below zero (update_counts, userlist_remove).
THEOREM TypeCorrect ==
    ASSUME Orderly, IsInjective(NickPrefixes)
    PROVE  Spec => []TypeOK
<1>1. UserlistInv => TypeOK
  <2> SUFFICES ASSUME UserlistInv PROVE TypeOK
    OBVIOUS
  <2>1. ListTypes /\ Books /\ CountsExact /\ MeIsOwnEntry
    BY DEF UserlistInv, ListInv, Books
  <2>2. total \in Nat
    BY <2>1, FS_CardinalityType DEF Books, CountsExact
  <2>3. count \in [Counted -> Nat]
    <3>1. ASSUME NEW p \in Counted PROVE count[p] \in Nat
      <4>1. IsFiniteSet(Holders(p)) /\ count[p] = Cardinality(Holders(p))
        BY <2>1, HoldersFinite DEF CountsExact, Holders
      <4> QED BY <4>1, FS_CardinalityType
    <3>2. count = [p \in Counted |-> count[p]]
      BY <2>1 DEF Books
    <3> QED BY <3>1, <3>2
  <2>4. me \in Ids \cup {NoUser}
    BY <2>1 DEF MeIsOwnEntry, ListTypes
  <2> QED BY <2>1, <2>2, <2>3, <2>4 DEF TypeOK, ListTypes
<1> QED BY <1>1, InvIsKept, PTL

\* Whatever is added, removed, renamed and ranked, both trees of the channel
\* hold every allocated user exactly once and nothing freed (userlist.cpp, tree.cpp).
THEOREM TreesAreTheUsers ==
    ASSUME Orderly, IsInjective(NickPrefixes)
    PROVE  Spec => []SameUsers
<1>1. UserlistInv => SameUsers
  <2> SUFFICES ASSUME UserlistInv PROVE SameUsers
    OBVIOUS
  <2>1. /\ user \in [Ids -> User] /\ sort \in 0..3
        /\ usertree \in Seq(Ids) /\ usertree_alpha \in Seq(Ids)
        /\ InOrder(usertree, sort, user) /\ InOrder(usertree_alpha, 1, user)
        /\ ToSet(usertree) = live /\ ToSet(usertree_alpha) = live
    BY DEF UserlistInv, ListInv, ListTypes, Orderly
  <2>2. ASSUME NEW s \in 0..3, NEW t \in Seq(Ids), InOrder(t, s, user)
        PROVE  IsInjective(t)
    <3>1. Majors(s, user) \in [Ids -> Int] /\ Minors(s, user) \in [Ids -> Int]
      BY <2>1, KeysAreNumbers
    <3>2. SortedBy(t, Majors(s, user), Minors(s, user))
      BY <2>2 DEF InOrder
    <3> QED BY <3>1, <3>2, SortedIsInjective
  <2>3. IsInjective(usertree) /\ IsInjective(usertree_alpha)
    BY <2>1, <2>2
  <2> QED BY <2>1, <2>3 DEF SameUsers
<1> QED BY <1>1, InvIsKept, PTL

\* userlist_find finds every user of the channel by nick, and nobody else.
THEOREM LookupsAreRight ==
    ASSUME Orderly, IsInjective(NickPrefixes)
    PROVE  Spec => []FindsEveryUser
<1>1. UserlistInv => FindsEveryUser
  <2> SUFFICES ASSUME UserlistInv, NEW n \in Nicks
               PROVE  IF \E x \in live : user[x].nick = n
                      THEN userlist_find(n) \in live /\ user[userlist_find(n)].nick = n
                      ELSE userlist_find(n) = NoUser
    BY DEF FindsEveryUser
  <2>1. ListInv
    BY DEF UserlistInv
  <2> QED BY <2>1, Found
<1> QED BY <1>1, InvIsKept, PTL

\* The counts of users, ops, half-ops and voices are those of the list, and
\* sess->me is our own entry (userlist_add, update_counts, inbound_newnick).
THEOREM BooksAreRight ==
    ASSUME Orderly, IsInjective(NickPrefixes)
    PROVE  Spec => []BooksAgree
<1>1. UserlistInv => BooksAgree
  BY DEF UserlistInv, Books, BooksAgree
<1> QED BY <1>1, InvIsKept, PTL


-----------------------------------------------------------------------------
(* Modes.  Counting the places of a line that have an argument.            *)

LEMMA CountStep ==
    ASSUME NEW W, NEW i \in Nat
    PROVE  /\ Count(W, 0) = 0 /\ Count(W, i) \in Nat
           /\ Count(W, i + 1) = Count(W, i) + (IF i + 1 \in W THEN 1 ELSE 0)
<1>1. W \cap 1..0 = {}
  OBVIOUS
<1>2. Count(W, 0) = 0
  BY <1>1, FS_EmptySet DEF Count
<1>3. IsFiniteSet(1..i) /\ W \cap 1..i \in SUBSET (1..i)
  BY FS_Interval
<1>4. IsFiniteSet(W \cap 1..i)
  BY <1>3, FS_Subset
<1>5. Count(W, i) \in Nat
  BY <1>4, FS_CardinalityType DEF Count
<1>6. CASE i + 1 \in W
  <2>1. W \cap 1..(i + 1) = (W \cap 1..i) \cup {i + 1} /\ i + 1 \notin W \cap 1..i
    BY <1>6
  <2> QED BY <1>2, <1>4, <1>5, <1>6, <2>1, FS_AddElement DEF Count
<1>7. CASE i + 1 \notin W
  <2>1. W \cap 1..(i + 1) = W \cap 1..i
    BY <1>7
  <2> QED BY <1>2, <1>5, <1>7, <2>1 DEF Count
<1> QED BY <1>6, <1>7

LEMMA CountLast ==
    ASSUME NEW W, NEW n \in Nat, n # 0
    PROVE  n - 1 \in Nat /\ Count(W, n - 1) \in Nat /\ Count(W, n) = Count(W, n - 1) + (IF n \in W THEN 1 ELSE 0)
<1>1. PICK k \in Nat : n = k + 1
  <2>1. n - 1 \in Nat /\ n = (n - 1) + 1
    OBVIOUS
  <2> QED BY <2>1
<1>2. n - 1 = k
  BY <1>1
<1>3. Count(W, k) \in Nat /\ Count(W, k + 1) = Count(W, k) + (IF k + 1 \in W THEN 1 ELSE 0)
  BY CountStep
<1> QED BY <1>1, <1>2, <1>3

LEMMA CountMono ==
    ASSUME NEW W, NEW i \in Nat, NEW j \in Nat, i <= j
    PROVE  Count(W, i) <= Count(W, j) /\ (j \in W /\ i < j => Count(W, i) < Count(W, j))
<1> DEFINE T == {d \in Nat : Count(W, i) <= Count(W, i + d)}
<1>1. \A d \in Nat : d \in T
  <2>1. 0 \in T
    BY CountStep
  <2>2. ASSUME NEW d \in Nat, d \in T PROVE d + 1 \in T
    <3>1. i + d \in Nat /\ i + (d + 1) = (i + d) + 1
      OBVIOUS
    <3> HIDE DEF T
    <3>2. Count(W, i) <= Count(W, i + d)
      BY <2>2 DEF T
    <3>3. Count(W, i) \in Nat /\ Count(W, i + d) \in Nat /\ Count(W, i + (d + 1)) >= Count(W, i + d)
      BY <3>1, CountStep
    <3>4. Count(W, i + (d + 1)) \in Nat
      BY <3>1, CountStep
    <3> QED BY <3>2, <3>3, <3>4 DEF T
  <2> HIDE DEF T
  <2> QED BY <2>1, <2>2, NatInduct
<1>2. j - i \in Nat /\ i + (j - i) = j
  OBVIOUS
<1>3. Count(W, i) <= Count(W, j)
  BY <1>1, <1>2
<1>4. ASSUME j \in W, i < j PROVE Count(W, i) < Count(W, j)
  <2>1. (j - 1) - i \in Nat /\ i + ((j - 1) - i) = j - 1 /\ j - 1 \in Nat /\ (j - 1) + 1 = j
    BY <1>4
  <2>2. Count(W, i) <= Count(W, j - 1)
    BY <1>1, <2>1
  <2>3. Count(W, j) = Count(W, j - 1) + 1 /\ Count(W, j - 1) \in Nat /\ Count(W, i) \in Nat
    BY <1>4, <2>1, CountStep
  <2> QED BY <2>2, <2>3
<1> QED BY <1>3, <1>4

\* The places up to i, counted, are those of any set with the same places there.
LEMMA CountSame ==
    ASSUME NEW V, NEW W, NEW i \in Nat, \A j \in 1..i : j \in V <=> j \in W
    PROVE  Count(V, i) = Count(W, i)
<1>1. V \cap 1..i = W \cap 1..i
  OBVIOUS
<1> QED BY <1>1 DEF Count

LEMMA CountAll ==
    ASSUME NEW n \in Nat, NEW W \in SUBSET (1..n)
    PROVE  /\ Count(W, n) = Cardinality(W) /\ Cardinality(W) \in Nat /\ Cardinality(W) <= n
           /\ Cardinality(W) = n => W = 1..n
           /\ \A i \in 0..n : Count(1..n, i) = i
<1>1. W \cap 1..n = W
  OBVIOUS
<1>2. IsFiniteSet(1..n) /\ Cardinality(1..n) = n
  BY FS_Interval
<1>3. IsFiniteSet(W) /\ Cardinality(W) <= n /\ (Cardinality(W) = n => W = 1..n)
  BY <1>2, FS_Subset
<1>4. ASSUME NEW i \in 0..n PROVE Count(1..n, i) = i
  <2>1. (1..n) \cap 1..i = 1..i
    OBVIOUS
  <2>2. Cardinality(1..i) = i
    BY FS_Interval
  <2> QED BY <2>1, <2>2 DEF Count
<1> QED BY <1>1, <1>3, <1>4, FS_CardinalityType DEF Count

LEMMA CountOnto ==
    ASSUME NEW n \in Nat, NEW W \in SUBSET (1..n)
    PROVE  /\ \A k \in 1..Cardinality(W) : \E i \in W : Count(W, i) = k
           /\ \A i \in W : Count(W, i) \in 1..Cardinality(W)
           /\ \A i, j \in W : Count(W, i) = Count(W, j) => i = j
<1> DEFINE T == {m \in Nat : \A k \in 1..Count(W, m) : \E i \in W : Count(W, i) = k}
<1>1. 0 \in T
  BY CountStep
<1>2. ASSUME NEW m \in Nat, m \in T PROVE m + 1 \in T
  <2> SUFFICES ASSUME NEW k \in 1..Count(W, m + 1) PROVE \E i \in W : Count(W, i) = k
    OBVIOUS
  <2>1. Count(W, m) \in Nat /\ Count(W, m + 1) = Count(W, m) + (IF m + 1 \in W THEN 1 ELSE 0)
    BY CountStep
  <2>2. CASE k \in 1..Count(W, m)
    BY <1>2, <2>2
  <2>3. CASE k \notin 1..Count(W, m)
    <3>1. m + 1 \in W /\ k = Count(W, m + 1)
      BY <2>1, <2>3
    <3> QED BY <3>1
  <2> QED BY <2>2, <2>3
<1>3. n \in T
  <2> HIDE DEF T
  <2> QED BY <1>1, <1>2, NatInduct
<1>4. Count(W, n) = Cardinality(W)
  BY CountAll
<1>5. ASSUME NEW i \in W PROVE Count(W, i) \in 1..Cardinality(W)
  <2>1. i \in 1..n /\ 0 \in Nat
    OBVIOUS
  <2>2. Count(W, i) <= Count(W, n) /\ Count(W, 0) < Count(W, i)
    BY <2>1, CountMono
  <2>3. Count(W, 0) = 0 /\ Count(W, i) \in Nat /\ Count(W, n) \in Nat
    BY <2>1, CountStep
  <2> QED BY <1>4, <2>2, <2>3
<1>6. ASSUME NEW i \in W, NEW j \in W, Count(W, i) = Count(W, j) PROVE i = j
  <2>1. i \in Nat /\ j \in Nat /\ Count(W, i) \in Nat
    BY CountStep
  <2>2. ~(i < j) /\ ~(j < i)
    BY <1>6, <2>1, CountMono
  <2> QED BY <2>1, <2>2
<1> QED BY <1>3, <1>4, <1>5, <1>6

\* Kept(q, W) has each element of q at a place of W where that place is counted.
LEMMA KeptAt ==
    ASSUME NEW n \in Nat, NEW W \in SUBSET (1..n), NEW q
    PROVE  /\ DOMAIN Kept(q, W) = 1..Cardinality(W) /\ Len(Kept(q, W)) = Cardinality(W)
           /\ \A S : (\A i \in W : q[i] \in S) => Kept(q, W) \in Seq(S)
           /\ \A i \in W : Kept(q, W)[Count(W, i)] = q[i]
<1> DEFINE at(k) == CHOOSE i \in W : Count(W, i) = k
<1>1. Kept(q, W) = [k \in 1..Cardinality(W) |-> q[at(k)]]
  BY DEF Kept
<1>2. \A k \in 1..Cardinality(W) : at(k) \in W /\ Count(W, at(k)) = k
  <2> TAKE k \in 1..Cardinality(W)
  <2>1. \E i \in W : Count(W, i) = k
    BY CountOnto
  <2> QED BY <2>1
<1>3. \A i \in W : Count(W, i) \in 1..Cardinality(W) /\ at(Count(W, i)) = i
  <2> TAKE i \in W
  <2>1. Count(W, i) \in 1..Cardinality(W)
    BY CountOnto
  <2>2. at(Count(W, i)) \in W /\ Count(W, at(Count(W, i))) = Count(W, i)
    BY <1>2, <2>1
  <2> HIDE DEF at
  <2>3. at(Count(W, i)) = i
    BY <2>2, CountOnto
  <2> QED BY <2>1, <2>3
<1>4. Cardinality(W) \in Nat
  BY CountAll
<1> HIDE DEF at
<1>5. DOMAIN Kept(q, W) = 1..Cardinality(W) /\ \A k \in 1..Cardinality(W) : Kept(q, W)[k] = q[at(k)]
  BY <1>1
<1>6. ASSUME NEW S, \A i \in W : q[i] \in S PROVE Kept(q, W) \in Seq(S)
  <2>1. \A k \in 1..Cardinality(W) : q[at(k)] \in S
    BY <1>2, <1>6
  <2>2. [k \in 1..Cardinality(W) |-> q[at(k)]] \in Seq(S)
    BY <1>4, <2>1
  <2> QED BY <1>1, <2>2
<1>7. Len(Kept(q, W)) = Cardinality(W)
  <2>1. \A k \in 1..Cardinality(W) : q[at(k)] \in {q[i] : i \in W}
    BY <1>2
  <2>2. [k \in 1..Cardinality(W) |-> q[at(k)]] \in Seq({q[i] : i \in W})
    BY <1>4, <2>1
  <2> QED BY <1>1, <1>4, <2>2
<1> QED BY <1>3, <1>5, <1>6, <1>7

LEMMA KeptAll ==
    ASSUME NEW n \in Nat, NEW q, q = [i \in 1..n |-> q[i]]
    PROVE  Kept(q, 1..n) = q
<1>1. Cardinality(1..n) = n
  BY FS_Interval
<1>2. \A i \in 1..n : Kept(q, 1..n)[i] = q[i]
  <2> TAKE i \in 1..n
  <2>1. Count(1..n, i) = i
    BY CountAll
  <2> DEFINE W == 1..n
  <2>2. W \in SUBSET (1..n) /\ i \in W
    OBVIOUS
  <2> HIDE DEF W
  <2>3. Kept(q, W)[Count(W, i)] = q[i]
    BY <2>2, KeptAt
  <2> QED BY <2>1, <2>3 DEF W
<1>3. Kept(q, 1..n) = [i \in 1..n |-> Kept(q, 1..n)[i]]
  BY <1>1 DEF Kept
<1> QED BY <1>2, <1>3

\* V is W with the place pos taken out, among the first n.
Removing(V, W, pos, n) == \A j \in 1..n - 1 : j \in V <=> IF j < pos THEN j \in W ELSE j + 1 \in W

LEMMA CountRemoved ==
    ASSUME NEW n \in Nat, NEW pos \in 1..n, NEW V, NEW W, Removing(V, W, pos, n)
    PROVE  \A i \in 0..n - 1 :
              Count(V, i) = IF i < pos THEN Count(W, i) ELSE Count(W, i + 1) - (IF pos \in W THEN 1 ELSE 0)
<1> DEFINE Right(i) == Count(V, i) = IF i < pos THEN Count(W, i) ELSE Count(W, i + 1) - (IF pos \in W THEN 1 ELSE 0)
           T == {i \in Nat : i <= n - 1 => Right(i)}
<1>1. 0 \in T
  BY CountStep
<1>2. ASSUME NEW i \in Nat, i \in T PROVE i + 1 \in T
  <2> SUFFICES ASSUME i + 1 <= n - 1 PROVE Right(i + 1)
    OBVIOUS
  <2>1. Right(i)
    BY <1>2
  <2>2. i + 1 \in V <=> IF i + 1 < pos THEN i + 1 \in W ELSE (i + 1) + 1 \in W
    BY DEF Removing
  <2>3. /\ Count(V, i) \in Nat /\ Count(W, i) \in Nat /\ Count(W, i + 1) \in Nat /\ Count(W, (i + 1) + 1) \in Nat
        /\ Count(V, i + 1) = Count(V, i) + (IF i + 1 \in V THEN 1 ELSE 0)
        /\ Count(W, i + 1) = Count(W, i) + (IF i + 1 \in W THEN 1 ELSE 0)
        /\ Count(W, (i + 1) + 1) = Count(W, i + 1) + (IF (i + 1) + 1 \in W THEN 1 ELSE 0)
    BY CountStep
  <2>4. CASE i + 1 < pos
    <3>1. i < pos
      BY <2>4
    <3> QED BY <2>1, <2>2, <2>3, <2>4, <3>1
  <2>5. CASE i + 1 = pos
    <3>1. i < pos /\ ~(i + 1 < pos)
      BY <2>5
    <3> QED BY <2>1, <2>2, <2>3, <2>5, <3>1
  <2>6. CASE i + 1 > pos
    <3>1. ~(i < pos) /\ ~(i + 1 < pos)
      BY <2>6
    <3> QED BY <2>1, <2>2, <2>3, <3>1
  <2> QED BY <2>4, <2>5, <2>6
<1>3. \A i \in Nat : i \in T
  <2> HIDE DEF T
  <2> QED BY <1>1, <1>2, NatInduct
<1> QED BY <1>3

-----------------------------------------------------------------------------
(* A line of changes, and the changes of a line.                           *)

Given(changes) == {i \in DOMAIN changes : changes[i].arg # None}

\* The letters and the arguments of the line that carries these changes.
Carries(line, changes) == line.modes = Line(changes).modes /\ line.args = Line(changes).args

LEMMA HasArgs == \A sign, m : mode_has_arg(sign, m) <=> HasArgument(sign, m)
  BY DEF mode_has_arg, HasArgument, mode_chanmode_type, IsNickMode

LEMMA Typing ==
    \A m : /\ mode_chanmode_type(m) \in -1..3
           /\ mode_chanmode_type(m) = 0 <=> m \in TypeA
           /\ mode_chanmode_type(m) >= 1 <=> m \notin TypeA /\ m \in TypeB \cup TypeC \cup TypeD
           /\ mode_chanmode_type(m) \in 0..2 <=> m \in TypeA \cup TypeB \cup TypeC
  BY DEF mode_chanmode_type

Asked == [sign : {"+", "-"}, mode : Letters, arg : Words \cup {None}]

LEMMA ProperIs ==
    ASSUME NEW ch, Proper(ch)
    PROVE  /\ ch \in Seq(Asked) /\ Len(ch) \in Nat /\ DOMAIN ch = 1..Len(ch)
           /\ Given(ch) \in SUBSET (1..Len(ch))
           /\ \A i \in 1..Len(ch) : /\ ch[i] \in Asked /\ ch[i].mode \in Letters /\ ch[i].sign \in {"+", "-"}
                                    /\ ch[i] = Change(ch[i].sign, ch[i].mode, ch[i].arg)
                                    /\ IF i \in Given(ch) THEN ch[i].arg \in Words ELSE ch[i].arg = None
                                    /\ i \in Given(ch) <=> HasArgument(ch[i].sign, ch[i].mode)
<1>1. ch \in Seq(Asked) /\ \A i \in DOMAIN ch : ch[i].arg # None <=> HasArgument(ch[i].sign, ch[i].mode)
  BY DEF Proper, Asked
<1>2. Len(ch) \in Nat /\ DOMAIN ch = 1..Len(ch) /\ \A i \in 1..Len(ch) : ch[i] \in Asked
  BY <1>1
<1>3. Given(ch) \in SUBSET (1..Len(ch)) /\ \A i \in 1..Len(ch) : i \in Given(ch) <=> ch[i].arg # None
  BY <1>2 DEF Given
<1>4. \A c \in Asked : /\ c.mode \in Letters /\ c.sign \in {"+", "-"} /\ c.arg \in Words \cup {None}
                       /\ c = [sign |-> c.sign, mode |-> c.mode, arg |-> c.arg]
  BY DEF Asked
<1> QED BY <1>1, <1>2, <1>3, <1>4 DEF Change

CarriesWell(line, ch) ==
    /\ line.modes = [i \in 1..Len(ch) |-> [sign |-> ch[i].sign, mode |-> ch[i].mode]]
    /\ DOMAIN line.modes = 1..Len(ch) /\ Len(line.modes) = Len(ch)
    /\ \A i \in 1..Len(ch) : line.modes[i].sign = ch[i].sign /\ line.modes[i].mode = ch[i].mode
    /\ line.args \in Seq(Words) /\ Len(line.args) = Cardinality(Given(ch))
    /\ \A i \in Given(ch) : Count(Given(ch), i) \in 1..Len(line.args) /\ line.args[Count(Given(ch), i)] = ch[i].arg

LEMMA ProperLine ==
    ASSUME NEW ch, Proper(ch), NEW line, Carries(line, ch)
    PROVE  CarriesWell(line, ch)
<1> DEFINE q == [i \in 1..Len(ch) |-> ch[i].arg]
           W == Given(ch)
<1>1. DOMAIN ch = 1..Len(ch) /\ Len(ch) \in Nat /\ W \in SUBSET (1..Len(ch)) /\ \A i \in W : ch[i].arg \in Words
  BY ProperIs
<1>2. line.modes = [i \in 1..Len(ch) |-> [sign |-> ch[i].sign, mode |-> ch[i].mode]] /\ line.args = Kept(q, W)
  BY <1>1 DEF Carries, Line, Given
<1>3. \A i \in 1..Len(ch) : q[i] = ch[i].arg
  OBVIOUS
<1> HIDE DEF q, W
<1>4. \A i \in W : q[i] \in Words
  BY <1>1, <1>3
<1>5. Len(line.args) = Cardinality(W) /\ line.args \in Seq(Words) /\ \A i \in W : line.args[Count(W, i)] = q[i]
  <2> DEFINE n == Len(ch)
  <2>1. n \in Nat /\ W \in SUBSET (1..n)
    BY <1>1
  <2> HIDE DEF n
  <2>2. Len(Kept(q, W)) = Cardinality(W) /\ \A i \in W : Kept(q, W)[Count(W, i)] = q[i]
    BY <2>1, KeptAt
  <2>3. Kept(q, W) \in Seq(Words)
    BY <2>1, <1>4, KeptAt
  <2> QED BY <1>2, <2>2, <2>3
<1>6. \A i \in W : Count(W, i) \in 1..Cardinality(W)
  BY <1>1, CountOnto
<1>7. \A i \in W : Count(W, i) \in 1..Len(line.args) /\ line.args[Count(W, i)] = ch[i].arg
  BY <1>1, <1>3, <1>5, <1>6
<1>8. line.modes \in Seq([sign : {ch[i].sign : i \in 1..Len(ch)}, mode : {ch[i].mode : i \in 1..Len(ch)}])
  BY <1>1, <1>2
<1>9. DOMAIN line.modes = 1..Len(ch) /\ Len(line.modes) = Len(ch)
  BY <1>1, <1>2, <1>8
<1>10. \A i \in 1..Len(ch) : line.modes[i].sign = ch[i].sign /\ line.modes[i].mode = ch[i].mode
  BY <1>2
<1> QED BY <1>2, <1>5, <1>7, <1>9, <1>10 DEF W, CarriesWell

\* However the reader tells which letters have an argument, it gets them back.
LEMMA PairedBack ==
    ASSUME NEW ch, Proper(ch), NEW line, Carries(line, ch)
    PROVE  /\ Paired(line, Given(ch)) = ch /\ Meant(line) = ch
           /\ Paired(line, {i \in DOMAIN line.modes : Len(line.args) = Len(line.modes)
                                                      \/ mode_has_arg(line.modes[i].sign, line.modes[i].mode)}) = ch
<1> DEFINE n == Len(ch)
           W == Given(ch)
           arg(i) == IF i \in W /\ Count(W, i) <= Len(line.args) THEN line.args[Count(W, i)] ELSE None
<1>1. /\ DOMAIN ch = 1..n /\ n \in Nat /\ W \in SUBSET (1..n) /\ ch \in Seq(Asked)
      /\ \A i \in 1..n : /\ ch[i] = Change(ch[i].sign, ch[i].mode, ch[i].arg)
                         /\ i \notin W => ch[i].arg = None
                         /\ i \in W <=> HasArgument(ch[i].sign, ch[i].mode)
  BY ProperIs
<1>2. /\ DOMAIN line.modes = 1..n /\ Len(line.modes) = n
      /\ \A i \in 1..n : line.modes[i].sign = ch[i].sign /\ line.modes[i].mode = ch[i].mode
      /\ Len(line.args) = Cardinality(W)
      /\ \A i \in W : Count(W, i) \in 1..Len(line.args) /\ line.args[Count(W, i)] = ch[i].arg
  <2>1. CarriesWell(line, ch)
    BY ProperLine
  <2> QED BY <2>1 DEF CarriesWell
<1>3. Cardinality(W) \in Nat
  BY <1>1, CountAll
<1>4. Paired(line, W) = [i \in 1..n |-> Change(line.modes[i].sign, line.modes[i].mode, arg(i))]
  BY <1>2 DEF Paired
<1> HIDE DEF n, W
<1>5. \A i \in 1..n : arg(i) = ch[i].arg
  BY <1>1, <1>2, <1>3
<1> HIDE DEF arg
<1>6. \A i \in 1..n : Change(line.modes[i].sign, line.modes[i].mode, arg(i)) = ch[i]
  BY <1>1, <1>2, <1>5
<1>7. ch = [i \in 1..n |-> ch[i]]
  BY <1>1
<1>8. Paired(line, W) = ch
  BY <1>4, <1>6, <1>7
<1>9. {i \in DOMAIN line.modes : HasArgument(line.modes[i].sign, line.modes[i].mode)} = W
  BY <1>1, <1>2
<1>10. {i \in DOMAIN line.modes : Len(line.args) = Len(line.modes) \/ mode_has_arg(line.modes[i].sign, line.modes[i].mode)} = W
  <2>1. Len(line.args) = Len(line.modes) => W = 1..n
    BY <1>1, <1>2, CountAll
  <2>2. \A i \in 1..n : mode_has_arg(line.modes[i].sign, line.modes[i].mode) <=> i \in W
    BY <1>1, <1>2, HasArgs
  <2> QED BY <1>1, <1>2, <2>1, <2>2
<1>11. Meant(line) = ch
  BY <1>8, <1>9 DEF Meant
<1> QED BY <1>8, <1>10, <1>11 DEF W

-----------------------------------------------------------------------------
(* The text of the modes, and what is set.                                 *)

Settable == {m \in TypeB \cup TypeC \cup TypeD : m \notin ToSet(NickModes) /\ m \notin TypeA}

\* What can be set, each mode with an argument if it takes one.
SettingOK(s) ==
    /\ s = [m \in DOMAIN s |-> s[m]] /\ DOMAIN s \subseteq Settable
    /\ \A m \in DOMAIN s : IF HasArgument("+", m) THEN s[m] \in Words ELSE s[m] = None

Having(modes) == {i \in DOMAIN modes : HasArgument("+", modes[i])}

\* The text with these letters and these arguments says what is set.
Says(modes, args, s) ==
    /\ modes \in Seq(Settable) /\ args \in Seq(Words)
    /\ \A i, j \in 1..Len(modes) : modes[i] = modes[j] => i = j
    /\ \A m : m \in DOMAIN s <=> \E i \in 1..Len(modes) : modes[i] = m
    /\ Len(args) = Count(Having(modes), Len(modes))
    /\ \A i \in 1..Len(modes) : s[modes[i]] = IF i \in Having(modes) THEN args[Count(Having(modes), i)] ELSE None

LEMMA HavingIs ==
    ASSUME NEW modes \in Seq(Settable)
    PROVE  /\ Len(modes) \in Nat /\ Having(modes) \in SUBSET (1..Len(modes))
           /\ \A i \in 1..Len(modes) : i \in Having(modes) <=> HasArgument("+", modes[i])
  BY DEF Having

LEMMA SaysMore ==
    ASSUME NEW modes, NEW args, NEW s, Says(modes, args, s), NEW m \in Settable, m \notin DOMAIN s,
           NEW v, IF HasArgument("+", m) THEN v \in Words ELSE v = None
    PROVE  Says(Append(modes, m), IF HasArgument("+", m) THEN Append(args, v) ELSE args, With(s, m, v))
<1> DEFINE n == Len(modes)
           W == Having(modes)
           modes2 == Append(modes, m)
           V == Having(modes2)
           args2 == IF HasArgument("+", m) THEN Append(args, v) ELSE args
           s2 == With(s, m, v)
<1>1. /\ modes \in Seq(Settable) /\ args \in Seq(Words) /\ n \in Nat /\ Len(args) = Count(W, n)
      /\ \A i, j \in 1..n : modes[i] = modes[j] => i = j
      /\ \A x : x \in DOMAIN s <=> \E i \in 1..n : modes[i] = x
      /\ \A i \in 1..n : s[modes[i]] = IF i \in W THEN args[Count(W, i)] ELSE None
  BY DEF Says
<1>2. /\ modes2 \in Seq(Settable) /\ Len(modes2) = n + 1 /\ modes2[n + 1] = m
      /\ \A i \in 1..n : modes2[i] = modes[i]
  BY <1>1
<1>3. W \in SUBSET (1..n) /\ \A i \in 1..n : i \in W <=> HasArgument("+", modes[i])
  BY <1>1, HavingIs
<1>4. V \in SUBSET (1..n + 1) /\ \A i \in 1..n + 1 : i \in V <=> HasArgument("+", modes2[i])
  BY <1>2, HavingIs
<1> HIDE DEF n, W, V, modes2
<1>5. \A i \in 1..n : (i \in V <=> i \in W)
  BY <1>1, <1>2, <1>3, <1>4
<1>6. \A i \in 0..n : Count(V, i) = Count(W, i)
  <2> TAKE i \in 0..n
  <2>1. i \in Nat /\ \A j \in 1..i : j \in V <=> j \in W
    BY <1>1, <1>5
  <2> QED BY <2>1, CountSame
<1>7. n + 1 \in V <=> HasArgument("+", m)
  BY <1>1, <1>2, <1>4
<1>8. Count(V, n + 1) = Count(W, n) + (IF HasArgument("+", m) THEN 1 ELSE 0) /\ Count(W, n) \in Nat
  <2>1. Count(V, n + 1) = Count(V, n) + (IF n + 1 \in V THEN 1 ELSE 0) /\ Count(W, n) \in Nat
    BY <1>1, CountStep
  <2>2. Count(V, n) = Count(W, n)
    BY <1>1, <1>6
  <2> QED BY <1>7, <2>1, <2>2
<1>9. args2 \in Seq(Words) /\ Len(args2) = Count(V, n + 1) /\ \A k \in 1..Len(args) : args2[k] = args[k]
  BY <1>1, <1>8
<1>10. HasArgument("+", m) => args2[Count(V, n + 1)] = v
  BY <1>1, <1>8
<1>11. DOMAIN s2 = DOMAIN s \cup {m} /\ s2[m] = v /\ \A x \in DOMAIN s : x # m => s2[x] = s[x]
  BY DEF With
<1> HIDE DEF args2, s2
<1>12. \A i \in 1..n : modes[i] \in DOMAIN s /\ modes[i] # m
  BY <1>1
<1>13. \A i, j \in 1..n + 1 : modes2[i] = modes2[j] => i = j
  <2>1. \A i \in 1..n + 1 : i = n + 1 \/ i \in 1..n
    BY <1>1
  <2>2. \A i \in 1..n : modes2[i] # modes2[n + 1]
    BY <1>2, <1>12
  <2>3. \A i, j \in 1..n : modes2[i] = modes2[j] => i = j
    BY <1>1, <1>2
  <2> QED BY <2>1, <2>2, <2>3
<1>14. \A x : x \in DOMAIN s2 <=> \E i \in 1..n + 1 : modes2[i] = x
  <2> TAKE x
  <2>1. x \in DOMAIN s2 => \E i \in 1..n + 1 : modes2[i] = x
    <3> SUFFICES ASSUME x \in DOMAIN s2 PROVE \E i \in 1..n + 1 : modes2[i] = x
      OBVIOUS
    <3>1. CASE x = m
      BY <1>1, <1>2, <3>1
    <3>2. CASE x # m
      <4>1. PICK i \in 1..n : modes[i] = x
        BY <1>1, <1>11, <3>2
      <4>2. i \in 1..n + 1 /\ modes2[i] = x
        BY <1>1, <1>2, <4>1
      <4> QED BY <4>2
    <3> QED BY <3>1, <3>2
  <2>2. ASSUME NEW i \in 1..n + 1, modes2[i] = x PROVE x \in DOMAIN s2
    <3>1. CASE i = n + 1
      BY <1>2, <1>11, <2>2, <3>1
    <3>2. CASE i # n + 1
      <4>1. i \in 1..n
        BY <1>1, <3>2
      <4> QED BY <1>2, <1>11, <1>12, <2>2, <4>1
    <3> QED BY <3>1, <3>2
  <2> QED BY <2>1, <2>2
<1>15. \A i \in 1..n + 1 : s2[modes2[i]] = IF i \in V THEN args2[Count(V, i)] ELSE None
  <2> TAKE i \in 1..n + 1
  <2>1. CASE i = n + 1
    BY <1>2, <1>7, <1>10, <1>11, <2>1
  <2>2. CASE i # n + 1
    <3>1. i \in 1..n /\ i \in 0..n
      BY <1>1, <2>2
    <3>2. s2[modes2[i]] = s[modes[i]]
      BY <1>2, <1>11, <1>12, <3>1
    <3>3. CASE i \in W
      <4>1. Count(W, i) \in 1..Len(args)
        BY <1>1, <1>3, <3>3, CountOnto, CountAll
      <4>2. args2[Count(V, i)] = args[Count(W, i)]
        BY <1>6, <1>9, <3>1, <4>1
      <4> QED BY <1>1, <1>5, <3>1, <3>2, <3>3, <4>2
    <3>4. CASE i \notin W
      BY <1>1, <1>5, <3>1, <3>2, <3>4
    <3> QED BY <3>3, <3>4
  <2> QED BY <2>1, <2>2
<1> QED BY <1>2, <1>9, <1>13, <1>14, <1>15 DEF Says, V, modes2, args2, s2

LEMMA SaysOther ==
    ASSUME NEW modes, NEW args, NEW s, Says(modes, args, s), NEW pos \in 1..Len(modes),
           NEW v, IF HasArgument("+", modes[pos]) THEN v \in Words ELSE v = None
    PROVE  Says(modes, IF HasArgument("+", modes[pos]) THEN [args EXCEPT ![Count(Having(modes), pos)] = v] ELSE args,
                With(s, modes[pos], v))
<1> DEFINE n == Len(modes)
           W == Having(modes)
           m == modes[pos]
           a == Count(W, pos)
           args2 == IF HasArgument("+", m) THEN [args EXCEPT ![a] = v] ELSE args
           s2 == With(s, m, v)
<1>1. /\ modes \in Seq(Settable) /\ args \in Seq(Words) /\ n \in Nat /\ Len(args) = Count(W, n)
      /\ \A i, j \in 1..n : modes[i] = modes[j] => i = j
      /\ \A x : x \in DOMAIN s <=> \E i \in 1..n : modes[i] = x
      /\ \A i \in 1..n : s[modes[i]] = IF i \in W THEN args[Count(W, i)] ELSE None
  BY DEF Says
<1>2. W \in SUBSET (1..n) /\ \A i \in 1..n : i \in W <=> HasArgument("+", modes[i])
  BY <1>1, HavingIs
<1>3. pos \in 1..n /\ m \in DOMAIN s
  BY <1>1
<1>4. DOMAIN s2 = DOMAIN s /\ s2[m] = v /\ \A x \in DOMAIN s : x # m => s2[x] = s[x]
  <2>1. DOMAIN s2 = DOMAIN s \cup {m} /\ s2[m] = v /\ \A x \in DOMAIN s : x # m => s2[x] = s[x]
    BY DEF With
  <2> HIDE DEF s2, m
  <2> QED BY <1>3, <2>1
<1> HIDE DEF n, W, a, m, s2
<1>5. \A i \in W : Count(W, i) \in 1..Len(args)
  <2>1. Len(args) = Cardinality(W)
    BY <1>1, <1>2, CountAll
  <2> QED BY <1>1, <1>2, <2>1, CountOnto
<1>6. \A i, j \in W : Count(W, i) = Count(W, j) => i = j
  BY <1>1, <1>2, CountOnto
<1>7. pos \in W <=> HasArgument("+", m)
  BY <1>2, <1>3 DEF m
<1>8. /\ args2 \in Seq(Words) /\ Len(args2) = Len(args)
      /\ pos \in W => args2[a] = v
      /\ \A k \in 1..Len(args) : ~(pos \in W /\ k = a) => args2[k] = args[k]
  <2>1. CASE pos \in W
    <3>1. a \in 1..Len(args) /\ v \in Words
      BY <1>5, <1>7, <2>1 DEF a, m
    <3>2. args2 = [args EXCEPT ![a] = v]
      BY <1>7, <2>1
    <3> HIDE DEF args2
    <3> QED BY <1>1, <2>1, <3>1, <3>2
  <2>2. CASE pos \notin W
    <3>1. args2 = args
      BY <1>7, <2>2
    <3> HIDE DEF args2
    <3> QED BY <1>1, <2>2, <3>1
  <2> QED BY <2>1, <2>2
<1> HIDE DEF args2
<1>9. \A x : x \in DOMAIN s2 <=> \E i \in 1..n : modes[i] = x
  BY <1>1, <1>4
<1>10. \A i \in 1..n : s2[modes[i]] = IF i \in W THEN args2[Count(W, i)] ELSE None
  <2> TAKE i \in 1..n
  <2>1. CASE i = pos
    <3>1. s2[modes[i]] = v
      BY <1>4, <2>1 DEF m
    <3>2. CASE pos \in W
      BY <1>8, <2>1, <3>1, <3>2 DEF a
    <3>3. CASE pos \notin W
      BY <1>7, <2>1, <3>1, <3>3 DEF m
    <3> QED BY <3>2, <3>3
  <2>2. CASE i # pos
    <3>1. modes[i] # m /\ modes[i] \in DOMAIN s
      BY <1>1, <1>3, <2>2 DEF m
    <3>2. s2[modes[i]] = s[modes[i]]
      BY <1>4, <3>1
    <3>3. CASE i \in W
      <4>1. Count(W, i) \in 1..Len(args) /\ ~(pos \in W /\ Count(W, i) = a)
        BY <1>5, <1>6, <2>2, <3>3 DEF a
      <4>2. args2[Count(W, i)] = args[Count(W, i)]
        BY <1>8, <4>1
      <4> QED BY <1>1, <3>2, <3>3, <4>2
    <3>4. CASE i \notin W
      BY <1>1, <3>2, <3>4
    <3> QED BY <3>3, <3>4
  <2> QED BY <2>1, <2>2
<1>11. Says(modes, args2, s2)
  <2>1. Len(args2) = Count(Having(modes), Len(modes))
    BY <1>1, <1>8 DEF n, W
  <2> QED BY <1>1, <1>8, <1>9, <1>10, <2>1 DEF Says, n, W
<1> QED BY <1>11 DEF args2, s2, m, a, W

LEMMA SaysLess ==
    ASSUME NEW modes, NEW args, NEW s, Says(modes, args, s), NEW pos \in 1..Len(modes)
    PROVE  Says(RemoveAt(modes, pos),
                IF HasArgument("+", modes[pos]) THEN RemoveAt(args, Count(Having(modes), pos)) ELSE args,
                Without(s, modes[pos]))
<1> DEFINE n == Len(modes)
           W == Having(modes)
           m == modes[pos]
           a == Count(W, pos)
           modes2 == RemoveAt(modes, pos)
           V == Having(modes2)
           args2 == IF HasArgument("+", m) THEN RemoveAt(args, a) ELSE args
           s2 == Without(s, m)
<1>1. /\ modes \in Seq(Settable) /\ args \in Seq(Words) /\ n \in Nat /\ Len(args) = Count(W, n)
      /\ \A i, j \in 1..n : modes[i] = modes[j] => i = j
      /\ \A x : x \in DOMAIN s <=> \E i \in 1..n : modes[i] = x
      /\ \A i \in 1..n : s[modes[i]] = IF i \in W THEN args[Count(W, i)] ELSE None
  BY DEF Says
<1>2. W \in SUBSET (1..n) /\ \A i \in 1..n : i \in W <=> HasArgument("+", modes[i])
  BY <1>1, HavingIs
<1>3. /\ modes2 \in Seq(Settable) /\ Len(modes2) = n - 1
      /\ \A j \in 1..pos - 1 : modes2[j] = modes[j]
      /\ \A j \in pos..n - 1 : modes2[j] = modes[j + 1]
  <2>1. modes \in Seq(Settable) /\ pos \in 1..Len(modes)
    BY <1>1
  <2>2. /\ RemoveAt(modes, pos) \in Seq(Settable) /\ Len(RemoveAt(modes, pos)) = Len(modes) - 1
        /\ \A j \in 1..pos - 1 : RemoveAt(modes, pos)[j] = modes[j]
        /\ \A j \in pos..Len(modes) - 1 : RemoveAt(modes, pos)[j] = modes[j + 1]
    BY <2>1, RemoveAtProps
  <2> QED BY <2>2
<1>4. DOMAIN s2 = DOMAIN s \ {m} /\ \A x \in DOMAIN s2 : s2[x] = s[x]
  BY DEF Without
<1>5. V \in SUBSET (1..n - 1) /\ \A i \in 1..n - 1 : i \in V <=> HasArgument("+", modes2[i])
  BY <1>3, HavingIs
<1>6. pos \in 1..n
  OBVIOUS
<1> HIDE DEF n, W, V, a, modes2, s2
\* where a place of the shorter text was, and where a place of the longer one is
<1> DEFINE old(i) == IF i < pos THEN i ELSE i + 1
<1>7. \A i \in 1..n - 1 : old(i) \in 1..n /\ old(i) # pos /\ modes2[i] = modes[old(i)]
  <2> TAKE i \in 1..n - 1
  <2>1. CASE i < pos
    <3>1. i \in 1..pos - 1 /\ i \in 1..n /\ i # pos /\ old(i) = i
      BY <1>1, <1>6, <2>1
    <3> QED BY <1>3, <3>1
  <2>2. CASE ~(i < pos)
    <3>1. i \in pos..n - 1 /\ i + 1 \in 1..n /\ i + 1 # pos /\ old(i) = i + 1
      BY <1>1, <1>6, <2>2
    <3> QED BY <1>3, <3>1
  <2> QED BY <2>1, <2>2
<1>8. \A i \in 1..n : i # pos => \E j \in 1..n - 1 : old(j) = i
  <2> SUFFICES ASSUME NEW i \in 1..n, i # pos PROVE \E j \in 1..n - 1 : old(j) = i
    OBVIOUS
  <2>1. CASE i < pos
    <3>1. i \in 1..n - 1 /\ old(i) = i
      BY <1>1, <1>6, <2>1
    <3> QED BY <3>1
  <2>2. CASE i > pos
    <3>1. i - 1 \in 1..n - 1 /\ old(i - 1) = i
      BY <1>1, <1>6, <2>2
    <3> QED BY <3>1
  <2> QED BY <1>1, <1>6, <2>1, <2>2
<1>9. \A i \in 1..n - 1 : i \in V <=> old(i) \in W
  <2> HIDE DEF old
  <2> QED BY <1>2, <1>5, <1>7
<1>10. \A i \in 0..n - 1 : Count(V, i) = IF i < pos THEN Count(W, i) ELSE Count(W, i + 1) - (IF pos \in W THEN 1 ELSE 0)
  <2>1. Removing(V, W, pos, n)
    BY <1>9 DEF Removing
  <2> HIDE DEF old
  <2> QED BY <1>1, <1>6, <2>1, CountRemoved
<1>11. \A i \in 1..n - 1 : Count(V, i) = IF i < pos THEN Count(W, old(i)) ELSE Count(W, old(i)) - (IF pos \in W THEN 1 ELSE 0)
  <2> TAKE i \in 1..n - 1
  <2>1. i \in 0..n - 1
    BY <1>1
  <2> QED BY <1>10, <2>1
<1>12. Len(args) = Cardinality(W) /\ \A i \in W : Count(W, i) \in 1..Len(args)
  <2>1. Len(args) = Cardinality(W)
    BY <1>1, <1>2, CountAll
  <2> QED BY <1>1, <1>2, <2>1, CountOnto
<1>13. \A i \in W : pos \in W => (i < pos => Count(W, i) < a) /\ (i > pos => a < Count(W, i))
  <2> TAKE i \in W
  <2>1. i \in Nat /\ pos \in Nat
    BY <1>1, <1>2, <1>6
  <2>2. pos \in W /\ i < pos => Count(W, i) < a
    BY <2>1, CountMono DEF a
  <2>3. i \in W /\ pos < i => a < Count(W, i)
    BY <2>1, CountMono DEF a
  <2> QED BY <2>1, <2>2, <2>3
<1>14. pos \in W <=> HasArgument("+", m)
  BY <1>2, <1>6
<1>15. a \in Nat /\ Count(W, n) \in Nat /\ (pos \in W => a \in 1..Len(args))
  BY <1>1, <1>6, <1>12, CountStep DEF a
<1> HIDE DEF m
<1>16. /\ args2 \in Seq(Words) /\ Len(args2) = Count(V, n - 1)
       /\ \A i \in 1..n - 1 : i \in V => args2[Count(V, i)] = args[Count(W, old(i))]
  <2>1. CASE pos \in W
    <3>1. /\ args2 = RemoveAt(args, a) /\ a \in 1..Len(args)
      BY <1>14, <1>15, <2>1
    <3> HIDE DEF args2
    <3>2. /\ args2 \in Seq(Words) /\ Len(args2) = Len(args) - 1
          /\ \A k \in 1..a - 1 : args2[k] = args[k]
          /\ \A k \in a..Len(args) - 1 : args2[k] = args[k + 1]
      <4>1. args \in Seq(Words)
        BY <1>1
      <4>2. /\ RemoveAt(args, a) \in Seq(Words) /\ Len(RemoveAt(args, a)) = Len(args) - 1
            /\ \A k \in 1..a - 1 : RemoveAt(args, a)[k] = args[k]
            /\ \A k \in a..Len(args) - 1 : RemoveAt(args, a)[k] = args[k + 1]
        BY <3>1, <4>1, RemoveAtProps
      <4> QED BY <3>1, <4>2
    <3>3. Count(V, n - 1) = Len(args) - 1
      <4>1. n - 1 \in 0..n - 1
        BY <1>1, <1>6
      <4>2. Count(V, n - 1) = IF n - 1 < pos THEN Count(W, n - 1) ELSE Count(W, (n - 1) + 1) - 1
        BY <1>10, <2>1, <4>1
      <4>3. (n - 1) + 1 = n /\ n - 1 \in Nat
        BY <1>1, <1>6
      <4>4. Count(W, n) = Count(W, n - 1) + (IF n \in W THEN 1 ELSE 0) /\ Count(W, n - 1) \in Nat
        BY <1>1, <1>6, CountLast
      <4>5. n - 1 < pos => n = pos
        BY <1>1, <1>6
      <4> QED BY <1>1, <2>1, <4>2, <4>3, <4>4, <4>5
    <3>4. ASSUME NEW i \in 1..n - 1, i \in V PROVE args2[Count(V, i)] = args[Count(W, old(i))]
      <4>1. old(i) \in W /\ old(i) \in 1..n /\ Count(W, old(i)) \in 1..Len(args)
        BY <1>7, <1>9, <1>12, <3>4
      <4>2. CASE i < pos
        <5>1. old(i) = i /\ Count(V, i) = Count(W, i) /\ Count(W, i) < a
          BY <1>11, <1>13, <2>1, <4>1, <4>2
        <5>2. Count(W, i) \in 1..a - 1
          BY <1>15, <4>1, <5>1
        <5> QED BY <3>2, <5>1, <5>2
      <4>3. CASE ~(i < pos)
        <5>1. old(i) = i + 1 /\ old(i) > pos
          BY <1>6, <4>3
        <5> HIDE DEF old
        <5>2. Count(V, i) = Count(W, old(i)) - 1 /\ a < Count(W, old(i))
          BY <1>11, <1>13, <2>1, <4>1, <4>3, <5>1
        <5>3. Count(V, i) \in a..Len(args) - 1 /\ Count(V, i) + 1 = Count(W, old(i))
          BY <1>15, <4>1, <5>2
        <5> QED BY <3>2, <5>3
      <4> QED BY <4>2, <4>3
    <3> QED BY <3>2, <3>3, <3>4
  <2>2. CASE pos \notin W
    <3>1. args2 = args
      BY <1>14, <2>2
    <3> HIDE DEF args2
    <3>2. Count(V, n - 1) = Len(args)
      <4>1. n - 1 \in 0..n - 1
        BY <1>1, <1>6
      <4>2. Count(V, n - 1) = IF n - 1 < pos THEN Count(W, n - 1) ELSE Count(W, (n - 1) + 1)
        <5>1. Count(W, (n - 1) + 1) \in Nat
          <6>1. (n - 1) + 1 = n /\ n \in Nat
            BY <1>1, <1>6
          <6>2. Count(W, n) \in Nat
            BY <6>1, CountStep
          <6> QED BY <6>1, <6>2
        <5>2. Count(V, n - 1) = IF n - 1 < pos THEN Count(W, n - 1)
                                ELSE Count(W, (n - 1) + 1) - (IF pos \in W THEN 1 ELSE 0)
          <6> DEFINE k == n - 1
          <6>1. k \in 0..n - 1
            BY <4>1
          <6> HIDE DEF k
          <6>2. Count(V, k) = IF k < pos THEN Count(W, k) ELSE Count(W, k + 1) - (IF pos \in W THEN 1 ELSE 0)
            BY <1>10, <6>1
          <6> QED BY <6>2 DEF k
        <5> QED BY <2>2, <5>1, <5>2
      <4>3. (n - 1) + 1 = n /\ n - 1 \in Nat
        BY <1>1, <1>6
      <4>4. Count(W, n) = Count(W, n - 1) + (IF n \in W THEN 1 ELSE 0) /\ Count(W, n - 1) \in Nat
        BY <1>1, <1>6, CountLast
      <4>5. n - 1 < pos => n = pos
        BY <1>1, <1>6
      <4> QED BY <1>1, <2>2, <4>2, <4>3, <4>4, <4>5
    <3>3. \A i \in 1..n - 1 : i \in V => Count(V, i) = Count(W, old(i))
      <4> SUFFICES ASSUME NEW i \in 1..n - 1, i \in V PROVE Count(V, i) = Count(W, old(i))
        OBVIOUS
      <4>1. old(i) \in 1..n /\ Count(W, old(i)) \in 1..Len(args)
        BY <1>7, <1>9, <1>12
      <4> HIDE DEF old
      <4> QED BY <1>11, <2>2, <4>1
    <3> QED BY <1>1, <3>1, <3>2, <3>3
  <2> QED BY <2>1, <2>2
<1> HIDE DEF args2, old
<1>17. \A i, j \in 1..n - 1 : modes2[i] = modes2[j] => i = j
  <2> SUFFICES ASSUME NEW i \in 1..n - 1, NEW j \in 1..n - 1, modes2[i] = modes2[j] PROVE i = j
    OBVIOUS
  <2>1. old(i) = old(j)
    BY <1>1, <1>7
  <2> QED BY <1>6, <2>1 DEF old
<1>18. \A x : x \in DOMAIN s2 <=> \E i \in 1..n - 1 : modes2[i] = x
  <2> TAKE x
  <2>1. ASSUME x \in DOMAIN s2 PROVE \E i \in 1..n - 1 : modes2[i] = x
    <3>1. PICK i \in 1..n : modes[i] = x
      BY <1>1, <1>4, <2>1
    <3>2. i # pos
      BY <1>4, <2>1, <3>1 DEF m
    <3>3. PICK j \in 1..n - 1 : old(j) = i
      BY <1>8, <3>2
    <3> QED BY <1>7, <3>1, <3>3
  <2>2. ASSUME NEW i \in 1..n - 1, modes2[i] = x PROVE x \in DOMAIN s2
    <3>1. modes[old(i)] = x /\ old(i) \in 1..n /\ old(i) # pos
      BY <1>7, <2>2
    <3>2. x \in DOMAIN s /\ x # m
      BY <1>1, <1>6, <3>1 DEF m
    <3> QED BY <1>4, <3>2
  <2> QED BY <2>1, <2>2
<1>19. \A i \in 1..n - 1 : s2[modes2[i]] = IF i \in V THEN args2[Count(V, i)] ELSE None
  <2> TAKE i \in 1..n - 1
  <2>1. modes2[i] \in DOMAIN s2
    BY <1>18
  <2>2. s2[modes2[i]] = s[modes[old(i)]]
    BY <1>4, <1>7, <2>1
  <2>3. s[modes[old(i)]] = IF old(i) \in W THEN args[Count(W, old(i))] ELSE None
    BY <1>1, <1>7
  <2> QED BY <1>9, <1>16, <2>2, <2>3
<1>20. Says(modes2, args2, s2)
  <2>1. Len(args2) = Count(Having(modes2), Len(modes2))
    BY <1>3, <1>16 DEF V
  <2> QED BY <1>3, <1>16, <1>17, <1>18, <1>19, <2>1 DEF Says, V
<1> QED BY <1>20 DEF modes2, args2, s2, m, a, W

ChangeOK(c) ==
    /\ c.sign \in {"+", "-"} /\ c.mode \in Letters
    /\ IF HasArgument(c.sign, c.mode) THEN c.arg \in Words ELSE c.arg = None

\* record_chan_mode keeps the text true to what is set.
LEMMA RecordKeeps ==
    ASSUME NEW cur, NEW s, SettingOK(s), cur = [modes |-> cur.modes, args |-> cur.args], Says(cur.modes, cur.args, s),
           NEW c, ChangeOK(c), c.mode \in Settable,
           NEW r, r = record_chan_mode(cur, c.sign, c.mode, c.arg)
    PROVE  /\ r = [modes |-> r.modes, args |-> r.args]
           /\ Says(r.modes, r.args, IF c.sign = "+" THEN With(s, c.mode, c.arg) ELSE Without(s, c.mode))
<1> DEFINE m == c.mode
           modes == cur.modes
           args == cur.args
           n == Len(modes)
           W == Having(modes)
           pos == Position(cur, m)
           has == HasArgument("+", m)
<1>1. /\ modes \in Seq(Settable) /\ args \in Seq(Words) /\ n \in Nat
      /\ DOMAIN modes = 1..n
      /\ \A x : x \in DOMAIN s <=> \E i \in 1..n : modes[i] = x
  BY DEF Says
<1>2. /\ m \notin DOMAIN s => pos = 0
      /\ m \in DOMAIN s => pos \in 1..n /\ modes[pos] = m
  <2>1. m \in ToSet(modes) <=> m \in DOMAIN s
    BY <1>1 DEF ToSet
  <2>2. CASE m \notin DOMAIN s
    BY <2>1, <2>2 DEF Position
  <2>3. CASE m \in DOMAIN s
    <3>1. \E i \in DOMAIN modes : modes[i] = m
      BY <1>1, <2>3
    <3>2. pos = CHOOSE i \in DOMAIN modes : modes[i] = m
      BY <2>1, <2>3 DEF Position
    <3> QED BY <1>1, <2>3, <3>1, <3>2
  <2> QED BY <2>2, <2>3
<1>3. ArgumentOf(cur, pos) = Count(W, pos) /\ mode_has_arg("+", m) = has
  <2>1. {i \in DOMAIN cur.modes : mode_has_arg("+", cur.modes[i])} = W
    BY HasArgs DEF Having
  <2> QED BY <2>1, HasArgs DEF ArgumentOf
<1>4. c.sign = "+" => IF has THEN c.arg \in Words ELSE c.arg = None
  BY DEF ChangeOK
<1>5. c.sign \in {"+", "-"} /\ m \in Settable
  BY DEF ChangeOK
<1> HIDE DEF m, pos
<1>6. Says(modes, args, s)
  OBVIOUS
<1> HIDE DEF W, has, modes, args
<1>7. CASE c.sign = "+" /\ m \notin DOMAIN s
  <2>1. r = [modes |-> Append(cur.modes, m), args |-> IF mode_has_arg("+", m) THEN Append(cur.args, c.arg) ELSE cur.args]
    BY <1>2, <1>7 DEF record_chan_mode, m, pos
  <2>2. r = [modes |-> Append(modes, m), args |-> IF has THEN Append(args, c.arg) ELSE args]
    BY <1>3, <2>1 DEF modes, args
  <2>3. Says(Append(modes, m), IF has THEN Append(args, c.arg) ELSE args, With(s, m, c.arg))
    BY <1>4, <1>5, <1>6, <1>7, SaysMore DEF has
  <2>4. r.modes = Append(modes, m) /\ r.args = (IF has THEN Append(args, c.arg) ELSE args) /\ r = [modes |-> r.modes, args |-> r.args]
    BY <2>2
  <2>5. Says(r.modes, r.args, With(s, m, c.arg))
    BY <2>3, <2>4
  <2> QED BY <1>7, <2>4, <2>5 DEF m
<1>8. CASE c.sign = "+" /\ m \in DOMAIN s
  <2>1. r = [cur EXCEPT !.args = IF mode_has_arg("+", m) THEN ReplaceAt(@, ArgumentOf(cur, pos), c.arg) ELSE @]
    BY <1>2, <1>8 DEF record_chan_mode, m, pos
  <2>2. r = [modes |-> modes, args |-> IF has THEN [args EXCEPT ![Count(W, pos)] = c.arg] ELSE args]
    BY <1>3, <2>1 DEF modes, args, ReplaceAt
  <2>3. pos \in 1..Len(modes) /\ modes[pos] = m
    BY <1>2, <1>8 DEF n
  <2>4. Says(modes, IF has THEN [args EXCEPT ![Count(W, pos)] = c.arg] ELSE args, With(s, m, c.arg))
    <3>1. IF HasArgument("+", modes[pos]) THEN c.arg \in Words ELSE c.arg = None
      BY <1>4, <1>8, <2>3 DEF has
    <3>2. Says(modes, IF HasArgument("+", modes[pos]) THEN [args EXCEPT ![Count(Having(modes), pos)] = c.arg] ELSE args,
               With(s, modes[pos], c.arg))
      BY <1>6, <2>3, <3>1, SaysOther
    <3> QED BY <2>3, <3>2 DEF has, W
  <2> QED BY <1>8, <2>2, <2>4 DEF m
<1>9. CASE c.sign = "-" /\ m \in DOMAIN s
  <2>1. pos # 0 /\ c.sign # "+"
    BY <1>1, <1>2, <1>9
  <2>2. r = [modes |-> RemoveAt(cur.modes, pos), args |-> IF mode_has_arg("+", m) THEN RemoveAt(cur.args, ArgumentOf(cur, pos)) ELSE cur.args]
    BY <1>9, <2>1 DEF record_chan_mode, m, pos
  <2>3. r = [modes |-> RemoveAt(modes, pos), args |-> IF has THEN RemoveAt(args, Count(W, pos)) ELSE args]
    BY <1>3, <2>2 DEF modes, args
  <2>4. pos \in 1..Len(modes) /\ modes[pos] = m
    BY <1>2, <1>9 DEF n
  <2>5. Says(RemoveAt(modes, pos), IF has THEN RemoveAt(args, Count(W, pos)) ELSE args, Without(s, m))
    <3>1. Says(RemoveAt(modes, pos), IF HasArgument("+", modes[pos]) THEN RemoveAt(args, Count(Having(modes), pos)) ELSE args,
               Without(s, modes[pos]))
      BY <1>6, <2>4, SaysLess
    <3> QED BY <2>4, <3>1 DEF has, W
  <2> QED BY <2>1, <2>3, <2>5 DEF m
<1>10. CASE c.sign = "-" /\ m \notin DOMAIN s
  <2>1. r = cur /\ c.sign # "+"
    BY <1>2, <1>10 DEF record_chan_mode, m, pos
  <2>2. Without(s, m) = s
    <3>1. DOMAIN s \ {m} = DOMAIN s /\ s = [x \in DOMAIN s |-> s[x]]
      BY <1>10 DEF SettingOK
    <3> QED BY <3>1 DEF Without
  <2> QED BY <1>6, <2>1, <2>2 DEF m, modes, args
<1> QED BY <1>5, <1>7, <1>8, <1>9, <1>10

-----------------------------------------------------------------------------
(* One change, at the server and at the client.                            *)

WorldOK(w) ==
    /\ w = [level |-> w.level, setting |-> w.setting, masks |-> w.masks]
    /\ w.level \in [DOMAIN w.level -> SUBSET ToSet(NickModes)] /\ DOMAIN w.level \subseteq Users
    /\ SettingOK(w.setting)

ValueIn(s, m) == IF m \in DOMAIN s THEN s[m] ELSE None

\* What the client keeps is what the server has.
Agree(c, w) ==
    /\ c = [access |-> c.access, current |-> c.current, key |-> c.key, limit |-> c.limit]
    /\ c.access = w.level
    /\ c.current = [modes |-> c.current.modes, args |-> c.current.args]
    /\ Says(c.current.modes, c.current.args, w.setting)
    /\ c.key = ValueIn(w.setting, "k") /\ c.limit = ValueIn(w.setting, "l")

Set(s, c) == IF c.sign = "+" THEN With(s, c.mode, c.arg) ELSE Without(s, c.mode)

\* The three kinds of changes the server makes.
LEMMA AppliedIs ==
    ASSUME NEW w, WorldOK(w), NEW c, ChangeOK(c)
    PROVE  /\ IsNickMode(c.mode) =>
                 Applied(w, c) = [level |-> Updated(w.level, c.arg, c.mode, c.sign), setting |-> w.setting, masks |-> w.masks]
           /\ c.mode \in Settable => Applied(w, c) = [level |-> w.level, setting |-> Set(w.setting, c), masks |-> w.masks]
           /\ ~IsNickMode(c.mode) /\ c.mode \notin Settable =>
                 \E b : Applied(w, c) = [level |-> w.level, setting |-> w.setting, masks |-> b]
<1>1. w = [level |-> w.level, setting |-> w.setting, masks |-> w.masks]
  BY DEF WorldOK
<1>2. ~IsNickMode(c.mode) => (c.mode \in Settable <=> mode_chanmode_type(c.mode) >= 1)
  BY Typing DEF Settable, IsNickMode
<1>3. c.mode \in Settable => ~IsNickMode(c.mode)
  BY DEF Settable, IsNickMode
<1>4. CASE IsNickMode(c.mode)
  <2>1. Applied(w, c) =
          [level |-> IF c.arg \in DOMAIN w.level
                     THEN [w.level EXCEPT ![c.arg] = IF c.sign = "+" THEN @ \cup {c.mode} ELSE @ \ {c.mode}] ELSE w.level,
           setting |-> w.setting, masks |-> w.masks]
    BY <1>4 DEF Applied
  <2>2. Updated(w.level, c.arg, c.mode, c.sign) =
          IF c.arg \in DOMAIN w.level
          THEN [w.level EXCEPT ![c.arg] = IF c.sign = "+" THEN @ \cup {c.mode} ELSE @ \ {c.mode}] ELSE w.level
    BY DEF Updated
  <2> QED BY <1>3, <1>4, <2>1, <2>2
<1>5. CASE c.mode \in Settable
  <2>1. mode_chanmode_type(c.mode) >= 1 /\ mode_chanmode_type(c.mode) \in 1..3 /\ ~IsNickMode(c.mode)
    BY <1>2, <1>3, <1>5, Typing
  <2>2. Applied(w, c) = [level |-> w.level, setting |-> IF c.sign = "+" THEN With(w.setting, c.mode, c.arg) ELSE Without(w.setting, c.mode),
                         masks |-> w.masks]
    BY <2>1 DEF Applied
  <2> QED BY <1>5, <2>1, <2>2 DEF Set
<1>6. CASE ~IsNickMode(c.mode) /\ c.mode \notin Settable
  <2>1. mode_chanmode_type(c.mode) < 1
    BY <1>2, <1>6, Typing
  <2> DEFINE b == IF mode_chanmode_type(c.mode) # 0 THEN w.masks ELSE IF c.sign = "+" THEN w.masks \cup {c.arg} ELSE w.masks \ {c.arg}
  <2>2. Applied(w, c) = [level |-> w.level, setting |-> w.setting, masks |-> b]
    BY <1>6, <2>1 DEF Applied
  <2> QED BY <1>6, <2>2
<1> QED BY <1>4, <1>5, <1>6

LEMMA SetKeeps ==
    ASSUME NEW s, SettingOK(s), NEW c, ChangeOK(c), c.mode \in Settable
    PROVE  /\ SettingOK(Set(s, c))
           /\ \A m : ValueIn(Set(s, c), m) =
                        IF m = c.mode THEN IF c.sign = "+" THEN c.arg ELSE None ELSE ValueIn(s, m)
<1> DEFINE t == Set(s, c)
<1>1. DOMAIN s \subseteq Settable /\ \A m \in DOMAIN s : IF HasArgument("+", m) THEN s[m] \in Words ELSE s[m] = None
  BY DEF SettingOK
<1>2. CASE c.sign = "+"
  <2>1. t = [y \in DOMAIN s \cup {c.mode} |-> IF y = c.mode THEN c.arg ELSE s[y]]
    BY <1>2 DEF Set, With
  <2>2. IF HasArgument("+", c.mode) THEN c.arg \in Words ELSE c.arg = None
    BY <1>2 DEF ChangeOK
  <2> HIDE DEF t
  <2>3. t = [m \in DOMAIN t |-> t[m]] /\ DOMAIN t = DOMAIN s \cup {c.mode}
    BY <2>1
  <2>4. \A m \in DOMAIN t : t[m] = IF m = c.mode THEN c.arg ELSE s[m]
    BY <2>1
  <2>5. SettingOK(t)
    BY <1>1, <2>2, <2>3, <2>4 DEF SettingOK
  <2>6. \A m : ValueIn(t, m) = IF m = c.mode THEN c.arg ELSE ValueIn(s, m)
    BY <2>3, <2>4 DEF ValueIn
  <2> QED BY <1>2, <2>5, <2>6 DEF t
<1>3. CASE c.sign # "+"
  <2>1. t = [y \in DOMAIN s \ {c.mode} |-> s[y]]
    BY <1>3 DEF Set, Without
  <2> HIDE DEF t
  <2>2. t = [m \in DOMAIN t |-> t[m]] /\ DOMAIN t = DOMAIN s \ {c.mode}
    BY <2>1
  <2>3. \A m \in DOMAIN t : t[m] = s[m]
    BY <2>1
  <2>4. SettingOK(t)
    BY <1>1, <2>2, <2>3 DEF SettingOK
  <2>5. \A m : ValueIn(t, m) = IF m = c.mode THEN None ELSE ValueIn(s, m)
    BY <2>2, <2>3 DEF ValueIn
  <2> QED BY <1>3, <2>4, <2>5 DEF t
<1> QED BY <1>2, <1>3

LEMMA UpdatedKeeps ==
    ASSUME NEW us, us \in [DOMAIN us -> SUBSET ToSet(NickModes)], DOMAIN us \subseteq Users,
           NEW u, NEW m \in ToSet(NickModes), NEW sign
    PROVE  LET r == Updated(us, u, m, sign)
           IN r \in [DOMAIN r -> SUBSET ToSet(NickModes)] /\ DOMAIN r = DOMAIN us
<1> DEFINE M == ToSet(NickModes)
<1>1. CASE u \notin DOMAIN us
  BY <1>1 DEF Updated
<1>2. CASE u \in DOMAIN us
  <2>1. Updated(us, u, m, sign) = [us EXCEPT ![u] = IF sign = "+" THEN us[u] \cup {m} ELSE us[u] \ {m}]
    BY <1>2 DEF Updated
  <2>2. (IF sign = "+" THEN us[u] \cup {m} ELSE us[u] \ {m}) \in SUBSET M
    BY <1>2
  <2> HIDE DEF M
  <2>3. us \in [DOMAIN us -> SUBSET M]
    BY DEF M
  <2>4. [us EXCEPT ![u] = IF sign = "+" THEN us[u] \cup {m} ELSE us[u] \ {m}] \in [DOMAIN us -> SUBSET M]
    BY <1>2, <2>2, <2>3
  <2> QED BY <2>1, <2>4 DEF M
<1> QED BY <1>1, <1>2

LEMMA WorldKeeps ==
    ASSUME NEW w, WorldOK(w), NEW c, ChangeOK(c)
    PROVE  WorldOK(Applied(w, c))
<1> DEFINE x == Applied(w, c)
<1>1. /\ w.level \in [DOMAIN w.level -> SUBSET ToSet(NickModes)] /\ DOMAIN w.level \subseteq Users
      /\ SettingOK(w.setting)
  BY DEF WorldOK
<1>2. CASE IsNickMode(c.mode)
  <2>1. x = [level |-> Updated(w.level, c.arg, c.mode, c.sign), setting |-> w.setting, masks |-> w.masks]
    BY <1>2, AppliedIs
  <2>2. c.mode \in ToSet(NickModes)
    BY <1>2 DEF IsNickMode
  <2> DEFINE l == Updated(w.level, c.arg, c.mode, c.sign)
  <2>3. l \in [DOMAIN l -> SUBSET ToSet(NickModes)] /\ DOMAIN l = DOMAIN w.level
    BY <1>1, <2>2, UpdatedKeeps
  <2> HIDE DEF l, x
  <2>4. x.level = l /\ x.setting = w.setting /\ x.masks = w.masks /\ x = [level |-> x.level, setting |-> x.setting, masks |-> x.masks]
    BY <2>1 DEF l
  <2>5. WorldOK(x)
    BY <1>1, <2>3, <2>4 DEF WorldOK
  <2> QED BY <2>5 DEF x
<1>3. CASE c.mode \in Settable
  <2>1. x = [level |-> w.level, setting |-> Set(w.setting, c), masks |-> w.masks]
    BY <1>3, AppliedIs
  <2>2. SettingOK(Set(w.setting, c))
    BY <1>1, <1>3, SetKeeps
  <2> HIDE DEF x
  <2>3. x.level = w.level /\ x.setting = Set(w.setting, c) /\ x = [level |-> x.level, setting |-> x.setting, masks |-> x.masks]
    BY <2>1
  <2>4. WorldOK(x)
    BY <1>1, <2>2, <2>3 DEF WorldOK
  <2> QED BY <2>4 DEF x
<1>4. CASE ~IsNickMode(c.mode) /\ c.mode \notin Settable
  <2>1. PICK b : x = [level |-> w.level, setting |-> w.setting, masks |-> b]
    BY <1>4, AppliedIs
  <2> HIDE DEF x
  <2>2. x.level = w.level /\ x.setting = w.setting /\ x = [level |-> x.level, setting |-> x.setting, masks |-> x.masks]
    BY <2>1
  <2>3. WorldOK(x)
    BY <1>1, <2>2 DEF WorldOK
  <2> QED BY <2>3 DEF x
<1> QED BY <1>2, <1>3, <1>4

\* What the client makes of a change is what the server has made of it.
LEMMA SingleKeeps ==
    ASSUME NEW w, WorldOK(w), NEW c, ChangeOK(c), NEW a, Agree(a, w)
    PROVE  Agree(handle_single_mode(a, c, "MODE"), Applied(w, c))
<1> DEFINE x == Applied(w, c)
           r == handle_single_mode(a, c, "MODE")
           value == IF c.sign = "+" THEN c.arg ELSE None
<1>1. /\ a.access = w.level /\ a.current = [modes |-> a.current.modes, args |-> a.current.args]
      /\ Says(a.current.modes, a.current.args, w.setting)
      /\ a.key = ValueIn(w.setting, "k") /\ a.limit = ValueIn(w.setting, "l")
  BY DEF Agree
<1>2. SettingOK(w.setting)
  BY DEF WorldOK
<1>3. /\ r = [access |-> r.access, current |-> r.current, key |-> r.key, limit |-> r.limit]
      /\ r.access = IF IsNickMode(c.mode) THEN Updated(a.access, c.arg, c.mode, c.sign) ELSE a.access
      /\ r.current = IF ~IsNickMode(c.mode) /\ mode_chanmode_type(c.mode) >= 1
                     THEN record_chan_mode(a.current, c.sign, c.mode, c.arg) ELSE a.current
      /\ r.key = IF c.mode = "k" THEN value ELSE a.key
      /\ r.limit = IF c.mode = "l" THEN value ELSE a.limit
  BY DEF handle_single_mode
<1>4. c.mode \in {"k", "l"} => c.mode \in Settable
  BY ServerAssumption DEF ChangeOK, Settable, Letters
<1>5. ~IsNickMode(c.mode) => (c.mode \in Settable <=> mode_chanmode_type(c.mode) >= 1)
  BY Typing DEF Settable, IsNickMode
<1>6. c.mode \in Settable => ~IsNickMode(c.mode)
  BY DEF Settable, IsNickMode
<1> HIDE DEF r, x
<1>7. CASE IsNickMode(c.mode)
  <2>1. x = [level |-> Updated(w.level, c.arg, c.mode, c.sign), setting |-> w.setting, masks |-> w.masks]
    BY <1>7, AppliedIs DEF x
  <2>2. x.level = Updated(w.level, c.arg, c.mode, c.sign) /\ x.setting = w.setting
    BY <2>1
  <2>3. c.mode # "k" /\ c.mode # "l"
    BY <1>4, <1>6, <1>7
  <2>4. r.access = x.level /\ r.current = a.current /\ r.key = a.key /\ r.limit = a.limit
    BY <1>1, <1>3, <1>7, <2>2, <2>3
  <2>5. Agree(r, x)
    BY <1>1, <1>3, <2>2, <2>4 DEF Agree
  <2> QED BY <2>5 DEF r, x
<1>8. CASE c.mode \in Settable
  <2>1. x = [level |-> w.level, setting |-> Set(w.setting, c), masks |-> w.masks]
    BY <1>8, AppliedIs DEF x
  <2>2. x.level = w.level /\ x.setting = Set(w.setting, c)
    BY <2>1
  <2>3. r.access = a.access /\ r.current = record_chan_mode(a.current, c.sign, c.mode, c.arg)
    BY <1>3, <1>5, <1>6, <1>8
  <2>4. /\ r.current = [modes |-> r.current.modes, args |-> r.current.args]
        /\ Says(r.current.modes, r.current.args, Set(w.setting, c))
    BY <1>1, <1>2, <1>8, <2>3, RecordKeeps DEF Set
  <2>5. \A m : ValueIn(Set(w.setting, c), m) = IF m = c.mode THEN value ELSE ValueIn(w.setting, m)
    BY <1>2, <1>8, SetKeeps
  <2>6. r.key = ValueIn(x.setting, "k") /\ r.limit = ValueIn(x.setting, "l")
    BY <1>1, <1>3, <2>2, <2>5
  <2>7. Agree(r, x)
    BY <1>1, <1>3, <2>2, <2>3, <2>4, <2>6 DEF Agree
  <2> QED BY <2>7 DEF r, x
<1>9. CASE ~IsNickMode(c.mode) /\ c.mode \notin Settable
  <2>1. PICK b : x = [level |-> w.level, setting |-> w.setting, masks |-> b]
    BY <1>9, AppliedIs DEF x
  <2>2. x.level = w.level /\ x.setting = w.setting
    BY <2>1
  <2>3. r.access = a.access /\ r.current = a.current /\ r.key = a.key /\ r.limit = a.limit
    BY <1>3, <1>4, <1>5, <1>9
  <2>4. Agree(r, x)
    BY <1>1, <1>3, <2>2, <2>3 DEF Agree
  <2> QED BY <2>4 DEF r, x
<1> QED BY <1>7, <1>8, <1>9

-----------------------------------------------------------------------------
(* A line, at the client.                                                  *)

Start(c, line) ==
    [access |-> c.access,
     current |-> IF line.kind = "324" THEN [modes |-> [i \in DOMAIN line.modes |-> line.modes[i].mode], args |-> line.args] ELSE c.current,
     key |-> c.key, limit |-> c.limit]

\* h: what the client keeps after each of the changes.
Steps(h, start, changes, kind) ==
    h = [i \in 0..Len(changes) |-> IF i = 0 THEN start ELSE handle_single_mode(h[i - 1], changes[i], kind)]

\* A table of steps is the one handle_mode makes.
LEMMA HandleIs ==
    ASSUME NEW ch, Proper(ch), NEW line, Carries(line, ch), NEW c,
           NEW h, Steps(h, Start(c, line), ch, line.kind)
    PROVE  handle_mode(c, line) = h[Len(ch)]
<1> DEFINE n == Len(ch)
           start == Start(c, line)
           g == CHOOSE g : Steps(g, start, ch, line.kind)
<1>1. n \in Nat /\ Len(line.modes) = n
  BY ProperIs, ProperLine DEF CarriesWell
<1>2. Paired(line, {i \in DOMAIN line.modes : Len(line.args) = Len(line.modes)
                                              \/ mode_has_arg(line.modes[i].sign, line.modes[i].mode)}) = ch
  BY PairedBack
<1>3. handle_mode(c, line) = g[n]
  BY <1>1, <1>2 DEF handle_mode, Steps, Start
<1>4. Steps(g, start, ch, line.kind)
  OBVIOUS
<1> HIDE DEF g, start
<1>5. \A i \in 0..n : h[i] = IF i = 0 THEN start ELSE handle_single_mode(h[i - 1], ch[i], line.kind)
  BY DEF Steps, start
<1>6. \A i \in 0..n : g[i] = IF i = 0 THEN start ELSE handle_single_mode(g[i - 1], ch[i], line.kind)
  BY <1>4 DEF Steps
<1> DEFINE T == {i \in Nat : i <= n => g[i] = h[i]}
<1>7. 0 \in T
  <2>1. 0 \in 0..n
    BY <1>1
  <2> QED BY <1>5, <1>6, <2>1
<1>8. ASSUME NEW i \in Nat, i \in T PROVE i + 1 \in T
  <2> SUFFICES ASSUME i + 1 <= n PROVE g[i + 1] = h[i + 1]
    OBVIOUS
  <2>1. g[i] = h[i]
    BY <1>1, <1>8
  <2>2. i + 1 \in 0..n /\ i + 1 # 0 /\ (i + 1) - 1 = i
    BY <1>1
  <2> QED BY <1>5, <1>6, <2>1, <2>2
<1>9. n \in T
  <2> HIDE DEF T
  <2> QED BY <1>1, <1>7, <1>8, NatInduct
<1> QED BY <1>1, <1>3, <1>9

-----------------------------------------------------------------------------
(* A line, at the server.                                                  *)

Serves(ch, g) == g = [i \in 0..Len(ch) |-> IF i = 0 THEN [w |-> World, told |-> <<>>] ELSE Served(g[i - 1], ch[i])]

LEMMA ServesExist ==
    ASSUME NEW ch, Len(ch) \in Nat
    PROVE  \E g : Serves(ch, g)
<1> DEFINE start == [w |-> World, told |-> <<>>]
           Upto(n, g) == g = [i \in 0..n |-> IF i = 0 THEN start ELSE Served(g[i - 1], ch[i])]
           T == {n \in Nat : \E g : Upto(n, g)}
<1>0. \E g : g = start
  OBVIOUS
<1>1. 0 \in T
  <2>1. Upto(0, [i \in 0..0 |-> start])
    OBVIOUS
  <2> QED BY <2>1
<1> HIDE DEF start
<1>2. ASSUME NEW n \in Nat, n \in T PROVE n + 1 \in T
  <2>1. PICK g : Upto(n, g)
    BY <1>2
  <2> DEFINE h == [i \in 0..(n+1) |-> IF i <= n THEN g[i] ELSE Served(g[i - 1], ch[i])]
  <2>2. \A i \in 0..n : g[i] = IF i = 0 THEN start ELSE Served(g[i - 1], ch[i])
    BY <2>1
  <2>3. ASSUME NEW i \in 0..(n+1)
        PROVE  h[i] = IF i = 0 THEN start ELSE Served(h[i - 1], ch[i])
    <3>1. i # 0 => i - 1 \in 0..(n+1) /\ i - 1 <= n /\ h[i-1] = g[i-1]
      OBVIOUS
    <3>2. CASE i <= n
      <4>1. h[i] = g[i] /\ i \in 0..n
        BY <3>2
      <4> HIDE DEF h
      <4> QED BY <2>2, <3>1, <4>1
    <3>3. CASE ~(i <= n)
      <4>1. h[i] = IF i <= n THEN g[i] ELSE Served(g[i - 1], ch[i])
        OBVIOUS
      <4>2. i # 0
        BY <3>3
      <4> HIDE DEF h
      <4> QED BY <3>1, <3>3, <4>1, <4>2
    <3> QED BY <3>2, <3>3
  <2>4. Upto(n+1, h)
    <3>1. h = [i \in 0..(n+1) |-> h[i]]
      OBVIOUS
    <3> HIDE DEF h
    <3> QED BY <2>3, <3>1
  <2>5. \E f : Upto(n+1, f)
    <3> HIDE DEF h, Upto
    <3> QED BY <2>4
  <2> HIDE DEF Upto
  <2> QED BY <2>5
<1> HIDE DEF T
<1>3. Len(ch) \in T
  BY <1>1, <1>2, NatInduct
<1> QED BY <1>3 DEF T, Serves, start

LEMMA EffectTable ==
    ASSUME NEW ch, Len(ch) \in Nat
    PROVE  \E g : /\ Effect(ch) = g[Len(ch)]
                  /\ \A i \in 0..Len(ch) : g[i] = IF i = 0 THEN [w |-> World, told |-> <<>>] ELSE Served(g[i - 1], ch[i])
<1> DEFINE g == CHOOSE g : Serves(ch, g)
<1>1. Serves(ch, g)
  BY ServesExist
<1>2. Effect(ch) = g[Len(ch)]
  BY DEF Effect, Serves
<1> HIDE DEF g
<1>3. \A i \in 0..Len(ch) : g[i] = IF i = 0 THEN [w |-> World, told |-> <<>>] ELSE Served(g[i - 1], ch[i])
  BY <1>1 DEF Serves
<1> QED BY <1>2, <1>3

LEMMA ProperNone == Proper(<<>>)
<1>1. <<>> \in Seq(Asked) /\ DOMAIN <<>> = {}
  OBVIOUS
<1> QED BY <1>1 DEF Proper, Asked

\* The changes told, and x after them.
OneMore(q, told, x) ==
    /\ Proper(q) /\ Len(q) = Len(told) + 1 /\ q[Len(told) + 1] = x /\ q # <<>>
    /\ \A j \in 1..Len(told) : q[j] = told[j]

LEMMA ProperMore ==
    ASSUME NEW told, NEW ch, Proper(told), Proper(ch), NEW i \in 1..Len(ch)
    PROVE  OneMore(Append(told, ch[i]), told, ch[i])
<1> DEFINE x == ch[i]
           q == Append(told, x)
<1>1. x \in Asked /\ (x.arg # None <=> HasArgument(x.sign, x.mode))
  <2>1. i \in DOMAIN ch
    BY ProperIs
  <2> QED BY <2>1, ProperIs DEF Proper
<1>2. told \in Seq(Asked) /\ \A j \in 1..Len(told) : told[j].arg # None <=> HasArgument(told[j].sign, told[j].mode)
  <2>1. told \in Seq(Asked) /\ DOMAIN told = 1..Len(told)
    BY ProperIs
  <2> QED BY <2>1 DEF Proper
<1> HIDE DEF x
<1>3. /\ q \in Seq(Asked) /\ Len(q) = Len(told) + 1 /\ q[Len(told) + 1] = x /\ Len(told) \in Nat
      /\ \A j \in 1..Len(told) : q[j] = told[j]
  BY <1>1, <1>2
<1> HIDE DEF q
<1>4. \A j \in DOMAIN q : q[j].arg # None <=> HasArgument(q[j].sign, q[j].mode)
  <2> TAKE j \in DOMAIN q
  <2>1. j \in 1..Len(told) + 1
    BY <1>3
  <2>2. CASE j = Len(told) + 1
    BY <1>1, <1>3, <2>2
  <2>3. CASE j # Len(told) + 1
    <3>1. j \in 1..Len(told)
      BY <1>3, <2>1, <2>3
    <3>2. q[j] = told[j] /\ (told[j].arg # None <=> HasArgument(told[j].sign, told[j].mode))
      BY <1>2, <1>3, <3>1
    <3> QED BY <3>2
  <2> QED BY <2>2, <2>3
<1>5. Proper(q) /\ q # <<>>
  <2>1. Len(<<>>) = 0
    OBVIOUS
  <2> QED BY <1>3, <1>4, <2>1 DEF Proper, Asked
<1> QED BY <1>3, <1>5 DEF OneMore, q, x

LEMMA ProperChange ==
    ASSUME NEW ch, Proper(ch), NEW i \in 1..Len(ch)
    PROVE  ChangeOK(ch[i])
<1>1. /\ ch[i].mode \in Letters /\ ch[i].sign \in {"+", "-"}
      /\ IF i \in Given(ch) THEN ch[i].arg \in Words ELSE ch[i].arg = None
      /\ i \in Given(ch) <=> HasArgument(ch[i].sign, ch[i].mode)
  BY ProperIs
<1> QED BY <1>1 DEF ChangeOK

\* told is what the client, when it knew the world, has to read to know w.
Tells(a, told, w) ==
    /\ WorldOK(w) /\ Proper(told)
    /\ told = <<>> => w = World
    /\ \E h : Steps(h, a, told, "MODE") /\ Agree(h[Len(told)], w)

LEMMA TellsMore ==
    ASSUME NEW a, NEW ch, Proper(ch), NEW i \in 1..Len(ch), NEW r, Tells(a, r.told, r.w)
    PROVE  Tells(a, Served(r, ch[i]).told, Served(r, ch[i]).w)
<1> DEFINE c == ch[i]
           w == Applied(r.w, c)
           told == r.told
<1>1. WorldOK(r.w) /\ Proper(told) /\ (told = <<>> => r.w = World)
  BY DEF Tells
<1>2. PICK h : Steps(h, a, told, "MODE") /\ Agree(h[Len(told)], r.w)
  BY DEF Tells
<1>3. ChangeOK(c)
  BY ProperChange
<1>4. WorldOK(w)
  BY <1>1, <1>3, WorldKeeps
<1>5. Served(r, c).w = w /\ Served(r, c).told = IF w = r.w THEN told ELSE Append(told, c)
  BY DEF Served
<1>6. CASE w = r.w
  BY <1>5, <1>6
<1>7. CASE w # r.w
  <2> DEFINE q == Append(told, c)
             n == Len(told)
             k == [j \in 0..n + 1 |-> IF j <= n THEN h[j] ELSE handle_single_mode(h[n], c, "MODE")]
  <2>1. Agree(handle_single_mode(h[n], c, "MODE"), w)
    BY <1>1, <1>2, <1>3, SingleKeeps
  <2>2. Proper(q) /\ Len(q) = n + 1 /\ q[n + 1] = c /\ q # <<>> /\ \A j \in 1..n : q[j] = told[j]
    <3>1. OneMore(q, told, c)
      BY <1>1, ProperMore
    <3> QED BY <3>1 DEF OneMore
  <2>3. n \in Nat
    BY <1>1, ProperIs
  <2>4. \A j \in 0..n : h[j] = IF j = 0 THEN a ELSE handle_single_mode(h[j - 1], told[j], "MODE")
    BY <1>2 DEF Steps
  <2> HIDE DEF q, c, w, told
  <2>5. ASSUME NEW j \in 0..n + 1
        PROVE  k[j] = IF j = 0 THEN a ELSE handle_single_mode(k[j - 1], q[j], "MODE")
    <3>1. CASE j = 0
      <4>1. k[j] = h[0] /\ 0 \in 0..n
        BY <2>3, <3>1
      <4> QED BY <2>4, <3>1, <4>1
    <3>2. CASE j \in 1..n
      <4>1. k[j] = h[j] /\ k[j - 1] = h[j - 1] /\ j # 0 /\ j \in 0..n
        BY <2>3, <3>2
      <4> HIDE DEF k
      <4> QED BY <2>2, <2>4, <3>2, <4>1
    <3>3. CASE j = n + 1
      <4>1. k[j] = handle_single_mode(h[n], c, "MODE") /\ k[j - 1] = h[n] /\ j # 0
        <5>1. j \in 0..n + 1 /\ j - 1 \in 0..n + 1 /\ ~(j <= n) /\ j - 1 <= n /\ j - 1 = n /\ j # 0
          BY <2>3, <3>3
        <5> QED BY <5>1
      <4>2. q[j] = c
        BY <2>2, <3>3
      <4> HIDE DEF k
      <4> QED BY <4>1, <4>2
    <3> QED BY <2>3, <3>1, <3>2, <3>3
  <2>6. k = [j \in 0..n + 1 |-> k[j]] /\ k[n + 1] = handle_single_mode(h[n], c, "MODE")
    BY <2>3
  <2> HIDE DEF k
  <2>7. Steps(k, a, q, "MODE")
    BY <2>2, <2>5, <2>6 DEF Steps
  <2>8. Agree(k[Len(q)], w)
    BY <2>1, <2>2, <2>6
  <2>9. Tells(a, q, w)
    BY <1>4, <2>2, <2>7, <2>8 DEF Tells
  <2> QED BY <1>5, <1>7, <2>9 DEF q, c, w, told
<1> QED BY <1>6, <1>7

\* The client reads what the server has told, and knows what the server knows.
LEMMA EffectTells ==
    ASSUME NEW ch, Proper(ch), WorldOK(World), NEW a, Agree(a, World)
    PROVE  /\ WorldOK(Effect(ch).w)
           /\ Effect(ch).told = <<>> => Effect(ch).w = World
           /\ Proper(Effect(ch).told) /\ Agree(handle_mode(a, Line(Effect(ch).told)), Effect(ch).w)
<1> DEFINE e == Effect(ch)
           start == [w |-> World, told |-> <<>>]
<1>1. Len(ch) \in Nat
  BY ProperIs
<1>2. PICK g : /\ e = g[Len(ch)]
               /\ \A i \in 0..Len(ch) : g[i] = IF i = 0 THEN start ELSE Served(g[i - 1], ch[i])
  BY <1>1, EffectTable
<1> HIDE DEF e
<1>3. start.w = World /\ start.told = <<>>
  OBVIOUS
<1> HIDE DEF start
<1> DEFINE T == {i \in Nat : i <= Len(ch) => Tells(a, g[i].told, g[i].w)}
<1>4. 0 \in T
  <2>1. g[0] = start
    BY <1>1, <1>2
  <2> DEFINE h == [j \in 0..0 |-> a]
  <2>2. h = [j \in 0..Len(<<>>) |-> IF j = 0 THEN a ELSE handle_single_mode(h[j - 1], <<>>[j], "MODE")] /\ h[Len(<<>>)] = a
    OBVIOUS
  <2> HIDE DEF h
  <2>3. Steps(h, a, <<>>, "MODE") /\ h[Len(<<>>)] = a
    BY <2>2 DEF Steps
  <2>4. Tells(a, <<>>, World)
    BY <2>3, ProperNone DEF Tells
  <2> QED BY <1>3, <2>1, <2>4
<1>5. ASSUME NEW i \in Nat, i \in T PROVE i + 1 \in T
  <2> SUFFICES ASSUME i + 1 <= Len(ch) PROVE Tells(a, g[i + 1].told, g[i + 1].w)
    OBVIOUS
  <2>1. Tells(a, g[i].told, g[i].w)
    BY <1>1, <1>5
  <2>2. g[i + 1] = Served(g[i], ch[i + 1]) /\ i + 1 \in 1..Len(ch)
    <3>1. i + 1 \in 0..Len(ch) /\ i + 1 # 0 /\ (i + 1) - 1 = i /\ i + 1 \in 1..Len(ch)
      BY <1>1
    <3> QED BY <1>2, <3>1
  <2> QED BY <2>1, <2>2, TellsMore
<1>6. Tells(a, e.told, e.w)
  <2>1. Len(ch) \in T
    <3> HIDE DEF T
    <3> QED BY <1>1, <1>4, <1>5, NatInduct
  <2> QED BY <1>1, <1>2, <2>1
<1>7. PICK h : Steps(h, a, e.told, "MODE") /\ Agree(h[Len(e.told)], e.w)
  BY <1>6 DEF Tells
<1>8. WorldOK(e.w) /\ Proper(e.told) /\ (e.told = <<>> => e.w = World)
  BY <1>6 DEF Tells
<1>9. Start(a, Line(e.told)) = a
  <2>1. a = [access |-> a.access, current |-> a.current, key |-> a.key, limit |-> a.limit] /\ Line(e.told).kind # "324"
    BY DEF Agree, Line
  <2> QED BY <2>1 DEF Start
<1>10. handle_mode(a, Line(e.told)) = h[Len(e.told)]
  <2>1. Carries(Line(e.told), e.told)
    BY DEF Carries
  <2>2. Steps(h, Start(a, Line(e.told)), e.told, Line(e.told).kind)
    <3>1. Line(e.told).kind = "MODE"
      BY DEF Line
    <3> QED BY <1>7, <1>9, <3>1
  <2> QED BY <1>8, <2>1, <2>2, HandleIs
<1> QED BY <1>7, <1>8, <1>10 DEF e

LEMMA OrderIs ==
    ASSUME NEW S, IsFiniteSet(S), NEW q \in Orders(S)
    PROVE  /\ q \in Seq(S) /\ Len(q) \in Nat /\ DOMAIN q = 1..Len(q) /\ \A i \in 1..Len(q) : q[i] \in S
           /\ \A i, j \in 1..Len(q) : q[i] = q[j] => i = j
           /\ \A x : x \in S <=> \E i \in 1..Len(q) : q[i] = x
<1>1. Cardinality(S) \in Nat
  BY FS_CardinalityType
<1>2. q \in [1..Cardinality(S) -> S] /\ IsInjective(q) /\ ToSet(q) = S
  BY DEF Orders
<1>3. q \in Seq(S) /\ DOMAIN q = 1..Len(q) /\ Len(q) \in Nat
  BY <1>1, <1>2
<1>4. \A i, j \in 1..Len(q) : q[i] = q[j] => i = j
  BY <1>2, <1>3 DEF IsInjective
<1>5. \A x : x \in S <=> \E i \in 1..Len(q) : q[i] = x
  BY <1>2, <1>3 DEF ToSet
<1> QED BY <1>3, <1>4, <1>5

\* What the server answers to a question, as the changes it names.
Named(ms) == [i \in DOMAIN ms |-> Change("+", ms[i], setting[ms[i]])]

LEMMA NamedProper ==
    ASSUME WorldOK(World), NEW ms \in Orders(DOMAIN setting)
    PROVE  /\ Proper(Named(ms)) /\ Len(Named(ms)) = Len(ms) /\ Given(Named(ms)) = Having(ms)
           /\ ms \in Seq(Settable)
           /\ \A i \in 1..Len(ms) : Named(ms)[i] = [sign |-> "+", mode |-> ms[i], arg |-> setting[ms[i]]]
<1> DEFINE ch == Named(ms)
           n == Len(ms)
<1>1. SettingOK(setting)
  BY DEF WorldOK, World
<1>2. /\ DOMAIN setting \subseteq Settable
      /\ \A m \in DOMAIN setting : IF HasArgument("+", m) THEN setting[m] \in Words ELSE setting[m] = None
  BY <1>1 DEF SettingOK
<1>3. IsFiniteSet(DOMAIN setting)
  <2>1. DOMAIN setting \in SUBSET (TypeB \cup TypeC \cup TypeD)
    BY <1>2 DEF Settable
  <2> QED BY <2>1, ServerAssumption, FS_Subset
<1>4. /\ ms \in Seq(DOMAIN setting) /\ n \in Nat /\ DOMAIN ms = 1..n /\ \A i \in 1..n : ms[i] \in DOMAIN setting
  BY <1>3, OrderIs
<1>5. ms \in Seq(Settable)
  BY <1>2, <1>4
<1>6. ch = [i \in 1..n |-> [sign |-> "+", mode |-> ms[i], arg |-> setting[ms[i]]]]
  BY <1>4 DEF Named, Change
<1> HIDE DEF ch, n
<1>7. \A i \in 1..n : /\ ms[i] \in Letters
                      /\ IF HasArgument("+", ms[i]) THEN setting[ms[i]] \in Words ELSE setting[ms[i]] = None
  BY <1>2, <1>4 DEF Settable, Letters
<1>8. \A i \in 1..n : [sign |-> "+", mode |-> ms[i], arg |-> setting[ms[i]]] \in Asked
  BY <1>7 DEF Asked
<1>9. ch \in Seq(Asked) /\ Len(ch) = n /\ DOMAIN ch = 1..n
  BY <1>4, <1>6, <1>8
<1>10. \A i \in 1..n : ch[i] = [sign |-> "+", mode |-> ms[i], arg |-> setting[ms[i]]]
  BY <1>6
<1>11. \A i \in 1..n : ch[i].arg # None <=> HasArgument("+", ms[i])
  <2> TAKE i \in 1..n
  <2>1. ch[i].arg = setting[ms[i]]
    <3>1. ch[i] = [sign |-> "+", mode |-> ms[i], arg |-> setting[ms[i]]]
      BY <1>10
    <3> QED BY <3>1
  <2>2. None \notin Words
    BY WordsAssumption
  <2> QED BY <1>7, <2>1, <2>2
<1>12. \A i \in DOMAIN ch : ch[i].arg # None <=> HasArgument(ch[i].sign, ch[i].mode)
  <2> TAKE i \in DOMAIN ch
  <2>1. ch[i].sign = "+" /\ ch[i].mode = ms[i] /\ (ch[i].arg # None <=> HasArgument("+", ms[i]))
    BY <1>9, <1>10, <1>11
  <2> QED BY <2>1
<1>13. Proper(ch)
  BY <1>9, <1>12 DEF Proper, Asked
<1>14. Given(ch) = Having(ms)
  BY <1>4, <1>9, <1>11 DEF Given, Having
<1> QED BY <1>5, <1>9, <1>10, <1>13, <1>14 DEF ch, n

\* The client reads what is set, and knows it.
LEMMA SettingsTell ==
    ASSUME WorldOK(World), NEW ms \in Orders(DOMAIN setting), NEW a, Agree(a, World)
    PROVE  Agree(handle_mode(a, Settings(ms)), World)
<1> DEFINE ch == Named(ms)
           line == Settings(ms)
           n == Len(ms)
           cur == [modes |-> ms, args |-> line.args]
           c == [access |-> a.access, current |-> cur, key |-> a.key, limit |-> a.limit]
           h == [j \in 0..n |-> c]
<1>1. line.modes = Line(ch).modes /\ line.args = Line(ch).args /\ line.kind = "324"
  BY DEF Settings, Named
<1>2. Carries(line, ch)
  BY <1>1 DEF Carries
<1>3. /\ Proper(ch) /\ Len(ch) = n /\ Given(ch) = Having(ms) /\ ms \in Seq(Settable)
      /\ \A i \in 1..n : ch[i] = [sign |-> "+", mode |-> ms[i], arg |-> setting[ms[i]]]
  BY NamedProper
<1>4. CarriesWell(line, ch)
  BY <1>2, <1>3, ProperLine
<1>5. /\ DOMAIN line.modes = 1..n /\ \A i \in 1..n : line.modes[i].mode = ms[i]
      /\ line.args \in Seq(Words) /\ Len(line.args) = Cardinality(Having(ms))
      /\ \A i \in Having(ms) : line.args[Count(Having(ms), i)] = setting[ms[i]]
  <2> HIDE DEF line, ch
  <2>1. Having(ms) \in SUBSET (1..n)
    BY <1>3, HavingIs
  <2> HIDE DEF n
  <2> QED BY <1>3, <1>4, <2>1 DEF CarriesWell
<1>6. n \in Nat /\ ms = [i \in 1..n |-> ms[i]]
  BY <1>3
<1>7. [i \in DOMAIN line.modes |-> line.modes[i].mode] = ms
  BY <1>5, <1>6
<1>8. Start(a, line) = c
  BY <1>1, <1>7 DEF Start
<1>9. /\ World.level = level /\ World.setting = setting /\ SettingOK(setting)
  BY DEF WorldOK, World
<1>10. /\ a.access = level /\ a.key = ValueIn(setting, "k") /\ a.limit = ValueIn(setting, "l")
       /\ a = [access |-> a.access, current |-> a.current, key |-> a.key, limit |-> a.limit]
  BY <1>9 DEF Agree
<1>11. IsFiniteSet(DOMAIN setting)
  <2>1. DOMAIN setting \in SUBSET (TypeB \cup TypeC \cup TypeD)
    BY <1>9 DEF Settable, SettingOK
  <2> QED BY <2>1, ServerAssumption, FS_Subset
<1>12. /\ \A i, j \in 1..n : ms[i] = ms[j] => i = j
       /\ \A x : x \in DOMAIN setting <=> \E i \in 1..n : ms[i] = x
  BY <1>11, OrderIs
<1> HIDE DEF ch, line, n
<1>13. ASSUME NEW i \in 1..n PROVE handle_single_mode(c, ch[i], "324") = c
  <2>1. ms[i] \in DOMAIN setting /\ ms[i] \in Settable
    BY <1>9, <1>12 DEF SettingOK
  <2>2. ~IsNickMode(ms[i])
    BY <2>1 DEF IsNickMode, Settable
  <2>3. ch[i].sign = "+" /\ ch[i].mode = ms[i] /\ ch[i].arg = setting[ms[i]]
    BY <1>3
  <2>4. ms[i] = "k" => setting[ms[i]] = a.key
    BY <1>10, <2>1 DEF ValueIn
  <2>5. ms[i] = "l" => setting[ms[i]] = a.limit
    BY <1>10, <2>1 DEF ValueIn
  <2>6. c.access = a.access /\ c.current = cur /\ c.key = a.key /\ c.limit = a.limit
    OBVIOUS
  <2> HIDE DEF c
  <2>7. handle_single_mode(c, ch[i], "324") =
          [access |-> c.access, current |-> c.current,
           key |-> IF ms[i] = "k" THEN setting[ms[i]] ELSE c.key, limit |-> IF ms[i] = "l" THEN setting[ms[i]] ELSE c.limit]
    BY <2>2, <2>3 DEF handle_single_mode
  <2>8. handle_single_mode(c, ch[i], "324") = [access |-> c.access, current |-> c.current, key |-> c.key, limit |-> c.limit]
    BY <2>4, <2>5, <2>6, <2>7
  <2> QED BY <2>8 DEF c
<1>14. h = [j \in 0..n |-> h[j]] /\ h[n] = c /\ \A j \in 0..n : h[j] = c
  BY <1>6
<1> HIDE DEF h, c, cur
<1>15. \A j \in 0..n : h[j] = IF j = 0 THEN c ELSE handle_single_mode(h[j - 1], ch[j], "324")
  <2> TAKE j \in 0..n
  <2>1. CASE j = 0
    BY <1>14, <2>1
  <2>2. CASE j # 0
    <3>1. j \in 1..n /\ j - 1 \in 0..n
      BY <1>6, <2>2
    <3>2. h[j] = c /\ h[j - 1] = c /\ handle_single_mode(c, ch[j], "324") = c
      BY <1>13, <1>14, <3>1
    <3> QED BY <2>2, <3>2
  <2> QED BY <2>1, <2>2
<1>16. Steps(h, Start(a, line), ch, line.kind)
  BY <1>1, <1>3, <1>8, <1>14, <1>15 DEF Steps
<1>17. handle_mode(a, line) = c
  <2>1. handle_mode(a, line) = h[Len(ch)]
    BY <1>2, <1>3, <1>16, HandleIs
  <2> QED BY <1>3, <1>14, <2>1
<1>18. Says(ms, line.args, setting)
  <2>1. /\ Having(ms) \in SUBSET (1..n) /\ \A i \in 1..n : i \in Having(ms) <=> HasArgument("+", ms[i])
    BY <1>3, HavingIs DEF n
  <2>2. Len(line.args) = Count(Having(ms), n)
    BY <1>5, <1>6, <2>1, CountAll
  <2>3. \A i \in 1..n : ms[i] \in DOMAIN setting
    BY <1>12
  <2>4. \A i \in 1..n : setting[ms[i]] = IF i \in Having(ms) THEN line.args[Count(Having(ms), i)] ELSE None
    BY <1>5, <1>9, <2>1, <2>3 DEF SettingOK
  <2> QED BY <1>3, <1>5, <1>12, <2>2, <2>4 DEF Says, n
<1>19. Agree(c, World)
  <2>1. /\ c = [access |-> c.access, current |-> c.current, key |-> c.key, limit |-> c.limit]
        /\ c.access = a.access /\ c.current = cur /\ c.key = a.key /\ c.limit = a.limit
    BY DEF c
  <2>2. cur = [modes |-> cur.modes, args |-> cur.args] /\ cur.modes = ms /\ cur.args = line.args
    BY DEF cur
  <2> QED BY <1>9, <1>10, <1>18, <2>1, <2>2 DEF Agree
<1> QED BY <1>17, <1>19 DEF line

-----------------------------------------------------------------------------
(* What the client will keep when it has read everything.                  *)

Lines == [kind : {"MODE", "324"}, modes : Seq([sign : {"+", "-"}, mode : Letters]), args : Seq(Words)]
         \cup [kind : {"KICK"}, nick : Users] \cup [kind : {"QUERY"}]

TextOK(c) == \E w : WorldOK(w) /\ Agree(c, w)

\* v: what the client keeps after each of the lines, from c on; at last, what is in w.
Trail(v, c, lines, w) ==
    /\ v = [i \in 0..Len(lines) |-> IF i = 0 THEN c ELSE After(v[i - 1], lines[i])]
    /\ Agree(v[Len(lines)], w)
    /\ \A i \in 0..Len(lines) : TextOK(v[i])

Reads(c, lines, w) == lines \in Seq(Lines) /\ WorldOK(w) /\ \E v : Trail(v, c, lines, w)

LEMMA ReadsNone ==
    ASSUME NEW c, NEW w, WorldOK(w), Agree(c, w)
    PROVE  Reads(c, <<>>, w)
<1> DEFINE v == [i \in 0..0 |-> c]
<1>1. Len(<<>>) = 0 /\ <<>> \in Seq(Lines)
  OBVIOUS
<1>2. v = [i \in 0..0 |-> IF i = 0 THEN c ELSE After(v[i - 1], <<>>[i])] /\ v[0] = c /\ \A i \in 0..0 : v[i] = c
  OBVIOUS
<1>3. TextOK(c)
  BY DEF TextOK
<1> HIDE DEF v
<1>4. Trail(v, c, <<>>, w)
  BY <1>1, <1>2, <1>3 DEF Trail
<1> QED BY <1>1, <1>4 DEF Reads

LEMMA ReadsMore ==
    ASSUME NEW c, NEW lines, NEW w, Reads(c, lines, w), NEW line \in Lines, NEW x, WorldOK(x),
           \A a : Agree(a, w) => Agree(After(a, line), x)
    PROVE  Reads(c, Append(lines, line), x)
<1> DEFINE n == Len(lines)
           q == Append(lines, line)
<1>1. PICK v : Trail(v, c, lines, w)
  BY DEF Reads
<1>2. lines \in Seq(Lines)
  BY DEF Reads
<1>3. n \in Nat /\ q \in Seq(Lines) /\ Len(q) = n + 1 /\ q[n + 1] = line /\ \A i \in 1..n : q[i] = lines[i]
  BY <1>2
<1>4. /\ \A i \in 0..n : v[i] = IF i = 0 THEN c ELSE After(v[i - 1], lines[i])
      /\ Agree(v[n], w) /\ \A i \in 0..n : TextOK(v[i])
  BY <1>1 DEF Trail
<1> DEFINE last == After(v[n], line)
           u == [i \in 0..n + 1 |-> IF i <= n THEN v[i] ELSE last]
<1>5. Agree(last, x)
  BY <1>4
<1>6. TextOK(last)
  BY <1>5 DEF TextOK
<1> HIDE DEF q, n
<1>7. u = [i \in 0..n + 1 |-> u[i]] /\ u[n + 1] = last /\ \A i \in 0..n : u[i] = v[i]
  BY <1>3
<1> HIDE DEF u
<1>8. \A i \in 0..n + 1 : u[i] = IF i = 0 THEN c ELSE After(u[i - 1], q[i])
  <2> TAKE i \in 0..n + 1
  <2>1. CASE i = 0
    <3>1. 0 \in 0..n
      BY <1>3
    <3> QED BY <1>4, <1>7, <2>1, <3>1
  <2>2. CASE i \in 1..n
    <3>1. i \in 0..n /\ i - 1 \in 0..n /\ i # 0
      BY <1>3, <2>2
    <3>2. u[i] = v[i] /\ u[i - 1] = v[i - 1] /\ q[i] = lines[i]
      BY <1>3, <1>7, <2>2, <3>1
    <3> QED BY <1>4, <3>1, <3>2
  <2>3. CASE i = n + 1
    <3>1. i # 0 /\ i - 1 = n /\ n \in 0..n
      BY <1>3, <2>3
    <3>2. u[i] = After(v[n], line) /\ u[i - 1] = v[n] /\ q[i] = line
      BY <1>3, <1>7, <2>3, <3>1
    <3> QED BY <3>1, <3>2
  <2> QED BY <1>3, <2>1, <2>2, <2>3
<1> HIDE DEF last
<1>9. \A i \in 0..n + 1 : TextOK(u[i])
  <2> TAKE i \in 0..n + 1
  <2>1. CASE i = n + 1
    BY <1>6, <1>7, <2>1
  <2>2. CASE i # n + 1
    <3>1. i \in 0..n
      BY <1>3, <2>2
    <3> QED BY <1>4, <1>7, <3>1
  <2> QED BY <2>1, <2>2
<1>10. Trail(u, c, q, x)
  BY <1>3, <1>5, <1>7, <1>8, <1>9 DEF Trail
<1> QED BY <1>3, <1>10 DEF Reads, q

LEMMA ReadsNext ==
    ASSUME NEW c, NEW lines, NEW w, Reads(c, lines, w), lines # <<>>
    PROVE  Reads(After(c, Head(lines)), Tail(lines), w)
<1> DEFINE n == Len(lines)
           q == Tail(lines)
           d == After(c, Head(lines))
<1>1. PICK v : Trail(v, c, lines, w)
  BY DEF Reads
<1>2. lines \in Seq(Lines) /\ WorldOK(w)
  BY DEF Reads
<1>3. /\ n \in Nat \ {0} /\ q \in Seq(Lines) /\ Len(q) = n - 1 /\ Head(lines) = lines[1]
      /\ \A i \in 1..n - 1 : q[i] = lines[i + 1]
  BY <1>2
<1>4. /\ \A i \in 0..n : v[i] = IF i = 0 THEN c ELSE After(v[i - 1], lines[i])
      /\ Agree(v[n], w) /\ \A i \in 0..n : TextOK(v[i])
  BY <1>1 DEF Trail
<1> DEFINE u == [i \in 0..n - 1 |-> v[i + 1]]
<1> HIDE DEF n, q, d
<1>5. u = [i \in 0..n - 1 |-> u[i]] /\ \A i \in 0..n - 1 : u[i] = v[i + 1]
  OBVIOUS
<1>6. v[1] = d
  <2>1. v[0] = c /\ v[1] = After(v[1 - 1], lines[1])
    BY <1>3, <1>4
  <2> QED BY <1>3, <2>1 DEF d
<1> HIDE DEF u
<1>7. \A i \in 0..n - 1 : u[i] = IF i = 0 THEN d ELSE After(u[i - 1], q[i])
  <2> TAKE i \in 0..n - 1
  <2>1. CASE i = 0
    <3>1. u[0] = v[0 + 1] /\ 0 + 1 = 1
      BY <1>5, <2>1
    <3> QED BY <1>6, <2>1, <3>1
  <2>2. CASE i # 0
    <3>1. i \in 1..n - 1 /\ i - 1 \in 0..n - 1 /\ i + 1 \in 0..n /\ i + 1 # 0 /\ (i + 1) - 1 = i /\ (i - 1) + 1 = i
      BY <1>3, <2>2
    <3>2. u[i] = v[i + 1] /\ u[i - 1] = v[i] /\ q[i] = lines[i + 1]
      BY <1>3, <1>5, <3>1
    <3>3. v[i + 1] = After(v[i], lines[i + 1])
      BY <1>4, <3>1
    <3> QED BY <2>2, <3>2, <3>3
  <2> QED BY <2>1, <2>2
<1>8. \A i \in 0..n - 1 : TextOK(u[i])
  <2> TAKE i \in 0..n - 1
  <2>1. i + 1 \in 0..n
    BY <1>3
  <2> QED BY <1>4, <1>5, <2>1
<1>9. Agree(u[n - 1], w)
  <2>1. n - 1 \in 0..n - 1 /\ (n - 1) + 1 = n
    BY <1>3
  <2> QED BY <1>4, <1>5, <2>1
<1>10. Trail(u, d, q, w)
  BY <1>3, <1>5, <1>7, <1>8, <1>9 DEF Trail
<1> QED BY <1>2, <1>3, <1>10 DEF Reads, q, d

\* What every client keeps that is on the way to agree.
LEMMA ReadsText ==
    ASSUME NEW c, NEW lines, NEW w, Reads(c, lines, w)
    PROVE  TextOK(c) /\ (lines = <<>> => Agree(c, w))
<1>1. PICK v : Trail(v, c, lines, w)
  BY DEF Reads
<1>2. Len(lines) \in Nat /\ 0 \in 0..Len(lines)
  BY DEF Reads
<1>3. v[0] = c
  BY <1>1, <1>2 DEF Trail
<1>4. TextOK(v[0])
  BY <1>1, <1>2 DEF Trail
<1>5. lines = <<>> => Len(lines) = 0
  OBVIOUS
<1>6. Agree(v[Len(lines)], w)
  BY <1>1 DEF Trail
<1> QED BY <1>3, <1>4, <1>5, <1>6

LEMMA LineTyped ==
    ASSUME NEW ch, Proper(ch)
    PROVE  Line(ch) \in Lines /\ Line(ch).kind = "MODE"
           /\ [kind |-> "324", modes |-> Line(ch).modes, args |-> Line(ch).args] \in Lines
<1> DEFINE line == Line(ch)
           n == Len(ch)
<1>1. Carries(line, ch)
  BY DEF Carries
<1>2. CarriesWell(line, ch)
  BY <1>1, ProperLine
<1>3. n \in Nat /\ \A i \in 1..n : ch[i].sign \in {"+", "-"} /\ ch[i].mode \in Letters
  BY ProperIs
<1>4. line = [kind |-> "MODE", modes |-> line.modes, args |-> line.args]
  BY DEF Line
<1>5. line.modes = [i \in 1..n |-> [sign |-> ch[i].sign, mode |-> ch[i].mode]] /\ line.args \in Seq(Words)
  BY <1>2 DEF CarriesWell
<1> HIDE DEF n, line
<1>6. line.modes \in Seq([sign : {"+", "-"}, mode : Letters])
  BY <1>3, <1>5
<1>7. line.kind = "MODE"
  BY <1>4
<1>8. \A k \in {"MODE", "324"} : [kind |-> k, modes |-> line.modes, args |-> line.args] \in Lines
  BY <1>5, <1>6 DEF Lines
<1> QED BY <1>4, <1>7, <1>8 DEF line

\* A user leaves, at the server and at the client.
LEMMA KickKeeps ==
    ASSUME NEW w, WorldOK(w), NEW u, NEW x, x = [level |-> Without(w.level, u), setting |-> w.setting, masks |-> w.masks]
    PROVE  WorldOK(x) /\ \A a : Agree(a, w) => Agree(After(a, KickLine(u)), x)
<1>1. x.level = Without(w.level, u) /\ x.setting = w.setting /\ x.masks = w.masks
      /\ x = [level |-> x.level, setting |-> x.setting, masks |-> x.masks]
  OBVIOUS
<1>2. w.level \in [DOMAIN w.level -> SUBSET ToSet(NickModes)] /\ DOMAIN w.level \subseteq Users /\ SettingOK(w.setting)
  BY DEF WorldOK
<1>3. x.level \in [DOMAIN x.level -> SUBSET ToSet(NickModes)] /\ DOMAIN x.level \subseteq Users
  <2> DEFINE f == w.level
             M == SUBSET ToSet(NickModes)
  <2>1. x.level = [y \in DOMAIN f \ {u} |-> f[y]]
    BY <1>1 DEF Without
  <2>2. f \in [DOMAIN f -> M] /\ DOMAIN f \subseteq Users
    BY <1>2
  <2> HIDE DEF f, M
  <2>3. x.level \in [DOMAIN f \ {u} -> M]
    BY <2>1, <2>2
  <2>4. DOMAIN x.level = DOMAIN f \ {u}
    BY <2>1
  <2> QED BY <2>2, <2>3, <2>4 DEF M
<1>4. WorldOK(x)
  BY <1>1, <1>2, <1>3 DEF WorldOK
<1>5. ASSUME NEW a, Agree(a, w) PROVE Agree(After(a, KickLine(u)), x)
  <2> DEFINE c == After(a, KickLine(u))
  <2>1. KickLine(u).kind = "KICK" /\ KickLine(u).nick = u
    BY DEF KickLine
  <2>2. c = [access |-> Without(a.access, u), current |-> a.current, key |-> a.key, limit |-> a.limit]
    BY <2>1 DEF After
  <2> HIDE DEF c
  <2>3. /\ c = [access |-> c.access, current |-> c.current, key |-> c.key, limit |-> c.limit]
        /\ c.access = Without(a.access, u) /\ c.current = a.current /\ c.key = a.key /\ c.limit = a.limit
    BY <2>2
  <2>4. Agree(c, x)
    BY <1>1, <1>5, <2>3 DEF Agree
  <2> QED BY <2>4 DEF c
<1> QED BY <1>4, <1>5

-----------------------------------------------------------------------------
(* What the server will have taken when it has read everything.            *)

AnyChange == [sign : {"+", "-", "kick"}, mode : Letters \cup {None}, arg : Words \cup {None}]

\* A line whose changes the server takes, all of them.
Well(line) ==
    /\ line \in Lines /\ line.kind \in {"MODE", "KICK", "QUERY"} /\ InLine(line) \in Seq(AnyChange)
    /\ line.kind = "MODE" => Proper(Meant(line)) /\ Accepted(line) = Meant(line)

\* p: what the server has taken after each of the lines, d before; at last, q.
Sent(p, d, lines, q) ==
    p = [i \in 0..Len(lines) |-> IF i = 0 THEN d ELSE p[i - 1] \o InLine(lines[i])] /\ p[Len(lines)] = q

Asks(d, lines, q) ==
    /\ d \in Seq(AnyChange) /\ q \in Seq(AnyChange)
    /\ lines \in Seq(Lines) /\ \A i \in 1..Len(lines) : Well(lines[i])
    /\ \E p : Sent(p, d, lines, q)

LEMMA AsksNone ==
    ASSUME NEW d \in Seq(AnyChange)
    PROVE  Asks(d, <<>>, d)
<1> DEFINE p == [i \in 0..0 |-> d]
<1>1. Len(<<>>) = 0 /\ <<>> \in Seq(Lines)
  OBVIOUS
<1>2. p = [i \in 0..0 |-> IF i = 0 THEN d ELSE p[i - 1] \o InLine(<<>>[i])] /\ p[0] = d
  OBVIOUS
<1> HIDE DEF p
<1>3. Sent(p, d, <<>>, d)
  BY <1>1, <1>2 DEF Sent
<1> QED BY <1>1, <1>3 DEF Asks

LEMMA AsksNext ==
    ASSUME NEW d, NEW lines, NEW q, Asks(d, lines, q), lines # <<>>
    PROVE  /\ Head(lines) \in Lines /\ Well(Head(lines)) /\ Tail(lines) \in Seq(Lines)
           /\ Asks(d \o InLine(Head(lines)), Tail(lines), q)
<1> DEFINE n == Len(lines)
           t == Tail(lines)
           e == d \o InLine(Head(lines))
<1>1. PICK p : Sent(p, d, lines, q)
  BY DEF Asks
<1>2. d \in Seq(AnyChange) /\ q \in Seq(AnyChange) /\ lines \in Seq(Lines) /\ \A i \in 1..n : Well(lines[i])
  BY DEF Asks
<1>3. /\ n \in Nat \ {0} /\ t \in Seq(Lines) /\ Len(t) = n - 1 /\ Head(lines) = lines[1] /\ lines[1] \in Lines
      /\ \A i \in 1..n - 1 : t[i] = lines[i + 1]
  BY <1>2
<1>4. (\A i \in 0..n : p[i] = IF i = 0 THEN d ELSE p[i - 1] \o InLine(lines[i])) /\ p[n] = q
  BY <1>1 DEF Sent
<1>5. Well(lines[1])
  BY <1>2, <1>3
<1>6. e \in Seq(AnyChange)
  <2>1. InLine(lines[1]) \in Seq(AnyChange)
    BY <1>5 DEF Well
  <2> QED BY <1>2, <1>3, <2>1, ConcatProperties
<1> DEFINE u == [i \in 0..n - 1 |-> p[i + 1]]
<1> HIDE DEF n, t, e
<1>7. u = [i \in 0..n - 1 |-> u[i]] /\ \A i \in 0..n - 1 : u[i] = p[i + 1]
  OBVIOUS
<1>8. p[1] = e
  <2>1. 0 \in 0..n /\ 1 \in 0..n /\ 1 - 1 = 0 /\ 1 # 0
    BY <1>3
  <2>2. p[0] = d /\ p[1] = p[0] \o InLine(lines[1])
    BY <1>4, <2>1
  <2>3. Head(lines) = lines[1]
    BY <1>3
  <2> QED BY <2>2, <2>3 DEF e
<1> HIDE DEF u
<1>9. \A i \in 0..n - 1 : u[i] = IF i = 0 THEN e ELSE u[i - 1] \o InLine(t[i])
  <2> TAKE i \in 0..n - 1
  <2>1. CASE i = 0
    <3>1. u[0] = p[0 + 1] /\ 0 + 1 = 1
      BY <1>7, <2>1
    <3> QED BY <1>8, <2>1, <3>1
  <2>2. CASE i # 0
    <3>1. i \in 1..n - 1 /\ i - 1 \in 0..n - 1 /\ i + 1 \in 0..n /\ i + 1 # 0 /\ (i + 1) - 1 = i /\ (i - 1) + 1 = i
      BY <1>3, <2>2
    <3>2. u[i] = p[i + 1] /\ u[i - 1] = p[i] /\ t[i] = lines[i + 1]
      BY <1>3, <1>7, <3>1
    <3>3. p[i + 1] = p[i] \o InLine(lines[i + 1])
      BY <1>4, <3>1
    <3> QED BY <2>2, <3>2, <3>3
  <2> QED BY <2>1, <2>2
<1>10. u[n - 1] = q
  <2>1. n - 1 \in 0..n - 1 /\ (n - 1) + 1 = n
    BY <1>3
  <2> QED BY <1>4, <1>7, <2>1
<1>11. Sent(u, e, t, q)
  BY <1>3, <1>7, <1>9, <1>10 DEF Sent
<1>12. \A i \in 1..Len(t) : Well(t[i])
  <2> TAKE i \in 1..Len(t)
  <2>1. t[i] = lines[i + 1] /\ i + 1 \in 1..n
    BY <1>3
  <2> QED BY <1>2, <2>1 DEF n
<1>13. Asks(e, t, q)
  BY <1>2, <1>3, <1>6, <1>11, <1>12 DEF Asks
<1> QED BY <1>3, <1>5, <1>13 DEF e, t

\* More lines hold more changes.
LEMMA AsksMore ==
    ASSUME NEW d, NEW lines, NEW q, Asks(d, lines, q), NEW more, NEW r, Asks(<<>>, more, r)
    PROVE  Asks(d, lines \o more, q \o r)
<1> DEFINE n == Len(lines)
           m == Len(more)
           t == lines \o more
<1>1. PICK p : Sent(p, d, lines, q)
  BY DEF Asks
<1>2. PICK s : Sent(s, <<>>, more, r)
  BY DEF Asks
<1>3. /\ d \in Seq(AnyChange) /\ q \in Seq(AnyChange) /\ r \in Seq(AnyChange)
      /\ lines \in Seq(Lines) /\ more \in Seq(Lines)
      /\ \A i \in 1..n : Well(lines[i])
      /\ \A i \in 1..m : Well(more[i])
  BY DEF Asks
<1>4. /\ n \in Nat /\ m \in Nat /\ t \in Seq(Lines) /\ Len(t) = n + m
      /\ \A i \in 1..n : t[i] = lines[i]
      /\ \A i \in 1..m : t[n + i] = more[i]
  BY <1>3
<1>5. (\A i \in 0..n : p[i] = IF i = 0 THEN d ELSE p[i - 1] \o InLine(lines[i])) /\ p[n] = q
  BY <1>1 DEF Sent
<1>6. (\A i \in 0..m : s[i] = IF i = 0 THEN <<>> ELSE s[i - 1] \o InLine(more[i])) /\ s[m] = r
  BY <1>2 DEF Sent
<1> HIDE DEF n, m, t
<1>7. \A i \in 0..m : s[i] \in Seq(AnyChange)
  <2> DEFINE T == {i \in Nat : i <= m => s[i] \in Seq(AnyChange)}
  <2>1. 0 \in T
    <3>1. 0 \in 0..m /\ 0 \in Nat
      BY <1>4
    <3>2. s[0] = <<>>
      BY <1>6, <3>1
    <3>3. s[0] \in Seq(AnyChange)
      BY <3>2
    <3> QED BY <3>1, <3>3
  <2>2. ASSUME NEW i \in Nat, i \in T PROVE i + 1 \in T
    <3> SUFFICES ASSUME i + 1 <= m PROVE s[i + 1] \in Seq(AnyChange)
      OBVIOUS
    <3>1. s[i] \in Seq(AnyChange) /\ i + 1 \in 0..m /\ i + 1 \in 1..m /\ i + 1 # 0 /\ (i + 1) - 1 = i
      BY <1>4, <2>2
    <3>2. s[i + 1] = s[i] \o InLine(more[i + 1])
      BY <1>6, <3>1
    <3>3. InLine(more[i + 1]) \in Seq(AnyChange)
      BY <1>3, <3>1 DEF Well, m
    <3> QED BY <3>1, <3>2, <3>3, ConcatProperties
  <2>3. \A i \in Nat : i \in T
    <3> HIDE DEF T
    <3> QED BY <2>1, <2>2, NatInduct
  <2> QED BY <1>4, <2>3
<1> DEFINE u == [i \in 0..n + m |-> IF i <= n THEN p[i] ELSE q \o s[i - n]]
<1>8. /\ u = [i \in 0..n + m |-> u[i]]
      /\ \A i \in 0..n : u[i] = p[i]
      /\ \A i \in 1..m : u[n + i] = q \o s[i]
  <2>1. \A i \in 1..m : n + i \in 0..n + m /\ ~(n + i <= n) /\ (n + i) - n = i
    BY <1>4
  <2> QED BY <1>4, <2>1
<1> HIDE DEF u
<1>9. \A i \in 0..m : u[n + i] = q \o s[i]
  <2> TAKE i \in 0..m
  <2>1. CASE i = 0
    <3>1. u[n + i] = p[n] /\ s[i] = <<>>
      <4>1. n + 0 = n /\ n \in 0..n /\ 0 \in 0..m
        BY <1>4
      <4> QED BY <1>6, <1>8, <2>1, <4>1
    <3>2. q \o <<>> = q
      BY <1>3, ConcatEmptySeq
    <3> QED BY <1>5, <3>1, <3>2
  <2>2. CASE i # 0
    <3>1. i \in 1..m
      BY <1>4, <2>2
    <3> QED BY <1>8, <3>1
  <2> QED BY <2>1, <2>2
<1>10. \A i \in 0..n + m : u[i] = IF i = 0 THEN d ELSE u[i - 1] \o InLine(t[i])
  <2> TAKE i \in 0..n + m
  <2>1. CASE i \in 0..n
    <3>0. i # 0 => i \in 1..n /\ i - 1 \in 0..n
      BY <1>4, <2>1
    <3>1. u[i] = p[i] /\ (i # 0 => i \in 1..n /\ i - 1 \in 0..n)
      BY <1>8, <2>1, <3>0
    <3>2. i # 0 => u[i - 1] = p[i - 1] /\ t[i] = lines[i]
      BY <1>4, <1>8, <3>1
    <3> QED BY <1>5, <2>1, <3>1, <3>2
  <2>2. CASE i \notin 0..n
    <3>1. PICK k \in 1..m : i = n + k
      <4>1. i - n \in 1..m /\ i = n + (i - n)
        BY <1>4, <2>2
      <4> QED BY <4>1
    <3>2. k \in 0..m /\ k - 1 \in 0..m /\ k # 0 /\ i - 1 = n + (k - 1) /\ i # 0
      BY <1>4, <3>1
    <3>3. s[k] = s[k - 1] \o InLine(more[k])
      BY <1>6, <3>2
    <3>4. u[i] = q \o s[k] /\ u[i - 1] = q \o s[k - 1] /\ t[i] = more[k]
      BY <1>4, <1>9, <3>1, <3>2
    <3>5. s[k - 1] \in Seq(AnyChange) /\ InLine(more[k]) \in Seq(AnyChange)
      BY <1>3, <1>7, <3>1, <3>2 DEF Well, m
    <3>6. q \o (s[k - 1] \o InLine(more[k])) = (q \o s[k - 1]) \o InLine(more[k])
      <4> DEFINE a == s[k - 1]
                 b == InLine(more[k])
      <4>1. a \in Seq(AnyChange) /\ b \in Seq(AnyChange) /\ q \in Seq(AnyChange)
        BY <1>3, <3>5
      <4> HIDE DEF a, b
      <4>2. (q \o a) \o b = q \o (a \o b)
        BY <4>1, ConcatAssociative
      <4> QED BY <4>2 DEF a, b
    <3> QED BY <3>2, <3>3, <3>4, <3>6
  <2> QED BY <2>1, <2>2
<1>11. u[n + m] = q \o r
  <2>1. m \in 0..m
    BY <1>4
  <2> QED BY <1>6, <1>9, <2>1
<1>12. Sent(u, d, t, q \o r)
  BY <1>4, <1>8, <1>10, <1>11 DEF Sent
<1>13. \A i \in 1..Len(t) : Well(t[i])
  <2> TAKE i \in 1..Len(t)
  <2>1. CASE i \in 1..n
    BY <1>3, <1>4, <2>1 DEF n
  <2>2. CASE i \notin 1..n
    <3>1. i - n \in 1..m /\ i = n + (i - n)
      BY <1>4, <2>2
    <3>2. t[n + (i - n)] = more[i - n] /\ Well(more[i - n])
      BY <1>3, <1>4, <3>1 DEF m
    <3> QED BY <3>1, <3>2
  <2> QED BY <2>1, <2>2
<1>14. q \o r \in Seq(AnyChange)
  BY <1>3, ConcatProperties
<1> QED BY <1>3, <1>4, <1>12, <1>13, <1>14 DEF Asks, t

LEMMA AsksReached == Asks(done, toserver, asked) => TargetsReached
<1> SUFFICES ASSUME Asks(done, toserver, asked) PROVE TargetsReached
  OBVIOUS
<1> DEFINE n == Len(toserver)
           Table(g) == g = [i \in 0..n |-> IF i = 0 THEN done ELSE g[i - 1] \o InLine(toserver[i])]
           r == CHOOSE g : Table(g)
<1>1. PICK p : Sent(p, done, toserver, asked)
  BY DEF Asks
<1>2. n \in Nat
  BY DEF Asks
<1>3. Table(p) /\ p[n] = asked
  BY <1>1 DEF Sent
<1>4. Table(r)
  BY <1>3
<1>5. TargetsReached <=> asked = r[n]
  BY DEF TargetsReached
<1>6. \A i \in 0..n : p[i] = IF i = 0 THEN done ELSE p[i - 1] \o InLine(toserver[i])
  BY <1>3
<1>7. \A i \in 0..n : r[i] = IF i = 0 THEN done ELSE r[i - 1] \o InLine(toserver[i])
  BY <1>4
<1> HIDE DEF n, r
<1> DEFINE T == {i \in Nat : i <= n => r[i] = p[i]}
<1>8. 0 \in T
  <2>1. 0 \in 0..n
    BY <1>2
  <2> QED BY <1>6, <1>7, <2>1
<1>9. ASSUME NEW i \in Nat, i \in T PROVE i + 1 \in T
  <2> SUFFICES ASSUME i + 1 <= n PROVE r[i + 1] = p[i + 1]
    OBVIOUS
  <2>1. r[i] = p[i]
    BY <1>2, <1>9
  <2>2. i + 1 \in 0..n /\ i + 1 # 0 /\ (i + 1) - 1 = i
    BY <1>2
  <2> QED BY <1>6, <1>7, <2>1, <2>2
<1>10. n \in T
  <2> HIDE DEF T
  <2> QED BY <1>2, <1>8, <1>9, NatInduct
<1> QED BY <1>2, <1>3, <1>5, <1>10

-----------------------------------------------------------------------------
(* The room on a line.                                                     *)

\* b: what the first words take, for each number of them.
Sums(b, words) == b = [i \in 0..Len(words) |-> IF i = 0 THEN 0 ELSE b[i - 1] + Length[words[i]] + 1]

LEMMA SumsExist ==
    ASSUME NEW ws, Len(ws) \in Nat
    PROVE  \E b : Sums(b, ws)
<1> DEFINE Upto(n, g) == g = [i \in 0..n |-> IF i = 0 THEN 0 ELSE g[i - 1] + Length[ws[i]] + 1]
           T == {n \in Nat : \E g : Upto(n, g)}
<1>1. 0 \in T
  <2>1. Upto(0, [i \in 0..0 |-> 0])
    OBVIOUS
  <2> QED BY <2>1
<1>2. ASSUME NEW n \in Nat, n \in T PROVE n + 1 \in T
  <2>1. PICK g : Upto(n, g)
    BY <1>2
  <2> DEFINE h == [i \in 0..(n+1) |-> IF i <= n THEN g[i] ELSE g[i - 1] + Length[ws[i]] + 1]
  <2>2. \A i \in 0..n : g[i] = IF i = 0 THEN 0 ELSE g[i - 1] + Length[ws[i]] + 1
    BY <2>1
  <2>3. ASSUME NEW i \in 0..(n+1)
        PROVE  h[i] = IF i = 0 THEN 0 ELSE h[i - 1] + Length[ws[i]] + 1
    <3>1. i # 0 => i - 1 \in 0..(n+1) /\ i - 1 <= n /\ h[i-1] = g[i-1]
      OBVIOUS
    <3>2. CASE i <= n
      <4>1. h[i] = g[i] /\ i \in 0..n
        BY <3>2
      <4> HIDE DEF h
      <4> QED BY <2>2, <3>1, <4>1
    <3>3. CASE ~(i <= n)
      <4>1. h[i] = IF i <= n THEN g[i] ELSE g[i - 1] + Length[ws[i]] + 1
        OBVIOUS
      <4>2. i # 0
        BY <3>3
      <4> HIDE DEF h
      <4> QED BY <3>1, <3>3, <4>1, <4>2
    <3> QED BY <3>2, <3>3
  <2>4. Upto(n+1, h)
    <3>1. h = [i \in 0..(n+1) |-> h[i]]
      OBVIOUS
    <3> HIDE DEF h
    <3> QED BY <2>3, <3>1
  <2>5. \E f : Upto(n+1, f)
    <3> HIDE DEF h, Upto
    <3> QED BY <2>4
  <2> HIDE DEF Upto
  <2> QED BY <2>5
<1> HIDE DEF T
<1>3. Len(ws) \in T
  BY <1>1, <1>2, NatInduct
<1> QED BY <1>3 DEF T, Sums

LEMMA BytesTable ==
    ASSUME NEW ws, Len(ws) \in Nat
    PROVE  \E b : /\ Bytes(ws) = b[Len(ws)]
                  /\ \A i \in 0..Len(ws) : b[i] = IF i = 0 THEN 0 ELSE b[i - 1] + Length[ws[i]] + 1
<1> DEFINE b == CHOOSE b : Sums(b, ws)
<1>1. Sums(b, ws)
  BY SumsExist
<1>2. Bytes(ws) = b[Len(ws)]
  BY DEF Bytes, Sums
<1> HIDE DEF b
<1>3. \A i \in 0..Len(ws) : b[i] = IF i = 0 THEN 0 ELSE b[i - 1] + Length[ws[i]] + 1
  BY <1>1 DEF Sums
<1> QED BY <1>2, <1>3

LEMMA BytesNat ==
    ASSUME NEW ws \in Seq(Words)
    PROVE  Bytes(ws) \in Nat
<1> DEFINE n == Len(ws)
<1>1. n \in Nat /\ (\A i \in 1..n : ws[i] \in Words) /\ \A x \in Words : Length[x] \in Nat
  BY WordsAssumption
<1>2. PICK b : /\ Bytes(ws) = b[n]
               /\ \A i \in 0..n : b[i] = IF i = 0 THEN 0 ELSE b[i - 1] + Length[ws[i]] + 1
  BY <1>1, BytesTable
<1> DEFINE T == {i \in Nat : i <= n => b[i] \in Nat}
<1> HIDE DEF n
<1>3. 0 \in T
  <2>1. 0 \in 0..n
    BY <1>1
  <2> QED BY <1>2, <2>1
<1>4. ASSUME NEW i \in Nat, i \in T PROVE i + 1 \in T
  <2> SUFFICES ASSUME i + 1 <= n PROVE b[i + 1] \in Nat
    OBVIOUS
  <2>1. b[i] \in Nat
    BY <1>1, <1>4
  <2>2. i + 1 \in 0..n /\ i + 1 # 0 /\ (i + 1) - 1 = i /\ i + 1 \in 1..n
    BY <1>1
  <2>3. b[i + 1] = b[i] + Length[ws[i + 1]] + 1
    BY <1>2, <2>2
  <2>4. Length[ws[i + 1]] \in Nat
    BY <1>1, <2>2
  <2> QED BY <2>1, <2>3, <2>4
<1>5. n \in T
  <2> HIDE DEF T
  <2> QED BY <1>1, <1>3, <1>4, NatInduct
<1> QED BY <1>1, <1>2, <1>5

LEMMA BytesFew ==
    ASSUME NEW ws, NEW x \in Words, ws[1] = x
    PROVE  /\ Len(ws) = 1 => Bytes(ws) = Length[x] + 1
           /\ \A y \in Words : Len(ws) = 2 /\ ws[2] = y => Bytes(ws) = Length[x] + 1 + Length[y] + 1
<1>1. \A z \in Words : Length[z] \in Nat
  BY WordsAssumption
<1>2. ASSUME Len(ws) = 1 PROVE Bytes(ws) = Length[x] + 1
  <2>1. PICK b : /\ Bytes(ws) = b[1]
                 /\ \A i \in 0..1 : b[i] = IF i = 0 THEN 0 ELSE b[i - 1] + Length[ws[i]] + 1
    BY <1>2, BytesTable
  <2>2. b[0] = 0 /\ b[1] = b[0] + Length[ws[1]] + 1
    BY <2>1
  <2> QED BY <1>1, <2>1, <2>2
<1>3. ASSUME NEW y \in Words, Len(ws) = 2, ws[2] = y PROVE Bytes(ws) = Length[x] + 1 + Length[y] + 1
  <2>1. PICK b : /\ Bytes(ws) = b[Len(ws)]
                 /\ \A i \in 0..Len(ws) : b[i] = IF i = 0 THEN 0 ELSE b[i - 1] + Length[ws[i]] + 1
    <3>1. Len(ws) \in Nat
      BY <1>3
    <3> QED BY <3>1, BytesTable
  <2>2. Bytes(ws) = b[2] /\ b[0] = 0 /\ b[1] = b[0] + Length[ws[1]] + 1 /\ b[2] = b[1] + Length[ws[2]] + 1
    <3>1. 0 \in 0..2 /\ 1 \in 0..2 /\ 2 \in 0..2 /\ 1 # 0 /\ 2 # 0 /\ 1 - 1 = 0 /\ 2 - 1 = 1
      OBVIOUS
    <3> QED BY <1>3, <2>1, <3>1
  <2> QED BY <1>1, <1>3, <2>2
<1> QED BY <1>2, <1>3

LEMMA WellLine ==
    ASSUME NEW ch, Proper(ch), Accepted(Line(ch)) = ch
    PROVE  Well(Line(ch)) /\ InLine(Line(ch)) = ch
<1>1. Line(ch) \in Lines /\ Line(ch).kind = "MODE"
  BY LineTyped
<1>2. Meant(Line(ch)) = ch
  BY PairedBack DEF Carries
<1>3. InLine(Line(ch)) = ch
  BY <1>1, <1>2 DEF InLine
<1>4. ch \in Seq(AnyChange)
  <2>1. ch \in Seq(Asked)
    BY ProperIs
  <2>2. \A c \in Asked : c \in AnyChange
    BY DEF Asked, AnyChange
  <2> QED BY <2>1, <2>2
<1> QED BY <1>1, <1>2, <1>3, <1>4 DEF Well

LEMMA WellKick ==
    ASSUME NEW u \in Users
    PROVE  Well(KickLine(u)) /\ InLine(KickLine(u)) = Kicked(<<u>>) /\ Kicked(<<u>>) = <<Change("kick", None, u)>>
<1>1. KickLine(u) = [kind |-> "KICK", nick |-> u]
  BY DEF KickLine
<1>2. KickLine(u) \in Lines /\ KickLine(u).kind = "KICK" /\ KickLine(u).nick = u
  BY <1>1 DEF Lines
<1>3. InLine(KickLine(u)) = Kicked(<<u>>)
  BY <1>2 DEF InLine
<1>4. Kicked(<<u>>) = <<Change("kick", None, u)>>
  <2>1. DOMAIN <<u>> = 1..1 /\ <<u>>[1] = u
    OBVIOUS
  <2>2. Kicked(<<u>>) = [i \in 1..1 |-> Change("kick", None, u)]
    BY <2>1 DEF Kicked
  <2> QED BY <2>2
<1>5. Change("kick", None, u) \in AnyChange
  <2>1. Change("kick", None, u) = [sign |-> "kick", mode |-> None, arg |-> u] /\ u \in Words
    BY WordsAssumption DEF Change
  <2> QED BY <2>1 DEF AnyChange
<1>6. Kicked(<<u>>) \in Seq(AnyChange)
  <2>1. \A c \in AnyChange : <<c>> \in Seq(AnyChange)
    OBVIOUS
  <2> QED BY <1>4, <1>5, <2>1
<1> QED BY <1>2, <1>3, <1>4, <1>6 DEF Well

LEMMA WellQuery == Well(Query) /\ InLine(Query) = <<>>
<1>1. Query \in Lines /\ Query.kind = "QUERY"
  BY DEF Query, Lines
<1>2. InLine(Query) = <<>>
  BY <1>1 DEF InLine
<1>3. <<>> \in Seq(AnyChange)
  OBVIOUS
<1> QED BY <1>1, <1>2, <1>3 DEF Well

LEMMA AsksOne ==
    ASSUME NEW line, Well(line)
    PROVE  Asks(<<>>, <<line>>, InLine(line))
<1> DEFINE ls == <<line>>
           q == InLine(line)
           p == [i \in 0..1 |-> IF i = 0 THEN <<>> ELSE q]
<1>1. line \in Lines /\ q \in Seq(AnyChange)
  BY DEF Well
<1>2. ls \in Seq(Lines) /\ Len(ls) = 1 /\ ls[1] = line /\ <<>> \in Seq(AnyChange)
  BY <1>1
<1> HIDE DEF ls, q
<1>3. p = [i \in 0..1 |-> p[i]] /\ p[0] = <<>> /\ p[1] = q
  OBVIOUS
<1> HIDE DEF p
<1>4. <<>> \o q = q
  BY <1>1, ConcatEmptySeq
<1>5. \A i \in 0..1 : p[i] = IF i = 0 THEN <<>> ELSE p[i - 1] \o InLine(ls[i])
  <2>1. p[0] \o InLine(ls[1]) = q
    BY <1>2, <1>3, <1>4 DEF q
  <2> TAKE i \in 0..1
  <2>2. CASE i = 0
    BY <1>3, <2>2
  <2>3. CASE i # 0
    <3>1. i = 1 /\ i - 1 = 0
      BY <2>3
    <3> QED BY <1>3, <2>1, <2>3, <3>1
  <2> QED BY <2>2, <2>3
<1>6. Sent(p, <<>>, ls, q)
  BY <1>2, <1>3, <1>5 DEF Sent
<1>7. \A i \in 1..1 : Well(ls[i])
  BY <1>2
<1> QED BY <1>1, <1>2, <1>6, <1>7 DEF Asks, ls, q

\* A line whose changes all have an argument, with room for them, is taken whole.
LEMMA FullLine ==
    ASSUME NEW ch, Proper(ch), Given(ch) = 1..Len(ch), Len(ch) <= Takes,
           NEW args, args = [i \in 1..Len(ch) |-> ch[i].arg],
           \A i \in 1..Len(ch) : Len(ch) + Bytes(SubSeq(args, 1, i)) <= Room
    PROVE  Accepted(Line(ch)) = ch
<1> DEFINE n == Len(ch)
           line == Line(ch)
<1>1. n \in Nat /\ DOMAIN ch = 1..n /\ ch = [i \in 1..n |-> ch[i]]
  BY ProperIs
<1>2. Meant(line) = ch
  BY PairedBack DEF Carries
<1>3. Len(line.modes) = n
  BY ProperLine DEF Carries, CarriesWell
<1>4. line.args = args
  <2>1. line.args = Kept(args, Given(ch))
    BY <1>1 DEF Line, Given
  <2>2. args = [i \in 1..n |-> args[i]] /\ Given(ch) = 1..n
    OBVIOUS
  <2> HIDE DEF n
  <2> QED BY <1>1, <2>1, <2>2, KeptAll
<1>5. {i \in DOMAIN ch : ch[i].arg # None} = 1..n
  BY DEF Given
<1>6. \A i \in 1..n : Count(1..n, i) = i
  <2>1. 1..n \in SUBSET (1..n)
    OBVIOUS
  <2>2. n \in Nat
    BY <1>1
  <2> HIDE DEF n
  <2>3. \A i \in 0..n : Count(1..n, i) = i
    BY <2>1, <2>2, CountAll
  <2> QED BY <2>2, <2>3
<1>7. {i \in DOMAIN ch : Count(1..n, i) <= Takes /\ n + Bytes(SubSeq(args, 1, Count(1..n, i))) <= Room} = 1..n
  <2>1. Takes \in Nat
    BY ServerAssumption DEF Takes
  <2> QED BY <1>1, <1>6, <2>1
<1> HIDE DEF n, line
<1>8. Accepted(line) = Kept(ch, 1..n)
  <2>1. Accepted(line) = Kept(ch, {i \in DOMAIN ch : /\ Count({j \in DOMAIN ch : ch[j].arg # None}, i) <= Takes
            /\ Len(line.modes) + Bytes(SubSeq(line.args, 1, Count({j \in DOMAIN ch : ch[j].arg # None}, i))) <= Room})
    BY <1>2 DEF Accepted
  <2> QED BY <1>3, <1>4, <1>5, <1>7, <2>1
<1> QED BY <1>1, <1>8, KeptAll DEF line

-----------------------------------------------------------------------------
(* The lines of a list of targets.                                         *)

\* As many targets after the first w as a line takes: all n of them fit.
Fitting(ts, w, pm, n) ==
    /\ n \in 0..Len(ts) - w /\ n <= pm
    /\ \A i \in 1..n : pm + Bytes(SubSeq(ts, w + 1, w + i)) <= Room

LEMMA FitsIs ==
    ASSUME NEW ts, Len(ts) \in Nat, NEW w \in 0..Len(ts), NEW pm \in Nat
    PROVE  /\ Fitting(ts, w, pm, Fits(ts, w, pm))
           /\ Fitting(ts, w, pm, 1) => 1 <= Fits(ts, w, pm)
<1> DEFINE m == Len(ts) - w
           fit == {n \in 0..m : n <= pm /\ \A i \in 1..n : pm + Bytes(SubSeq(ts, w + 1, w + i)) <= Room}
           down == {k \in 0..m : m - k \in fit}
<1>1. m \in Nat
  OBVIOUS
<1>2. Fits(ts, w, pm) = CHOOSE n \in fit : \A i \in fit : i <= n
  BY DEF Fits
<1>3. \A n : n \in fit <=> Fitting(ts, w, pm, n)
  BY DEF Fitting
<1>4. 0 \in fit
  BY <1>1
<1>5. fit \in SUBSET (0..m)
  OBVIOUS
<1> HIDE DEF fit, m
<1>6. m \in down /\ down \in SUBSET Nat
  <2>1. m \in 0..m /\ m - m = 0
    BY <1>1
  <2>2. m \in down
    BY <1>4, <2>1
  <2>3. down \in SUBSET Nat
    BY <1>1
  <2> QED BY <2>2, <2>3
<1>7. PICK k \in down : \A j \in down : ~(j < k)
  <2> HIDE DEF down
  <2> QED BY <1>6, NatMin
<1>8. m - k \in fit /\ \A i \in fit : i <= m - k
  <2>1. m - k \in fit /\ k \in 0..m
    OBVIOUS
  <2>2. ASSUME NEW i \in fit PROVE i <= m - k
    <3>1. i \in 0..m
      BY <1>5
    <3>2. m - i \in 0..m /\ m - (m - i) = i
      BY <1>1, <3>1
    <3>3. m - i \in down
      BY <3>2
    <3>4. ~(m - i < k)
      BY <1>7, <3>3
    <3> QED BY <1>1, <2>1, <3>1, <3>4
  <2> QED BY <2>1, <2>2
<1>9. Fits(ts, w, pm) \in fit /\ \A i \in fit : i <= Fits(ts, w, pm)
  BY <1>2, <1>8
<1> QED BY <1>3, <1>9

LEMMA EachIs ==
    ASSUME NEW ts \in Seq(Words), NEW sign \in {"+", "-"}, NEW mode \in ToSet(NickModes) \cup TypeA
    PROVE  /\ Proper(Each(ts, sign, mode)) /\ Len(Each(ts, sign, mode)) = Len(ts)
           /\ Given(Each(ts, sign, mode)) = 1..Len(ts)
           /\ \A i \in 1..Len(ts) : Each(ts, sign, mode)[i] = Change(sign, mode, ts[i]) /\ Each(ts, sign, mode)[i].arg = ts[i]
           /\ Each(ts, sign, mode) \in Seq(Asked)
<1> DEFINE ch == Each(ts, sign, mode)
           n == Len(ts)
<1>1. n \in Nat /\ DOMAIN ts = 1..n /\ \A i \in 1..n : ts[i] \in Words
  OBVIOUS
<1>2. ch = [i \in 1..n |-> Change(sign, mode, ts[i])]
  BY <1>1 DEF Each
<1>3. \A i \in 1..n : Change(sign, mode, ts[i]) = [sign |-> sign, mode |-> mode, arg |-> ts[i]]
  BY DEF Change
<1>4. mode \in Letters /\ None \notin Words
  BY WordsAssumption DEF Letters
<1>5. \A i \in 1..n : Change(sign, mode, ts[i]) \in Asked
  BY <1>1, <1>3, <1>4 DEF Asked
<1> HIDE DEF ch, n
<1>6. ch \in Seq(Asked) /\ Len(ch) = n /\ DOMAIN ch = 1..n
  <2>1. [i \in 1..n |-> Change(sign, mode, ts[i])] \in [1..n -> Asked]
    BY <1>5
  <2>2. ch \in [1..n -> Asked]
    BY <1>2, <2>1
  <2>3. ch \in Seq(Asked)
    BY <1>1, <2>2
  <2>4. DOMAIN ch = 1..n
    BY <2>2
  <2> QED BY <1>1, <2>3, <2>4
<1>7. \A i \in 1..n : ch[i] = Change(sign, mode, ts[i]) /\ ch[i].arg = ts[i] /\ ch[i].sign = sign /\ ch[i].mode = mode
  <2> TAKE i \in 1..n
  <2>1. ch[i] = Change(sign, mode, ts[i])
    BY <1>2
  <2>2. ch[i] = [sign |-> sign, mode |-> mode, arg |-> ts[i]]
    BY <1>3, <2>1
  <2> QED BY <2>1, <2>2
<1>8. HasArgument(sign, mode)
  BY DEF HasArgument
<1>9. \A i \in DOMAIN ch : ch[i].arg # None <=> HasArgument(ch[i].sign, ch[i].mode)
  <2> TAKE i \in DOMAIN ch
  <2>1. ch[i].sign = sign /\ ch[i].mode = mode /\ ch[i].arg = ts[i] /\ ts[i] \in Words
    BY <1>1, <1>6, <1>7
  <2>2. HasArgument(ch[i].sign, ch[i].mode)
    BY <1>8, <2>1
  <2>3. ch[i].arg # None
    BY <1>4, <2>1
  <2> QED BY <2>2, <2>3
<1>10. Proper(ch)
  BY <1>6, <1>9 DEF Proper, Asked
<1>11. Given(ch) = 1..n
  BY <1>1, <1>4, <1>6, <1>7 DEF Given
<1> QED BY <1>6, <1>7, <1>10, <1>11 DEF ch, n

LEMMA SubSeqIn ==
    ASSUME NEW ts \in Seq(Words), NEW w \in Nat, NEW n \in Nat, w + n <= Len(ts)
    PROVE  /\ SubSeq(ts, w + 1, w + n) \in Seq(Words) /\ Len(SubSeq(ts, w + 1, w + n)) = n
           /\ \A i \in 1..n : SubSeq(ts, w + 1, w + n)[i] = ts[w + i]
<1>1. \A i \in w + 1..w + n : ts[i] \in Words
  BY ElementOfSeq
<1> DEFINE a == w + 1
           b == w + n
           s == SubSeq(ts, a, b)
<1>2. a \in Int /\ b \in Int /\ b - a + 1 = n /\ (a <= b <=> n >= 1)
  OBVIOUS
<1>3. \A i \in 1..n : a + i - 1 = w + i
  OBVIOUS
<1>4. \A i \in a..b : ts[i] \in Words
  BY <1>1
<1> HIDE DEF a, b
<1>5. s \in Seq(Words) /\ Len(s) = (IF a <= b THEN b - a + 1 ELSE 0) /\ \A i \in 1..b - a + 1 : s[i] = ts[a + i - 1]
  BY <1>2, <1>4, SubSeqProperties
<1> HIDE DEF s
<1>6. Len(s) = n /\ \A i \in 1..n : s[i] = ts[a + i - 1]
  BY <1>2, <1>5
<1>7. \A i \in 1..n : s[i] = ts[w + i]
  BY <1>3, <1>6
<1> QED BY <1>5, <1>6, <1>7 DEF s, a, b

\* The share of one line: the server takes it whole.
LEMMA ShareTaken ==
    ASSUME NEW ts \in Seq(Words), NEW sign \in {"+", "-"}, NEW mode \in ToSet(NickModes) \cup TypeA,
           NEW pm \in 0..Takes, NEW w \in Nat, NEW n \in Nat, w + n <= Len(ts), Fitting(ts, w, pm, n)
    PROVE  /\ Well(Line(Each(SubSeq(ts, w + 1, w + n), sign, mode)))
           /\ InLine(Line(Each(SubSeq(ts, w + 1, w + n), sign, mode))) = Each(SubSeq(ts, w + 1, w + n), sign, mode)
<1> DEFINE s == SubSeq(ts, w + 1, w + n)
           ch == Each(s, sign, mode)
<1>1. s \in Seq(Words) /\ Len(s) = n
  BY SubSeqIn
<1>2. n <= pm /\ \A i \in 1..n : pm + Bytes(SubSeq(ts, w + 1, w + i)) <= Room
  BY DEF Fitting
<1>3. pm \in Nat /\ Takes \in Nat /\ Room \in Nat /\ n <= Takes
  BY <1>2, ServerAssumption DEF Takes
<1>4. \A i \in 1..n : n + Bytes(SubSeq(s, 1, i)) <= Room
  <2> TAKE i \in 1..n
  <2>1. SubSeq(s, 1, i) = SubSeq(ts, w + 1, w + i)
    <3>1. w + 1 \in 1..Len(ts) /\ w + n \in 1..Len(ts) /\ 1 \in 1..(w + n) - (w + 1) + 1 /\ i \in 1..(w + n) - (w + 1) + 1
      OBVIOUS
    <3>2. SubSeq(SubSeq(ts, w + 1, w + n), 1, i) = SubSeq(ts, (w + 1) + 1 - 1, (w + 1) + i - 1)
      BY <3>1, SubSeqOfSubSeq
    <3>3. (w + 1) + 1 - 1 = w + 1 /\ (w + 1) + i - 1 = w + i
      OBVIOUS
    <3> QED BY <3>2, <3>3
  <2>2. SubSeq(ts, w + 1, w + i) \in Seq(Words)
    BY SubSeqIn
  <2> DEFINE b == Bytes(SubSeq(ts, w + 1, w + i))
  <2>3. b \in Nat /\ pm + b <= Room
    BY <1>2, <2>2, BytesNat
  <2> HIDE DEF b
  <2>4. n + b <= Room
    BY <1>2, <1>3, <2>3
  <2> QED BY <2>1, <2>4 DEF b
<1> HIDE DEF s, ch
<1>5. /\ Proper(ch) /\ Len(ch) = n /\ Given(ch) = 1..n
      /\ \A i \in 1..n : ch[i].arg = s[i]
  BY <1>1, EachIs DEF ch
<1>6. s = [i \in 1..Len(ch) |-> ch[i].arg]
  BY <1>1, <1>5
<1>7. Accepted(Line(ch)) = ch
  BY <1>3, <1>4, <1>5, <1>6, FullLine
<1>8. Well(Line(ch)) /\ InLine(Line(ch)) = ch
  BY <1>5, <1>7, WellLine
<1> QED BY <1>8 DEF s, ch

\* Two shares, one after the other.
LEMMA EachJoins ==
    ASSUME NEW ts \in Seq(Words), NEW sign \in {"+", "-"}, NEW mode \in ToSet(NickModes) \cup TypeA,
           NEW w \in Nat, NEW n \in Nat, w + n <= Len(ts)
    PROVE  Each(SubSeq(ts, 1, w), sign, mode) \o Each(SubSeq(ts, w + 1, w + n), sign, mode) = Each(SubSeq(ts, 1, w + n), sign, mode)
<1> DEFINE E(q) == Each(q, sign, mode)
           a == SubSeq(ts, 1, w)
           b == SubSeq(ts, w + 1, w + n)
           c == SubSeq(ts, 1, w + n)
<1>1. a \in Seq(Words) /\ Len(a) = w /\ \A i \in 1..w : a[i] = ts[i]
  <2>1. 0 + 1 = 1 /\ 0 + w = w /\ 0 + w <= Len(ts) /\ \A i \in 1..w : 0 + i = i
    OBVIOUS
  <2>2. SubSeq(ts, 0 + 1, 0 + w) \in Seq(Words) /\ Len(SubSeq(ts, 0 + 1, 0 + w)) = w
        /\ \A i \in 1..w : SubSeq(ts, 0 + 1, 0 + w)[i] = ts[0 + i]
    BY <2>1, SubSeqIn
  <2> QED BY <2>1, <2>2
<1>2. b \in Seq(Words) /\ Len(b) = n /\ \A i \in 1..n : b[i] = ts[w + i]
  BY SubSeqIn
<1>3. c \in Seq(Words) /\ Len(c) = w + n /\ \A i \in 1..w + n : c[i] = ts[i]
  <2> DEFINE m == w + n
  <2>0. m \in Nat /\ m <= Len(ts)
    OBVIOUS
  <2> HIDE DEF m
  <2>1. 0 + 1 = 1 /\ 0 + m = m /\ 0 + m <= Len(ts) /\ \A i \in 1..m : 0 + i = i
    BY <2>0
  <2>2. SubSeq(ts, 0 + 1, 0 + m) \in Seq(Words) /\ Len(SubSeq(ts, 0 + 1, 0 + m)) = m
        /\ \A i \in 1..m : SubSeq(ts, 0 + 1, 0 + m)[i] = ts[0 + i]
    BY <2>0, <2>1, SubSeqIn
  <2>3. SubSeq(ts, 1, m) \in Seq(Words) /\ Len(SubSeq(ts, 1, m)) = m /\ \A i \in 1..m : SubSeq(ts, 1, m)[i] = ts[i]
    BY <2>1, <2>2
  <2> QED BY <2>3 DEF m
<1> HIDE DEF a, b, c
<1>4. E(a) \in Seq(Asked) /\ Len(E(a)) = w /\ \A i \in 1..w : E(a)[i] = Change(sign, mode, ts[i])
  BY <1>1, EachIs
<1>5. E(b) \in Seq(Asked) /\ Len(E(b)) = n /\ \A i \in 1..n : E(b)[i] = Change(sign, mode, ts[w + i])
  BY <1>2, EachIs
<1>6. E(c) \in Seq(Asked) /\ Len(E(c)) = w + n /\ \A i \in 1..w + n : E(c)[i] = Change(sign, mode, ts[i])
  <2> DEFINE m == w + n
  <2>1. c \in Seq(Words) /\ Len(c) = m /\ \A i \in 1..m : c[i] = ts[i]
    BY <1>3
  <2> HIDE DEF m
  <2>2. E(c) \in Seq(Asked) /\ Len(E(c)) = m /\ \A i \in 1..m : E(c)[i] = Change(sign, mode, ts[i])
    BY <2>1, EachIs
  <2> QED BY <2>2 DEF m
<1> HIDE DEF E
<1>7. E(a) \o E(b) \in Seq(Asked) /\ Len(E(a) \o E(b)) = w + n
      /\ \A i \in 1..w + n : (E(a) \o E(b))[i] = IF i <= w THEN E(a)[i] ELSE E(b)[i - w]
  <2> DEFINE x == E(a)
             y == E(b)
  <2>1. x \in Seq(Asked) /\ y \in Seq(Asked) /\ Len(x) = w /\ Len(y) = n
    BY <1>4, <1>5
  <2> HIDE DEF x, y
  <2>2. x \o y \in Seq(Asked) /\ Len(x \o y) = Len(x) + Len(y)
        /\ \A i \in 1..Len(x) + Len(y) : (x \o y)[i] = IF i <= Len(x) THEN x[i] ELSE y[i - Len(x)]
    BY <2>1, ConcatProperties
  <2>3. x \o y \in Seq(Asked) /\ Len(x \o y) = w + n
        /\ \A i \in 1..w + n : (x \o y)[i] = IF i <= w THEN x[i] ELSE y[i - w]
    BY <2>1, <2>2
  <2> QED BY <2>3 DEF x, y
<1>8. \A i \in 1..w + n : (E(a) \o E(b))[i] = E(c)[i]
  <2> TAKE i \in 1..w + n
  <2>1. CASE i <= w
    <3>1. i \in 1..w
      BY <2>1
    <3> QED BY <1>4, <1>6, <1>7, <2>1, <3>1
  <2>2. CASE ~(i <= w)
    <3>1. i - w \in 1..n /\ w + (i - w) = i
      BY <2>2
    <3> QED BY <1>5, <1>6, <1>7, <2>2, <3>1
  <2> QED BY <2>1, <2>2
<1>9. E(a) \o E(b) = E(c)
  BY <1>6, <1>7, <1>8, SeqEqual
<1> QED BY <1>9 DEF E, a, b, c

\* One turn of the loop: the next line, unless nothing fits.
Turn(s, ts, sign, mode, pm) ==
    IF Fits(ts, s.w, pm) < 1 THEN s
    ELSE [lines |-> Append(s.lines, Line(Each(SubSeq(ts, s.w + 1, s.w + Fits(ts, s.w, pm)), sign, mode))),
          w |-> s.w + Fits(ts, s.w, pm)]

Turns(g, ts, sign, mode, pm) ==
    g = [i \in 0..Len(ts) |-> IF i = 0 THEN [lines |-> <<>>, w |-> 0] ELSE Turn(g[i - 1], ts, sign, mode, pm)]

LEMMA TurnsExist ==
    ASSUME NEW ts, NEW sign, NEW mode, NEW pm, Len(ts) \in Nat
    PROVE  \E g : Turns(g, ts, sign, mode, pm)
<1> DEFINE start == [lines |-> <<>>, w |-> 0]
           To(s) == Turn(s, ts, sign, mode, pm)
           Upto(n, g) == g = [i \in 0..n |-> IF i = 0 THEN start ELSE To(g[i - 1])]
           T == {n \in Nat : \E g : Upto(n, g)}
<1> HIDE DEF To, start
<1>1. 0 \in T
  <2>1. Upto(0, [i \in 0..0 |-> start])
    OBVIOUS
  <2> QED BY <2>1
<1>2. ASSUME NEW n \in Nat, n \in T PROVE n + 1 \in T
  <2>1. PICK g : Upto(n, g)
    BY <1>2
  <2> DEFINE h == [i \in 0..(n+1) |-> IF i <= n THEN g[i] ELSE To(g[i - 1])]
  <2>2. \A i \in 0..n : g[i] = IF i = 0 THEN start ELSE To(g[i - 1])
    BY <2>1
  <2>3. ASSUME NEW i \in 0..(n+1)
        PROVE  h[i] = IF i = 0 THEN start ELSE To(h[i - 1])
    <3>1. i # 0 => i - 1 \in 0..(n+1) /\ i - 1 <= n /\ h[i-1] = g[i-1]
      OBVIOUS
    <3>2. CASE i <= n
      <4>1. h[i] = g[i] /\ i \in 0..n
        BY <3>2
      <4> HIDE DEF h
      <4> QED BY <2>2, <3>1, <4>1
    <3>3. CASE ~(i <= n)
      <4>1. h[i] = IF i <= n THEN g[i] ELSE To(g[i - 1])
        OBVIOUS
      <4>2. i # 0
        BY <3>3
      <4> HIDE DEF h
      <4> QED BY <3>1, <3>3, <4>1, <4>2
    <3> QED BY <3>2, <3>3
  <2>4. Upto(n+1, h)
    <3>1. h = [i \in 0..(n+1) |-> h[i]]
      OBVIOUS
    <3> HIDE DEF h
    <3> QED BY <2>3, <3>1
  <2>5. \E f : Upto(n+1, f)
    <3> HIDE DEF h, Upto
    <3> QED BY <2>4
  <2> HIDE DEF Upto
  <2> QED BY <2>5
<1> HIDE DEF T
<1>3. Len(ts) \in T
  BY <1>1, <1>2, NatInduct
<1> QED BY <1>3 DEF T, Turns, start, To

LEMMA SendTable ==
    ASSUME NEW ts, NEW sign, NEW mode, NEW pm, Len(ts) \in Nat
    PROVE  \E g : /\ send_channel_modes(ts, sign, mode, pm) = g[Len(ts)].lines
                  /\ \A i \in 0..Len(ts) : g[i] = IF i = 0 THEN [lines |-> <<>>, w |-> 0]
                                                  ELSE Turn(g[i - 1], ts, sign, mode, pm)
<1> DEFINE g == CHOOSE g : Turns(g, ts, sign, mode, pm)
<1>1. Turns(g, ts, sign, mode, pm)
  BY TurnsExist
<1>2. send_channel_modes(ts, sign, mode, pm) = g[Len(ts)].lines
  BY DEF send_channel_modes, Turns, Turn
<1> HIDE DEF g
<1>3. \A i \in 0..Len(ts) : g[i] = IF i = 0 THEN [lines |-> <<>>, w |-> 0] ELSE Turn(g[i - 1], ts, sign, mode, pm)
  BY <1>1 DEF Turns
<1> QED BY <1>2, <1>3

\* What may be sent: each target fits on a line, with all the letters there can be.
Sending(ts, sign, mode, pm) ==
    /\ ts \in Seq(Words) /\ sign \in {"+", "-"} /\ mode \in ToSet(NickModes) \cup TypeA /\ pm \in 1..Takes
    /\ \A i \in 1..Len(ts) : pm + Length[ts[i]] + 1 <= Room

\* The lines so far hold the first w targets.
SentUpTo(s, ts, sign, mode) ==
    /\ s = [lines |-> s.lines, w |-> s.w] /\ s.w \in 0..Len(ts)
    /\ Asks(<<>>, s.lines, Each(SubSeq(ts, 1, s.w), sign, mode))

LEMMA TurnSends ==
    ASSUME NEW ts, NEW sign, NEW mode, NEW pm, Sending(ts, sign, mode, pm),
           NEW s, SentUpTo(s, ts, sign, mode),
           NEW x, x = Turn(s, ts, sign, mode, pm)
    PROVE  SentUpTo(x, ts, sign, mode) /\ (x.w > s.w \/ x.w = Len(ts))
<1> DEFINE w == s.w
           n == Fits(ts, w, pm)
           line == Line(Each(SubSeq(ts, w + 1, w + n), sign, mode))
           r == Each(SubSeq(ts, w + 1, w + n), sign, mode)
           q == Each(SubSeq(ts, 1, w), sign, mode)
<1>1. /\ ts \in Seq(Words) /\ sign \in {"+", "-"} /\ mode \in ToSet(NickModes) \cup TypeA /\ pm \in 0..Takes /\ pm \in Nat /\ 1 <= pm
      /\ \A i \in 1..Len(ts) : pm + Length[ts[i]] + 1 <= Room
  <2>1. Takes \in Nat
    BY ServerAssumption DEF Takes
  <2> QED BY <2>1 DEF Sending
<1>2. s = [lines |-> s.lines, w |-> w] /\ w \in 0..Len(ts) /\ w \in Nat /\ Asks(<<>>, s.lines, q) /\ Len(ts) \in Nat
  BY <1>1 DEF SentUpTo
<1>3. Fitting(ts, w, pm, n) /\ (Fitting(ts, w, pm, 1) => 1 <= n)
  BY <1>1, <1>2, FitsIs
<1>4. n \in Nat /\ w + n <= Len(ts) /\ n \in 0..Len(ts) - w
  BY <1>2, <1>3 DEF Fitting
<1>5. w < Len(ts) => 1 <= n
  <2> SUFFICES ASSUME w < Len(ts) PROVE Fitting(ts, w, pm, 1)
    BY <1>3
  <2>1. w + 1 \in 1..Len(ts) /\ 1 \in 0..Len(ts) - w /\ w + 1 <= Len(ts) /\ ts[w + 1] \in Words
    BY <1>1, <1>2
  <2> DEFINE b == SubSeq(ts, w + 1, w + 1)
             y == ts[w + 1]
  <2>2. Len(b) = 1 /\ b[1] = y
    BY <1>1, <1>2, <2>1, SubSeqIn
  <2>3. Bytes(b) = Length[y] + 1
    <3> HIDE DEF b, y
    <3>1. y \in Words
      BY <2>1 DEF y
    <3> QED BY <2>2, <3>1, BytesFew
  <2>4. pm + Length[y] + 1 <= Room /\ Length[y] \in Nat
    BY <1>1, <2>1, WordsAssumption
  <2> HIDE DEF b, y
  <2>5. pm + Bytes(b) <= Room
    BY <1>1, <2>3, <2>4
  <2>6. \A i \in 1..1 : pm + Bytes(SubSeq(ts, w + 1, w + i)) <= Room
    <3>1. \A i \in 1..1 : i = 1
      OBVIOUS
    <3> QED BY <2>5, <3>1 DEF b
  <2> QED BY <1>1, <2>1, <2>6 DEF Fitting
<1>6. x = IF n < 1 THEN s ELSE [lines |-> Append(s.lines, line), w |-> w + n]
  BY DEF Turn
<1> HIDE DEF n, w, line, r, q
<1>7. CASE n < 1
  <2>1. x = s
    BY <1>6, <1>7
  <2>2. w = Len(ts)
    BY <1>2, <1>4, <1>5, <1>7
  <2> QED BY <2>1, <2>2 DEF w
<1>8. CASE ~(n < 1)
  <2>1. x = [lines |-> Append(s.lines, line), w |-> w + n]
    BY <1>6, <1>8
  <2>2. x.lines = Append(s.lines, line) /\ x.w = w + n /\ x = [lines |-> x.lines, w |-> x.w]
    BY <2>1
  <2>3. w + n \in 0..Len(ts) /\ w + n > w
    BY <1>2, <1>4, <1>8
  <2>4. Well(line) /\ InLine(line) = r
    BY <1>1, <1>2, <1>3, <1>4, ShareTaken DEF line, r
  <2>5. Asks(<<>>, <<line>>, r)
    BY <2>4, AsksOne
  <2>6. Append(s.lines, line) = s.lines \o <<line>>
    <3>1. s.lines \in Seq(Lines) /\ line \in Lines
      BY <1>2, <2>4 DEF Asks, Well
    <3> QED BY <3>1, AppendIsConcat
  <2>7. Asks(<<>>, s.lines \o <<line>>, q \o r)
    BY <1>2, <2>5, AsksMore
  <2>8. q \o r = Each(SubSeq(ts, 1, w + n), sign, mode)
    <3>1. ts \in Seq(Words) /\ sign \in {"+", "-"} /\ mode \in ToSet(NickModes) \cup TypeA
          /\ w \in Nat /\ n \in Nat /\ w + n <= Len(ts)
      BY <1>1, <1>2, <1>4
    <3>2. Each(SubSeq(ts, 1, w), sign, mode) \o Each(SubSeq(ts, w + 1, w + n), sign, mode)
          = Each(SubSeq(ts, 1, w + n), sign, mode)
      BY <3>1, EachJoins, Zenon
    <3> QED BY <3>2, Zenon DEF q, r
  <2>9. Asks(<<>>, x.lines, Each(SubSeq(ts, 1, x.w), sign, mode))
    BY <2>2, <2>6, <2>7, <2>8
  <2> QED BY <2>2, <2>3, <2>9 DEF SentUpTo, w
<1> QED BY <1>7, <1>8

LEMMA SendsAll ==
    ASSUME NEW ts, NEW sign, NEW mode, NEW pm, Sending(ts, sign, mode, pm)
    PROVE  Asks(<<>>, send_channel_modes(ts, sign, mode, pm), Each(ts, sign, mode))
<1> DEFINE n == Len(ts)
<1>1. ts \in Seq(Words) /\ n \in Nat /\ sign \in {"+", "-"} /\ mode \in ToSet(NickModes) \cup TypeA
  BY DEF Sending
<1>2. PICK g : /\ send_channel_modes(ts, sign, mode, pm) = g[n].lines
               /\ \A i \in 0..n : g[i] = IF i = 0 THEN [lines |-> <<>>, w |-> 0] ELSE Turn(g[i - 1], ts, sign, mode, pm)
  BY <1>1, SendTable
<1> DEFINE Ok(i) == SentUpTo(g[i], ts, sign, mode) /\ g[i].w >= i
           T == {i \in Nat : i <= n => Ok(i)}
<1>3. 0 \in T
  <2>1. 0 \in 0..n
    BY <1>1
  <2>2. g[0] = [lines |-> <<>>, w |-> 0]
    BY <1>2, <2>1
  <2>3. g[0].lines = <<>> /\ g[0].w = 0 /\ g[0] = [lines |-> g[0].lines, w |-> g[0].w]
    BY <2>2
  <2>4. SubSeq(ts, 1, 0) = <<>>
    BY <1>1, SubSeqEmpty
  <2>5. Each(<<>>, sign, mode) = <<>>
    BY DEF Each
  <2>6. Asks(<<>>, <<>>, <<>>)
    <3>1. <<>> \in Seq(AnyChange)
      OBVIOUS
    <3> QED BY <3>1, AsksNone
  <2>7. SentUpTo(g[0], ts, sign, mode)
    BY <2>1, <2>3, <2>4, <2>5, <2>6 DEF SentUpTo
  <2> QED BY <2>3, <2>7
<1>4. ASSUME NEW i \in Nat, i \in T PROVE i + 1 \in T
  <2> SUFFICES ASSUME i + 1 <= n PROVE Ok(i + 1)
    OBVIOUS
  <2>1. i + 1 \in 0..n /\ i + 1 # 0 /\ (i + 1) - 1 = i /\ i <= n
    BY <1>1
  <2>2. SentUpTo(g[i], ts, sign, mode) /\ g[i].w >= i
    BY <1>4, <2>1
  <2>3. g[i + 1] = Turn(g[i], ts, sign, mode, pm)
    BY <1>2, <2>1
  <2>4. SentUpTo(g[i + 1], ts, sign, mode) /\ (g[i + 1].w > g[i].w \/ g[i + 1].w = n)
    BY <2>2, <2>3, TurnSends
  <2>5. g[i].w \in 0..n /\ g[i + 1].w \in 0..n
    BY <2>2, <2>4 DEF SentUpTo
  <2> HIDE DEF n
  <2>6. g[i + 1].w >= i + 1
    BY <1>1, <2>1, <2>2, <2>4, <2>5
  <2> QED BY <2>4, <2>6
<1>5. n \in T
  <2> HIDE DEF T
  <2> QED BY <1>1, <1>3, <1>4, NatInduct
<1>6. SentUpTo(g[n], ts, sign, mode) /\ g[n].w >= n
  BY <1>1, <1>5
<1>7. g[n].w = n /\ Asks(<<>>, g[n].lines, Each(SubSeq(ts, 1, g[n].w), sign, mode))
  BY <1>1, <1>6 DEF SentUpTo
<1>8. SubSeq(ts, 1, n) = ts
  BY <1>1, SubSeqFull
<1> QED BY <1>2, <1>7, <1>8

-----------------------------------------------------------------------------
(* The commands.                                                           *)

LEMMA KicksAsk ==
    ASSUME NEW ns \in Seq(Users)
    PROVE  Asks(<<>>, Kicks(ns), Kicked(ns))
<1> DEFINE n == Len(ns)
           ls == Kicks(ns)
           ch == Kicked(ns)
           p == [i \in 0..n |-> SubSeq(ch, 1, i)]
<1>1. n \in Nat /\ DOMAIN ns = 1..n /\ \A i \in 1..n : ns[i] \in Users
  OBVIOUS
<1>2. ls = [i \in 1..n |-> KickLine(ns[i])] /\ ch = [i \in 1..n |-> Change("kick", None, ns[i])]
  BY <1>1 DEF Kicks, Kicked
<1>3. \A i \in 1..n : /\ Well(KickLine(ns[i])) /\ KickLine(ns[i]) \in Lines
                      /\ InLine(KickLine(ns[i])) = <<Change("kick", None, ns[i])>>
  <2> TAKE i \in 1..n
  <2>1. ns[i] \in Users
    BY <1>1
  <2>2. Well(KickLine(ns[i])) /\ InLine(KickLine(ns[i])) = <<Change("kick", None, ns[i])>>
    BY <2>1, WellKick
  <2> QED BY <2>2 DEF Well
<1>4. \A i \in 1..n : Change("kick", None, ns[i]) \in AnyChange
  <2> TAKE i \in 1..n
  <2>1. ns[i] \in Words
    BY <1>1, WordsAssumption
  <2>2. Change("kick", None, ns[i]) = [sign |-> "kick", mode |-> None, arg |-> ns[i]]
    BY DEF Change
  <2> QED BY <2>1, <2>2 DEF AnyChange
<1> HIDE DEF n, ls, ch
<1>5. ls \in Seq(Lines) /\ Len(ls) = n /\ \A i \in 1..n : ls[i] = KickLine(ns[i])
  <2>1. ls \in [1..n -> Lines]
    BY <1>2, <1>3
  <2> QED BY <1>1, <1>2, <2>1
<1>6. ch \in Seq(AnyChange) /\ Len(ch) = n /\ \A i \in 1..n : ch[i] = Change("kick", None, ns[i])
  <2>1. ch \in [1..n -> AnyChange]
    BY <1>2, <1>4
  <2>2. ch \in Seq(AnyChange) /\ Len(ch) = n
    BY <1>1, <2>1
  <2> QED BY <1>2, <2>2
<1>7. p = [i \in 0..n |-> p[i]] /\ \A i \in 0..n : p[i] = SubSeq(ch, 1, i)
  OBVIOUS
<1> HIDE DEF p
<1>8. p[0] = <<>>
  <2>1. 0 \in 0..n
    BY <1>1
  <2> QED BY <1>7, <2>1, SubSeqEmpty
<1>9. p[n] = ch
  <2>1. n \in 0..n
    BY <1>1
  <2> QED BY <1>6, <1>7, <2>1, SubSeqFull
<1>10. \A i \in 0..n : p[i] = IF i = 0 THEN <<>> ELSE p[i - 1] \o InLine(ls[i])
  <2> TAKE i \in 0..n
  <2>1. CASE i = 0
    BY <1>8, <2>1
  <2>2. CASE i # 0
    <3>1. i \in 1..n /\ 1 \in 1..n /\ i - 1 \in 0..n
      BY <1>1, <2>2
    <3>2. SubSeq(ch, 1, i) = SubSeq(ch, 1, i - 1) \o <<ch[i]>>
      <4>1. 1 \in 1..Len(ch) /\ i \in 1..Len(ch)
        BY <1>6, <3>1
      <4> QED BY <1>6, <4>1, SubSeqRecursiveSecond
    <3>3. InLine(ls[i]) = <<ch[i]>>
      BY <1>3, <1>5, <1>6, <3>1
    <3>4. p[i] = p[i - 1] \o InLine(ls[i])
      BY <1>7, <3>1, <3>2, <3>3
    <3> QED BY <2>2, <3>4
  <2> QED BY <2>1, <2>2
<1>11. Sent(p, <<>>, ls, ch)
  BY <1>5, <1>7, <1>9, <1>10 DEF Sent
<1>12. \A i \in 1..n : Well(ls[i])
  BY <1>3, <1>5
<1>13. <<>> \in Seq(AnyChange)
  OBVIOUS
<1> QED BY <1>5, <1>6, <1>11, <1>12, <1>13 DEF Asks, ls, ch

\* A ban, and the level taken before it, are on one line.
LEMMA BanAsks ==
    ASSUME NEW u \in Users, NEW mask \in {u, Host[u]}
    PROVE  /\ Asks(<<>>, <<Line(<<Change("+", "b", mask)>>)>>, <<Change("+", "b", mask)>>)
           /\ "o" \in ToSet(NickModes) =>
                Asks(<<>>, <<Line(<<Change("-", "o", u), Change("+", "b", mask)>>)>>, <<Change("-", "o", u), Change("+", "b", mask)>>)
<1>1. /\ u \in Words /\ mask \in Words /\ None \notin Words /\ Length[u] \in Nat /\ Length[mask] \in Nat
      /\ 2 + Length[u] + 1 + Length[mask] + 1 <= Room
  BY WordsAssumption, RoomAssumption
<1>2. "b" \in TypeA /\ Room \in Nat /\ Takes \in Nat /\ Takes >= 3
  BY ServerAssumption DEF Takes
<1>3. Change("+", "b", mask) \in Asked /\ HasArgument("+", "b") /\ Change("+", "b", mask).arg = mask
      /\ Change("+", "b", mask).sign = "+" /\ Change("+", "b", mask).mode = "b"
  <2>1. Change("+", "b", mask) = [sign |-> "+", mode |-> "b", arg |-> mask]
    BY DEF Change
  <2>2. HasArgument("+", "b") /\ "b" \in Letters
    BY <1>2 DEF HasArgument, Letters
  <2> QED BY <1>1, <2>1, <2>2 DEF Asked
<1> DEFINE c == Change("+", "b", mask)
           d == Change("-", "o", u)
<1>4. Asks(<<>>, <<Line(<<c>>)>>, <<c>>)
  <2> DEFINE ch == <<c>>
             args == <<mask>>
  <2>1. ch \in Seq(Asked) /\ Len(ch) = 1 /\ DOMAIN ch = 1..1 /\ ch[1] = c /\ \A i \in 1..1 : i = 1
    BY <1>3
  <2>2. Len(args) = 1 /\ args[1] = mask /\ args = [i \in 1..1 |-> args[i]] /\ args \in Seq(Words)
    BY <1>1
  <2> HIDE DEF ch, args, c
  <2>3. Proper(ch) /\ Given(ch) = 1..1
    BY <1>1, <1>3, <2>1 DEF Proper, Asked, Given, c
  <2>4. args = [i \in 1..1 |-> ch[i].arg]
    BY <1>3, <2>1, <2>2 DEF c
  <2>5. \A i \in 1..1 : Len(ch) + Bytes(SubSeq(args, 1, i)) <= Room
    <3>1. SubSeq(args, 1, 1) = args
      <4>1. SubSeq(args, 1, Len(args)) = args
        BY <2>2, SubSeqFull
      <4> QED BY <2>2, <4>1
    <3>2. Bytes(args) = Length[mask] + 1
      BY <1>1, <2>2, BytesFew
    <3>3. 1 + Bytes(args) <= Room
      BY <1>1, <1>2, <3>2
    <3> QED BY <2>1, <3>1, <3>3
  <2>6. Accepted(Line(ch)) = ch
    <3>1. Len(ch) <= Takes
      BY <1>2, <2>1
    <3>2. Given(ch) = 1..Len(ch) /\ args = [i \in 1..Len(ch) |-> ch[i].arg]
          /\ \A i \in 1..Len(ch) : Len(ch) + Bytes(SubSeq(args, 1, i)) <= Room
      BY <2>1, <2>3, <2>4, <2>5
    <3> QED BY <2>3, <3>1, <3>2, FullLine
  <2>7. Well(Line(ch)) /\ InLine(Line(ch)) = ch
    BY <2>3, <2>6, WellLine
  <2> QED BY <2>7, AsksOne DEF ch
<1>5. ASSUME "o" \in ToSet(NickModes) PROVE Asks(<<>>, <<Line(<<d, c>>)>>, <<d, c>>)
  <2>0. d \in Asked /\ HasArgument("-", "o") /\ d.arg = u /\ d.sign = "-" /\ d.mode = "o"
    <3>1. d = [sign |-> "-", mode |-> "o", arg |-> u]
      BY DEF Change
    <3>2. HasArgument("-", "o") /\ "o" \in Letters
      BY <1>5 DEF HasArgument, Letters
    <3> QED BY <1>1, <3>1, <3>2 DEF Asked
  <2> DEFINE ch == <<d, c>>
             args == <<u, mask>>
  <2>1. ch \in Seq(Asked) /\ Len(ch) = 2 /\ DOMAIN ch = 1..2 /\ ch[1] = d /\ ch[2] = c /\ \A i \in 1..2 : i = 1 \/ i = 2
    BY <1>3, <2>0
  <2>2. Len(args) = 2 /\ args[1] = u /\ args[2] = mask /\ args = [i \in 1..2 |-> args[i]] /\ args \in Seq(Words)
    BY <1>1
  <2> HIDE DEF ch, args, c, d
  <2>3. Proper(ch) /\ Given(ch) = 1..2
    <3>1. \A i \in 1..2 : ch[i].arg # None /\ HasArgument(ch[i].sign, ch[i].mode)
      BY <1>1, <1>3, <2>0, <2>1 DEF c
    <3> QED BY <2>1, <3>1 DEF Proper, Asked, Given
  <2>4. args = [i \in 1..2 |-> ch[i].arg]
    <3>1. \A i \in 1..2 : args[i] = ch[i].arg
      BY <1>3, <2>0, <2>1, <2>2 DEF c
    <3> QED BY <2>2, <3>1
  <2>5. \A i \in 1..2 : Len(ch) + Bytes(SubSeq(args, 1, i)) <= Room
    <3>1. SubSeq(args, 1, 2) = args
      <4>1. SubSeq(args, 1, Len(args)) = args
        BY <2>2, SubSeqFull
      <4> QED BY <2>2, <4>1
    <3>2. Bytes(args) = Length[u] + 1 + Length[mask] + 1
      BY <1>1, <2>2, BytesFew
    <3>3. 2 + Bytes(args) <= Room
      BY <1>1, <1>2, <3>2
    <3> DEFINE b == SubSeq(args, 1, 1)
    <3>4. Len(b) = 1 /\ b[1] = u
      BY <2>2
    <3>5. Bytes(b) = Length[u] + 1
      <4> HIDE DEF b
      <4> QED BY <1>1, <3>4, BytesFew
    <3> HIDE DEF b
    <3>6. 2 + Bytes(b) <= Room
      BY <1>1, <1>2, <3>5
    <3> QED BY <2>1, <3>1, <3>3, <3>6 DEF b
  <2>6. Accepted(Line(ch)) = ch
    <3>1. Len(ch) <= Takes
      BY <1>2, <2>1
    <3>2. Given(ch) = 1..Len(ch) /\ args = [i \in 1..Len(ch) |-> ch[i].arg]
          /\ \A i \in 1..Len(ch) : Len(ch) + Bytes(SubSeq(args, 1, i)) <= Room
      BY <2>1, <2>3, <2>4, <2>5
    <3> QED BY <2>3, <3>1, <3>2, FullLine
  <2>7. Well(Line(ch)) /\ InLine(Line(ch)) = ch
    BY <2>3, <2>6, WellLine
  <2> QED BY <2>7, AsksOne DEF ch
<1> QED BY <1>4, <1>5

LEMMA PerLine ==
    /\ modes_per_line(0) \in 1..Takes /\ modes_per_line(2) \in 1..Takes /\ modes_per_line(2) <= modes_per_line(0)
    /\ Takes \in Nat
<1>1. Announced \in Nat /\ Announced \notin {1, 2}
  BY ServerAssumption
<1>2. modes_per_line(0) = (IF Announced < 3 THEN 3 ELSE Announced) /\ modes_per_line(2) = 2
  BY DEF modes_per_line
<1> QED BY <1>1, <1>2 DEF Takes

LEMMA ShortSends ==
    ASSUME NEW ts \in Seq(Words), \A i \in 1..Len(ts) : Short(ts[i]), NEW want \in {0, 2},
           NEW sign \in {"+", "-"}, NEW mode \in ToSet(NickModes) \cup TypeA
    PROVE  Asks(<<>>, send_channel_modes(ts, sign, mode, modes_per_line(want)), Each(ts, sign, mode))
<1> DEFINE pm == modes_per_line(want)
<1>1. pm \in 1..Takes /\ pm <= modes_per_line(0) /\ modes_per_line(0) \in Nat /\ Takes \in Nat
  BY PerLine
<1>2. \A i \in 1..Len(ts) : modes_per_line(0) + Length[ts[i]] + 1 <= Room /\ Length[ts[i]] \in Nat
  BY WordsAssumption DEF Short
<1>3. Room \in Nat
  BY ServerAssumption
<1> HIDE DEF pm
<1>4. \A i \in 1..Len(ts) : pm + Length[ts[i]] + 1 <= Room
  BY <1>1, <1>2, <1>3
<1>5. Sending(ts, sign, mode, pm)
  BY <1>1, <1>4 DEF Sending
<1>6. Asks(<<>>, send_channel_modes(ts, sign, mode, pm), Each(ts, sign, mode))
  BY <1>5, SendsAll
<1> QED BY <1>6 DEF pm

\* What is in the order of the user list is a list of users.
LEMMA ListedIs ==
    ASSUME NEW us, us \subseteq Users, NEW q \in Listed(us)
    PROVE  q \in Seq(Users) /\ q \in Seq(Words) /\ \A i \in 1..Len(q) : Short(q[i])
<1>1. q \in Orders(us)
  BY DEF Listed
<1>2. IsFiniteSet(us)
  BY WordsAssumption, FS_Subset
<1>3. q \in Seq(us) /\ \A i \in 1..Len(q) : q[i] \in us
  BY <1>1, <1>2, OrderIs
<1>4. q \in Seq(Users) /\ \A i \in 1..Len(q) : q[i] \in Users
  BY <1>3
<1>5. q \in Seq(Words)
  BY <1>4, WordsAssumption
<1> QED BY <1>4, <1>5, RoomAssumption

LEMMA CommandingAsks ==
    ASSUME NEW STATE lines, NEW STATE changes, Commanding(lines, changes),
           Asks(<<>>, lines, changes), Asks(done, toserver, asked)
    PROVE  Asks(done', toserver', asked') /\ UNCHANGED <<access, current, key, limit, level, setting, masks, toclient>>
<1>1. done' = done /\ toserver' = toserver \o lines /\ asked' = asked \o changes
      /\ UNCHANGED <<access, current, key, limit, level, setting, masks, toclient>>
  BY DEF Commanding, client, server
<1>2. Asks(done, toserver \o lines, asked \o changes)
  BY AsksMore
<1> QED BY <1>1, <1>2

LEMMA TwoAre == \A a, b : <<a>> \o <<b>> = <<a, b>>
<1> TAKE a, b
<1> DEFINE S == {a, b}
           s == <<a>>
           t == <<b>>
           st == <<a, b>>
<1>1. s \in Seq(S) /\ t \in Seq(S) /\ Len(s) = 1 /\ Len(t) = 1 /\ s[1] = a /\ t[1] = b
  OBVIOUS
<1>2. st \in Seq(S) /\ Len(st) = 2 /\ st[1] = a /\ st[2] = b
  OBVIOUS
<1> HIDE DEF S, s, t, st
<1>3. s \o t \in Seq(S) /\ Len(s \o t) = 2 /\ (s \o t)[1] = a /\ (s \o t)[2] = b
  <2>1. /\ s \o t \in Seq(S) /\ Len(s \o t) = Len(s) + Len(t)
        /\ \A i \in 1..Len(s) + Len(t) : (s \o t)[i] = IF i <= Len(s) THEN s[i] ELSE t[i - Len(s)]
    BY <1>1, ConcatProperties
  <2>2. 1 \in 1..1 + 1 /\ 2 \in 1..1 + 1 /\ 1 <= 1 /\ ~(2 <= 1) /\ 2 - 1 = 1 /\ 1 + 1 = 2
    OBVIOUS
  <2> QED BY <1>1, <2>1, <2>2
<1>4. \A i \in 1..Len(st) : i = 1 \/ i = 2
  BY <1>2
<1>5. s \o t = st
  BY <1>2, <1>3, <1>4, SeqEqual
<1> QED BY <1>5 DEF s, t, st

LEMMA CommandAsks ==
    ASSUME Command, Asks(done, toserver, asked), DOMAIN access \subseteq Users,
           access \in [DOMAIN access -> SUBSET ToSet(NickModes)]
    PROVE  Asks(done', toserver', asked') /\ UNCHANGED <<access, current, key, limit, level, setting, masks, toclient>>
<1> DEFINE Goal == Asks(done', toserver', asked') /\ UNCHANGED <<access, current, key, limit, level, setting, masks, toclient>>
<1>0. \A t \in TypedNicks \cup TypedMasks : t \in Seq(Words) /\ \A i \in 1..Len(t) : Short(t[i])
  BY WordsAssumption, RoomAssumption
<1>1. ASSUME cmd_op PROVE Goal
  <2>1. PICK nicks \in TypedNicks, sign \in {"+", "-"}, m \in ToSet(NickModes), want \in {0, 2} :
          Commanding(send_channel_modes(nicks, sign, m, modes_per_line(want)), Each(nicks, sign, m))
    BY <1>1 DEF cmd_op
  <2>2. nicks \in Seq(Words) /\ (\A i \in 1..Len(nicks) : Short(nicks[i])) /\ m \in ToSet(NickModes) \cup TypeA
    BY <1>0
  <2>3. Asks(<<>>, send_channel_modes(nicks, sign, m, modes_per_line(want)), Each(nicks, sign, m))
    BY <2>2, ShortSends
  <2> QED BY <2>1, <2>3, CommandingAsks
<1>2. ASSUME cmd_unban PROVE Goal
  <2>1. PICK typed \in TypedMasks, m \in TypeA :
          Commanding(send_channel_modes(typed, "-", m, modes_per_line(0)), Each(typed, "-", m))
    BY <1>2 DEF cmd_unban
  <2>2. typed \in Seq(Words) /\ (\A i \in 1..Len(typed) : Short(typed[i])) /\ m \in ToSet(NickModes) \cup TypeA
    BY <1>0
  <2>3. Asks(<<>>, send_channel_modes(typed, "-", m, modes_per_line(0)), Each(typed, "-", m))
    BY <2>2, ShortSends
  <2> QED BY <2>1, <2>3, CommandingAsks
<1>3. ASSUME NEW us, us \subseteq Users, NEW sign \in {"+", "-"}, NEW m \in ToSet(NickModes), Many(us, sign, m) PROVE Goal
  <2>1. PICK nicks \in Listed(us) :
          Commanding(send_channel_modes(nicks, sign, m, modes_per_line(0)), Each(nicks, sign, m))
    BY <1>3 DEF Many
  <2>2. nicks \in Seq(Words) /\ (\A i \in 1..Len(nicks) : Short(nicks[i])) /\ m \in ToSet(NickModes) \cup TypeA
    BY <1>3, ListedIs
  <2>3. Asks(<<>>, send_channel_modes(nicks, sign, m, modes_per_line(0)), Each(nicks, sign, m))
    BY <2>2, ShortSends
  <2> QED BY <2>1, <2>3, CommandingAsks
<1>4. ASSUME cmd_mop PROVE Goal
  <2>1. PICK m \in ToSet(NickModes) : Many({u \in DOMAIN access : m \notin access[u]}, "+", m)
    BY <1>4 DEF cmd_mop
  <2>2. {u \in DOMAIN access : m \notin access[u]} \subseteq Users
    OBVIOUS
  <2> QED BY <1>3, <2>1, <2>2
<1>5. ASSUME cmd_mdeop PROVE Goal
  <2>1. PICK m \in ToSet(NickModes) : Many({u \in DOMAIN access \ {Me} : m \in access[u]}, "-", m)
    BY <1>5 DEF cmd_mdeop
  <2>2. {u \in DOMAIN access \ {Me} : m \in access[u]} \subseteq Users
    OBVIOUS
  <2> QED BY <1>3, <2>1, <2>2
<1>6. ASSUME cmd_kick PROVE Goal
  <2>1. PICK u \in Users : Commanding(Kicks(<<u>>), Kicked(<<u>>))
    BY <1>6 DEF cmd_kick
  <2>2. <<u>> \in Seq(Users)
    OBVIOUS
  <2>3. Asks(<<>>, Kicks(<<u>>), Kicked(<<u>>))
    BY <2>2, KicksAsk
  <2> QED BY <2>1, <2>3, CommandingAsks
<1>7. ASSUME cmd_mkick PROVE Goal
  <2> DEFINE A == {u \in DOMAIN access \ {Me} : "o" \in access[u]}
             B == {u \in DOMAIN access \ {Me} : "o" \notin access[u]}
  <2>1. PICK ops \in Listed(A), rest \in Listed(B) : Commanding(Kicks(ops \o rest), Kicked(ops \o rest))
    BY <1>7 DEF cmd_mkick
  <2>2. A \subseteq Users /\ B \subseteq Users
    OBVIOUS
  <2> HIDE DEF A, B
  <2>3. ops \in Seq(Users) /\ rest \in Seq(Users)
    BY <2>2, ListedIs
  <2>4. ops \o rest \in Seq(Users)
    BY <2>3, ConcatProperties
  <2>5. Asks(<<>>, Kicks(ops \o rest), Kicked(ops \o rest))
    BY <2>4, KicksAsk
  <2> QED BY <2>1, <2>5, CommandingAsks
<1>8. ASSUME NEW u \in Users, NEW known, NEW deop, deop => "o" \in ToSet(NickModes)
      PROVE  Asks(<<>>, <<Line(ban(u, known, deop))>>, ban(u, known, deop))
  <2> DEFINE mask == IF known THEN Host[u] ELSE u
  <2>1. mask \in {u, Host[u]}
    OBVIOUS
  <2> HIDE DEF mask
  <2>2. CASE known /\ deop
    <3>1. ban(u, known, deop) = <<Change("-", "o", u), Change("+", "b", mask)>>
      BY <2>2 DEF ban, mask
    <3> QED BY <1>8, <2>1, <2>2, <3>1, BanAsks
  <2>3. CASE ~(known /\ deop)
    <3>1. ban(u, known, deop) = <<Change("+", "b", mask)>>
      BY <2>3 DEF ban, mask
    <3> QED BY <2>1, <3>1, BanAsks
  <2> QED BY <2>2, <2>3
<1>9. ASSUME cmd_ban PROVE Goal
  <2>1. PICK u \in Users, known \in BOOLEAN :
          Commanding(<<Line(ban(u, known, FALSE))>>, ban(u, known, FALSE))
    BY <1>9 DEF cmd_ban, Known
  <2>2. Asks(<<>>, <<Line(ban(u, known, FALSE))>>, ban(u, known, FALSE))
    BY <1>8
  <2> QED BY <2>1, <2>2, CommandingAsks
<1>10. ASSUME cmd_kickban PROVE Goal
  <2>1. PICK u \in Users, known \in BOOLEAN :
          LET b == ban(u, known, u \in DOMAIN access /\ "o" \in access[u])
          IN Commanding(<<Line(b), KickLine(u)>>, b \o Kicked(<<u>>))
    BY <1>10 DEF cmd_kickban, Known
  <2> DEFINE deop == u \in DOMAIN access /\ "o" \in access[u]
             ch == ban(u, known, deop)
  <2>2. Commanding(<<Line(ch), KickLine(u)>>, ch \o Kicked(<<u>>))
    BY <2>1
  <2>3. deop => "o" \in ToSet(NickModes)
    OBVIOUS
  <2>4. Asks(<<>>, <<Line(ch)>>, ch)
    <3> HIDE DEF deop
    <3> QED BY <1>8, <2>3
  <2> HIDE DEF ch
  <2>5. Asks(<<>>, <<KickLine(u)>>, Kicked(<<u>>))
    BY WellKick, AsksOne
  <2>6. Asks(<<>>, <<Line(ch)>> \o <<KickLine(u)>>, ch \o Kicked(<<u>>))
    BY <2>4, <2>5, AsksMore
  <2>7. <<Line(ch)>> \o <<KickLine(u)>> = <<Line(ch), KickLine(u)>>
    BY TwoAre, Zenon
  <2> QED BY <2>2, <2>6, <2>7, CommandingAsks
<1>11. ASSUME cmd_mode PROVE Goal
  <2>1. CASE \E ch \in Typed : Commanding(<<Line(ch)>>, ch)
    <3>1. PICK ch \in Typed : Commanding(<<Line(ch)>>, ch)
      BY <2>1
    <3>2. Proper(ch) /\ Accepted(Line(ch)) = ch
      BY TypedAssumption
    <3>3. Well(Line(ch)) /\ InLine(Line(ch)) = ch
      BY <3>2, WellLine
    <3>4. Asks(<<>>, <<Line(ch)>>, ch)
      BY <3>3, AsksOne
    <3> QED BY <3>1, <3>4, CommandingAsks
  <2>2. CASE Commanding(<<Query>>, <<>>)
    <3>1. Asks(<<>>, <<Query>>, <<>>)
      BY WellQuery, AsksOne
    <3> QED BY <2>2, <3>1, CommandingAsks
  <2> QED BY <1>11, <2>1, <2>2 DEF cmd_mode
<1> HIDE DEF Goal
<1>12. Goal
  BY <1>1, <1>2, <1>4, <1>5, <1>6, <1>7, <1>9, <1>10, <1>11 DEF Command
<1> QED BY <1>12 DEF Goal

-----------------------------------------------------------------------------
(* The invariant, and its steps.                                           *)

ModesInv == Reads(Client, toclient, World) /\ Asks(done, toserver, asked)

ClientNext == [access |-> access', current |-> current', key |-> key', limit |-> limit']
WorldNext == [level |-> level', setting |-> setting', masks |-> masks']

LEMMA ModesInvNext ==
    ASSUME Reads(ClientNext, toclient', WorldNext), Asks(done', toserver', asked')
    PROVE  ModesInv'
BY DEF ModesInv, Client, World, ClientNext, WorldNext

LEMMA ModesInvInit == ModesInit => ModesInv
<1> SUFFICES ASSUME ModesInit PROVE ModesInv
  OBVIOUS
<1>1. /\ access = [u \in Users |-> IF u = Me THEN {Head(NickModes)} ELSE {}] /\ level = access
      /\ current = [modes |-> <<>>, args |-> <<>>] /\ key = None /\ limit = None
      /\ setting = <<>> /\ toserver = <<>> /\ toclient = <<>> /\ asked = <<>> /\ done = <<>>
  BY DEF ModesInit
<1>2. level \in [Users -> SUBSET ToSet(NickModes)] /\ DOMAIN level = Users
  <2>1. Head(NickModes) \in ToSet(NickModes)
    <3>1. NickModes \in Seq(ToSet(NickModes)) /\ NickModes # <<>>
      BY ServerAssumption
    <3> QED BY <3>1, HeadTailProperties
  <2> QED BY <1>1, <2>1
<1>3. DOMAIN setting = {} /\ setting = [m \in DOMAIN setting |-> setting[m]]
  BY <1>1
<1>4. SettingOK(setting)
  BY <1>3 DEF SettingOK
<1>5. World = [level |-> level, setting |-> setting, masks |-> masks]
      /\ Client = [access |-> access, current |-> current, key |-> key, limit |-> limit]
  BY DEF World, Client
<1>6. World.level = level /\ World.setting = setting /\ World.masks = masks
      /\ Client.access = access /\ Client.current = current /\ Client.key = key /\ Client.limit = limit
  BY <1>5
<1>7. WorldOK(World)
  BY <1>2, <1>4, <1>5, <1>6 DEF WorldOK
<1>8. Says(<<>>, <<>>, setting)
  <2>1. Count(Having(<<>>), 0) = 0
    BY CountStep
  <2>2. <<>> \in Seq(Settable) /\ <<>> \in Seq(Words) /\ Len(<<>>) = 0 /\ 1..0 = {}
    OBVIOUS
  <2> QED BY <1>3, <2>1, <2>2 DEF Says
<1>9. current.modes = <<>> /\ current.args = <<>> /\ current = [modes |-> current.modes, args |-> current.args]
  BY <1>1
<1>10. ValueIn(setting, "k") = None /\ ValueIn(setting, "l") = None
  BY <1>3 DEF ValueIn
<1>11. Agree(Client, World)
  BY <1>1, <1>5, <1>6, <1>8, <1>9, <1>10 DEF Agree
<1>12. Reads(Client, toclient, World)
  BY <1>1, <1>7, <1>11, ReadsNone
<1>13. <<>> \in Seq(AnyChange)
  OBVIOUS
<1> QED BY <1>1, <1>12, <1>13, AsksNone DEF ModesInv

\* There is always what the client will keep when it has read everything.
LEMMA ReadsSome ==
    ASSUME NEW c, NEW lines, NEW w, Reads(c, lines, w)
    PROVE  WorldOK(w) /\ \E a : Agree(a, w)
BY DEF Reads, Trail

\* The server changes modes.
LEMMA ChangesRead ==
    ASSUME NEW ch, Proper(ch), Changes(ch), Reads(Client, toclient, World)
    PROVE  Reads(Client, toclient', WorldNext)
<1> DEFINE e == Effect(ch)
           told == e.told
<1>1. /\ level' = e.w.level /\ setting' = e.w.setting /\ masks' = e.w.masks
      /\ toclient' = IF told = <<>> THEN toclient ELSE Append(toclient, Line(told))
  BY DEF Changes
<1>2. PICK a : Agree(a, World)
  BY ReadsSome
<1>3. WorldOK(World)
  BY ReadsSome
<1>4. WorldOK(e.w) /\ (told = <<>> => e.w = World) /\ Proper(told)
  BY <1>2, <1>3, EffectTells
<1>5. \A b : Agree(b, World) => Agree(handle_mode(b, Line(told)), e.w)
  BY <1>3, EffectTells
<1> HIDE DEF e, told
<1>6. WorldNext = e.w
  BY <1>1, <1>4 DEF WorldNext, WorldOK
<1>7. CASE told = <<>>
  BY <1>1, <1>4, <1>6, <1>7
<1>8. CASE told # <<>>
  <2>1. Line(told) \in Lines /\ Line(told).kind = "MODE"
    BY <1>4, LineTyped
  <2>2. \A b : After(b, Line(told)) = handle_mode(b, Line(told))
    BY <2>1 DEF After
  <2>3. \A b : Agree(b, World) => Agree(After(b, Line(told)), e.w)
    BY <1>5, <2>2
  <2>4. Reads(Client, Append(toclient, Line(told)), e.w)
    BY <1>4, <2>1, <2>3, ReadsMore
  <2> QED BY <1>1, <1>6, <1>8, <2>4
<1> QED BY <1>7, <1>8

\* A user is gone.
LEMMA LeavesRead ==
    ASSUME NEW u \in Users, Leaves(u), Reads(Client, toclient, World)
    PROVE  Reads(Client, toclient', WorldNext)
<1>1. /\ level' = Without(level, u) /\ setting' = setting /\ masks' = masks
      /\ toclient' = IF u \in DOMAIN level THEN Append(toclient, KickLine(u)) ELSE toclient
  BY DEF Leaves
<1>2. World.level = level /\ World.setting = setting /\ World.masks = masks
      /\ World = [level |-> level, setting |-> setting, masks |-> masks]
  BY DEF World
<1>3. WorldOK(World)
  BY ReadsSome
<1>4. WorldNext = [level |-> Without(World.level, u), setting |-> World.setting, masks |-> World.masks]
  BY <1>1, <1>2 DEF WorldNext
<1>5. CASE u \in DOMAIN level
  <2>1. WorldOK(WorldNext) /\ \A a : Agree(a, World) => Agree(After(a, KickLine(u)), WorldNext)
    BY <1>3, <1>4, KickKeeps
  <2>2. KickLine(u) \in Lines
    BY DEF KickLine, Lines
  <2>3. Reads(Client, Append(toclient, KickLine(u)), WorldNext)
    BY <2>1, <2>2, ReadsMore
  <2> QED BY <1>1, <1>5, <2>3
<1>6. CASE u \notin DOMAIN level
  <2>1. level = [y \in DOMAIN level |-> level[y]]
    BY <1>2, <1>3 DEF WorldOK
  <2>2. DOMAIN level \ {u} = DOMAIN level
    BY <1>6
  <2>3. Without(level, u) = level
    BY <2>1, <2>2 DEF Without
  <2>4. WorldNext = World
    BY <1>2, <1>4, <2>3
  <2> QED BY <1>1, <1>6, <2>4
<1> QED BY <1>5, <1>6

\* The answer to a question.
LEMMA AnswerRead ==
    ASSUME NEW ms \in Orders(DOMAIN setting), toclient' = Append(toclient, Settings(ms)), UNCHANGED server,
           Reads(Client, toclient, World)
    PROVE  Reads(Client, toclient', WorldNext)
<1>1. WorldNext = World
  BY DEF WorldNext, World, server
<1>2. WorldOK(World)
  BY ReadsSome
<1>3. Settings(ms) \in Lines /\ Settings(ms).kind = "324"
  <2>1. Proper(Named(ms)) /\ Settings(ms) = [kind |-> "324", modes |-> Line(Named(ms)).modes, args |-> Line(Named(ms)).args]
    BY <1>2, NamedProper DEF Settings, Named
  <2> QED BY <2>1, LineTyped
<1>4. \A a : Agree(a, World) => Agree(After(a, Settings(ms)), World)
  <2>1. \A a : After(a, Settings(ms)) = handle_mode(a, Settings(ms))
    BY <1>3 DEF After
  <2>2. \A a : Agree(a, World) => Agree(handle_mode(a, Settings(ms)), World)
    BY <1>2, SettingsTell
  <2> QED BY <2>1, <2>2
<1>5. Reads(Client, Append(toclient, Settings(ms)), World)
  BY <1>2, <1>3, <1>4, ReadsMore
<1> QED BY <1>1, <1>5

LEMMA InvParts ==
    ASSUME ModesInv
    PROVE  /\ Reads(Client, toclient, World) /\ Asks(done, toserver, asked)
           /\ WorldOK(World) /\ DOMAIN level \subseteq Users
           /\ DOMAIN access \subseteq Users /\ access \in [DOMAIN access -> SUBSET ToSet(NickModes)]
<1>1. Reads(Client, toclient, World) /\ Asks(done, toserver, asked)
  BY DEF ModesInv
<1>2. WorldOK(World) /\ TextOK(Client)
  BY <1>1, ReadsSome, ReadsText
<1>3. World.level = level /\ Client.access = access
  BY DEF World, Client
<1>4. DOMAIN level \subseteq Users
  BY <1>2, <1>3 DEF WorldOK
<1>5. PICK w : WorldOK(w) /\ Agree(Client, w)
  BY <1>2 DEF TextOK
<1>6. access = w.level
  BY <1>3, <1>5 DEF Agree
<1> QED BY <1>1, <1>2, <1>4, <1>5, <1>6 DEF WorldOK

LEMMA ModesInvStep ==
    ASSUME ModesInv, [ModesNext]_modes_vars
    PROVE  ModesInv'
<1>0. /\ Reads(Client, toclient, World) /\ Asks(done, toserver, asked)
      /\ WorldOK(World) /\ DOMAIN level \subseteq Users
      /\ DOMAIN access \subseteq Users /\ access \in [DOMAIN access -> SUBSET ToSet(NickModes)]
  BY InvParts
<1>a. UNCHANGED client => ClientNext = Client
  BY DEF client, ClientNext, Client
<1>b. UNCHANGED server => WorldNext = World
  BY DEF server, WorldNext, World
<1>1. ASSUME Command PROVE ModesInv'
  <2>1. Asks(done', toserver', asked') /\ UNCHANGED <<access, current, key, limit, level, setting, masks, toclient>>
    BY <1>0, <1>1, CommandAsks
  <2>2. ClientNext = Client /\ WorldNext = World /\ toclient' = toclient
    BY <2>1, <1>a, <1>b DEF client, server
  <2>3. Reads(ClientNext, toclient', WorldNext)
    BY <1>0, <2>2
  <2> QED BY <2>1, <2>3, ModesInvNext
<1>2. ASSUME Serve PROVE ModesInv'
  <2> DEFINE line == Head(toserver)
  <2>1. toserver # <<>> /\ toserver' = Tail(toserver) /\ UNCHANGED <<client, asked>>
    BY <1>2 DEF Serve
  <2>2. line \in Lines /\ Well(line) /\ Asks(done \o InLine(line), Tail(toserver), asked)
    BY <1>0, <2>1, AsksNext
  <2>3. \/ line.kind = "MODE" /\ Changes(Accepted(line)) /\ done' = done \o Accepted(line)
        \/ line.kind = "KICK" /\ Leaves(line.nick) /\ done' = done \o Kicked(<<line.nick>>)
        \/ /\ line.kind = "QUERY" /\ UNCHANGED <<server, done>>
           /\ \E ms \in Orders(DOMAIN setting) : toclient' = Append(toclient, Settings(ms))
    BY <1>2 DEF Serve
  <2> HIDE DEF line
  <2>4. Reads(Client, toclient', WorldNext) /\ done' = done \o InLine(line)
    <3>1. CASE line.kind = "MODE" /\ Changes(Accepted(line)) /\ done' = done \o Accepted(line)
      <4>1. Proper(Accepted(line)) /\ InLine(line) = Accepted(line)
        BY <2>2, <3>1 DEF Well, InLine
      <4> QED BY <1>0, <3>1, <4>1, ChangesRead
    <3>2. CASE line.kind = "KICK" /\ Leaves(line.nick) /\ done' = done \o Kicked(<<line.nick>>)
      <4>1. line.nick \in Users
        BY <2>2, <3>2 DEF Lines
      <4>2. InLine(line) = Kicked(<<line.nick>>)
        BY <3>2 DEF InLine
      <4> QED BY <1>0, <3>2, <4>1, <4>2, LeavesRead
    <3>3. CASE /\ line.kind = "QUERY" /\ UNCHANGED <<server, done>>
               /\ \E ms \in Orders(DOMAIN setting) : toclient' = Append(toclient, Settings(ms))
      <4>1. InLine(line) = <<>>
        BY <3>3 DEF InLine
      <4>2. done \in Seq(AnyChange)
        BY <1>0 DEF Asks
      <4>3. done \o <<>> = done
        BY <4>2, ConcatEmptySeq
      <4>4. Reads(Client, toclient', WorldNext)
        BY <1>0, <3>3, AnswerRead
      <4> QED BY <3>3, <4>1, <4>3, <4>4
    <3> QED BY <2>3, <3>1, <3>2, <3>3
  <2>5. Reads(ClientNext, toclient', WorldNext)
    BY <2>1, <2>4, <1>a
  <2>6. Asks(done', toserver', asked')
    BY <2>1, <2>2, <2>4
  <2> QED BY <2>5, <2>6, ModesInvNext
<1>3. ASSUME Others PROVE ModesInv'
  <2>1. UNCHANGED <<client, toserver, asked, done>>
    BY <1>3 DEF Others, history
  <2>2. Reads(Client, toclient', WorldNext)
    <3>1. CASE \E ch \in Typed : Changes(ch)
      <4>1. PICK ch \in Typed : Changes(ch)
        BY <3>1
      <4>2. Proper(ch)
        BY TypedAssumption
      <4> QED BY <1>0, <4>1, <4>2, ChangesRead
    <3>2. CASE \E u \in DOMAIN level \ {Me} : Leaves(u)
      <4>1. PICK u \in DOMAIN level \ {Me} : Leaves(u)
        BY <3>2
      <4>2. u \in Users
        BY <1>0
      <4> QED BY <1>0, <4>1, <4>2, LeavesRead
    <3> QED BY <1>3, <3>1, <3>2 DEF Others
  <2>3. Reads(ClientNext, toclient', WorldNext)
    BY <2>1, <2>2, <1>a
  <2>4. Asks(done', toserver', asked')
    BY <1>0, <2>1
  <2> QED BY <2>3, <2>4, ModesInvNext
<1>4. ASSUME Read PROVE ModesInv'
  <2> DEFINE c == After(Client, Head(toclient))
  <2>1. toclient # <<>> /\ toclient' = Tail(toclient) /\ UNCHANGED <<server, toserver, asked, done>>
        /\ access' = c.access /\ current' = c.current /\ key' = c.key /\ limit' = c.limit
    BY <1>4 DEF Read, history
  <2>2. Reads(c, Tail(toclient), World)
    BY <1>0, <2>1, ReadsNext
  <2> HIDE DEF c
  <2>3. ClientNext = c
    <3>1. TextOK(c)
      BY <2>2, ReadsText
    <3>2. c = [access |-> c.access, current |-> c.current, key |-> c.key, limit |-> c.limit]
      BY <3>1 DEF TextOK, Agree
    <3> QED BY <2>1, <3>2 DEF ClientNext
  <2>4. Reads(ClientNext, toclient', WorldNext)
    BY <2>1, <2>2, <2>3, <1>b
  <2>5. Asks(done', toserver', asked')
    BY <1>0, <2>1
  <2> QED BY <2>4, <2>5, ModesInvNext
<1>5. ASSUME UNCHANGED modes_vars PROVE ModesInv'
  <2>1. UNCHANGED <<client, server, toclient, toserver, asked, done>>
    BY <1>5 DEF modes_vars, history
  <2>2. Reads(ClientNext, toclient', WorldNext) /\ Asks(done', toserver', asked')
    BY <1>0, <2>1, <1>a, <1>b
  <2> QED BY <2>2, ModesInvNext
<1> QED BY <1>1, <1>2, <1>3, <1>4, <1>5 DEF ModesNext

\* The inductive invariant: from every state the client, reading on, and the
\* server, reading on, end where they should (Read and Serve, one line each).
THEOREM ModesInvariant == ModesSpec => []ModesInv
<1>1. ModesInit => ModesInv
  BY ModesInvInit
<1>2. ModesInv /\ [ModesNext]_modes_vars => ModesInv'
  BY ModesInvStep
<1> QED BY <1>1, <1>2, PTL DEF ModesSpec

\* However the lines of the commands and of others interleave, and whatever
\* the server's limits, every change a command was to make is on a line the
\* server takes whole, and in order (send_channel_modes, ban, cmd_mkick).
THEOREM TargetsAreReached == ModesSpec => []TargetsReached
<1>1. ModesInv => TargetsReached
  BY AsksReached DEF ModesInv
<1> QED BY <1>1, ModesInvariant, PTL

LEMMA TextAgrees ==
    ASSUME TextOK(Client)
    PROVE  Len(current.args) = ArgumentOf(current, Len(current.modes))
<1>1. PICK w : Agree(Client, w)
  BY DEF TextOK
<1>2. Says(current.modes, current.args, w.setting)
  <2>1. Client.current = current
    BY DEF Client
  <2> QED BY <1>1, <2>1 DEF Agree
<1>3. {i \in DOMAIN current.modes : mode_has_arg("+", current.modes[i])} = Having(current.modes)
  BY HasArgs DEF Having
<1> QED BY <1>2, <1>3 DEF Says, ArgumentOf

LEMMA AgreeAgrees ==
    ASSUME TextOK(Client), Agree(Client, World)
    PROVE  ModesAgree
<1>1. /\ Client.access = access /\ Client.current = current /\ Client.key = key /\ Client.limit = limit
      /\ World.level = level /\ World.setting = setting
  BY DEF Client, World
<1>2. access = level /\ Says(current.modes, current.args, setting) /\ key = ValueIn(setting, "k") /\ limit = ValueIn(setting, "l")
  BY <1>1 DEF Agree
<1>3. \A m : Value(m) = ValueIn(setting, m)
  BY DEF Value, ValueIn
<1> DEFINE modes == current.modes
           args == current.args
           n == Len(modes)
<1>4. modes \in Seq(Settable) /\ DOMAIN modes = 1..n /\ n \in Nat
  BY <1>2 DEF Says
<1>5. ToSet(modes) = DOMAIN setting
  <2>1. \A m : m \in DOMAIN setting <=> \E i \in 1..n : modes[i] = m
    BY <1>2 DEF Says
  <2>2. ToSet(modes) = {modes[i] : i \in 1..n}
    BY <1>4 DEF ToSet
  <2> QED BY <2>1, <2>2
<1>6. {i \in DOMAIN modes : mode_has_arg("+", modes[i])} = Having(modes)
  BY HasArgs DEF Having
<1>7. \A i \in 1..n : setting[modes[i]] = IF i \in Having(modes) THEN args[Count(Having(modes), i)] ELSE None
  BY <1>2 DEF Says
<1>8. \A i \in DOMAIN modes : LET m == modes[i] IN
        IF HasArgument("+", m) THEN args[ArgumentOf(current, i)] = setting[m] ELSE setting[m] = None
  <2> TAKE i \in DOMAIN modes
  <2>1. i \in Having(modes) <=> HasArgument("+", modes[i])
    BY DEF Having
  <2>2. ArgumentOf(current, i) = Count(Having(modes), i)
    BY <1>6 DEF ArgumentOf
  <2> HIDE DEF modes, args, n
  <2> QED BY <1>4, <1>7, <2>1, <2>2
<1>9. Len(current.args) = ArgumentOf(current, Len(current.modes))
  BY TextAgrees
<1>10. LevelsAgree
  BY <1>2 DEF LevelsAgree
<1>11. SettingsAgree
  BY <1>2, <1>3, <1>5, <1>8, <1>9 DEF SettingsAgree
<1> QED BY <1>10, <1>11 DEF ModesAgree

\* Whoever changes them, in whatever order: once the client has read what the
\* server told, its levels, mode text, key and limit are the server's
\* (handle_mode, handle_single_mode, record_chan_mode, userlist_update_mode).
THEOREM ModesDoAgree == ModesSpec => []ModesAgree
<1>1. ModesInv => ModesAgree
  <2> SUFFICES ASSUME ModesInv PROVE ModesAgree
    OBVIOUS
  <2>1. TextOK(Client) /\ (toclient = <<>> => Agree(Client, World))
    BY ReadsText DEF ModesInv
  <2>2. CASE toclient = <<>>
    BY <2>1, <2>2, AgreeAgrees
  <2>3. CASE toclient # <<>>
    BY <2>1, <2>3, TextAgrees DEF ModesAgree, LevelsAgree, SettingsAgree
  <2> QED BY <2>2, <2>3
<1> QED BY <1>1, ModesInvariant, PTL

LEMMA InvTypes == ModesInv => ModesTypeOK
<1> SUFFICES ASSUME ModesInv PROVE ModesTypeOK
  OBVIOUS
<1>1. DOMAIN level \subseteq Users /\ DOMAIN access \subseteq Users /\ access \in [DOMAIN access -> SUBSET ToSet(NickModes)]
  BY InvParts
<1>2. TextOK(Client)
  BY InvParts, ReadsText
<1>3. PICK w : Agree(Client, w)
  BY <1>2 DEF TextOK
<1>4. Client.current = current
  BY DEF Client
<1>5. current.modes \in Seq(Settable)
  BY <1>3, <1>4 DEF Agree, Says
<1>6. ToSet(current.modes) \subseteq TypeB \cup TypeC \cup TypeD
  BY <1>5 DEF ToSet, Settable
<1> QED BY <1>1, <1>6 DEF ModesTypeOK

\* Only users have levels, and only levels of PREFIX=; the text of the modes
\* has only letters of CHANMODES= that can be set.
THEOREM ModesTypes == ModesSpec => []ModesTypeOK
<1>1. ModesInv => ModesTypeOK
  BY InvTypes
<1> QED BY <1>1, ModesInvariant, PTL
=============================================================================
