------------------------------ MODULE DccProofs ------------------------------
(***************************************************************************)
(* Proofs about Dcc, for any number of entries, files and blocks: the main *)
(* loop calls back for exactly the entries whose tags say so, and a proxy  *)
(* was asked for what the child that connects to a server asks for.  Where *)
(* offers of one file and passive offers do not coexist, what is completed *)
(* was received whole and what is sent follows on what the peer has; where *)
(* chats have no rate, the sums that throttle transfers are exact.         *)
(***************************************************************************)
EXTENDS Dcc, SequenceTheorems, FunctionTheorems, FiniteSetTheorems, WellFoundedInduction, TLAPS

-----------------------------------------------------------------------------
(* Numbers, sequences, sums.                                               *)

\* The least element principle, and induction, over sets.
LEMMA NatMin ==
    ASSUME NEW T, T \subseteq Nat, T # {}
    PROVE  \E x \in T : \A y \in T : ~(y < x)
<1> DEFINE Less == {ss \in Nat \X Nat : ss[1] < ss[2]}
<1>1. IsWellFoundedOn(Less, Nat)
  BY NatLessThanWellFounded DEF OpToRel
<1> HIDE DEF Less
<1>2. PICK x \in T : \A y \in T : <<y, x>> \notin Less
  BY <1>1, WFMin
<1>3. \A y \in T : y < x => <<y, x>> \in Less
  BY DEF Less
<1> QED BY <1>2, <1>3

LEMMA NatInduct ==
    ASSUME NEW T, 0 \in T, \A n \in Nat : n \in T => n + 1 \in T
    PROVE  \A n \in Nat : n \in T
<1> SUFFICES ASSUME NEW n \in Nat, n \notin T PROVE FALSE
  OBVIOUS
<1> DEFINE U == Nat \ T
<1>1. PICK x \in U : \A y \in U : ~(y < x)
  <2>1. U \subseteq Nat /\ U # {}
    OBVIOUS
  <2> HIDE DEF U
  <2> QED BY <2>1, NatMin
<1>2. x \in Nat /\ x # 0 /\ x - 1 \in Nat /\ x - 1 < x
  OBVIOUS
<1>3. x - 1 \in T
  BY <1>1, <1>2
<1> QED BY <1>1, <1>2, <1>3

\* What RemoveAt makes of a sequence.
LEMMA RemoveAtProps ==
    ASSUME NEW S, NEW q \in Seq(S), NEW i \in 1..Len(q)
    PROVE  /\ RemoveAt(q, i) \in Seq(S) /\ Len(RemoveAt(q, i)) = Len(q) - 1
           /\ \A j \in 1..(i-1) : RemoveAt(q, i)[j] = q[j]
           /\ \A j \in i..(Len(q)-1) : RemoveAt(q, i)[j] = q[j+1]
<1> DEFINE a == SubSeq(q, 1, i - 1)
           b == SubSeq(q, i + 1, Len(q))
           r == a \o b
<1>1. /\ a \in Seq(S) /\ Len(a) = i - 1
      /\ b \in Seq(S) /\ Len(b) = Len(q) - i
  BY SubSeqProperties
<1>2. \A j \in 1..(i-1) : a[j] = q[j]
  OBVIOUS
<1>3. \A j \in 1..(Len(q)-i) : b[j] = q[i + j]
  OBVIOUS
<1>4. RemoveAt(q, i) = r
  BY DEF RemoveAt
<1> HIDE DEF a, b, r
<1>5. /\ r \in Seq(S) /\ Len(r) = Len(a) + Len(b)
      /\ \A j \in 1..(Len(a) + Len(b)) :
            r[j] = IF j <= Len(a) THEN a[j] ELSE b[j - Len(a)]
  <2>1. /\ a \o b \in Seq(S) /\ Len(a \o b) = Len(a) + Len(b)
        /\ \A j \in 1..(Len(a) + Len(b)) :
              (a \o b)[j] = IF j <= Len(a) THEN a[j] ELSE b[j - Len(a)]
    BY <1>1, ConcatProperties
  <2> QED BY <2>1 DEF r
<1>6. ASSUME NEW j \in 1..(i-1) PROVE r[j] = q[j]
  <2>1. j <= Len(a) /\ j \in 1..(Len(a) + Len(b))
    BY <1>1
  <2>2. r[j] = a[j]
    BY <1>5, <2>1
  <2> QED BY <1>2, <2>2
<1>7. ASSUME NEW j \in i..(Len(q)-1) PROVE r[j] = q[j+1]
  <2>1. /\ j - (i - 1) \in 1..(Len(q) - i) /\ ~(j <= Len(a))
        /\ j \in 1..(Len(a) + Len(b)) /\ i + (j - (i - 1)) = j + 1
    BY <1>1
  <2>2. r[j] = b[j - (i - 1)]
    BY <1>1, <1>5, <2>1
  <2> QED BY <1>3, <2>1, <2>2
<1>8. /\ r \in Seq(S) /\ Len(r) = Len(q) - 1
      /\ \A j \in 1..(i-1) : r[j] = q[j]
      /\ \A j \in i..(Len(q)-1) : r[j] = q[j+1]
  <2>1. Len(r) = Len(q) - 1
    BY <1>1, <1>5
  <2> QED BY <1>5, <1>6, <1>7, <2>1
<1> QED BY <1>4, <1>8

\* sum is the table from which Total(cps, D) is read.
Sums(cps, sum) ==
    sum = [E \in SUBSET Dccs |->
              IF E = {} THEN 0
              ELSE LET d == CHOOSE d \in E : TRUE IN cps[d] + sum[E \ {d}]]

LEMMA Subsets ==
    ASSUME NEW E \in SUBSET Dccs
    PROVE  /\ IsFiniteSet(E) /\ Cardinality(E) \in Nat
           /\ E # {} <=> Cardinality(E) # 0
           /\ \A d \in E : Cardinality(E \ {d}) = Cardinality(E) - 1 /\ E \ {d} \in SUBSET Dccs
<1>1. IsFiniteSet(Dccs)
  BY DccAssumption
<1>2. IsFiniteSet(E)
  BY <1>1, FS_Subset
<1>3. Cardinality(E) \in Nat /\ (E # {} <=> Cardinality(E) # 0)
  BY <1>2, FS_CardinalityType, FS_EmptySet
<1>4. \A d \in E : Cardinality(E \ {d}) = Cardinality(E) - 1
  BY <1>2, FS_RemoveElement
<1> QED BY <1>2, <1>3, <1>4

LEMMA SumsExist == ASSUME NEW cps PROVE \E sum : Sums(cps, sum)
<1> DEFINE K == Cardinality(Dccs)
           Picked(E) == CHOOSE d \in E : TRUE
           Value(E, g) == IF E = {} THEN 0 ELSE cps[Picked(E)] + g[E \ {Picked(E)}]
           Good(g, k) == \A E \in SUBSET Dccs : Cardinality(E) < k => g[E] = Value(E, g)
           T == {k \in Nat : \E g : Good(g, k)}
<1>1. 0 \in T
  <2>1. \A E \in SUBSET Dccs : ~(Cardinality(E) < 0)
    BY Subsets
  <2>2. Good(0, 0)
    BY <2>1
  <2> QED BY <2>2
<1>2. ASSUME NEW k \in Nat, k \in T PROVE k + 1 \in T
  <2>1. PICK g : Good(g, k)
    BY <1>2
  <2> DEFINE h == [E \in SUBSET Dccs |-> Value(E, g)]
  <2>2. ASSUME NEW E \in SUBSET Dccs, Cardinality(E) < k + 1 PROVE h[E] = Value(E, h)
    <3>1. CASE E = {}
      BY <3>1
    <3>2. CASE E # {}
      <4> DEFINE F == E \ {Picked(E)}
      <4>1. Picked(E) \in E
        BY <3>2
      <4>2. F \in SUBSET Dccs /\ Cardinality(F) = Cardinality(E) - 1 /\ Cardinality(E) \in Nat
        BY <4>1, Subsets
      <4>3. Cardinality(F) < k
        BY <2>2, <4>2
      <4>4. g[F] = Value(F, g)
        <5> HIDE DEF F, Value
        <5> QED BY <2>1, <4>2, <4>3
      <4>5. h[F] = g[F]
        <5> HIDE DEF F
        <5> QED BY <4>2, <4>4
      <4> QED BY <3>2, <4>5
    <3> QED BY <3>1, <3>2
  <2>3. Good(h, k + 1)
    <3> HIDE DEF h, Value
    <3> QED BY <2>2
  <2>4. \E f : Good(f, k + 1)
    <3> HIDE DEF h, Good
    <3> QED BY <2>3
  <2> HIDE DEF Good
  <2> QED BY <2>4
<1>3. K \in Nat /\ K + 1 \in T
  <2>1. K \in Nat
    BY Subsets
  <2> HIDE DEF T, K
  <2>2. \A k \in Nat : k \in T
    BY <1>1, <1>2, NatInduct
  <2> QED BY <2>1, <2>2
<1>4. PICK g : Good(g, K + 1)
  BY <1>3
<1> DEFINE f == [E \in SUBSET Dccs |-> g[E]]
<1>5. ASSUME NEW E \in SUBSET Dccs PROVE f[E] = Value(E, f)
  <2>1. Cardinality(E) < K + 1
    <3>1. IsFiniteSet(Dccs)
      BY DccAssumption
    <3>2. Cardinality(E) <= K /\ Cardinality(E) \in Nat
      BY <3>1, FS_Subset, Subsets
    <3> HIDE DEF K
    <3> QED BY <1>3, <3>2
  <2>2. g[E] = Value(E, g)
    BY <1>4, <2>1
  <2>3. E # {} => Picked(E) \in E
    OBVIOUS
  <2>4. E # {} => E \ {Picked(E)} \in SUBSET Dccs
    OBVIOUS
  <2> QED BY <2>2, <2>4
<1>6. f = [E \in SUBSET Dccs |-> Value(E, f)]
  <2> HIDE DEF Value
  <2>1. f = [E \in SUBSET Dccs |-> f[E]]
    OBVIOUS
  <2> HIDE DEF f
  <2> QED BY <1>5, <2>1
<1>7. Sums(cps, f)
  <2> HIDE DEF f
  <2> QED BY <1>6 DEF Sums
<1> HIDE DEF f
<1> QED BY <1>7

\* The sum of nothing, and of one entry and the others.
LEMMA TotalStep ==
    ASSUME NEW cps, NEW E \in SUBSET Dccs
    PROVE  /\ E = {} => Total(cps, E) = 0
           /\ E # {} => \E d \in E : Total(cps, E) = cps[d] + Total(cps, E \ {d})
<1> DEFINE g == CHOOSE sum : Sums(cps, sum)
<1>1. Sums(cps, g)
  BY SumsExist
<1>2. \A D : Total(cps, D) = g[D]
  BY DEF Total, Sums
<1> HIDE DEF g
<1>3. g[E] = IF E = {} THEN 0
             ELSE LET d == CHOOSE d \in E : TRUE IN cps[d] + g[E \ {d}]
  BY <1>1 DEF Sums
<1> QED BY <1>2, <1>3

Rates(cps, E) == \A d \in E : cps[d] \in Int

LEMMA TotalSplit ==
    ASSUME NEW cps, NEW E \in SUBSET Dccs, Rates(cps, E)
    PROVE  /\ Total(cps, E) \in Int
           /\ \A d \in E : Total(cps, E) = cps[d] + Total(cps, E \ {d})
<1> DEFINE Right(D) == /\ Total(cps, D) \in Int
                       /\ \A d \in D : Total(cps, D) = cps[d] + Total(cps, D \ {d})
           T == {k \in Nat : \A D \in SUBSET E : Cardinality(D) <= k => Right(D)}
<1>1. 0 \in T
  <2> SUFFICES ASSUME NEW D \in SUBSET E, Cardinality(D) <= 0 PROVE Right(D)
    OBVIOUS
  <2>1. D \in SUBSET Dccs
    OBVIOUS
  <2>2. D = {}
    BY <2>1, Subsets
  <2> QED BY <2>1, <2>2, TotalStep
<1>2. ASSUME NEW k \in Nat, k \in T PROVE k + 1 \in T
  <2> SUFFICES ASSUME NEW D \in SUBSET E, Cardinality(D) <= k + 1 PROVE Right(D)
    OBVIOUS
  <2>1. D \in SUBSET Dccs
    OBVIOUS
  <2>2. CASE D = {}
    BY <2>1, <2>2, TotalStep
  <2>3. CASE D # {}
    <3>1. PICK c \in D : Total(cps, D) = cps[c] + Total(cps, D \ {c})
      BY <2>1, <2>3, TotalStep
    <3>2. \A d \in D : D \ {d} \in SUBSET E /\ Cardinality(D \ {d}) <= k
      BY <2>1, Subsets
    <3>3. \A d \in D : Right(D \ {d})
      BY <1>2, <3>2
    <3>4. \A d \in D : cps[d] \in Int /\ Total(cps, D \ {d}) \in Int
      BY <3>3 DEF Rates
    <3>5. ASSUME NEW d \in D, d # c PROVE Total(cps, D) = cps[d] + Total(cps, D \ {d})
      <4> DEFINE F == (D \ {c}) \ {d}
      <4>1. Total(cps, D \ {c}) = cps[d] + Total(cps, F)
        BY <3>3, <3>5
      <4>2. F = (D \ {d}) \ {c}
        OBVIOUS
      <4>3. Total(cps, D \ {d}) = cps[c] + Total(cps, F)
        <5> HIDE DEF F
        <5>1. c \in D \ {d}
          BY <3>5
        <5>2. Total(cps, D \ {d}) = cps[c] + Total(cps, (D \ {d}) \ {c})
          BY <3>3, <5>1
        <5> QED BY <4>2, <5>2
      <4>4. Total(cps, F) \in Int
        <5>1. D \ {c} \in SUBSET Dccs /\ d \in D \ {c} /\ Cardinality(D \ {c}) <= k
          BY <2>1, <3>2, <3>5
        <5>2. F \in SUBSET E
          OBVIOUS
        <5>3. Cardinality(F) = Cardinality(D \ {c}) - 1 /\ Cardinality(D \ {c}) \in Nat
          BY <5>1, Subsets
        <5>4. Cardinality(F) <= k
          <6> HIDE DEF F
          <6> QED BY <5>1, <5>3
        <5> HIDE DEF F
        <5>5. Right(F)
          BY <1>2, <5>2, <5>4
        <5> QED BY <5>5
      <4> HIDE DEF F
      <4> QED BY <3>1, <3>4, <4>1, <4>3, <4>4
    <3>6. Total(cps, D) \in Int
      BY <3>1, <3>4
    <3> QED BY <3>1, <3>5, <3>6
  <2> QED BY <2>2, <2>3
<1>3. \A k \in Nat : k \in T
  <2> HIDE DEF T
  <2> QED BY <1>1, <1>2, NatInduct
<1>4. Cardinality(E) \in Nat
  BY Subsets
<1> QED BY <1>3, <1>4

\* The sum depends on what is added up.
LEMMA TotalSame ==
    ASSUME NEW f, NEW g, NEW E \in SUBSET Dccs, Rates(f, E), \A d \in E : f[d] = g[d]
    PROVE  Total(f, E) = Total(g, E)
<1> DEFINE T == {k \in Nat : \A D \in SUBSET E : Cardinality(D) <= k => Total(f, D) = Total(g, D)}
<1>1. 0 \in T
  <2> SUFFICES ASSUME NEW D \in SUBSET E, Cardinality(D) <= 0 PROVE Total(f, D) = Total(g, D)
    OBVIOUS
  <2>1. D \in SUBSET Dccs
    OBVIOUS
  <2>2. D = {}
    BY <2>1, Subsets
  <2> QED BY <2>1, <2>2, TotalStep
<1>2. ASSUME NEW k \in Nat, k \in T PROVE k + 1 \in T
  <2> SUFFICES ASSUME NEW D \in SUBSET E, Cardinality(D) <= k + 1 PROVE Total(f, D) = Total(g, D)
    OBVIOUS
  <2>1. D \in SUBSET Dccs
    OBVIOUS
  <2>2. CASE D = {}
    BY <2>1, <2>2, TotalStep
  <2>3. CASE D # {}
    <3>1. PICK c \in D : Total(f, D) = f[c] + Total(f, D \ {c})
      BY <2>1, <2>3, TotalStep
    <3>2. Rates(g, D)
      BY DEF Rates
    <3>3. Total(g, D) = g[c] + Total(g, D \ {c})
      BY <2>1, <3>2, TotalSplit
    <3>4. D \ {c} \in SUBSET E /\ Cardinality(D \ {c}) <= k
      BY <2>1, Subsets
    <3>5. Total(f, D \ {c}) = Total(g, D \ {c})
      BY <1>2, <3>4
    <3> QED BY <3>1, <3>3, <3>5
  <2> QED BY <2>2, <2>3
<1>3. \A k \in Nat : k \in T
  <2> HIDE DEF T
  <2> QED BY <1>1, <1>2, NatInduct
<1>4. Cardinality(E) \in Nat
  BY Subsets
<1> QED BY <1>3, <1>4

\* g is the table from which Asked(steps) is read.
Dialogue(steps, g) ==
    g = [i \in 0..Len(steps) |->
            IF i = 0 THEN <<>>
            ELSE IF steps[i].do = "write" THEN Append(g[i-1], steps[i].what)
            ELSE g[i-1]]

LEMMA DialogueExists ==
    ASSUME NEW q, Len(q) \in Nat
    PROVE  \E g : Dialogue(q, g)
<1> DEFINE Upto(n, g) ==
              g = [i \in 0..n |-> IF i = 0 THEN <<>>
                                  ELSE IF q[i].do = "write" THEN Append(g[i-1], q[i].what)
                                  ELSE g[i-1]]
           T == {n \in Nat : \E g : Upto(n, g)}
<1>1. 0 \in T
  <2>1. Upto(0, [i \in 0..0 |-> <<>>])
    OBVIOUS
  <2> QED BY <2>1
<1>2. ASSUME NEW n \in Nat, n \in T PROVE n + 1 \in T
  <2>1. PICK g : Upto(n, g)
    BY <1>2
  <2> DEFINE h == [i \in 0..(n+1) |->
                     IF i <= n THEN g[i]
                     ELSE IF q[i].do = "write" THEN Append(g[i-1], q[i].what)
                     ELSE g[i-1]]
  <2>2. \A i \in 0..n : g[i] = IF i = 0 THEN <<>>
                               ELSE IF q[i].do = "write" THEN Append(g[i-1], q[i].what)
                               ELSE g[i-1]
    BY <2>1
  <2>3. ASSUME NEW i \in 0..(n+1)
        PROVE  h[i] = IF i = 0 THEN <<>>
                      ELSE IF q[i].do = "write" THEN Append(h[i-1], q[i].what)
                      ELSE h[i-1]
    <3>1. i # 0 => i - 1 \in 0..(n+1) /\ i - 1 <= n /\ h[i-1] = g[i-1]
      OBVIOUS
    <3>2. CASE i <= n
      <4>1. h[i] = g[i] /\ i \in 0..n
        BY <3>2
      <4> HIDE DEF h
      <4> QED BY <2>2, <3>1, <4>1
    <3>3. CASE ~(i <= n)
      <4>1. h[i] = IF q[i].do = "write" THEN Append(g[i-1], q[i].what) ELSE g[i-1]
        BY <3>3
      <4> HIDE DEF h
      <4> QED BY <3>1, <3>3, <4>1
    <3> QED BY <3>2, <3>3
  <2>4. Upto(n+1, h)
    <3>1. h = [i \in 0..(n+1) |-> h[i]]
      OBVIOUS
    <3> HIDE DEF h
    <3> QED BY <2>3, <3>1
  <2> HIDE DEF h
  <2> QED BY <2>4
<1> HIDE DEF T
<1>3. Len(q) \in T
  BY <1>1, <1>2, NatInduct
<1> QED BY <1>3 DEF T, Dialogue

\* What a dialogue has asked before its first step, and after one more.
Said(steps, i) == (CHOOSE g : Dialogue(steps, g))[i]

LEMMA SaidStep ==
    ASSUME NEW steps, Len(steps) \in Nat
    PROVE  /\ Said(steps, 0) = <<>>
           /\ \A i \in 1..Len(steps) :
                 Said(steps, i) = IF steps[i].do = "write"
                                  THEN Append(Said(steps, i - 1), steps[i].what)
                                  ELSE Said(steps, i - 1)
           /\ Asked(steps) = Said(steps, Len(steps))
<1> DEFINE g == CHOOSE g : Dialogue(steps, g)
<1>1. Dialogue(steps, g)
  BY DialogueExists
<1>2. Asked(steps) = g[Len(steps)]
  BY DEF Asked, Dialogue
<1>3. \A i : Said(steps, i) = g[i]
  BY DEF Said
<1> HIDE DEF g
<1>4. \A i \in 0..Len(steps) :
        g[i] = IF i = 0 THEN <<>>
               ELSE IF steps[i].do = "write" THEN Append(g[i-1], steps[i].what)
               ELSE g[i-1]
  BY <1>1 DEF Dialogue
<1>5. g[0] = <<>>
  BY <1>4
<1>6. ASSUME NEW i \in 1..Len(steps)
      PROVE g[i] = IF steps[i].do = "write" THEN Append(g[i-1], steps[i].what) ELSE g[i-1]
  <2>1. i \in 0..Len(steps) /\ i # 0
    OBVIOUS
  <2> QED BY <1>4, <2>1
<1> QED BY <1>2, <1>3, <1>5, <1>6

\* The phases of a dialogue, and that they are the child's.
LEMMA PhasesProps ==
    ASSUME NEW k \in Kinds
    PROVE  /\ Len(Phases[k]) \in Nat \ {0}
           /\ \A i \in 1..Len(Phases[k]) : Phases[k][i].do \in {"write", "read"}
           /\ k = "wingate" => Len(Phases[k]) = 1
           /\ k # "wingate" => Phases[k] = Traverse[k]
<1>1. k \in {"wingate", "socks4", "socks5", "socks5auth", "http"}
  BY DEF Kinds
<1>2. k # "wingate" => Phases[k] = Traverse[k]
  BY <1>1 DEF Phases, Traverse, dcc_socks, dcc_http, Greeting, Request, Login,
     traverse_socks, traverse_socks5, traverse_http
<1>3. CASE k = "wingate"
  BY <1>3 DEF Phases, dcc_wingate, R
<1>4. CASE k = "socks4"
  BY <1>4, <1>2 DEF Phases, dcc_socks, R, W
<1>5. CASE k = "http"
  BY <1>5, <1>2 DEF Phases, dcc_http, R, W
<1> DEFINE S == {W("methods"), R("method"), W("credentials"), R("accepted"),
                W("connect"), R("status"), R("address")}
<1>6. \A s \in S : s.do \in {"write", "read"}
  BY DEF R, W
<1>7. \A q \in Seq(S) : Len(q) \in Nat /\ \A i \in 1..Len(q) : q[i].do \in {"write", "read"}
  <2> HIDE DEF S
  <2> QED BY <1>6
<1>8. ASSUME NEW login \in Seq(S) PROVE Greeting(login) \o Request \in Seq(S)
                                        /\ Len(Greeting(login) \o Request) # 0
  <2> DEFINE hello == <<W("methods"), R("method")>>
  <2>1. hello \in Seq(S) /\ Request \in Seq(S) /\ Len(Request) = 3
    BY DEF Request
  <2> HIDE DEF hello, S
  <2>2. hello \o login \in Seq(S) /\ Len(hello \o login) \in Nat
    BY <2>1, ConcatProperties
  <2>3. /\ (hello \o login) \o Request \in Seq(S)
        /\ Len((hello \o login) \o Request) = Len(hello \o login) + Len(Request)
    BY <2>1, <2>2, ConcatProperties
  <2> QED BY <2>1, <2>2, <2>3 DEF Greeting, hello
<1>9. <<>> \in Seq(S) /\ Login \in Seq(S)
  BY DEF Login
<1>10. CASE k = "socks5"
  <2>1. Phases[k] = Greeting(<<>>) \o Request
    BY <1>10 DEF Phases
  <2> HIDE DEF S
  <2> QED BY <1>2, <1>7, <1>8, <1>9, <1>10, <2>1
<1>11. CASE k = "socks5auth"
  <2>1. Phases[k] = Greeting(Login) \o Request
    BY <1>11 DEF Phases
  <2> HIDE DEF S
  <2> QED BY <1>2, <1>7, <1>8, <1>9, <1>11, <2>1
<1> QED BY <1>1, <1>3, <1>4, <1>5, <1>10, <1>11

LEMMA BlocksProps ==
    ASSUME NEW m \in Nat, NEW n \in Nat
    PROVE  /\ Blocks(0, n) \in Seq(Int) /\ Len(Blocks(0, n)) = n /\ Blocks(0, n) # Absent
           /\ Blocks(0, m) \o Blocks(m, m + n) = Blocks(0, m + n)
           /\ Blocks(0, 0) = <<>> /\ Blocks(m, m + n) \in Seq(Int)
<1>1. ASSUME NEW a \in Nat, NEW k \in Nat
      PROVE  /\ Blocks(a, a + k) \in Seq(Int) /\ Len(Blocks(a, a + k)) = k
             /\ \A i \in 1..k : Blocks(a, a + k)[i] = a + i
  <2>1. (a + k) - a = k
    OBVIOUS
  <2> QED BY <2>1 DEF Blocks
<1>2. /\ Blocks(0, m) \in Seq(Int) /\ Len(Blocks(0, m)) = m /\ \A i \in 1..m : Blocks(0, m)[i] = i
      /\ Blocks(0, n) \in Seq(Int) /\ Len(Blocks(0, n)) = n /\ \A i \in 1..n : Blocks(0, n)[i] = i
      /\ Blocks(0, m + n) \in Seq(Int) /\ Len(Blocks(0, m + n)) = m + n
      /\ \A i \in 1..(m + n) : Blocks(0, m + n)[i] = i
  <2>1. ASSUME NEW k \in Nat
        PROVE  /\ Blocks(0, k) \in Seq(Int) /\ Len(Blocks(0, k)) = k
               /\ \A i \in 1..k : Blocks(0, k)[i] = i
    <3>1. 0 + k = k
      OBVIOUS
    <3> QED BY <1>1, <3>1
  <2>2. m + n \in Nat
    OBVIOUS
  <2> QED BY <2>1, <2>2
<1>3. Blocks(0, n) # Absent
  <2>1. SUFFICES ASSUME Blocks(0, n) = Absent PROVE FALSE
    OBVIOUS
  <2>2. Len(Absent) = 1 /\ Absent[1] = -1
    BY DEF Absent
  <2>3. n = 1
    BY <1>2, <2>1, <2>2
  <2>4. 1 \in 1..n
    BY <2>3
  <2>5. Blocks(0, n)[1] = 1
    BY <1>2, <2>4
  <2> QED BY <2>1, <2>2, <2>5
<1>4. Blocks(0, 0) = <<>>
  <2>1. 0 \in Nat /\ 0 + 0 = 0
    OBVIOUS
  <2>2. Blocks(0, 0 + 0) \in Seq(Int) /\ Len(Blocks(0, 0 + 0)) = 0
    BY <1>1, <2>1
  <2>3. Blocks(0, 0) \in Seq(Int) /\ Len(Blocks(0, 0)) = 0
    BY <2>1, <2>2
  <2> QED BY <2>3, EmptySeq
<1>5. Blocks(0, m) \o Blocks(m, m + n) = Blocks(0, m + n)
  <2> DEFINE a == Blocks(0, m)
             b == Blocks(m, m + n)
             c == Blocks(0, m + n)
  <2>1. /\ a \in Seq(Int) /\ Len(a) = m /\ \A i \in 1..m : a[i] = i
        /\ c \in Seq(Int) /\ Len(c) = m + n /\ \A i \in 1..(m + n) : c[i] = i
    BY <1>2
  <2>2. b \in Seq(Int) /\ Len(b) = n /\ \A i \in 1..n : b[i] = m + i
    BY <1>1
  <2> HIDE DEF a, b, c
  <2>3. /\ a \o b \in Seq(Int) /\ Len(a \o b) = Len(a) + Len(b)
        /\ \A i \in 1..(Len(a) + Len(b)) :
              (a \o b)[i] = IF i <= Len(a) THEN a[i] ELSE b[i - Len(a)]
    BY <2>1, <2>2, ConcatProperties
  <2>4. ASSUME NEW i \in 1..(m + n) PROVE (a \o b)[i] = c[i]
    <3>1. (a \o b)[i] = IF i <= m THEN a[i] ELSE b[i - m]
      BY <2>1, <2>2, <2>3
    <3>2. CASE i <= m
      <4>1. i \in 1..m
        BY <3>2
      <4> QED BY <2>1, <3>1, <3>2, <4>1
    <3>3. CASE ~(i <= m)
      <4>1. i - m \in 1..n /\ m + (i - m) = i
        BY <3>3
      <4>2. b[i - m] = i
        BY <2>2, <4>1
      <4> QED BY <2>1, <3>1, <3>3, <4>2
    <3> QED BY <3>2, <3>3
  <2>5. a \o b = c
    BY <2>1, <2>2, <2>3, <2>4, SeqEqual
  <2> QED BY <2>5 DEF a, b, c
<1>6. Blocks(m, m + n) \in Seq(Int)
  BY <1>1
<1> QED BY <1>2, <1>3, <1>4, <1>5, <1>6

-----------------------------------------------------------------------------
(* What holds of the state inside the handlers, too.                       *)

Fields ==
    {"type", "stat", "sok", "iotag", "wiotag", "fp", "passive", "port", "pos",
     "ack", "resumable", "resume_sent", "fast", "throttled", "cps", "file",
     "dest", "peer", "proxy"}

Parts == {"dcc", "list", "sources", "sum", "completed", "disk"}

Chats == {"chatsend", "chatrecv"}

Callbacks ==
    {"accept", "connected", "proxy_connect", "traverse", "read", "ack", "chat", "data"}

Directions == {"send", "get"}

Counters == Directions \cup {"left"}

\* A sum, but for what the chats that ended have left in it.
Net(s, x) == IF x = "get" THEN s.sum["get"] - s.sum["left"] ELSE s.sum[x]

IsDcc(D) ==
    /\ DOMAIN D = Fields
    /\ D.type \in {"send", "recv"} \cup Chats
    /\ D.stat \in Live \cup Dead
    /\ D.iotag \in Callbacks \cup {"none"} /\ D.wiotag \in Callbacks \cup {"none"}
    /\ D.fp \in BOOLEAN /\ D.passive \in BOOLEAN /\ D.port \in BOOLEAN
    /\ D.fast \in BOOLEAN /\ D.throttled \in BOOLEAN
    /\ D.pos \in Nat /\ D.ack \in Nat /\ D.peer \in Nat
    /\ D.resumable \in Nat /\ D.resume_sent \in Nat /\ D.cps \in Int
    /\ DOMAIN D.proxy = {"kind", "phase", "asked"}

\* How far a file was sent.
SendOk(D) ==
    /\ D.pos <= Size /\ D.ack <= Size /\ D.peer <= Size
    /\ D.type = "send" /\ D.stat \in Live => D.pos = D.peer
    /\ D.type = "send" /\ D.stat = "done" => D.peer = Size /\ D.ack = Size

\* What holds of every entry.
EntryOk(D) ==
    /\ D.iotag = D.wiotag => D.iotag = "none"
    /\ D.stat \in {"queued", "connecting"} => D.cps = 0
    /\ D.type \in Chats => D.fp = FALSE /\ D.fast = FALSE
    /\ D.type # "recv" => D.resume_sent = 0
    /\ ~Mixed => SendOk(D)

\* The sources are those the tags name.
Owned(s) ==
    /\ s.sources \subseteq Dccs \X Callbacks
    /\ \A e \in Dccs, cb \in Callbacks :
          <<e, cb>> \in s.sources <=> /\ e \in DOMAIN s.dcc
                                      /\ s.dcc[e].iotag = cb \/ s.dcc[e].wiotag = cb

\* No entry is listed twice.
ListOk(s) ==
    /\ s.list \in Seq(Dccs)
    /\ \A i, j \in 1..Len(s.list) : s.list[i] = s.list[j] => i = j
    /\ \A d : d \in DOMAIN s.dcc <=> \E i \in 1..Len(s.list) : s.list[i] = d

IsState(s) ==
    /\ DOMAIN s = Parts /\ DOMAIN s.sum = Counters
    /\ \A x \in Counters : s.sum[x] \in Int
    /\ \A d \in DOMAIN s.dcc : IsDcc(s.dcc[d])
    /\ ListOk(s) /\ Owned(s)

Active(s, x) == {d \in DOMAIN s.dcc : s.dcc[d].stat = "active" /\ Sum(s.dcc[d]) = x}

SumsOk(s) ==
    \A x \in Directions :
        Net(s, x) = Total([d \in DOMAIN s.dcc |-> s.dcc[d].cps], Active(s, x))

\* The first n blocks are in the file.
Has(disk, p, n) == n \in 0..Size /\ disk[p] = Blocks(0, n)

\* A download that has a file, or will go on with what is there of one.
Claims(D) ==
    /\ D.type = "recv" /\ D.stat \in Live
    /\ D.fp = TRUE \/ D.resumable > 0 \/ D.resume_sent > 0

Passive(D) == D.type = "recv" /\ D.passive = TRUE

\* The file of an open download, and of one that waits.
OpenOk(disk, D) ==
    /\ D.stat = "active" /\ D.pos <= D.peer /\ D.peer <= Size
    /\ D.pos = D.peer => Has(disk, D.dest, D.pos)
    /\ D.dest \in Files => D.pos = D.peer

WaitOk(disk, D) ==
    /\ D.dest = D.file /\ D.pos = D.resumable /\ D.peer \in {0, D.resume_sent}
    /\ D.resumable > 0 => D.resumable < Size /\ Has(disk, D.file, D.resumable)
    /\ D.resume_sent > 0 => D.resume_sent < Size /\ Has(disk, D.file, D.resume_sent)
    /\ D.stat = "queued" /\ D.resume_sent > 0 => D.resumable = D.resume_sent
    /\ D.stat # "queued" /\ D.resumable > 0 => D.peer = D.resumable

RecvOk(disk, d, D) ==
    D.type = "recv" /\ D.stat \in Live =>
        /\ D.file \in Files /\ D.dest \in {D.file, d}
        /\ D.port = FALSE => D.passive = TRUE
        /\ D.fp = TRUE => OpenOk(disk, D)
        /\ D.fp = FALSE => WaitOk(disk, D)

Apart(s) ==
    \A d, e \in DOMAIN s.dcc :
        d # e /\ Claims(s.dcc[d]) /\ Claims(s.dcc[e]) => s.dcc[d].dest # s.dcc[e].dest

FilesOk(s) ==
    /\ DOMAIN s.disk = Paths
    /\ \A f \in Files : s.disk[f] = Absent \/ \E n \in Nat : Has(s.disk, f, n)
    /\ s.completed \subseteq {Whole}
    /\ \A d \in DOMAIN s.dcc : RecvOk(s.disk, d, s.dcc[d])
    /\ Apart(s)
    /\ \A d, e \in DOMAIN s.dcc : Passive(s.dcc[d]) /\ Passive(s.dcc[e]) => d = e

DiskOk(s) == DOMAIN s.disk = Paths /\ \A p \in Paths : s.disk[p] \in Seq(Int)

Core(s) ==
    /\ IsState(s) /\ DiskOk(s)
    /\ \A d \in DOMAIN s.dcc : EntryOk(s.dcc[d])
    /\ SumsOk(s)
    /\ ~Mixed => FilesOk(s)

-----------------------------------------------------------------------------
(* What a change of one entry leaves alone.                                *)

\* All but d are as they were.
Others(s, t, d) ==
    /\ DOMAIN t.dcc \ {d} = DOMAIN s.dcc \ {d}
    /\ \A e \in DOMAIN s.dcc \ {d} : t.dcc[e] = s.dcc[e]

Only(s, t, d) == DOMAIN t.dcc = DOMAIN s.dcc /\ t.list = s.list /\ Others(s, t, d)

LEMMA OnlyTwice ==
    ASSUME NEW s, NEW t, NEW u, NEW d, Only(s, t, d), Only(t, u, d)
    PROVE  Only(s, u, d)
BY DEF Only, Others

LEMMA OwnedMoves ==
    ASSUME NEW s, NEW t, NEW d, Owned(s), Others(s, t, d),
           \A e, cb : e # d => (<<e, cb>> \in t.sources <=> <<e, cb>> \in s.sources),
           t.sources \subseteq Dccs \X Callbacks,
           \A cb \in Callbacks :
              <<d, cb>> \in t.sources <=> /\ d \in DOMAIN t.dcc
                                          /\ t.dcc[d].iotag = cb \/ t.dcc[d].wiotag = cb
    PROVE  Owned(t)
BY DEF Owned, Others

LEMMA NetIs ==
    ASSUME NEW s, \A x \in Counters : s.sum[x] \in Int
    PROVE  \A x \in Directions : Net(s, x) \in Int
BY DEF Net, Counters, Directions

\* What an entry adds to a sum.
Share(s, d, x) == IF d \in Active(s, x) THEN s.dcc[d].cps ELSE 0

LEMMA SumsMove ==
    ASSUME NEW s, NEW t, NEW d \in Dccs, SumsOk(s), Others(s, t, d),
           DOMAIN s.dcc \subseteq Dccs,
           \A e \in DOMAIN s.dcc : s.dcc[e].cps \in Int,
           \A e \in DOMAIN t.dcc : t.dcc[e].cps \in Int,
           \A x \in Directions : Net(t, x) \in Int /\ Net(s, x) \in Int,
           \A x \in Directions : Net(t, x) = Net(s, x) + Share(t, d, x) - Share(s, d, x)
    PROVE  SumsOk(t)
<1> SUFFICES ASSUME NEW x \in Directions
             PROVE  Net(t, x) = Total([e \in DOMAIN t.dcc |-> t.dcc[e].cps], Active(t, x))
  BY DEF SumsOk
<1> DEFINE f == [e \in DOMAIN s.dcc |-> s.dcc[e].cps]
           g == [e \in DOMAIN t.dcc |-> t.dcc[e].cps]
           A == Active(s, x)
           B == Active(t, x)
           rest == A \ {d}
<1>1. A \in SUBSET Dccs /\ B \in SUBSET Dccs /\ rest = B \ {d} /\ rest \in SUBSET Dccs
  BY DEF Active, Others
<1>2. Rates(f, A) /\ Rates(g, B) /\ Rates(f, rest) /\ \A e \in rest : f[e] = g[e]
  BY DEF Rates, Active, Others
<1>3. d \in A => f[d] = s.dcc[d].cps /\ f[d] \in Int
  BY DEF Active
<1>4. d \in B => g[d] = t.dcc[d].cps /\ g[d] \in Int
  BY DEF Active
<1>5. Net(s, x) = Total(f, A)
  BY DEF SumsOk
<1>6. Share(s, d, x) = IF d \in A THEN f[d] ELSE 0
  BY <1>3 DEF Share
<1>7. Share(t, d, x) = IF d \in B THEN g[d] ELSE 0
  BY <1>4 DEF Share
<1> HIDE DEF f, g, A, B, rest
<1>8. Total(f, rest) = Total(g, rest) /\ Total(f, rest) \in Int
  BY <1>1, <1>2, TotalSame, TotalSplit
<1>9. Total(f, A) = Total(f, rest) + (IF d \in A THEN f[d] ELSE 0)
  <2>1. CASE d \in A
    <3>1. Total(f, A) = f[d] + Total(f, A \ {d})
      BY <1>1, <1>2, <2>1, TotalSplit
    <3> QED BY <1>3, <1>8, <2>1, <3>1 DEF rest
  <2>2. CASE d \notin A
    <3>1. A = rest
      BY <2>2 DEF rest
    <3> QED BY <1>8, <2>2, <3>1
  <2> QED BY <2>1, <2>2
<1>10. Total(g, B) = Total(g, rest) + (IF d \in B THEN g[d] ELSE 0)
  <2>1. CASE d \in B
    <3>1. Total(g, B) = g[d] + Total(g, B \ {d})
      BY <1>1, <1>2, <2>1, TotalSplit
    <3> QED BY <1>1, <1>4, <1>8, <2>1, <3>1
  <2>2. CASE d \notin B
    <3>1. B = rest
      BY <1>1, <2>2
    <3> QED BY <1>8, <2>2, <3>1
  <2> QED BY <2>1, <2>2
<1>11. Net(t, x) = Total(g, B)
  <2> DEFINE a == IF d \in A THEN f[d] ELSE 0
             b == IF d \in B THEN g[d] ELSE 0
             r == Total(f, rest)
  <2>1. a \in Int /\ b \in Int /\ r \in Int
    BY <1>3, <1>4, <1>8
  <2>2. Net(s, x) = r + a /\ Total(g, B) = r + b /\ Net(t, x) = Net(s, x) + b - a
    BY <1>5, <1>6, <1>7, <1>8, <1>9, <1>10
  <2> HIDE DEF a, b, r
  <2> QED BY <2>1, <2>2
<1> QED BY <1>11 DEF g, B

-----------------------------------------------------------------------------
(* The changes of one entry that handlers are made of.                     *)

\* Only the entry d is changed, to E.
Sets(s, t, d, E) ==
    /\ DOMAIN t = Parts /\ Only(s, t, d) /\ t.dcc[d] = E
    /\ t.sources = s.sources /\ t.sum = s.sum
    /\ t.disk = s.disk /\ t.completed = s.completed

\* Entries that are the same but for some fields.
Like(D, E, changed) ==
    DOMAIN D = Fields /\ DOMAIN E = Fields /\ \A x \in Fields \ changed : D[x] = E[x]

Done(s, t, d) == Core(t) /\ Only(s, t, d)

LEMMA DoneTwice ==
    ASSUME NEW s, NEW t, NEW u, NEW d, Done(s, t, d), Done(t, u, d)
    PROVE  Done(s, u, d)
BY OnlyTwice DEF Done

\* What E claims of the files, and that it may.
Fits(s, d, E) ==
    /\ RecvOk(s.disk, d, E)
    /\ Claims(E) => \A e \in DOMAIN s.dcc \ {d} :
                       Claims(s.dcc[e]) => s.dcc[e].dest # E.dest
    /\ Passive(E) => \A e \in DOMAIN s.dcc \ {d} : ~Passive(s.dcc[e])

LEMMA FilesFit ==
    ASSUME NEW s, NEW t, NEW d, FilesOk(s), Only(s, t, d), d \in DOMAIN s.dcc,
           t.disk = s.disk, t.completed = s.completed, Fits(s, d, t.dcc[d])
    PROVE  FilesOk(t)
<1>1. \A e \in DOMAIN t.dcc : RecvOk(t.disk, e, t.dcc[e])
  BY DEF FilesOk, Only, Others, Fits
<1>2. Apart(t)
  BY DEF FilesOk, Only, Others, Fits, Apart
<1>3. \A e, f \in DOMAIN t.dcc : Passive(t.dcc[e]) /\ Passive(t.dcc[f]) => e = f
  BY DEF FilesOk, Only, Others, Fits
<1> QED BY <1>1, <1>2, <1>3 DEF FilesOk

\* An entry that claims no more than before.
Keeps(D, E) ==
    /\ E.type = D.type /\ E.file = D.file /\ E.dest = D.dest /\ E.passive = D.passive
    /\ E.fp = D.fp /\ E.pos = D.pos /\ E.peer = D.peer
    /\ E.resumable = D.resumable /\ E.resume_sent = D.resume_sent
    /\ E.port = FALSE => D.port = FALSE
    /\ E.stat \in Live => D.stat \in Live
    /\ E.stat = "queued" => D.stat = "queued"
    /\ E.type = "recv" /\ E.stat \in Live =>
          /\ D.fp = TRUE => E.stat = "active"
          /\ D.fp = FALSE /\ D.resumable > 0 /\ E.stat # "queued" => D.peer = D.resumable

LEMMA KeptFits ==
    ASSUME NEW s, NEW d \in DOMAIN s.dcc, FilesOk(s), NEW E, Keeps(s.dcc[d], E),
           IsDcc(E), IsDcc(s.dcc[d])
    PROVE  Fits(s, d, E)
<1> DEFINE D == s.dcc[d]
<1>0. RecvOk(s.disk, d, D)
  BY DEF FilesOk
<1>1. RecvOk(s.disk, d, E)
  <2> SUFFICES ASSUME E.type = "recv", E.stat \in Live
               PROVE  /\ E.file \in Files /\ E.dest \in {E.file, d}
                      /\ E.port = FALSE => E.passive = TRUE
                      /\ E.fp = TRUE => OpenOk(s.disk, E)
                      /\ E.fp = FALSE => WaitOk(s.disk, E)
    BY DEF RecvOk
  <2>1. D.type = "recv" /\ D.stat \in Live
    BY DEF Keeps
  <2>2. /\ D.file \in Files /\ D.dest \in {D.file, d}
        /\ D.port = FALSE => D.passive = TRUE
        /\ D.fp = TRUE => OpenOk(s.disk, D)
        /\ D.fp = FALSE => WaitOk(s.disk, D)
    BY <1>0, <2>1 DEF RecvOk
  <2> HIDE DEF D
  <2>3. Keeps(D, E)
    BY DEF D
  <2>4. E.fp = TRUE => OpenOk(s.disk, E)
    BY <2>2, <2>3 DEF Keeps, OpenOk, Has
  <2>5. E.fp = FALSE => WaitOk(s.disk, E)
    BY <2>2, <2>3 DEF Keeps, WaitOk, Has
  <2> QED BY <2>2, <2>3, <2>4, <2>5 DEF Keeps
<1>2. Claims(E) => Claims(D) /\ E.dest = D.dest
  BY DEF Claims, Keeps
<1>3. Passive(E) => Passive(D)
  BY DEF Passive, Keeps
<1> QED BY <1>1, <1>2, <1>3 DEF Fits, FilesOk, Apart

\* Core of a state in which only d has changed.
LEMMA CoreOnly ==
    ASSUME NEW s, NEW t, NEW d \in DOMAIN s.dcc, Core(s), DOMAIN t = Parts, Only(s, t, d),
           IsDcc(t.dcc[d]), EntryOk(t.dcc[d]), Owned(t), DiskOk(t),
           DOMAIN t.sum = Counters, \A x \in Counters : t.sum[x] \in Int,
           \A x \in Directions : Net(t, x) = Net(s, x) + Share(t, d, x) - Share(s, d, x),
           ~Mixed => FilesOk(t)
    PROVE  Core(t)
<1>1. \A e \in DOMAIN t.dcc : IsDcc(t.dcc[e]) /\ EntryOk(t.dcc[e])
  BY DEF Core, IsState, Only, Others
<1>2. ListOk(t)
  BY DEF Core, IsState, Only, ListOk
<1>3. IsState(t)
  BY <1>1, <1>2 DEF IsState
<1>4. SumsOk(t)
  <2>1. DOMAIN s.dcc \subseteq Dccs /\ d \in Dccs
    BY DEF Core, IsState, ListOk
  <2>2. \A e \in DOMAIN s.dcc : s.dcc[e].cps \in Int
    BY DEF Core, IsState, IsDcc
  <2>3. \A e \in DOMAIN t.dcc : t.dcc[e].cps \in Int
    BY <1>1 DEF IsDcc
  <2>4. \A x \in Counters : s.sum[x] \in Int
    BY DEF Core, IsState
  <2>5. SumsOk(s) /\ Others(s, t, d)
    BY DEF Core, Only
  <2>6. \A x \in Directions : Net(t, x) \in Int /\ Net(s, x) \in Int
    BY <2>4, NetIs
  <2> QED BY <2>1, <2>2, <2>3, <2>5, <2>6, SumsMove
<1> QED BY <1>1, <1>3, <1>4 DEF Core

\* What an entry is counted as.
Weight(D, x) == IF D.stat = "active" /\ Sum(D) = x THEN D.cps ELSE 0

LEMMA ShareIs ==
    ASSUME NEW s, NEW d \in DOMAIN s.dcc, NEW x
    PROVE  Share(s, d, x) = Weight(s.dcc[d], x)
BY DEF Share, Weight, Active

LEMMA Put ==
    ASSUME NEW s, NEW t, NEW d \in DOMAIN s.dcc, NEW E, Core(s), Sets(s, t, d, E),
           IsDcc(E), EntryOk(E),
           E.iotag = s.dcc[d].iotag, E.wiotag = s.dcc[d].wiotag,
           \A x \in Directions : Weight(E, x) = Weight(s.dcc[d], x),
           ~Mixed => Fits(s, d, E)
    PROVE  Done(s, t, d)
<1>1. DOMAIN t = Parts /\ Only(s, t, d) /\ t.dcc[d] = E /\ d \in DOMAIN t.dcc
  BY DEF Sets, Only
<1>2. Owned(t)
  <2>1. Owned(s) /\ Others(s, t, d)
    BY <1>1 DEF Core, IsState, Only
  <2>2. t.sources = s.sources
    BY DEF Sets
  <2>3. d \in Dccs
    BY DEF Core, IsState, ListOk
  <2> QED BY <1>1, <2>1, <2>2, <2>3 DEF Owned, Others
<1>3. /\ DOMAIN t.sum = Counters /\ \A x \in Counters : t.sum[x] \in Int
      /\ \A x \in Directions : Net(t, x) = Net(s, x) /\ Net(s, x) \in Int
  <2>1. t.sum = s.sum /\ DOMAIN s.sum = Counters /\ \A x \in Counters : s.sum[x] \in Int
    BY DEF Sets, Core, IsState
  <2> QED BY <2>1, NetIs DEF Net
<1>4. ASSUME NEW x \in Directions
      PROVE  Net(t, x) = Net(s, x) + Share(t, d, x) - Share(s, d, x)
  <2>1. Share(t, d, x) = Weight(E, x) /\ Share(s, d, x) = Weight(s.dcc[d], x)
    BY <1>1, ShareIs
  <2>2. Weight(E, x) = Weight(s.dcc[d], x)
    OBVIOUS
  <2>3. Weight(E, x) \in Int
    BY DEF Weight, IsDcc
  <2> QED BY <1>3, <2>1, <2>2, <2>3
<1>5. ASSUME ~Mixed PROVE FilesOk(t)
  <2>1. FilesOk(s) /\ Fits(s, d, t.dcc[d]) /\ t.disk = s.disk /\ t.completed = s.completed
    BY <1>1, <1>5 DEF Core, Sets
  <2> QED BY <1>1, <2>1, FilesFit
<1>6. DiskOk(t)
  BY DEF Sets, Core, DiskOk
<1>7. Core(t)
  BY <1>1, <1>2, <1>3, <1>4, <1>5, <1>6, CoreOnly
<1> QED BY <1>1, <1>7 DEF Done

Tags == {"iotag", "wiotag"}

\* What is not a tag, a source or an entry stays.
Beside(s, t) == t.sum = s.sum /\ t.disk = s.disk /\ t.completed = s.completed

LEMMA Retagged ==
    ASSUME NEW s, NEW t, NEW d \in DOMAIN s.dcc, Core(s), NEW tag \in Tags,
           DOMAIN t = Parts, Only(s, t, d), Beside(s, t),
           Like(s.dcc[d], t.dcc[d], {tag}),
           t.dcc[d][tag] \in Callbacks \cup {"none"},
           t.dcc[d].iotag = t.dcc[d].wiotag => t.dcc[d].iotag = "none",
           Owned(t)
    PROVE  Done(s, t, d)
<1> DEFINE D == s.dcc[d]
           E == t.dcc[d]
<1>1. IsDcc(D) /\ EntryOk(D) /\ d \in DOMAIN t.dcc
  BY DEF Core, IsState, Only
<1>2. Like(D, E, {tag}) /\ E[tag] \in Callbacks \cup {"none"}
      /\ (E.iotag = E.wiotag => E.iotag = "none")
  OBVIOUS
<1> HIDE DEF D, E
<1>3. /\ E.type = D.type /\ E.file = D.file /\ E.dest = D.dest /\ E.passive = D.passive
      /\ E.fp = D.fp /\ E.pos = D.pos /\ E.peer = D.peer /\ E.port = D.port
      /\ E.resumable = D.resumable /\ E.resume_sent = D.resume_sent /\ E.stat = D.stat
      /\ E.ack = D.ack /\ E.fast = D.fast /\ E.throttled = D.throttled /\ E.cps = D.cps
      /\ E.proxy = D.proxy
  BY <1>2 DEF Like, Fields, Tags
<1>4. DOMAIN E = Fields /\ E.iotag \in Callbacks \cup {"none"} /\ E.wiotag \in Callbacks \cup {"none"}
  BY <1>1, <1>2 DEF Like, Fields, Tags, IsDcc
<1>5. IsDcc(E)
  BY <1>1, <1>3, <1>4 DEF IsDcc
<1>6. EntryOk(E)
  BY <1>1, <1>2, <1>3 DEF EntryOk, SendOk
<1>7. \A x \in Directions : Weight(E, x) = Weight(D, x) /\ Weight(E, x) \in Int
  BY <1>3, <1>5 DEF Weight, Sum, IsDcc
<1>8. /\ DOMAIN t.sum = Counters /\ \A x \in Counters : t.sum[x] \in Int
      /\ \A x \in Directions : Net(t, x) = Net(s, x) /\ Net(s, x) \in Int
  <2>1. t.sum = s.sum /\ DOMAIN s.sum = Counters /\ \A x \in Counters : s.sum[x] \in Int
    BY DEF Core, IsState, Beside
  <2> QED BY <2>1, NetIs DEF Net
<1>9. ASSUME NEW x \in Directions PROVE Net(t, x) = Net(s, x) + Share(t, d, x) - Share(s, d, x)
  <2>1. Share(t, d, x) = Weight(E, x) /\ Share(s, d, x) = Weight(D, x)
    BY <1>1, ShareIs DEF D, E
  <2> QED BY <1>7, <1>8, <2>1
<1>10. ASSUME ~Mixed PROVE FilesOk(t)
  <2>1. FilesOk(s)
    BY <1>10 DEF Core
  <2>2. RecvOk(s.disk, d, D)
    BY <2>1 DEF FilesOk, D
  <2>3. D.fp \in BOOLEAN
    BY <1>1 DEF IsDcc
  <2>4. Keeps(D, E)
    BY <1>3, <2>2, <2>3 DEF Keeps, RecvOk, OpenOk, WaitOk
  <2>5. Fits(s, d, E)
    BY <1>1, <1>5, <2>1, <2>4, KeptFits DEF D
  <2> QED BY <2>1, <2>5, FilesFit DEF Beside, E
<1>11. IsDcc(t.dcc[d]) /\ EntryOk(t.dcc[d])
  BY <1>5, <1>6 DEF E
<1>12. DiskOk(t)
  BY DEF Beside, Core, DiskOk
<1>13. Core(t)
  BY <1>8, <1>9, <1>10, <1>11, <1>12, CoreOnly
<1> QED BY <1>13 DEF Done

LEMMA Unwatched ==
    ASSUME NEW s, NEW d \in DOMAIN s.dcc, Core(s), NEW tag \in Tags
    PROVE  /\ Done(s, Unwatch(s, d, tag), d) /\ Beside(s, Unwatch(s, d, tag))
           /\ Like(s.dcc[d], Unwatch(s, d, tag).dcc[d], {tag})
           /\ Unwatch(s, d, tag).dcc[d][tag] = "none"
<1> DEFINE t == Unwatch(s, d, tag)
           D == s.dcc[d]
           E == t.dcc[d]
<1>1. IsDcc(D) /\ EntryOk(D) /\ DOMAIN s = Parts /\ Owned(s)
  BY DEF Core, IsState
<1>2. /\ DOMAIN t = Parts /\ Only(s, t, d) /\ Beside(s, t)
      /\ E = [D EXCEPT ![tag] = "none"]
      /\ t.sources = s.sources \ {<<d, D[tag]>>}
  BY <1>1 DEF Unwatch, Only, Others, Parts, Beside
<1> HIDE DEF t
<1>3. Like(D, E, {tag}) /\ E[tag] = "none"
  BY <1>1, <1>2 DEF Like, IsDcc, Tags, Fields
<1> HIDE DEF E
<1>4. E = t.dcc[d] /\ d \in DOMAIN t.dcc
  BY <1>2 DEF E, Only
<1>5. /\ tag = "iotag" => E.iotag = "none" /\ E.wiotag = D.wiotag
      /\ tag = "wiotag" => E.wiotag = "none" /\ E.iotag = D.iotag
  BY <1>3 DEF Like, Fields
<1>6. D.iotag = D.wiotag => D.iotag = "none"
  BY <1>1 DEF EntryOk
<1>7. Owned(t)
  <2>1. Others(s, t, d)
    BY <1>2 DEF Only
  <2>2. \A e, cb : e # d => (<<e, cb>> \in t.sources <=> <<e, cb>> \in s.sources)
    BY <1>2
  <2>3. t.sources \subseteq Dccs \X Callbacks
    BY <1>1, <1>2 DEF Owned
  <2>4. d \in Dccs
    BY DEF Core, IsState, ListOk
  <2>5. ASSUME NEW cb \in Callbacks
        PROVE  <<d, cb>> \in t.sources <=> (E.iotag = cb \/ E.wiotag = cb)
    <3>1. <<d, cb>> \in s.sources <=> (D.iotag = cb \/ D.wiotag = cb)
      BY <1>1, <2>4 DEF Owned
    <3>2. <<d, cb>> \in t.sources <=> <<d, cb>> \in s.sources /\ cb # D[tag]
      BY <1>2
    <3>3. cb # "none"
      BY DEF Callbacks
    <3> QED BY <1>5, <1>6, <3>1, <3>2, <3>3 DEF Tags
  <2> QED BY <1>1, <1>4, <2>1, <2>2, <2>3, <2>5, OwnedMoves
<1>8. t.dcc[d].iotag = t.dcc[d].wiotag => t.dcc[d].iotag = "none"
  BY <1>4, <1>5, <1>6 DEF Tags
<1>9. Like(s.dcc[d], t.dcc[d], {tag}) /\ t.dcc[d][tag] \in Callbacks \cup {"none"}
  BY <1>3, <1>4
<1>10. Done(s, t, d)
  BY <1>2, <1>7, <1>8, <1>9, Retagged
<1> QED BY <1>2, <1>3, <1>4, <1>10 DEF t, D

LEMMA Watched ==
    ASSUME NEW s, NEW d \in DOMAIN s.dcc, Core(s), NEW tag \in Tags, NEW cb \in Callbacks,
           s.dcc[d][tag] = "none", s.dcc[d].iotag # cb, s.dcc[d].wiotag # cb
    PROVE  /\ Done(s, Watch(s, d, tag, cb), d) /\ Beside(s, Watch(s, d, tag, cb))
           /\ Like(s.dcc[d], Watch(s, d, tag, cb).dcc[d], {tag})
           /\ Watch(s, d, tag, cb).dcc[d][tag] = cb
<1> DEFINE t == Watch(s, d, tag, cb)
           D == s.dcc[d]
           E == t.dcc[d]
<1>1. IsDcc(D) /\ EntryOk(D) /\ DOMAIN s = Parts /\ Owned(s)
  BY DEF Core, IsState
<1>2. /\ DOMAIN t = Parts /\ Only(s, t, d) /\ Beside(s, t)
      /\ E = [D EXCEPT ![tag] = cb]
      /\ t.sources = s.sources \cup {<<d, cb>>}
  BY <1>1 DEF Watch, Only, Others, Parts, Beside
<1> HIDE DEF t
<1>3. Like(D, E, {tag}) /\ E[tag] = cb
  BY <1>1, <1>2 DEF Like, IsDcc, Tags, Fields
<1> HIDE DEF E
<1>4. E = t.dcc[d] /\ d \in DOMAIN t.dcc
  BY <1>2 DEF E, Only
<1>5. /\ tag = "iotag" => E.iotag = cb /\ E.wiotag = D.wiotag
      /\ tag = "wiotag" => E.wiotag = cb /\ E.iotag = D.iotag
  BY <1>3 DEF Like, Fields
<1>6. /\ D.iotag = D.wiotag => D.iotag = "none"
      /\ tag = "iotag" => D.iotag = "none"
      /\ tag = "wiotag" => D.wiotag = "none"
      /\ D.iotag # cb /\ D.wiotag # cb /\ cb # "none"
  BY <1>1 DEF EntryOk, Callbacks
<1>7. Owned(t)
  <2>1. Others(s, t, d)
    BY <1>2 DEF Only
  <2>2. \A e, c : e # d => (<<e, c>> \in t.sources <=> <<e, c>> \in s.sources)
    BY <1>2
  <2>3. d \in Dccs
    BY DEF Core, IsState, ListOk
  <2>4. t.sources \subseteq Dccs \X Callbacks
    BY <1>1, <1>2, <2>3 DEF Owned
  <2>5. ASSUME NEW c \in Callbacks
        PROVE  <<d, c>> \in t.sources <=> (E.iotag = c \/ E.wiotag = c)
    <3>1. <<d, c>> \in s.sources <=> (D.iotag = c \/ D.wiotag = c)
      BY <1>1, <2>3 DEF Owned
    <3>2. <<d, c>> \in t.sources <=> <<d, c>> \in s.sources \/ c = cb
      BY <1>2
    <3>3. c # "none"
      BY DEF Callbacks
    <3> QED BY <1>5, <1>6, <3>1, <3>2, <3>3 DEF Tags
  <2> QED BY <1>1, <1>4, <2>1, <2>2, <2>4, <2>5, OwnedMoves
<1>8. t.dcc[d].iotag = t.dcc[d].wiotag => t.dcc[d].iotag = "none"
  BY <1>4, <1>5, <1>6 DEF Tags
<1>9. Like(s.dcc[d], t.dcc[d], {tag}) /\ t.dcc[d][tag] \in Callbacks \cup {"none"}
  BY <1>3, <1>4
<1>10. Done(s, t, d)
  BY <1>2, <1>7, <1>8, <1>9, Retagged
<1> QED BY <1>2, <1>3, <1>4, <1>10 DEF t, D

-----------------------------------------------------------------------------
(* Closing an entry, taking it off the list, making one.                   *)

\* What dcc_close does to d, and to what it was counted in.
Shut(s, t, d, stat) ==
    /\ DOMAIN t = Parts /\ Only(s, t, d) /\ Owned(t)
    /\ Like(s.dcc[d], t.dcc[d], {"iotag", "wiotag", "sok", "fp", "stat"})
    /\ t.dcc[d].iotag = "none" /\ t.dcc[d].wiotag = "none"
    /\ t.dcc[d].fp = FALSE /\ t.dcc[d].stat = stat
    /\ DOMAIN t.sum = Counters /\ \A x \in Counters : t.sum[x] \in Int
    /\ \A x \in Directions : Net(t, x) = Net(s, x) - Weight(s.dcc[d], x)

\* What it does to the file.
Filed(s, t, d, stat) ==
    LET D == s.dcc[d] IN
    IF D.fp = TRUE /\ stat = "done" /\ D.type = "recv"
    THEN /\ t.completed = s.completed \cup {s.disk[D.dest]}
         /\ t.disk = [s.disk EXCEPT ![D.dest] = Absent]
    ELSE t.completed = s.completed /\ t.disk = s.disk

LEMMA CloseIs ==
    ASSUME NEW s, NEW d \in DOMAIN s.dcc, Core(s), NEW stat
    PROVE  Shut(s, dcc_close(s, d, stat), d, stat) /\ Filed(s, dcc_close(s, d, stat), d, stat)
<1> DEFINE r == Unwatch(s, d, "wiotag")
           u == Unwatch(r, d, "iotag")
           v == dcc_remove_from_sum(u, d)
           w == Moved(v, d, stat)
           t == [w EXCEPT !.dcc[d].sok = FALSE, !.dcc[d].fp = FALSE, !.dcc[d].stat = stat]
           D == s.dcc[d]
<1>1. /\ Done(s, r, d) /\ Beside(s, r) /\ Like(D, r.dcc[d], {"wiotag"})
      /\ r.dcc[d].wiotag = "none"
  BY Unwatched DEF Tags
<1>2. Core(r) /\ d \in DOMAIN r.dcc
  BY <1>1 DEF Done, Only
<1>3. /\ Done(r, u, d) /\ Beside(r, u) /\ Like(r.dcc[d], u.dcc[d], {"iotag"})
      /\ u.dcc[d].iotag = "none"
  <2> HIDE DEF r
  <2> QED BY <1>2, Unwatched DEF Tags
<1>4. dcc_close(s, d, stat) = t
  BY DEF dcc_close
<1> HIDE DEF r, u
<1>5. Done(s, u, d) /\ Beside(s, u)
  BY <1>1, <1>3, DoneTwice DEF Beside
<1>6. Like(D, u.dcc[d], {"iotag", "wiotag"}) /\ u.dcc[d].iotag = "none" /\ u.dcc[d].wiotag = "none"
  BY <1>1, <1>3 DEF Like, Fields
<1>7. IsDcc(D) /\ EntryOk(D) /\ DOMAIN u = Parts /\ d \in DOMAIN u.dcc
      /\ DOMAIN u.sum = Counters /\ Owned(u) /\ \A x \in Counters : u.sum[x] \in Int
  BY <1>5 DEF Done, Core, IsState, Only
<1>8. u.dcc[d].stat = D.stat /\ u.dcc[d].type = D.type /\ u.dcc[d].cps = D.cps
      /\ u.dcc[d].fp = D.fp /\ u.dcc[d].dest = D.dest
  BY <1>6 DEF Like, Fields
<1>9. /\ DOMAIN v = Parts /\ v.dcc = u.dcc /\ v.list = u.list /\ v.sources = u.sources
      /\ v.disk = u.disk /\ v.completed = u.completed
      /\ DOMAIN v.sum = Counters /\ \A x \in Counters : v.sum[x] \in Int
      /\ \A x \in Directions : Net(v, x) = Net(u, x) - Weight(D, x)
  <2>1. /\ Sum(u.dcc[d]) = Sum(D) /\ Sum(D) \in Directions /\ Sum(D) \in Counters
        /\ Sum(D) # "left" /\ "left" \in Counters /\ Directions \subseteq Counters
    BY <1>8 DEF Sum, Directions, Counters
  <2>2. D.cps \in Int /\ D.type \in {"send", "recv"} \cup Chats
    BY <1>7 DEF IsDcc
  <2>3. CASE D.stat = "active" /\ D.type \in {"send", "recv"}
    <3>1. v = [u EXCEPT !.sum[Sum(D)] = @ - D.cps]
      BY <1>8, <2>1, <2>3 DEF dcc_remove_from_sum
    <3>2. \A x \in Counters : v.sum[x] = IF x = Sum(D) THEN u.sum[x] - D.cps ELSE u.sum[x]
      BY <1>7, <2>1, <3>1 DEF Parts
    <3>3. \A x \in Directions : Weight(D, x) = IF x = Sum(D) THEN D.cps ELSE 0
      BY <2>3 DEF Weight
    <3> HIDE DEF v, D
    <3>4. \A x \in Directions : Net(v, x) = Net(u, x) - Weight(D, x)
      BY <1>7, <2>1, <2>2, <3>2, <3>3 DEF Net, Counters, Directions
    <3> QED BY <1>7, <2>2, <3>1, <3>2, <3>4 DEF Parts
  <2>4. CASE D.stat = "active" /\ D.type \notin {"send", "recv"}
    <3>1. v = [u EXCEPT !.sum["left"] = @ + D.cps]
      BY <1>8, <2>1, <2>4 DEF dcc_remove_from_sum
    <3>2. \A x \in Counters : v.sum[x] = IF x = "left" THEN u.sum[x] + D.cps ELSE u.sum[x]
      BY <1>7, <2>1, <3>1 DEF Parts
    <3>3. \A x \in Directions : Weight(D, x) = IF x = "get" THEN D.cps ELSE 0
      BY <2>4 DEF Weight, Sum
    <3> HIDE DEF v, D
    <3>4. \A x \in Directions : Net(v, x) = Net(u, x) - Weight(D, x)
      BY <1>7, <2>1, <2>2, <3>2, <3>3 DEF Net, Counters, Directions
    <3> QED BY <1>7, <2>2, <3>1, <3>2, <3>4 DEF Parts
  <2>5. CASE D.stat # "active"
    <3>1. v = u
      BY <1>8, <2>5 DEF dcc_remove_from_sum
    <3>2. \A x \in Directions : Weight(D, x) = 0 /\ Net(u, x) \in Int
      BY <1>7, <2>5, NetIs DEF Weight
    <3> HIDE DEF v, D
    <3> QED BY <1>7, <3>1, <3>2
  <2> QED BY <2>3, <2>4, <2>5
<1> HIDE DEF v
<1>10. /\ DOMAIN w = Parts /\ w.dcc = u.dcc /\ w.list = u.list /\ w.sources = u.sources
       /\ w.sum = v.sum
  BY <1>7, <1>9 DEF Moved, Parts
<1>11. Filed(s, w, d, stat)
  <2>1. s.disk = v.disk /\ s.completed = v.completed
    BY <1>5, <1>9 DEF Beside
  <2>2. v.dcc[d].fp = D.fp /\ v.dcc[d].type = D.type /\ v.dcc[d].dest = D.dest /\ D.fp \in BOOLEAN
    BY <1>7, <1>8, <1>9 DEF IsDcc
  <2> QED BY <1>9, <2>1, <2>2 DEF Moved, Parts, Filed
<1> HIDE DEF w
<1>12. /\ DOMAIN t = Parts /\ t.list = u.list /\ t.sources = u.sources /\ t.sum = v.sum
       /\ t.disk = w.disk /\ t.completed = w.completed /\ Only(u, t, d)
       /\ t.dcc[d] = [u.dcc[d] EXCEPT !.sok = FALSE, !.fp = FALSE, !.stat = stat]
  BY <1>7, <1>10 DEF Parts, Only, Others
<1> HIDE DEF t
<1>13. Only(s, t, d)
  BY <1>5, <1>12, OnlyTwice DEF Done
<1>14. Like(D, t.dcc[d], {"iotag", "wiotag", "sok", "fp", "stat"})
       /\ t.dcc[d].iotag = "none" /\ t.dcc[d].wiotag = "none" /\ t.dcc[d].fp = FALSE
       /\ t.dcc[d].stat = stat
  BY <1>6, <1>12 DEF Like, Fields
<1>15. Owned(t)
  <2>1. d \in Dccs /\ Others(u, t, d) /\ d \in DOMAIN t.dcc
    BY <1>5, <1>7, <1>12 DEF Done, Core, IsState, ListOk, Only
  <2>2. \A cb \in Callbacks : <<d, cb>> \notin u.sources
    BY <1>6, <1>7, <2>1 DEF Owned, Callbacks
  <2>3. \A cb \in Callbacks : cb # "none"
    BY DEF Callbacks
  <2>4. t.sources = u.sources /\ u.sources \subseteq Dccs \X Callbacks
    BY <1>7, <1>12 DEF Owned
  <2> QED BY <1>7, <1>14, <2>1, <2>2, <2>3, <2>4, OwnedMoves
<1>16. Shut(s, t, d, stat)
  <2>1. \A x \in Directions : Net(u, x) = Net(s, x) /\ Net(t, x) = Net(v, x)
    BY <1>5, <1>12 DEF Beside, Net
  <2> QED BY <1>9, <1>12, <1>13, <1>14, <1>15, <2>1 DEF Shut
<1>17. Filed(s, t, d, stat)
  BY <1>11, <1>12 DEF Filed
<1> QED BY <1>4, <1>16, <1>17

\* A download is not touched by what happens to files it does not claim.
LEMMA RecvElse ==
    ASSUME NEW disk, NEW now, NEW e, NEW D, RecvOk(disk, e, D),
           Claims(D) => now[D.dest] = disk[D.dest]
    PROVE  RecvOk(now, e, D)
<1> SUFFICES ASSUME D.type = "recv", D.stat \in Live
             PROVE  /\ D.fp = TRUE => OpenOk(now, D)
                    /\ D.fp = FALSE => WaitOk(now, D)
  BY DEF RecvOk
<1>1. D.fp = TRUE => OpenOk(disk, D) /\ Claims(D)
  BY DEF RecvOk, Claims
<1>2. D.fp = FALSE => WaitOk(disk, D)
  BY DEF RecvOk
<1>3. D.resumable > 0 \/ D.resume_sent > 0 => Claims(D)
  BY DEF Claims
<1> QED BY <1>1, <1>2, <1>3 DEF OpenOk, WaitOk, Has

\* A transfer may be called done.
Complete(s, d) ==
    LET D == s.dcc[d] IN
    /\ D.stat = "active"
    /\ D.type = "send" => D.peer = Size /\ D.ack = Size
    /\ D.type = "recv" /\ D.fp = TRUE => s.disk[D.dest] = Whole

LEMMA Closed ==
    ASSUME NEW s, NEW d \in DOMAIN s.dcc, Core(s), NEW stat \in Dead,
           ~Mixed /\ stat = "done" => Complete(s, d)
    PROVE  LET t == dcc_close(s, d, stat)
           IN /\ Done(s, t, d)
              /\ Like(s.dcc[d], t.dcc[d], {"iotag", "wiotag", "sok", "fp", "stat"})
              /\ t.dcc[d].iotag = "none" /\ t.dcc[d].wiotag = "none" /\ t.dcc[d].stat = stat
<1> DEFINE t == dcc_close(s, d, stat)
           D == s.dcc[d]
           E == t.dcc[d]
<1>1. Shut(s, t, d, stat) /\ Filed(s, t, d, stat)
  BY CloseIs
<1> HIDE DEF t
<1>2. IsDcc(D) /\ EntryOk(D) /\ d \in Dccs /\ d \in DOMAIN t.dcc
  BY <1>1 DEF Core, IsState, ListOk, Shut, Only
<1>3. /\ E.type = D.type /\ E.file = D.file /\ E.dest = D.dest /\ E.passive = D.passive
      /\ E.pos = D.pos /\ E.peer = D.peer /\ E.port = D.port
      /\ E.resumable = D.resumable /\ E.resume_sent = D.resume_sent
      /\ E.ack = D.ack /\ E.fast = D.fast /\ E.throttled = D.throttled /\ E.cps = D.cps
      /\ E.proxy = D.proxy /\ DOMAIN E = Fields
      /\ E.iotag = "none" /\ E.wiotag = "none" /\ E.fp = FALSE /\ E.stat = stat
  BY <1>1 DEF Shut, Like, Fields
<1> HIDE DEF E, D
<1>4. IsDcc(E)
  BY <1>2, <1>3 DEF IsDcc
<1>5. EntryOk(E)
  <2>1. ~Mixed => SendOk(E)
    BY <1>2, <1>3 DEF EntryOk, SendOk, Complete, D, Dead, Live
  <2> QED BY <1>2, <1>3, <2>1 DEF EntryOk, Dead
<1>6. ASSUME NEW x \in Directions
      PROVE  Net(t, x) = Net(s, x) + Share(t, d, x) - Share(s, d, x)
  <2>1. Share(t, d, x) = Weight(E, x) /\ Share(s, d, x) = Weight(D, x)
    BY <1>2, ShareIs DEF D, E
  <2>2. Weight(E, x) = 0 /\ Weight(D, x) \in Int
    BY <1>2, <1>3 DEF Weight, Dead, IsDcc
  <2>3. Net(t, x) = Net(s, x) - Weight(D, x) /\ Net(s, x) \in Int
    BY <1>1, NetIs DEF Shut, D, Core, IsState
  <2> QED BY <2>1, <2>2, <2>3
<1>7. ASSUME ~Mixed PROVE FilesOk(t)
  <2>1. FilesOk(s)
    BY <1>7 DEF Core
  <2>2. Only(s, t, d)
    BY <1>1 DEF Shut
  <2>3. ~Claims(E) /\ RecvOk(t.disk, d, E) /\ (Passive(E) => Passive(D))
    BY <1>3 DEF Claims, RecvOk, Passive, Dead, Live
  <2>4. CASE ~(D.fp = TRUE /\ stat = "done" /\ D.type = "recv")
    <3>1. t.disk = s.disk /\ t.completed = s.completed
      BY <1>1, <2>4 DEF Filed, D
    <3>2. Fits(s, d, t.dcc[d])
      BY <1>2, <2>1, <2>3, <3>1 DEF Fits, FilesOk, E, D
    <3> QED BY <2>1, <2>2, <3>1, <3>2, FilesFit
  <2>5. CASE D.fp = TRUE /\ stat = "done" /\ D.type = "recv"
    <3>1. t.completed = s.completed \cup {s.disk[D.dest]}
          /\ t.disk = [s.disk EXCEPT ![D.dest] = Absent]
      BY <1>1, <2>5 DEF Filed, D
    <3>2. s.disk[D.dest] = Whole /\ Claims(D)
      BY <1>7, <2>5 DEF Complete, D, Claims, Live
    <3>3. \A e \in DOMAIN t.dcc \ {d} : RecvOk(t.disk, e, t.dcc[e])
      <4> SUFFICES ASSUME NEW e \in DOMAIN t.dcc \ {d} PROVE RecvOk(t.disk, e, t.dcc[e])
        OBVIOUS
      <4>1. t.dcc[e] = s.dcc[e] /\ e \in DOMAIN s.dcc
        BY <2>2 DEF Only, Others
      <4>2. RecvOk(s.disk, e, s.dcc[e])
        BY <2>1, <4>1 DEF FilesOk
      <4>3. Claims(s.dcc[e]) => s.dcc[e].dest # D.dest
        BY <2>1, <3>2, <4>1 DEF FilesOk, Apart, D
      <4>4. Claims(s.dcc[e]) => t.disk[s.dcc[e].dest] = s.disk[s.dcc[e].dest]
        BY <3>1, <4>3
      <4> QED BY <4>1, <4>2, <4>4, RecvElse
    <3>4. \A e \in DOMAIN t.dcc : RecvOk(t.disk, e, t.dcc[e])
      BY <2>3, <3>3 DEF E
    <3>5. Apart(t)
      BY <2>1, <2>2, <2>3 DEF Apart, FilesOk, Only, Others, E
    <3>6. \A e, f \in DOMAIN t.dcc : Passive(t.dcc[e]) /\ Passive(t.dcc[f]) => e = f
      BY <2>1, <2>2, <2>3 DEF FilesOk, Only, Others, E, D
    <3>7. /\ DOMAIN t.disk = Paths /\ t.completed \subseteq {Whole}
          /\ \A f \in Files : t.disk[f] = Absent \/ \E n \in Nat : Has(t.disk, f, n)
      BY <2>1, <3>1, <3>2 DEF FilesOk, Has
    <3> QED BY <3>4, <3>5, <3>6, <3>7 DEF FilesOk
  <2> QED BY <2>4, <2>5
<1>8. Core(t)
  <2>1. IsDcc(t.dcc[d]) /\ EntryOk(t.dcc[d])
    BY <1>4, <1>5 DEF E
  <2>2. DiskOk(t)
    <3>1. DiskOk(s) /\ Absent \in Seq(Int)
      BY DEF Core, Absent
    <3>2. t.disk = s.disk \/ t.disk = [s.disk EXCEPT ![D.dest] = Absent]
      BY <1>1 DEF Filed, D
    <3> QED BY <3>1, <3>2 DEF DiskOk
  <2> QED BY <1>1, <1>6, <1>7, <2>1, <2>2, CoreOnly DEF Shut
<1> QED BY <1>1, <1>8 DEF Done, t, Shut

\* A list from which one entry was taken.
LEMMA WithoutProps ==
    ASSUME NEW list \in Seq(Dccs), NEW d,
           \A i, j \in 1..Len(list) : list[i] = list[j] => i = j,
           \E i \in 1..Len(list) : list[i] = d
    PROVE  /\ Without(list, d) \in Seq(Dccs)
           /\ \A i, j \in 1..Len(Without(list, d)) : Without(list, d)[i] = Without(list, d)[j] => i = j
           /\ \A e : (\E i \in 1..Len(Without(list, d)) : Without(list, d)[i] = e)
                     <=> e # d /\ \E i \in 1..Len(list) : list[i] = e
<1> DEFINE k == CHOOSE i \in DOMAIN list : list[i] = d
           r == RemoveAt(list, k)
           n == Len(list)
           Old(j) == IF j < k THEN j ELSE j + 1
<1>1. DOMAIN list = 1..n /\ n \in Nat
  OBVIOUS
<1>2. k \in 1..n /\ list[k] = d
  BY <1>1
<1>3. Without(list, d) = r
  BY DEF Without
<1> HIDE DEF k
<1>4. /\ r \in Seq(Dccs) /\ Len(r) = n - 1
      /\ \A j \in 1..(k-1) : r[j] = list[j]
      /\ \A j \in k..(n-1) : r[j] = list[j+1]
  BY <1>2, RemoveAtProps
<1> HIDE DEF r
<1>5. ASSUME NEW j \in 1..(n-1) PROVE Old(j) \in (1..n) \ {k} /\ r[j] = list[Old(j)]
  <2>1. CASE j < k
    <3>1. j \in 1..(k-1)
      BY <1>2, <2>1
    <3> QED BY <1>1, <1>2, <1>4, <2>1, <3>1
  <2>2. CASE ~(j < k)
    <3>1. j \in k..(n-1)
      BY <1>2, <2>2
    <3> QED BY <1>1, <1>2, <1>4, <2>2, <3>1
  <2> QED BY <2>1, <2>2
<1>6. ASSUME NEW i \in (1..n) \ {k} PROVE \E j \in 1..(n-1) : Old(j) = i
  <2>1. CASE i < k
    <3>1. i \in 1..(n-1) /\ Old(i) = i
      BY <1>1, <1>2, <2>1
    <3> QED BY <3>1
  <2>2. CASE ~(i < k)
    <3>1. i - 1 \in 1..(n-1) /\ Old(i - 1) = i
      BY <1>1, <1>2, <2>2
    <3> QED BY <3>1
  <2> QED BY <2>1, <2>2
<1>7. \A i, j \in 1..(n-1) : Old(i) = Old(j) => i = j
  BY <1>1, <1>2
<1> HIDE DEF Old
<1>8. \A i, j \in 1..(n-1) : r[i] = r[j] => i = j
  BY <1>5, <1>7
<1>9. \A e : (\E i \in 1..(n-1) : r[i] = e) <=> e # d /\ \E i \in 1..n : list[i] = e
  <2>1. ASSUME NEW i \in 1..(n-1) PROVE r[i] # d /\ \E j \in 1..n : list[j] = r[i]
    BY <1>2, <1>5
  <2>2. ASSUME NEW i \in 1..n, list[i] # d PROVE \E j \in 1..(n-1) : r[j] = list[i]
    <3>1. i \in (1..n) \ {k}
      BY <1>2, <2>2
    <3>2. PICK j \in 1..(n-1) : Old(j) = i
      BY <1>6, <3>1
    <3> QED BY <1>5, <3>2
  <2> QED BY <2>1, <2>2
<1> QED BY <1>3, <1>4, <1>8, <1>9

LEMMA Destroyed ==
    ASSUME NEW s, NEW d \in DOMAIN s.dcc, Core(s)
    PROVE  LET t == Destroy(s, d)
           IN Core(t) /\ DOMAIN t.dcc = DOMAIN s.dcc \ {d} /\ Others(s, t, d)
<1> DEFINE u == dcc_close(s, d, "queued")
           t == Destroy(s, d)
<1>1. Shut(s, u, d, "queued") /\ Filed(s, u, d, "queued")
  BY CloseIs
<1>2. t = [u EXCEPT !.list = Without(@, d), !.dcc = [e \in DOMAIN @ \ {d} |-> @[e]]]
  BY DEF Destroy
<1> HIDE DEF u
<1>3. /\ DOMAIN t = Parts /\ t.list = Without(s.list, d) /\ t.sources = u.sources
      /\ t.sum = u.sum /\ t.disk = s.disk /\ t.completed = s.completed
      /\ DOMAIN t.dcc = DOMAIN s.dcc \ {d} /\ Others(s, t, d) /\ Others(u, t, d)
  <2>1. /\ DOMAIN t = Parts /\ t.list = Without(u.list, d) /\ t.sources = u.sources
        /\ t.sum = u.sum /\ t.disk = u.disk /\ t.completed = u.completed
        /\ t.dcc = [e \in DOMAIN u.dcc \ {d} |-> u.dcc[e]]
    BY <1>1, <1>2 DEF Shut, Parts
  <2>2. u.list = s.list /\ DOMAIN u.dcc = DOMAIN s.dcc /\ Others(s, u, d)
    BY <1>1 DEF Shut, Only
  <2>3. u.disk = s.disk /\ u.completed = s.completed
    BY <1>1 DEF Filed
  <2> HIDE DEF t
  <2> QED BY <2>1, <2>2, <2>3 DEF Others
<1> HIDE DEF t
<1>4. IsState(s) /\ d \in Dccs /\ DOMAIN s.dcc \subseteq Dccs
  BY DEF Core, IsState, ListOk
<1>5. \A e \in DOMAIN t.dcc : t.dcc[e] = s.dcc[e] /\ e \in DOMAIN s.dcc /\ IsDcc(t.dcc[e]) /\ EntryOk(t.dcc[e])
  BY <1>3, <1>4 DEF Others, Core, IsState
<1>6. ListOk(t)
  <2>1. /\ s.list \in Seq(Dccs)
        /\ \A i, j \in 1..Len(s.list) : s.list[i] = s.list[j] => i = j
        /\ \E i \in 1..Len(s.list) : s.list[i] = d
    BY <1>4 DEF IsState, ListOk
  <2>2. /\ t.list \in Seq(Dccs)
        /\ \A i, j \in 1..Len(t.list) : t.list[i] = t.list[j] => i = j
        /\ \A e : (\E i \in 1..Len(t.list) : t.list[i] = e)
                  <=> e # d /\ \E i \in 1..Len(s.list) : s.list[i] = e
    <3> DEFINE q == s.list
    <3>1. /\ q \in Seq(Dccs)
          /\ \A i, j \in 1..Len(q) : q[i] = q[j] => i = j
          /\ \E i \in 1..Len(q) : q[i] = d
      BY <2>1
    <3> HIDE DEF q
    <3>2. /\ Without(q, d) \in Seq(Dccs)
          /\ \A i, j \in 1..Len(Without(q, d)) : Without(q, d)[i] = Without(q, d)[j] => i = j
          /\ \A e : (\E i \in 1..Len(Without(q, d)) : Without(q, d)[i] = e)
                    <=> e # d /\ \E i \in 1..Len(q) : q[i] = e
      BY <3>1, WithoutProps
    <3>3. t.list = Without(q, d)
      BY <1>3 DEF q
    <3> QED BY <3>2, <3>3 DEF q
  <2> QED BY <1>3, <1>4, <2>2 DEF ListOk, IsState
<1>7. Owned(t)
  <2>1. d \in DOMAIN u.dcc /\ u.dcc[d].iotag = "none" /\ u.dcc[d].wiotag = "none" /\ Owned(u)
    BY <1>1 DEF Shut, Only
  <2>2. \A cb \in Callbacks : <<d, cb>> \notin u.sources
    BY <1>4, <2>1 DEF Owned, Callbacks
  <2>3. d \notin DOMAIN t.dcc
    BY <1>3
  <2>4. t.sources \subseteq Dccs \X Callbacks
    BY <1>3, <2>1 DEF Owned
  <2>5. \A e, cb : e # d => (<<e, cb>> \in t.sources <=> <<e, cb>> \in u.sources)
    BY <1>3
  <2>6. Owned(u) /\ Others(u, t, d)
    BY <1>3, <2>1
  <2> QED BY <1>3, <2>2, <2>3, <2>4, <2>5, <2>6, OwnedMoves
<1>8. DOMAIN t.sum = Counters /\ \A x \in Counters : t.sum[x] \in Int
  BY <1>1, <1>3 DEF Shut
<1>9. SumsOk(t)
  <2>1. \A x \in Directions : Share(t, d, x) = 0
    BY <1>3 DEF Share, Active
  <2>2. \A x \in Directions : Share(s, d, x) = Weight(s.dcc[d], x)
    BY ShareIs
  <2>3. \A x \in Directions : Net(s, x) \in Int /\ Weight(s.dcc[d], x) \in Int
    BY <1>4, NetIs DEF IsState, Weight, IsDcc
  <2>4. \A x \in Directions : Net(t, x) = Net(s, x) - Weight(s.dcc[d], x)
    BY <1>1, <1>3 DEF Shut, Net
  <2>5. \A x \in Directions : Net(t, x) = Net(s, x) + Share(t, d, x) - Share(s, d, x)
    BY <2>1, <2>2, <2>3, <2>4
  <2>6. \A e \in DOMAIN s.dcc : s.dcc[e].cps \in Int
    BY <1>4 DEF IsState, IsDcc
  <2>7. \A e \in DOMAIN t.dcc : t.dcc[e].cps \in Int
    BY <1>5 DEF IsDcc
  <2>8. SumsOk(s) /\ Others(s, t, d)
    BY <1>3 DEF Core
  <2>9. \A x \in Directions : Net(t, x) \in Int /\ Net(s, x) \in Int
    BY <1>8, <2>3, NetIs
  <2> QED BY <1>4, <2>5, <2>6, <2>7, <2>8, <2>9, SumsMove
<1>10. ASSUME ~Mixed PROVE FilesOk(t)
  <2>1. FilesOk(s)
    BY <1>10 DEF Core
  <2> QED BY <1>3, <1>5, <2>1 DEF FilesOk, Apart
<1>11. IsState(t)
  BY <1>3, <1>5, <1>6, <1>7, <1>8 DEF IsState
<1>12. DiskOk(t)
  BY <1>3 DEF Core, DiskOk
<1> QED BY <1>3, <1>5, <1>9, <1>10, <1>11, <1>12 DEF Core, t

LEMMA Created ==
    ASSUME NEW s, NEW d \in Dccs, Core(s), d \notin DOMAIN s.dcc, NEW D,
           IsDcc(D), EntryOk(D), D.stat = "queued", D.iotag = "none", D.wiotag = "none",
           ~Mixed => Fits(s, d, D)
    PROVE  LET t == new_dcc(s, d, D)
           IN /\ Core(t) /\ DOMAIN t.dcc = DOMAIN s.dcc \cup {d} /\ Others(s, t, d)
              /\ t.dcc[d] = D /\ t.disk = s.disk
<1> DEFINE t == new_dcc(s, d, D)
<1>1. IsState(s) /\ DOMAIN s = Parts /\ DOMAIN s.dcc \subseteq Dccs
  BY DEF Core, IsState, ListOk
<1>2. /\ DOMAIN t = Parts /\ t.list = <<d>> \o s.list /\ t.sources = s.sources
      /\ t.sum = s.sum /\ t.disk = s.disk /\ t.completed = s.completed
      /\ DOMAIN t.dcc = DOMAIN s.dcc \cup {d} /\ Others(s, t, d) /\ t.dcc[d] = D
  BY <1>1 DEF new_dcc, Parts, Others
<1> HIDE DEF t
<1>3. \A e \in DOMAIN t.dcc : IsDcc(t.dcc[e]) /\ EntryOk(t.dcc[e])
  BY <1>1, <1>2 DEF Others, Core, IsState
<1>4. ListOk(t)
  <2> DEFINE q == s.list
             p == <<d>>
             n == Len(q)
             l == p \o q
  <2>1. /\ q \in Seq(Dccs) /\ \A i, j \in 1..n : q[i] = q[j] => i = j
        /\ \A e : e \in DOMAIN s.dcc <=> \E i \in 1..n : q[i] = e
    BY <1>1 DEF IsState, ListOk
  <2>2. p \in Seq(Dccs) /\ Len(p) = 1 /\ p[1] = d /\ n \in Nat
    BY <2>1
  <2> HIDE DEF p, q
  <2>3. /\ l \in Seq(Dccs) /\ Len(l) = n + 1
        /\ \A i \in 1..(n + 1) : l[i] = IF i <= 1 THEN p[i] ELSE q[i - 1]
    <3>1. /\ p \o q \in Seq(Dccs) /\ Len(p \o q) = Len(p) + Len(q)
          /\ \A i \in 1..(Len(p) + Len(q)) :
                (p \o q)[i] = IF i <= Len(p) THEN p[i] ELSE q[i - Len(p)]
      <4>1. p \in Seq(Dccs)
        BY <2>2
      <4>2. q \in Seq(Dccs)
        BY <2>1
      <4> HIDE DEF n, l
      <4> QED BY <4>1, <4>2, ConcatProperties
    <3>2. Len(p) + Len(q) = n + 1
      BY <2>2
    <3> QED BY <2>2, <3>1, <3>2
  <2> HIDE DEF l, n
  <2>4. /\ l[1] = d /\ 1 \in 1..(n + 1)
        /\ \A i \in 2..(n + 1) : l[i] = q[i - 1] /\ i - 1 \in 1..n
        /\ \A i \in 1..n : l[i + 1] = q[i] /\ i + 1 \in 2..(n + 1)
    BY <2>2, <2>3
  <2>5. \A i \in 1..n : q[i] # d
    BY <2>1
  <2>6. ASSUME NEW i \in 1..(n + 1), NEW j \in 1..(n + 1), l[i] = l[j] PROVE i = j
    <3>1. (i = 1 \/ i \in 2..(n + 1)) /\ (j = 1 \/ j \in 2..(n + 1))
      BY <2>2
    <3>2. CASE i \in 2..(n + 1) /\ j \in 2..(n + 1)
      <4>1. i - 1 = j - 1
        BY <2>1, <2>4, <2>6, <3>2
      <4> QED BY <3>2, <4>1
    <3> QED BY <2>4, <2>5, <2>6, <3>1, <3>2
  <2>7. ASSUME NEW e
        PROVE  (\E i \in 1..(n + 1) : l[i] = e) <=> e = d \/ e \in DOMAIN s.dcc
    <3>1. ASSUME NEW i \in 1..(n + 1), l[i] = e PROVE e = d \/ e \in DOMAIN s.dcc
      <4>1. i = 1 \/ i \in 2..(n + 1)
        BY <2>2
      <4> QED BY <2>1, <2>4, <3>1, <4>1
    <3>2. ASSUME e = d PROVE \E i \in 1..(n + 1) : l[i] = e
      BY <2>4, <3>2
    <3>3. ASSUME e \in DOMAIN s.dcc PROVE \E i \in 1..(n + 1) : l[i] = e
      <4>1. PICK i \in 1..n : q[i] = e
        BY <2>1, <3>3
      <4>2. i + 1 \in 1..(n + 1) /\ l[i + 1] = e
        BY <2>2, <2>4, <4>1
      <4> QED BY <4>2
    <3> QED BY <3>1, <3>2, <3>3
  <2>8. t.list = l /\ DOMAIN t.dcc = DOMAIN s.dcc \cup {d}
    BY <1>2 DEF l, p, q
  <2> QED BY <2>3, <2>6, <2>7, <2>8 DEF ListOk
<1>5. Owned(t)
  <2>1. Owned(s) /\ Others(s, t, d) /\ t.sources = s.sources
    BY <1>1, <1>2 DEF IsState
  <2>2. \A cb \in Callbacks : <<d, cb>> \notin s.sources /\ cb # "none"
    BY <2>1 DEF Owned, Callbacks
  <2>3. t.sources \subseteq Dccs \X Callbacks
    BY <2>1 DEF Owned
  <2> QED BY <1>2, <2>1, <2>2, <2>3, OwnedMoves
<1>6. SumsOk(t)
  <2>1. \A x \in Directions : Share(t, d, x) = 0 /\ Share(s, d, x) = 0
    BY <1>2 DEF Share, Active
  <2>2. \A x \in Directions : Net(s, x) \in Int /\ Net(t, x) = Net(s, x)
    BY <1>1, <1>2, NetIs DEF IsState, Net
  <2>3. \A x \in Directions : Net(t, x) = Net(s, x) + Share(t, d, x) - Share(s, d, x)
    BY <2>1, <2>2
  <2>4. \A e \in DOMAIN s.dcc : s.dcc[e].cps \in Int
    BY <1>1 DEF IsState, IsDcc
  <2>5. \A e \in DOMAIN t.dcc : t.dcc[e].cps \in Int
    BY <1>3 DEF IsDcc
  <2>6. SumsOk(s) /\ Others(s, t, d)
    BY <1>2 DEF Core
  <2>7. \A x \in Directions : Net(t, x) \in Int /\ Net(s, x) \in Int
    BY <2>2
  <2> QED BY <1>1, <2>3, <2>4, <2>5, <2>6, <2>7, SumsMove
<1>7. ASSUME ~Mixed PROVE FilesOk(t)
  <2>1. FilesOk(s) /\ Fits(s, d, D)
    BY <1>7 DEF Core
  <2>2. \A e \in DOMAIN t.dcc : RecvOk(t.disk, e, t.dcc[e])
    BY <1>2, <2>1 DEF FilesOk, Others, Fits
  <2>3. Apart(t)
    BY <1>2, <2>1 DEF FilesOk, Others, Fits, Apart
  <2>4. \A e, f \in DOMAIN t.dcc : Passive(t.dcc[e]) /\ Passive(t.dcc[f]) => e = f
    BY <1>2, <2>1 DEF FilesOk, Others, Fits
  <2> QED BY <1>2, <2>1, <2>2, <2>3, <2>4 DEF FilesOk
<1>8. IsState(t)
  BY <1>1, <1>2, <1>3, <1>4, <1>5 DEF IsState
<1>9. DiskOk(t)
  BY <1>2 DEF Core, DiskOk
<1> QED BY <1>2, <1>3, <1>6, <1>7, <1>8, <1>9 DEF Core, t

-----------------------------------------------------------------------------
(* What holds of an entry between the handlers: which callbacks it has,    *)
(* and what its proxy was asked.                                           *)

QueuedOk(D) ==
    /\ D.wiotag = "none" /\ D.proxy.kind = "none"
    /\ D.iotag # "none" =>
          D.iotag = "accept" /\ D.type \in {"send", "chatsend"} /\ D.passive = FALSE
    /\ D.type = "send" /\ D.passive = TRUE => D.port = FALSE

\* The dialogue with a proxy is at a phase, and has asked what is before it.
Talking(p) ==
    /\ p.kind \in Kinds /\ p.phase \in 1..Len(Phases[p.kind])
    /\ p.asked = Said(Phases[p.kind], p.phase - 1)

\* A phase of Wingate's waits for what the other kinds' do.
Awaits(p) == IF p.kind = "wingate" \/ Step(p).do = "write" THEN "wiotag" ELSE "iotag"

ConnectingOk(D) ==
    \/ /\ D.wiotag = "none" /\ D.iotag \in {"accept", "connected"}
       /\ D.proxy.kind = "none"
    \/ D.wiotag = "none" /\ D.iotag = "proxy_connect" /\ D.proxy.kind \in Kinds
    \/ /\ Talking(D.proxy)
       /\ Awaits(D.proxy) = "wiotag" => D.wiotag = "traverse" /\ D.iotag = "none"
       /\ Awaits(D.proxy) = "iotag" => D.wiotag = "none" /\ D.iotag = "traverse"

\* A proxy that was gone through was asked everything.
Heard(p) == p.kind \notin {"none", "wingate"} => p.asked = Asked(Traverse[p.kind])

ActiveOk(D) ==
    /\ D.type = "send" => D.iotag = "ack" /\ D.wiotag \in {"none", "data"}
    /\ D.type = "recv" => D.iotag \in {"none", "read"} /\ D.wiotag = "none"
    /\ D.type \in Chats => D.iotag \in {"none", "chat"} /\ D.wiotag = "none"
    /\ Heard(D.proxy)

DeadOk(D) ==
    /\ D.iotag = "none"
    /\ D.wiotag # "none" => /\ D.wiotag = "traverse" /\ D.stat = "failed"
                            /\ D.proxy.kind = "wingate"

TagsOk(D) ==
    /\ D.stat = "queued" => QueuedOk(D)
    /\ D.stat = "connecting" => ConnectingOk(D)
    /\ D.stat = "active" => ActiveOk(D)
    /\ D.stat \in Dead => DeadOk(D)

\* A handler has done what it does with d.
Rests(s, t, d) == Done(s, t, d) /\ TagsOk(t.dcc[d])

LEMMA ClosedRests ==
    ASSUME NEW s, NEW d \in DOMAIN s.dcc, Core(s), NEW stat \in Dead,
           ~Mixed /\ stat = "done" => Complete(s, d)
    PROVE  Rests(s, dcc_close(s, d, stat), d) /\ dcc_close(s, d, stat).dcc[d].stat = stat
<1> DEFINE t == dcc_close(s, d, stat)
<1>1. Done(s, t, d) /\ t.dcc[d].iotag = "none" /\ t.dcc[d].wiotag = "none" /\ t.dcc[d].stat = stat
  BY Closed
<1> HIDE DEF t
<1>2. TagsOk(t.dcc[d])
  BY <1>1 DEF TagsOk, DeadOk, Dead
<1> QED BY <1>1, <1>2 DEF Rests, t

LEMMA RestsTwice ==
    ASSUME NEW s, NEW t, NEW u, NEW d, Done(s, t, d), Rests(t, u, d)
    PROVE  Rests(s, u, d)
BY DoneTwice DEF Rests

LEMMA NotRecvFits ==
    ASSUME NEW s, NEW d, NEW E, E.type # "recv"
    PROVE  Fits(s, d, E)
BY DEF Fits, RecvOk, Claims, Passive

\* What is known of the entry of a state.
LEMMA EntryIs ==
    ASSUME NEW s, NEW d \in DOMAIN s.dcc, Core(s)
    PROVE  /\ IsDcc(s.dcc[d]) /\ EntryOk(s.dcc[d]) /\ DOMAIN s = Parts /\ d \in Dccs
           /\ ~Mixed => FilesOk(s) /\ RecvOk(s.disk, d, s.dcc[d])
BY DEF Core, IsState, ListOk, FilesOk

-----------------------------------------------------------------------------
(* Receiving.                                                              *)

LEMMA ClaimedIsThere ==
    ASSUME NEW s, NEW e \in DOMAIN s.dcc, FilesOk(s), IsDcc(s.dcc[e]), Claims(s.dcc[e]),
           s.dcc[e].dest \in Files
    PROVE  s.disk[s.dcc[e].dest] # Absent
<1> DEFINE D == s.dcc[e]
<1>1. RecvOk(s.disk, e, D) /\ D.type = "recv" /\ D.stat \in Live /\ D.fp \in BOOLEAN
  BY DEF FilesOk, Claims, IsDcc
<1>2. \A p, n : Has(s.disk, p, n) => s.disk[p] # Absent
  <2> SUFFICES ASSUME NEW p, NEW n, Has(s.disk, p, n) PROVE s.disk[p] # Absent
    OBVIOUS
  <2>1. n \in Nat /\ s.disk[p] = Blocks(0, n)
    BY DEF Has
  <2> QED BY <2>1, BlocksProps
<1>3. CASE D.fp = TRUE
  BY <1>1, <1>2, <1>3 DEF RecvOk, OpenOk
<1>4. CASE D.fp = FALSE
  <2>1. WaitOk(s.disk, D) /\ (D.resumable > 0 \/ D.resume_sent > 0)
    BY <1>1, <1>4 DEF RecvOk, Claims
  <2> HIDE DEF D
  <2> QED BY <1>2, <2>1 DEF WaitOk, D
<1> QED BY <1>1, <1>3, <1>4

\* A state in which d's file was changed, and its entry.
LEMMA FilesWritten ==
    ASSUME NEW s, NEW t, NEW d \in DOMAIN s.dcc, NEW path, NEW blocks, FilesOk(s), Only(s, t, d),
           \A e \in DOMAIN s.dcc \ {d} : Claims(s.dcc[e]) => s.dcc[e].dest # path,
           t.disk = [s.disk EXCEPT ![path] = blocks], t.completed = s.completed,
           t.dcc[d].dest = path, RecvOk(t.disk, d, t.dcc[d]),
           Passive(t.dcc[d]) => Passive(s.dcc[d]),
           path \in Files => \E n \in Nat : Has(t.disk, path, n)
    PROVE  FilesOk(t)
<1>1. ASSUME NEW e \in DOMAIN t.dcc PROVE RecvOk(t.disk, e, t.dcc[e])
  <2>1. CASE e = d
    BY <2>1
  <2>2. CASE e # d
    <3>1. t.dcc[e] = s.dcc[e] /\ e \in DOMAIN s.dcc \ {d}
      BY <2>2 DEF Only, Others
    <3>2. RecvOk(s.disk, e, s.dcc[e])
      BY <3>1 DEF FilesOk
    <3>3. Claims(s.dcc[e]) => t.disk[s.dcc[e].dest] = s.disk[s.dcc[e].dest]
      BY <3>1
    <3> QED BY <3>1, <3>2, <3>3, RecvElse
  <2> QED BY <2>1, <2>2
<1>2. Apart(t)
  BY DEF Apart, FilesOk, Only, Others
<1>3. \A e, f \in DOMAIN t.dcc : Passive(t.dcc[e]) /\ Passive(t.dcc[f]) => e = f
  BY DEF FilesOk, Only, Others
<1>4. DOMAIN t.disk = Paths /\ t.completed \subseteq {Whole}
  BY DEF FilesOk
<1>5. ASSUME NEW f \in Files PROVE t.disk[f] = Absent \/ \E n \in Nat : Has(t.disk, f, n)
  <2>1. CASE f = path
    BY <2>1
  <2>2. CASE f # path
    BY <2>2 DEF FilesOk, Has
  <2> QED BY <2>1, <2>2
<1> QED BY <1>1, <1>2, <1>3, <1>4, <1>5 DEF FilesOk

LEMMA OpenedProps ==
    ASSUME NEW s, NEW d \in DOMAIN s.dcc, Core(s),
           s.dcc[d].type = "recv", s.dcc[d].stat = "active"
    PROVE  LET o == Opened(s, d)
           IN /\ Done(s, o, d) /\ o.dcc[d].fp = TRUE
              /\ Like(s.dcc[d], o.dcc[d], {"fp", "dest", "pos", "ack"})
<1> DEFINE o == Opened(s, d)
           D == s.dcc[d]
           E == o.dcc[d]
<1>1. IsDcc(D) /\ EntryOk(D) /\ DOMAIN s = Parts /\ d \in Dccs
      /\ (~Mixed => FilesOk(s) /\ RecvOk(s.disk, d, D))
  BY EntryIs
<1>2. D.fp \in BOOLEAN /\ DOMAIN D = Fields /\ D.resumable \in Nat
  BY <1>1 DEF IsDcc
<1>3. CASE D.fp = TRUE
  <2>1. o = s
    BY <1>3 DEF Opened
  <2> QED BY <1>2, <1>3, <2>1 DEF Done, Only, Others, Like
<1>4. CASE D.fp = FALSE /\ D.resumable > 0
  <2> DEFINE F == [D EXCEPT !.fp = TRUE, !.dest = D.file, !.pos = D.resumable, !.ack = D.resumable]
  <2>1. o = [s EXCEPT !.dcc[d] = F]
    BY <1>4 DEF Opened
  <2> HIDE DEF F, o
  <2>2. Sets(s, o, d, F)
    BY <1>1, <2>1 DEF Sets, Only, Others, Parts
  <2>3. /\ DOMAIN F = Fields /\ F.type = D.type /\ F.file = D.file /\ F.passive = D.passive
        /\ F.peer = D.peer /\ F.port = D.port
        /\ F.resumable = D.resumable /\ F.resume_sent = D.resume_sent
        /\ F.fast = D.fast /\ F.throttled = D.throttled /\ F.cps = D.cps
        /\ F.proxy = D.proxy /\ F.stat = D.stat /\ F.iotag = D.iotag /\ F.wiotag = D.wiotag
        /\ F.fp = TRUE /\ F.dest = D.file /\ F.pos = D.resumable /\ F.ack = D.resumable
    BY <1>2 DEF F, Fields
  <2>4. Like(D, F, {"fp", "dest", "pos", "ack"})
    BY <1>2, <2>3 DEF F, Like, Fields
  <2>5. IsDcc(F)
    BY <1>1, <2>3 DEF IsDcc
  <2>6. ~Mixed => /\ D.dest = D.file /\ D.resumable < Size /\ Has(s.disk, D.file, D.resumable)
                  /\ D.peer = D.resumable /\ D.file \in Files
                  /\ (D.port = FALSE => D.passive = TRUE)
    BY <1>1, <1>4 DEF RecvOk, WaitOk, Live
  <2> HIDE DEF D
  <2>7. D.type = "recv" /\ D.stat = "active" /\ Size \in Nat
    BY DccAssumption DEF D
  <2>8. EntryOk(F)
    BY <1>1, <1>2, <2>3, <2>6, <2>7 DEF EntryOk, SendOk, Chats
  <2>9. \A x \in Directions : Weight(F, x) = Weight(D, x)
    BY <2>3 DEF Weight, Sum
  <2>10. ASSUME ~Mixed PROVE Fits(s, d, F)
    <3>1. RecvOk(s.disk, d, F)
      BY <1>2, <2>3, <2>6, <2>7, <2>10 DEF RecvOk, OpenOk
    <3>2. Claims(D) /\ F.dest = D.dest
      BY <1>4, <2>3, <2>6, <2>7, <2>10 DEF Claims, Live
    <3>3. Passive(F) => Passive(D)
      BY <2>3 DEF Passive
    <3> QED BY <1>1, <2>10, <3>1, <3>2, <3>3 DEF Fits, FilesOk, Apart, D
  <2>11. Done(s, o, d)
    <3>1. F.iotag = s.dcc[d].iotag /\ F.wiotag = s.dcc[d].wiotag
          /\ \A x \in Directions : Weight(F, x) = Weight(s.dcc[d], x)
      BY <2>3, <2>9 DEF D
    <3> QED BY <2>2, <2>5, <2>8, <2>10, <3>1, Put
  <2>12. o.dcc[d] = F
    BY <2>2 DEF Sets
  <2> QED BY <2>3, <2>4, <2>11, <2>12 DEF o, D
<1>5. CASE D.fp = FALSE /\ ~(D.resumable > 0)
  <2> DEFINE path == IF s.disk[D.file] = Absent THEN D.file ELSE d
             F == [D EXCEPT !.fp = TRUE, !.dest = path]
  <2>1. o = [s EXCEPT !.dcc[d] = F, !.disk[path] = <<>>]
    BY <1>5 DEF Opened
  <2>2. (path = D.file /\ s.disk[D.file] = Absent) \/ path = d
    OBVIOUS
  <2> HIDE DEF F, o, path
  <2>3. /\ DOMAIN o = Parts /\ Only(s, o, d) /\ E = F /\ o.sources = s.sources /\ o.sum = s.sum
        /\ o.disk = [s.disk EXCEPT ![path] = <<>>] /\ o.completed = s.completed
    BY <1>1, <2>1 DEF Only, Others, Parts
  <2>4. /\ DOMAIN F = Fields /\ F.type = D.type /\ F.file = D.file /\ F.passive = D.passive
        /\ F.peer = D.peer /\ F.port = D.port
        /\ F.resumable = D.resumable /\ F.resume_sent = D.resume_sent
        /\ F.fast = D.fast /\ F.throttled = D.throttled /\ F.cps = D.cps
        /\ F.proxy = D.proxy /\ F.stat = D.stat /\ F.iotag = D.iotag /\ F.wiotag = D.wiotag
        /\ F.fp = TRUE /\ F.dest = path /\ F.pos = D.pos /\ F.ack = D.ack
    BY <1>2 DEF F, Fields
  <2>5. Like(D, F, {"fp", "dest", "pos", "ack"})
    BY <1>2, <2>4 DEF F, Like, Fields
  <2>6. IsDcc(F)
    BY <1>1, <2>4 DEF IsDcc
  <2>7. D.type = "recv" /\ D.stat = "active" /\ Size \in Nat
    BY DccAssumption
  <2>8. ~Mixed => WaitOk(s.disk, D) /\ D.file \in Files /\ (D.port = FALSE => D.passive = TRUE)
    BY <1>1, <1>5, <2>7 DEF RecvOk, Live
  <2> HIDE DEF D, E
  <2>9. EntryOk(F)
    BY <1>1, <2>4, <2>7 DEF EntryOk, SendOk, Chats
  <2>10. \A x \in Directions : Weight(F, x) = Weight(D, x) /\ Weight(D, x) \in Int
    BY <1>1, <2>4 DEF Weight, Sum, IsDcc
  <2>11. Owned(o)
    <3>1. Owned(s) /\ Others(s, o, d) /\ d \in DOMAIN o.dcc /\ o.dcc[d] = F
      BY <2>3 DEF Core, IsState, Only, E
    <3>2. F.iotag = s.dcc[d].iotag /\ F.wiotag = s.dcc[d].wiotag
      BY <2>4 DEF D
    <3> QED BY <1>1, <2>3, <3>1, <3>2 DEF Owned, Others
  <2>12. ASSUME ~Mixed PROVE FilesOk(o)
    <3>1. FilesOk(s) /\ d \notin Files /\ Dccs \cap Files = {}
      BY <1>1, <2>12, DccAssumption
    <3>2. path \in Paths
      BY <1>1, <2>2, <2>8, <2>12 DEF Paths
    <3>3. o.disk[path] = Blocks(0, 0)
      <4>1. Blocks(0, 0) = <<>>
        BY BlocksProps
      <4> QED BY <2>3, <3>1, <3>2, <4>1 DEF FilesOk
    <3>4. Has(o.disk, path, 0)
      BY <2>7, <3>3 DEF Has
    <3>5. D.pos = 0 /\ D.peer \in {0, D.resume_sent} /\ D.resume_sent \in Nat
          /\ (D.resume_sent > 0 => D.resume_sent < Size /\ Has(s.disk, D.file, D.resume_sent))
      BY <1>1, <1>2, <1>5, <2>8, <2>12 DEF WaitOk, IsDcc
    <3>6. path \in Files => D.peer = 0
      <4>1. path \in Files => s.disk[D.file] = Absent
        BY <2>2, <3>1
      <4>2. Has(s.disk, D.file, D.resume_sent) => s.disk[D.file] # Absent
        BY <3>5, BlocksProps DEF Has
      <4> QED BY <3>5, <4>1, <4>2
    <3>7. RecvOk(o.disk, d, F)
      <4>1. F.pos = 0 /\ F.peer = D.peer /\ F.dest = path /\ F.stat = "active" /\ F.fp = TRUE
            /\ F.file = D.file
        BY <2>4, <2>7, <3>5
      <4>2. OpenOk(o.disk, F)
        BY <2>7, <3>4, <3>5, <3>6, <4>1 DEF OpenOk
      <4>3. F.dest \in {F.file, d} /\ F.file \in Files /\ (F.port = FALSE => F.passive = TRUE)
        BY <2>2, <2>4, <2>8, <2>12
      <4> QED BY <4>1, <4>2, <4>3 DEF RecvOk
    <3>8. ASSUME NEW e \in DOMAIN s.dcc \ {d}, Claims(s.dcc[e]) PROVE s.dcc[e].dest # path
      <4>1. s.dcc[e].file \in Files /\ s.dcc[e].dest \in {s.dcc[e].file, e} /\ e \in Dccs
        BY <3>1, <3>8 DEF FilesOk, RecvOk, Claims, Core, IsState, ListOk
      <4>2. CASE path = d
        BY <3>1, <4>1, <4>2
      <4>3. CASE path = D.file /\ s.disk[D.file] = Absent
        <5>1. IsDcc(s.dcc[e])
          BY DEF Core, IsState
        <5>2. path \in Files
          BY <2>8, <2>12, <4>3
        <5>3. s.dcc[e].dest \in Files => s.disk[s.dcc[e].dest] # Absent
          BY <3>1, <3>8, <5>1, ClaimedIsThere
        <5> QED BY <4>3, <5>2, <5>3
      <4> QED BY <2>2, <4>2, <4>3
    <3>9. o.dcc[d] = F /\ Only(s, o, d) /\ (Passive(F) => Passive(s.dcc[d]))
      BY <2>3, <2>4 DEF E, D, Passive
    <3>10. /\ o.dcc[d].dest = path /\ RecvOk(o.disk, d, o.dcc[d])
           /\ (Passive(o.dcc[d]) => Passive(s.dcc[d]))
      BY <2>4, <3>7, <3>9
    <3>11. path \in Files => \E n \in Nat : Has(o.disk, path, n)
      BY <3>4
    <3> QED BY <2>3, <3>1, <3>8, <3>9, <3>10, <3>11, FilesWritten
  <2>13. /\ DOMAIN o.sum = Counters /\ \A x \in Counters : o.sum[x] \in Int
         /\ \A x \in Directions : Net(o, x) = Net(s, x) /\ Net(s, x) \in Int
    <3>1. o.sum = s.sum /\ DOMAIN s.sum = Counters /\ \A x \in Counters : s.sum[x] \in Int
      BY <2>3 DEF Core, IsState
    <3> QED BY <3>1, NetIs DEF Net
  <2>14. ASSUME NEW x \in Directions PROVE Net(o, x) = Net(s, x) + Share(o, d, x) - Share(s, d, x)
    <3>1. Share(o, d, x) = Weight(F, x) /\ Share(s, d, x) = Weight(D, x)
      BY <2>3, ShareIs DEF D, E, Only
    <3> QED BY <2>10, <2>13, <3>1
  <2>15. Core(o)
    <3>1. IsDcc(o.dcc[d]) /\ EntryOk(o.dcc[d])
      BY <2>3, <2>6, <2>9 DEF E
    <3>2. DiskOk(o)
      <4>1. <<>> \in Seq(Int)
        OBVIOUS
      <4> QED BY <2>3, <4>1 DEF Core, DiskOk
    <3> QED BY <2>3, <2>11, <2>12, <2>13, <2>14, <3>1, <3>2, CoreOnly
  <2> QED BY <2>3, <2>4, <2>5, <2>15 DEF Done, E, D, o
<1> QED BY <1>2, <1>3, <1>4, <1>5

\* n blocks have arrived, and are in the file.
Arrived(s, d, n) ==
    LET D == s.dcc[d]
    IN [s EXCEPT !.dcc[d].pos = @ + n, !.dcc[d].peer = @ + n,
                 !.disk[D.dest] = @ \o Blocks(D.peer, D.peer + n)]

LEMMA ArrivedProps ==
    ASSUME NEW s, NEW d \in DOMAIN s.dcc, Core(s), NEW n \in Nat,
           s.dcc[d].type = "recv", s.dcc[d].stat = "active", s.dcc[d].fp = TRUE,
           n <= Size - s.dcc[d].peer
    PROVE  LET r == Arrived(s, d, n)
           IN Done(s, r, d) /\ Like(s.dcc[d], r.dcc[d], {"pos", "peer"})
<1> DEFINE r == Arrived(s, d, n)
           D == s.dcc[d]
           path == D.dest
           blocks == s.disk[path] \o Blocks(D.peer, D.peer + n)
           E == [D EXCEPT !.pos = @ + n, !.peer = @ + n]
<1>1. IsDcc(D) /\ EntryOk(D) /\ DOMAIN s = Parts /\ d \in Dccs
      /\ (~Mixed => FilesOk(s) /\ RecvOk(s.disk, d, D))
  BY EntryIs
<1>2. D.type = "recv" /\ D.stat = "active" /\ D.fp = TRUE /\ n <= Size - D.peer
      /\ Size \in Nat /\ D.pos \in Nat /\ D.peer \in Nat
  BY <1>1, DccAssumption DEF IsDcc
<1>3. /\ DOMAIN r = Parts /\ Only(s, r, d) /\ r.dcc[d] = E /\ r.sources = s.sources
      /\ r.sum = s.sum /\ r.disk = [s.disk EXCEPT ![path] = blocks]
      /\ r.completed = s.completed
  BY <1>1 DEF Arrived, Only, Others, Parts, IsDcc, Fields
<1>4. /\ DOMAIN E = Fields /\ E.type = D.type /\ E.file = D.file /\ E.passive = D.passive
      /\ E.port = D.port /\ E.fp = D.fp /\ E.dest = D.dest /\ E.ack = D.ack
      /\ E.resumable = D.resumable /\ E.resume_sent = D.resume_sent
      /\ E.fast = D.fast /\ E.throttled = D.throttled /\ E.cps = D.cps
      /\ E.proxy = D.proxy /\ E.stat = D.stat /\ E.iotag = D.iotag /\ E.wiotag = D.wiotag
      /\ E.pos = D.pos + n /\ E.peer = D.peer + n
  BY <1>1 DEF IsDcc, Fields
<1>5. Like(D, E, {"pos", "peer"})
  BY <1>1 DEF Like, IsDcc, Fields
<1> HIDE DEF r, E, blocks
<1>6. IsDcc(E)
  BY <1>1, <1>2, <1>4 DEF IsDcc
<1>7. ~Mixed => OpenOk(s.disk, D) /\ D.file \in Files /\ D.dest \in {D.file, d}
                /\ (D.port = FALSE => D.passive = TRUE)
  BY <1>1, <1>2 DEF RecvOk, Live
<1> HIDE DEF D
<1>8. EntryOk(E)
  BY <1>1, <1>2, <1>4, <1>7 DEF EntryOk, SendOk, OpenOk, Chats
<1>9. \A x \in Directions : Weight(E, x) = Weight(D, x) /\ Weight(D, x) \in Int
  BY <1>1, <1>4 DEF Weight, Sum, IsDcc
<1>10. Owned(r)
  <2>1. Owned(s) /\ Others(s, r, d) /\ d \in DOMAIN r.dcc /\ r.dcc[d] = E
    BY <1>3 DEF Core, IsState, Only
  <2>2. E.iotag = s.dcc[d].iotag /\ E.wiotag = s.dcc[d].wiotag
    BY <1>4 DEF D
  <2> QED BY <1>1, <1>3, <2>1, <2>2 DEF Owned, Others
<1>11. ASSUME ~Mixed PROVE FilesOk(r)
  <2>1. FilesOk(s) /\ Claims(D)
    BY <1>1, <1>2, <1>11 DEF Claims, Live
  <2>2. path \in Paths
    BY <1>1, <1>7, <1>11 DEF Paths
  <2>3. r.disk[path] = blocks
    BY <1>3, <2>1, <2>2 DEF FilesOk
  <2>4. D.pos = D.peer => Has(r.disk, path, D.pos + n)
    <3>1. SUFFICES ASSUME D.pos = D.peer PROVE Has(r.disk, path, D.pos + n)
      OBVIOUS
    <3>2. s.disk[path] = Blocks(0, D.pos)
      BY <1>7, <1>11, <3>1 DEF OpenOk, Has
    <3>3. Blocks(0, D.pos) \o Blocks(D.pos, D.pos + n) = Blocks(0, D.pos + n)
      BY <1>2, BlocksProps
    <3>4. r.disk[path] = Blocks(0, D.pos + n)
      BY <2>3, <3>1, <3>2, <3>3 DEF blocks
    <3>5. D.pos + n \in 0..Size
      BY <1>2, <3>1
    <3> QED BY <3>4, <3>5 DEF Has
  <2>5. RecvOk(r.disk, d, E)
    <3>1. OpenOk(r.disk, E)
      <4>1. E.stat = "active" /\ E.pos <= E.peer /\ E.peer <= Size
        BY <1>2, <1>4, <1>7, <1>11 DEF OpenOk
      <4>2. E.pos = E.peer => D.pos = D.peer
        BY <1>2, <1>4
      <4>3. E.dest \in Files => E.pos = E.peer
        BY <1>4, <1>7, <1>11 DEF OpenOk
      <4> QED BY <1>4, <2>4, <4>1, <4>2, <4>3 DEF OpenOk
    <3> QED BY <1>2, <1>4, <1>7, <1>11, <3>1 DEF RecvOk
  <2>6. \A e \in DOMAIN s.dcc \ {d} : Claims(s.dcc[e]) => s.dcc[e].dest # path
    BY <2>1 DEF FilesOk, Apart, D
  <2>7. path \in Files => \E m \in Nat : Has(r.disk, path, m)
    <3>1. path \in Files => D.pos = D.peer
      BY <1>7, <1>11 DEF OpenOk
    <3>2. D.pos + n \in Nat
      BY <1>2
    <3> QED BY <2>4, <3>1, <3>2
  <2>8. /\ r.dcc[d].dest = path /\ RecvOk(r.disk, d, r.dcc[d])
        /\ (Passive(r.dcc[d]) => Passive(s.dcc[d]))
    BY <1>3, <1>4, <2>5 DEF Passive, D
  <2> QED BY <1>3, <2>1, <2>6, <2>7, <2>8, FilesWritten
<1>12. /\ DOMAIN r.sum = Counters /\ \A x \in Counters : r.sum[x] \in Int
       /\ \A x \in Directions : Net(r, x) = Net(s, x) /\ Net(s, x) \in Int
  <2>1. r.sum = s.sum /\ DOMAIN s.sum = Counters /\ \A x \in Counters : s.sum[x] \in Int
    BY <1>3 DEF Core, IsState
  <2> QED BY <2>1, NetIs DEF Net
<1>13. ASSUME NEW x \in Directions PROVE Net(r, x) = Net(s, x) + Share(r, d, x) - Share(s, d, x)
  <2>1. Share(r, d, x) = Weight(E, x) /\ Share(s, d, x) = Weight(D, x)
    BY <1>3, ShareIs DEF D, Only
  <2> QED BY <1>9, <1>12, <2>1
<1>14. Core(r)
  <2>1. IsDcc(r.dcc[d]) /\ EntryOk(r.dcc[d])
    BY <1>3, <1>6, <1>8
  <2>2. DiskOk(r)
    <3>1. DiskOk(s)
      BY DEF Core
    <3>2. ASSUME path \in Paths PROVE blocks \in Seq(Int)
      <4>1. s.disk[path] \in Seq(Int)
        BY <3>1, <3>2 DEF DiskOk
      <4>2. Blocks(D.peer, D.peer + n) \in Seq(Int)
        BY <1>2, BlocksProps
      <4>3. s.disk[path] \o Blocks(D.peer, D.peer + n) \in Seq(Int)
        BY <4>1, <4>2, ConcatProperties
      <4> QED BY <4>3 DEF blocks
    <3> QED BY <1>3, <3>1, <3>2 DEF DiskOk
  <2> QED BY <1>3, <1>10, <1>11, <1>12, <1>13, <2>1, <2>2, CoreOnly
<1> QED BY <1>3, <1>5, <1>14 DEF Done, D, r

\* A download that has come to its end has all the blocks.
LEMMA FullIsWhole ==
    ASSUME NEW s, NEW d \in DOMAIN s.dcc, Core(s), s.dcc[d].type = "recv",
           s.dcc[d].stat = "active", s.dcc[d].fp = TRUE, s.dcc[d].pos >= Size, ~Mixed
    PROVE  Complete(s, d)
<1> DEFINE D == s.dcc[d]
<1>1. IsDcc(D) /\ RecvOk(s.disk, d, D) /\ Size \in Nat
  BY EntryIs, DccAssumption
<1>2. OpenOk(s.disk, D) /\ D.pos \in Nat /\ D.peer \in Nat
  BY <1>1 DEF RecvOk, Live, IsDcc
<1>3. D.pos >= Size
  OBVIOUS
<1> HIDE DEF D
<1>4. D.pos = Size /\ s.disk[D.dest] = Blocks(0, Size)
  BY <1>1, <1>2, <1>3 DEF OpenOk, Has
<1> QED BY <1>4 DEF Complete, Whole, D

LEMMA ReadRests ==
    ASSUME NEW s, NEW d \in DOMAIN s.dcc, Core(s), TagsOk(s.dcc[d]), NEW n \in Nat, NEW then,
           s.dcc[d].type = "recv", s.dcc[d].stat = "active", n <= Size - s.dcc[d].peer
    PROVE  Rests(s, dcc_read(s, d, n, then), d)
<1> DEFINE o == Opened(s, d)
           D == o.dcc[d]
           w == IF D.iotag = "none" THEN Watch(o, d, "iotag", "read") ELSE o
           r == [w EXCEPT !.dcc[d].pos = @ + n, !.dcc[d].peer = @ + n,
                          !.disk[D.dest] = @ \o Blocks(D.peer, D.peer + n)]
           t == dcc_read(s, d, n, then)
           lost == ~s.dcc[d].fp /\ s.dcc[d].resumable > 0
                     /\ s.disk[s.dcc[d].file] = Absent
<1>1. t = IF then = "unopened" \/ lost THEN dcc_close(s, d, "failed")
          ELSE IF D.throttled THEN Unwatch(o, d, "iotag")
          ELSE IF r.dcc[d].pos >= Size THEN dcc_close(r, d, "done")
          ELSE IF then = "broken" THEN dcc_close(r, d, "failed")
          ELSE r
  BY DEF dcc_read
<1> HIDE DEF lost, t
<1>2. ActiveOk(s.dcc[d])
  BY DEF TagsOk
<1>3. Done(s, o, d) /\ D.fp = TRUE /\ Like(s.dcc[d], D, {"fp", "dest", "pos", "ack"})
  BY OpenedProps
<1> HIDE DEF o
<1>4. /\ Core(o) /\ d \in DOMAIN o.dcc /\ D.type = "recv" /\ D.stat = "active"
      /\ D.iotag = s.dcc[d].iotag /\ D.wiotag = s.dcc[d].wiotag /\ D.proxy = s.dcc[d].proxy
      /\ D.peer = s.dcc[d].peer
  BY <1>3 DEF Done, Only, Like, Fields
<1>5. D.iotag \in {"none", "read"} /\ D.wiotag = "none" /\ Heard(D.proxy)
  BY <1>2, <1>4 DEF ActiveOk
<1>6. /\ Done(o, w, d) /\ Like(D, w.dcc[d], {"iotag"}) /\ w.dcc[d].iotag = "read"
  <2>1. CASE D.iotag = "none"
    <3>1. D.wiotag # "read" /\ D.iotag # "read" /\ "read" \in Callbacks /\ "iotag" \in Tags
      BY <1>5, <2>1 DEF Callbacks, Tags
    <3>2. D["iotag"] = "none"
      BY <2>1
    <3>3. /\ Done(o, Watch(o, d, "iotag", "read"), d)
          /\ Like(D, Watch(o, d, "iotag", "read").dcc[d], {"iotag"})
          /\ Watch(o, d, "iotag", "read").dcc[d]["iotag"] = "read"
      BY <1>4, <3>1, <3>2, Watched
    <3> QED BY <2>1, <3>3
  <2>2. CASE D.iotag # "none"
    <3>1. w = o /\ D.iotag = "read"
      BY <1>5, <2>2
    <3>2. DOMAIN D = Fields
      BY <1>4 DEF Core, IsState, IsDcc
    <3> QED BY <1>4, <3>1, <3>2 DEF Done, Only, Others, Like
  <2> QED BY <2>1, <2>2
<1>7. /\ Core(w) /\ d \in DOMAIN w.dcc /\ w.dcc[d].type = "recv" /\ w.dcc[d].stat = "active"
      /\ w.dcc[d].fp = TRUE /\ w.dcc[d].wiotag = "none" /\ w.dcc[d].proxy = D.proxy
      /\ w.dcc[d].peer = D.peer /\ w.dcc[d].dest = D.dest
  BY <1>3, <1>4, <1>5, <1>6 DEF Done, Only, Like, Fields
<1>8. r = Arrived(w, d, n)
  BY <1>7 DEF Arrived
<1> HIDE DEF w
<1>9. Done(w, r, d) /\ Like(w.dcc[d], r.dcc[d], {"pos", "peer"})
  <2> HIDE DEF r
  <2>1. n <= Size - w.dcc[d].peer
    BY <1>4, <1>7
  <2> QED BY <1>7, <1>8, <2>1, ArrivedProps
<1> HIDE DEF r
<1>10. Done(s, r, d)
  BY <1>3, <1>6, <1>9, DoneTwice
<1>11. /\ Core(r) /\ d \in DOMAIN r.dcc /\ r.dcc[d].type = "recv" /\ r.dcc[d].stat = "active"
       /\ r.dcc[d].fp = TRUE /\ r.dcc[d].iotag = "read" /\ r.dcc[d].wiotag = "none"
       /\ r.dcc[d].proxy = D.proxy
  BY <1>6, <1>7, <1>9 DEF Done, Only, Like, Fields
<1>12. CASE then = "unopened" \/ lost
  <2>1. t = dcc_close(s, d, "failed")
    BY <1>1, <1>12
  <2>2. "failed" \in Dead /\ "failed" # "done"
    BY DEF Dead
  <2> QED BY <2>1, <2>2, ClosedRests DEF t
<1>13. CASE ~(then = "unopened" \/ lost) /\ D.throttled
  <2>1. t = Unwatch(o, d, "iotag")
    BY <1>1, <1>13
  <2>2. Done(o, t, d) /\ Like(D, t.dcc[d], {"iotag"}) /\ t.dcc[d]["iotag"] = "none"
    BY <1>4, <2>1, Unwatched DEF Tags
  <2>3. TagsOk(t.dcc[d])
    BY <1>4, <1>5, <2>2 DEF TagsOk, ActiveOk, Like, Fields, Dead, Chats
  <2> QED BY <1>3, <2>2, <2>3, DoneTwice DEF Rests, t
<1>14. CASE t = dcc_close(r, d, "done") /\ r.dcc[d].pos >= Size
  <2>1. ~Mixed => Complete(r, d)
    BY <1>11, <1>14, FullIsWhole
  <2>2. "done" \in Dead
    BY DEF Dead
  <2>3. Rests(r, t, d)
    BY <1>11, <1>14, <2>1, <2>2, ClosedRests
  <2> QED BY <1>10, <2>3, RestsTwice DEF t
<1>15. CASE t = dcc_close(r, d, "failed")
  <2>1. "failed" \in Dead /\ "failed" # "done"
    BY DEF Dead
  <2>2. Rests(r, t, d)
    BY <1>11, <1>15, <2>1, ClosedRests
  <2> QED BY <1>10, <2>2, RestsTwice DEF t
<1>16. CASE t = r
  <2>1. TagsOk(r.dcc[d])
    BY <1>5, <1>11 DEF TagsOk, ActiveOk, Dead, Chats
  <2> QED BY <1>10, <1>16, <2>1 DEF Rests, t
<1> QED BY <1>1, <1>12, <1>13, <1>14, <1>15, <1>16

-----------------------------------------------------------------------------
(* Changes of fields that nobody else's are compared with, and of the      *)
(* state of a connection that is not up yet.                               *)

LEMMA SoftPut ==
    ASSUME NEW s, NEW t, NEW d \in DOMAIN s.dcc, NEW E, Core(s), Sets(s, t, d, E), IsDcc(E),
           Like(s.dcc[d], E, {"sok", "port", "fast", "proxy"}),
           E.port = FALSE => s.dcc[d].port = FALSE,
           E.type \in Chats => E.fast = FALSE
    PROVE  Done(s, t, d)
<1> DEFINE D == s.dcc[d]
<1>1. IsDcc(D) /\ EntryOk(D) /\ (~Mixed => FilesOk(s) /\ RecvOk(s.disk, d, D))
  BY EntryIs
<1>2. /\ E.type = D.type /\ E.file = D.file /\ E.dest = D.dest /\ E.passive = D.passive
      /\ E.fp = D.fp /\ E.pos = D.pos /\ E.peer = D.peer /\ E.ack = D.ack
      /\ E.resumable = D.resumable /\ E.resume_sent = D.resume_sent /\ E.stat = D.stat
      /\ E.throttled = D.throttled /\ E.cps = D.cps
      /\ E.iotag = D.iotag /\ E.wiotag = D.wiotag /\ (E.port = FALSE => D.port = FALSE)
  BY DEF Like, Fields
<1>3. D.fp \in BOOLEAN
  BY <1>1 DEF IsDcc
<1>4. ~Mixed => Fits(s, d, E)
  <2>1. ASSUME ~Mixed PROVE Keeps(D, E)
    <3> HIDE DEF D
    <3> QED BY <1>1, <1>2, <1>3, <2>1 DEF Keeps, RecvOk, OpenOk, WaitOk
  <2> QED BY <1>1, <2>1, KeptFits
<1> HIDE DEF D
<1>5. EntryOk(E)
  BY <1>1, <1>2 DEF EntryOk, SendOk
<1>6. \A x \in Directions : Weight(E, x) = Weight(D, x)
  BY <1>2 DEF Weight, Sum
<1>7. E.iotag = s.dcc[d].iotag /\ E.wiotag = s.dcc[d].wiotag
      /\ (\A x \in Directions : Weight(E, x) = Weight(s.dcc[d], x))
  BY <1>2, <1>6 DEF D
<1> QED BY <1>4, <1>5, <1>7, Put

LEMMA StatPut ==
    ASSUME NEW s, NEW t, NEW d \in DOMAIN s.dcc, NEW E, Core(s), Sets(s, t, d, E),
           Like(s.dcc[d], E, {"stat"}), s.dcc[d].stat # "active",
           E.stat \in {"connecting", "active", "failed"},
           E.stat # "failed" => s.dcc[d].stat \in {"queued", "connecting"},
           ~Mixed /\ E.stat # "failed" /\ E.type = "recv" /\ E.resumable > 0 => E.peer = E.resumable
    PROVE  Done(s, t, d)
<1> DEFINE D == s.dcc[d]
<1>1. IsDcc(D) /\ EntryOk(D) /\ (~Mixed => FilesOk(s) /\ RecvOk(s.disk, d, D))
  BY EntryIs
<1>2. /\ E.type = D.type /\ E.file = D.file /\ E.dest = D.dest /\ E.passive = D.passive
      /\ E.fp = D.fp /\ E.pos = D.pos /\ E.peer = D.peer /\ E.ack = D.ack /\ E.port = D.port
      /\ E.resumable = D.resumable /\ E.resume_sent = D.resume_sent /\ E.fast = D.fast
      /\ E.throttled = D.throttled /\ E.cps = D.cps /\ E.proxy = D.proxy
      /\ E.iotag = D.iotag /\ E.wiotag = D.wiotag /\ DOMAIN E = Fields
  BY DEF Like, Fields
<1>3. D.fp \in BOOLEAN /\ D.stat # "active"
      /\ E.stat \in {"connecting", "active", "failed"}
      /\ (E.stat # "failed" => D.stat \in {"queued", "connecting"})
  BY <1>1 DEF IsDcc
<1>4. ~Mixed => Fits(s, d, E)
  <2>1. ASSUME ~Mixed PROVE Keeps(D, E)
    <3>1. E.stat # "failed" /\ E.type = "recv" /\ E.resumable > 0 => E.peer = E.resumable
      BY <2>1
    <3>2. D.type = "recv" /\ D.stat \in Live => D.fp = FALSE
      BY <1>1, <1>3, <2>1 DEF RecvOk, OpenOk
    <3> HIDE DEF D
    <3> QED BY <1>2, <1>3, <3>1, <3>2 DEF Keeps, Live
  <2>2. IsDcc(E)
    <3> HIDE DEF D
    <3> QED BY <1>1, <1>2, <1>3 DEF IsDcc, Live, Dead
  <2> QED BY <1>1, <2>1, <2>2, KeptFits
<1> HIDE DEF D
<1>5. IsDcc(E)
  BY <1>1, <1>2, <1>3 DEF IsDcc, Live, Dead
<1>6. EntryOk(E)
  BY <1>1, <1>2, <1>3 DEF EntryOk, SendOk, Live
<1>7. \A x \in Directions : Weight(E, x) = Weight(D, x)
  BY <1>1, <1>2, <1>3 DEF Weight, Sum, EntryOk
<1>8. E.iotag = s.dcc[d].iotag /\ E.wiotag = s.dcc[d].wiotag
      /\ (\A x \in Directions : Weight(E, x) = Weight(s.dcc[d], x))
  BY <1>2, <1>7 DEF D
<1> QED BY <1>4, <1>5, <1>6, <1>8, Put

\* A state put into the entry d.
LEMMA StatIs ==
    ASSUME NEW s, NEW d \in DOMAIN s.dcc, Core(s), NEW stat, s.dcc[d].stat # "active",
           stat \in {"connecting", "active", "failed"},
           stat # "failed" => s.dcc[d].stat \in {"queued", "connecting"},
           ~Mixed /\ stat # "failed" /\ s.dcc[d].type = "recv" /\ s.dcc[d].resumable > 0
              => s.dcc[d].peer = s.dcc[d].resumable
    PROVE  LET t == [s EXCEPT !.dcc[d].stat = stat]
           IN /\ Done(s, t, d) /\ Like(s.dcc[d], t.dcc[d], {"stat"})
              /\ t.dcc[d].stat = stat
<1> DEFINE t == [s EXCEPT !.dcc[d].stat = stat]
           D == s.dcc[d]
           E == [D EXCEPT !.stat = stat]
<1>1. IsDcc(D) /\ DOMAIN s = Parts
  BY EntryIs
<1>2. Sets(s, t, d, E)
  BY <1>1 DEF Sets, Only, Others, Parts
<1> HIDE DEF t
<1>3. Like(D, E, {"stat"}) /\ E.stat = stat
  BY <1>1 DEF IsDcc, Like, Fields
<1> HIDE DEF E
<1>4. E.type = D.type /\ E.resumable = D.resumable /\ E.peer = D.peer
  BY <1>3 DEF Like, Fields
<1>5. Done(s, t, d)
  BY <1>2, <1>3, <1>4, StatPut
<1> QED BY <1>2, <1>3, <1>5 DEF Sets, t

-----------------------------------------------------------------------------
(* Sending.                                                                *)

LEMMA SendDataRests ==
    ASSUME NEW s, NEW d \in DOMAIN s.dcc, Core(s), TagsOk(s.dcc[d]), NEW n \in Nat, NEW then,
           s.dcc[d].type # "recv", s.dcc[d].stat = "active", n <= Size - s.dcc[d].pos
    PROVE  Rests(s, dcc_send_data(s, d, n, then), d)
<1> DEFINE D == s.dcc[d]
           w == IF D.fast /\ D.wiotag = "none" THEN Watch(s, d, "wiotag", "data") ELSE s
           t == [w EXCEPT !.dcc[d].pos = @ + n, !.dcc[d].peer = @ + n]
           u == dcc_send_data(s, d, n, then)
<1>1. u = IF D.throttled THEN Unwatch(s, d, "wiotag")
          ELSE IF ~D.fast /\ D.ack < D.pos THEN s
          ELSE IF ~D.fp \/ D.pos >= Size \/ then = "broken" THEN dcc_close(w, d, "failed")
          ELSE IF t.dcc[d].pos >= Size THEN Unwatch(t, d, "wiotag") ELSE t
  BY DEF dcc_send_data
<1> HIDE DEF u
<1>2. ActiveOk(D) /\ IsDcc(D) /\ EntryOk(D) /\ D.type # "recv" /\ D.stat = "active"
      /\ n <= Size - D.pos /\ DOMAIN s = Parts
  BY EntryIs DEF TagsOk
<1>3. D.type \in {"send"} \cup Chats /\ D.fast \in BOOLEAN /\ D.pos \in Nat /\ D.peer \in Nat
      /\ DOMAIN D = Fields
  BY <1>2 DEF IsDcc
<1>4. \A E : Like(D, E, {"wiotag"}) /\ E.wiotag = "none" => TagsOk(E)
  BY <1>2 DEF Like, Fields, TagsOk, ActiveOk, Dead
<1>5. /\ Done(s, w, d) /\ Like(D, w.dcc[d], {"wiotag"}) /\ TagsOk(w.dcc[d])
  <2>1. CASE D.fast = TRUE /\ D.wiotag = "none"
    <3>1. D.type = "send" /\ D.iotag = "ack"
      BY <1>2, <1>3, <2>1 DEF EntryOk, ActiveOk
    <3>2. D.wiotag # "data" /\ D.iotag # "data" /\ "data" \in Callbacks /\ "wiotag" \in Tags
      BY <2>1, <3>1 DEF Callbacks, Tags
    <3>3. D["wiotag"] = "none"
      BY <2>1
    <3>4. /\ Done(s, Watch(s, d, "wiotag", "data"), d)
          /\ Like(D, Watch(s, d, "wiotag", "data").dcc[d], {"wiotag"})
          /\ Watch(s, d, "wiotag", "data").dcc[d]["wiotag"] = "data"
      BY <3>2, <3>3, Watched
    <3>5. w = Watch(s, d, "wiotag", "data")
      BY <2>1
    <3> HIDE DEF w
    <3>6. TagsOk(w.dcc[d])
      BY <1>2, <3>1, <3>4, <3>5 DEF Like, Fields, TagsOk, ActiveOk, Dead, Chats
    <3> QED BY <3>4, <3>5, <3>6
  <2>2. CASE ~(D.fast = TRUE /\ D.wiotag = "none")
    <3>1. w = s
      BY <1>3, <2>2
    <3> QED BY <1>3, <3>1 DEF Done, Only, Others, Like
  <2> QED BY <2>1, <2>2
<1>6. Core(w) /\ d \in DOMAIN w.dcc
  BY <1>5 DEF Done, Only
<1> HIDE DEF w
<1>7. ASSUME D.type = "send" PROVE Done(w, t, d) /\ Like(w.dcc[d], t.dcc[d], {"pos", "peer"})
  <2> DEFINE W0 == w.dcc[d]
             E == [W0 EXCEPT !.pos = @ + n, !.peer = @ + n]
  <2>1. IsDcc(W0) /\ EntryOk(W0) /\ DOMAIN w = Parts
    BY <1>6, EntryIs
  <2>2. Sets(w, t, d, E)
    BY <1>6, <2>1 DEF Sets, Only, Others, Parts, IsDcc, Fields
  <2>3. /\ DOMAIN E = Fields /\ E.type = W0.type /\ E.file = W0.file /\ E.passive = W0.passive
        /\ E.port = W0.port /\ E.fp = W0.fp /\ E.dest = W0.dest /\ E.ack = W0.ack
        /\ E.resumable = W0.resumable /\ E.resume_sent = W0.resume_sent
        /\ E.fast = W0.fast /\ E.throttled = W0.throttled /\ E.cps = W0.cps
        /\ E.proxy = W0.proxy /\ E.stat = W0.stat /\ E.iotag = W0.iotag /\ E.wiotag = W0.wiotag
        /\ E.pos = W0.pos + n /\ E.peer = W0.peer + n
    BY <2>1 DEF IsDcc, Fields
  <2>4. Like(W0, E, {"pos", "peer"})
    BY <2>1 DEF Like, IsDcc, Fields
  <2>5. W0.type = D.type /\ W0.pos = D.pos /\ W0.stat = "active"
    BY <1>2, <1>5 DEF Like, Fields
  <2> HIDE DEF E, t
  <2>6. IsDcc(E)
    BY <2>1, <2>3 DEF IsDcc
  <2> HIDE DEF W0
  <2>7. EntryOk(E)
    <3>1. ~Mixed => SendOk(E)
      <4> SUFFICES ASSUME ~Mixed PROVE SendOk(E)
        OBVIOUS
      <4>1. SendOk(W0) /\ W0.pos \in Nat /\ W0.peer \in Nat /\ Size \in Nat
        BY <2>1, DccAssumption DEF EntryOk, IsDcc
      <4> QED BY <1>2, <1>7, <2>3, <2>5, <4>1 DEF SendOk, Live
    <3> QED BY <2>1, <2>3, <3>1 DEF EntryOk
  <2>8. \A x \in Directions : Weight(E, x) = Weight(W0, x)
    BY <2>3 DEF Weight, Sum
  <2>9. Fits(w, d, E)
    BY <1>2, <2>3, <2>5, NotRecvFits
  <2>10. E.iotag = w.dcc[d].iotag /\ E.wiotag = w.dcc[d].wiotag
         /\ (\A x \in Directions : Weight(E, x) = Weight(w.dcc[d], x))
    BY <2>3, <2>8 DEF W0
  <2>11. Done(w, t, d)
    BY <1>6, <2>2, <2>6, <2>7, <2>9, <2>10, Put
  <2> QED BY <2>2, <2>4, <2>11 DEF Sets, W0
<1> HIDE DEF t
<1>8. D.type = "send" => Core(t) /\ d \in DOMAIN t.dcc /\ Done(s, t, d)
  BY <1>5, <1>6, <1>7, DoneTwice DEF Done, Only
<1>9. D.type = "send" => TagsOk(t.dcc[d])
  BY <1>5, <1>7 DEF Like, Fields, TagsOk, QueuedOk, ConnectingOk, ActiveOk, DeadOk
<1>10. CASE u = Unwatch(s, d, "wiotag")
  <2>1. Done(s, u, d) /\ Like(D, u.dcc[d], {"wiotag"}) /\ u.dcc[d]["wiotag"] = "none"
    BY <1>10, Unwatched DEF Tags
  <2> QED BY <1>4, <2>1 DEF Rests, u
<1>11. CASE u = s
  BY <1>11 DEF Rests, Done, Only, Others, u
<1>12. CASE u = dcc_close(w, d, "failed")
  <2>1. "failed" \in Dead /\ "failed" # "done"
    BY DEF Dead
  <2>2. Rests(w, u, d)
    BY <1>6, <1>12, <2>1, ClosedRests
  <2> QED BY <1>5, <2>2, RestsTwice DEF u
<1>13. CASE D.type = "send" /\ u = Unwatch(t, d, "wiotag")
  <2>1. Done(t, u, d) /\ Like(t.dcc[d], u.dcc[d], {"wiotag"}) /\ u.dcc[d]["wiotag"] = "none"
    BY <1>8, <1>13, Unwatched DEF Tags
  <2>2. t.dcc[d].stat = "active"
    BY <1>2, <1>5, <1>7, <1>13 DEF Like, Fields
  <2>3. TagsOk(u.dcc[d])
    BY <1>9, <1>13, <2>1, <2>2 DEF Like, Fields, TagsOk, ActiveOk, Dead
  <2> QED BY <1>8, <1>13, <2>1, <2>3, DoneTwice DEF Rests, u
<1>14. CASE D.type = "send" /\ u = t
  BY <1>8, <1>9, <1>14 DEF Rests, u
<1>15. D.type # "send" => D.fp = FALSE
  BY <1>2, <1>3 DEF EntryOk
<1> QED BY <1>1, <1>10, <1>11, <1>12, <1>13, <1>14, <1>15

\* Nothing is throttled, or the rate measured leaves it so.
Stays(s, d, cps) ==
    \/ ~s.dcc[d].throttled
    \/ Limit > 0 /\ s.sum[Sum(s.dcc[d])] + cps - s.dcc[d].cps >= Limit

\* The rate is measured anew, and a throttle may be lifted.
LEMMA CalcRests ==
    ASSUME NEW s, NEW d \in DOMAIN s.dcc, Core(s), TagsOk(s.dcc[d]), s.dcc[d].stat = "active",
           NEW cps \in Nat, NEW n \in Nat, NEW then,
           ~Stays(s, d, cps) =>
              /\ s.dcc[d].type = "recv" => n <= Size - s.dcc[d].peer
              /\ s.dcc[d].type # "recv" => n <= Size - s.dcc[d].pos
    PROVE  Rests(s, dcc_calc_cps(s, d, cps, n, then), d)
<1> DEFINE D == s.dcc[d]
           sum == s.sum[Sum(D)] + cps - D.cps
           E == [D EXCEPT !.cps = cps, !.throttled = Limit > 0 /\ sum >= Limit]
           t == [s EXCEPT !.dcc[d].cps = cps, !.sum[Sum(D)] = sum,
                          !.dcc[d].throttled = Limit > 0 /\ sum >= Limit]
           u == dcc_calc_cps(s, d, cps, n, then)
<1>1. u = IF D.throttled /\ ~t.dcc[d].throttled THEN dcc_unthrottle(t, d, n, then) ELSE t
  BY DEF dcc_calc_cps
<1> HIDE DEF u
<1>2. IsDcc(D) /\ EntryOk(D) /\ DOMAIN s = Parts /\ TagsOk(D) /\ D.stat = "active"
      /\ (~Mixed => FilesOk(s) /\ RecvOk(s.disk, d, D))
  BY EntryIs
<1>3. /\ Sum(D) \in Directions /\ Directions \subseteq Counters /\ "left" \notin Directions
      /\ DOMAIN s.sum = Counters /\ \A x \in Counters : s.sum[x] \in Int
  BY DEF Sum, Directions, Counters, Core, IsState
<1>4. sum \in Int /\ D.cps \in Int /\ (Limit > 0 /\ sum >= Limit) \in BOOLEAN
  BY <1>2, <1>3 DEF IsDcc
<1>5. /\ DOMAIN t = Parts /\ Only(s, t, d) /\ t.dcc[d] = E /\ t.sources = s.sources
      /\ t.disk = s.disk /\ t.completed = s.completed /\ DOMAIN t.sum = Counters
      /\ \A x \in Counters : t.sum[x] = IF x = Sum(D) THEN sum ELSE s.sum[x]
  BY <1>2, <1>3 DEF Only, Others, Parts, IsDcc, Fields
<1>6. /\ DOMAIN E = Fields /\ E.type = D.type /\ E.file = D.file /\ E.passive = D.passive
      /\ E.port = D.port /\ E.fp = D.fp /\ E.dest = D.dest /\ E.ack = D.ack
      /\ E.resumable = D.resumable /\ E.resume_sent = D.resume_sent
      /\ E.fast = D.fast /\ E.throttled \in BOOLEAN /\ E.cps = cps /\ E.pos = D.pos
      /\ E.peer = D.peer /\ E.proxy = D.proxy /\ E.stat = D.stat
      /\ E.iotag = D.iotag /\ E.wiotag = D.wiotag
  BY <1>2, <1>4 DEF IsDcc, Fields
<1> HIDE DEF t, E
<1>7. IsDcc(E)
  <2> HIDE DEF D
  <2> QED BY <1>2, <1>6 DEF IsDcc
<1>8. EntryOk(E)
  <2> HIDE DEF D
  <2> QED BY <1>2, <1>6 DEF EntryOk, SendOk
<1>9. \A x \in Directions : /\ Weight(E, x) = IF x = Sum(D) THEN cps ELSE 0
                            /\ Weight(D, x) = IF x = Sum(D) THEN D.cps ELSE 0
  BY <1>2, <1>6 DEF Weight, Sum
<1>10. ASSUME NEW x \in Directions
       PROVE  Net(t, x) = Net(s, x) + Share(t, d, x) - Share(s, d, x)
  <2>1. Share(t, d, x) = Weight(E, x) /\ Share(s, d, x) = Weight(D, x)
    BY <1>5, ShareIs DEF Only
  <2>2. Net(s, x) \in Int
    BY <1>3, NetIs
  <2>3. CASE x = Sum(D)
    <3>1. Share(t, d, x) = cps /\ Share(s, d, x) = D.cps /\ sum = s.sum[x] + cps - D.cps
      BY <1>9, <2>1, <2>3
    <3> HIDE DEF sum
    <3>2. t.sum[x] = sum /\ t.sum["left"] = s.sum["left"] /\ s.sum[x] \in Int /\ s.sum["left"] \in Int
      BY <1>3, <1>5, <2>3 DEF Counters
    <3>3. Net(t, x) = Net(s, x) + cps - D.cps
      BY <1>4, <3>1, <3>2 DEF Net
    <3> QED BY <3>1, <3>3
  <2>4. CASE x # Sum(D)
    <3>1. Share(t, d, x) = 0 /\ Share(s, d, x) = 0
      BY <1>9, <2>1, <2>4
    <3>2. t.sum[x] = s.sum[x] /\ t.sum["left"] = s.sum["left"]
      BY <1>3, <1>5, <2>4 DEF Counters
    <3>3. Net(t, x) = Net(s, x)
      BY <3>2 DEF Net, Directions
    <3> QED BY <2>2, <3>1, <3>3
  <2> QED BY <2>3, <2>4
<1>11. Owned(t)
  <2>1. Owned(s) /\ Others(s, t, d) /\ d \in DOMAIN t.dcc /\ t.dcc[d] = E
    BY <1>5 DEF Core, IsState, Only
  <2>2. E.iotag = s.dcc[d].iotag /\ E.wiotag = s.dcc[d].wiotag
    BY <1>6
  <2> QED BY <1>5, <2>1, <2>2 DEF Owned, Others
<1>12. ASSUME ~Mixed PROVE FilesOk(t)
  <2>1. D.fp \in BOOLEAN
    BY <1>2 DEF IsDcc
  <2>2. Keeps(D, E)
    <3> HIDE DEF D
    <3> QED BY <1>2, <1>6, <1>12, <2>1 DEF Keeps, RecvOk, OpenOk, WaitOk
  <2>3. Fits(s, d, E)
    BY <1>2, <1>7, <1>12, <2>2, KeptFits
  <2> QED BY <1>2, <1>5, <1>12, <2>3, FilesFit
<1>13. Done(s, t, d)
  <2>1. IsDcc(t.dcc[d]) /\ EntryOk(t.dcc[d])
    BY <1>5, <1>7, <1>8
  <2>2. Core(t)
    <3>1. DiskOk(t)
      BY <1>5 DEF Core, DiskOk
    <3>2. \A x \in Counters : t.sum[x] \in Int
      BY <1>3, <1>4, <1>5
    <3> QED BY <1>5, <1>10, <1>11, <1>12, <2>1, <3>1, <3>2, CoreOnly
  <2> QED BY <1>5, <2>2 DEF Done
<1>14. TagsOk(t.dcc[d]) /\ Core(t) /\ d \in DOMAIN t.dcc
  <2>1. TagsOk(E)
    <3> HIDE DEF D
    <3> QED BY <1>2, <1>6 DEF TagsOk, ActiveOk, Dead
  <2> QED BY <1>5, <1>13, <2>1 DEF Done, Only
<1>15. CASE D.throttled = TRUE /\ ~t.dcc[d].throttled /\ u = dcc_unthrottle(t, d, n, then)
  <2>0. ~Stays(s, d, cps)
    <3>1. t.dcc[d].throttled = (Limit > 0 /\ sum >= Limit)
      BY <1>2, <1>5 DEF E, IsDcc, Fields
    <3>2. s.sum[Sum(s.dcc[d])] + cps - s.dcc[d].cps = sum
      OBVIOUS
    <3> HIDE DEF sum
    <3>3. ~(Limit > 0 /\ sum >= Limit)
      BY <1>15, <3>1
    <3> QED BY <1>15, <3>2, <3>3 DEF Stays
  <2>1. t.dcc[d].type = D.type /\ t.dcc[d].stat = "active" /\ t.dcc[d].pos = D.pos
        /\ t.dcc[d].peer = D.peer
    BY <1>2, <1>5, <1>6
  <2>2. CASE D.type = "recv"
    <3>1. u = dcc_read(t, d, n, then)
      BY <1>15, <2>1, <2>2 DEF dcc_unthrottle
    <3>2. t.dcc[d].type = "recv" /\ t.dcc[d].stat = "active" /\ n <= Size - t.dcc[d].peer
      BY <2>0, <2>1, <2>2
    <3>3. Rests(t, u, d)
      BY <1>14, <3>1, <3>2, ReadRests
    <3> QED BY <1>13, <3>3, RestsTwice DEF u
  <2>3. CASE D.type # "recv"
    <3>1. u = dcc_send_data(t, d, n, then)
      BY <1>15, <2>1, <2>3 DEF dcc_unthrottle
    <3>2. t.dcc[d].type # "recv" /\ t.dcc[d].stat = "active" /\ n <= Size - t.dcc[d].pos
      BY <2>0, <2>1, <2>3
    <3>3. Rests(t, u, d)
      BY <1>14, <3>1, <3>2, SendDataRests
    <3> QED BY <1>13, <3>3, RestsTwice DEF u
  <2> QED BY <2>2, <2>3
<1>16. CASE u = t
  BY <1>13, <1>14, <1>16 DEF Rests, u
<1>17. D.throttled \in BOOLEAN
  BY <1>2 DEF IsDcc
<1> QED BY <1>1, <1>15, <1>16, <1>17

-----------------------------------------------------------------------------
(* Connecting.                                                             *)

\* The two tags.
LEMMA InWatched ==
    ASSUME NEW s, NEW d \in DOMAIN s.dcc, Core(s), NEW cb \in Callbacks,
           s.dcc[d].iotag = "none", s.dcc[d].wiotag # cb
    PROVE  /\ Done(s, Watch(s, d, "iotag", cb), d)
           /\ Like(s.dcc[d], Watch(s, d, "iotag", cb).dcc[d], {"iotag"})
           /\ Watch(s, d, "iotag", cb).dcc[d].iotag = cb
<1>1. "iotag" \in Tags /\ s.dcc[d]["iotag"] = "none" /\ s.dcc[d].iotag # cb
  BY DEF Tags, Callbacks
<1>2. /\ Done(s, Watch(s, d, "iotag", cb), d)
      /\ Like(s.dcc[d], Watch(s, d, "iotag", cb).dcc[d], {"iotag"})
      /\ Watch(s, d, "iotag", cb).dcc[d]["iotag"] = cb
  BY <1>1, Watched
<1> QED BY <1>2

LEMMA OutWatched ==
    ASSUME NEW s, NEW d \in DOMAIN s.dcc, Core(s), NEW cb \in Callbacks,
           s.dcc[d].wiotag = "none", s.dcc[d].iotag # cb
    PROVE  /\ Done(s, Watch(s, d, "wiotag", cb), d)
           /\ Like(s.dcc[d], Watch(s, d, "wiotag", cb).dcc[d], {"wiotag"})
           /\ Watch(s, d, "wiotag", cb).dcc[d].wiotag = cb
<1>1. "wiotag" \in Tags /\ s.dcc[d]["wiotag"] = "none" /\ s.dcc[d].wiotag # cb
  BY DEF Tags, Callbacks
<1>2. /\ Done(s, Watch(s, d, "wiotag", cb), d)
      /\ Like(s.dcc[d], Watch(s, d, "wiotag", cb).dcc[d], {"wiotag"})
      /\ Watch(s, d, "wiotag", cb).dcc[d]["wiotag"] = cb
  BY <1>1, Watched
<1> QED BY <1>2

LEMMA BothUnwatched ==
    ASSUME NEW s, NEW d \in DOMAIN s.dcc, Core(s)
    PROVE  /\ Done(s, Unwatch(s, d, "iotag"), d) /\ Done(s, Unwatch(s, d, "wiotag"), d)
           /\ Like(s.dcc[d], Unwatch(s, d, "iotag").dcc[d], {"iotag"})
           /\ Like(s.dcc[d], Unwatch(s, d, "wiotag").dcc[d], {"wiotag"})
           /\ Unwatch(s, d, "iotag").dcc[d].iotag = "none"
           /\ Unwatch(s, d, "wiotag").dcc[d].wiotag = "none"
<1>1. "iotag" \in Tags /\ "wiotag" \in Tags
  BY DEF Tags
<1>2. /\ Done(s, Unwatch(s, d, "iotag"), d)
      /\ Like(s.dcc[d], Unwatch(s, d, "iotag").dcc[d], {"iotag"})
      /\ Unwatch(s, d, "iotag").dcc[d]["iotag"] = "none"
  BY <1>1, Unwatched
<1>3. /\ Done(s, Unwatch(s, d, "wiotag"), d)
      /\ Like(s.dcc[d], Unwatch(s, d, "wiotag").dcc[d], {"wiotag"})
      /\ Unwatch(s, d, "wiotag").dcc[d]["wiotag"] = "none"
  BY <1>1, Unwatched
<1> QED BY <1>2, <1>3

LEMMA ListeningProps ==
    ASSUME NEW s, NEW d \in DOMAIN s.dcc, Core(s), s.dcc[d].iotag = "none",
           s.dcc[d].wiotag = "none"
    PROVE  LET t == Listening(s, d)
           IN /\ Done(s, t, d) /\ Like(s.dcc[d], t.dcc[d], {"iotag", "sok", "port"})
              /\ t.dcc[d].iotag = "accept" /\ t.dcc[d].port = TRUE
<1> DEFINE w == Watch(s, d, "iotag", "accept")
           W0 == w.dcc[d]
           E == [W0 EXCEPT !.sok = TRUE, !.port = TRUE]
           t == [w EXCEPT !.dcc[d].sok = TRUE, !.dcc[d].port = TRUE]
<1>1. /\ Done(s, w, d) /\ Like(s.dcc[d], W0, {"iotag"}) /\ W0.iotag = "accept"
  <2>1. s.dcc[d].wiotag # "accept" /\ s.dcc[d].iotag # "accept" /\ s.dcc[d]["iotag"] = "none"
        /\ "accept" \in Callbacks /\ "iotag" \in Tags
    BY DEF Callbacks, Tags
  <2>2. /\ Done(s, Watch(s, d, "iotag", "accept"), d)
        /\ Like(s.dcc[d], Watch(s, d, "iotag", "accept").dcc[d], {"iotag"})
        /\ Watch(s, d, "iotag", "accept").dcc[d]["iotag"] = "accept"
    BY <2>1, Watched
  <2> QED BY <2>2
<1>2. Listening(s, d) = t
  BY DEF Listening
<1> HIDE DEF w
<1>3. Core(w) /\ d \in DOMAIN w.dcc
  BY <1>1 DEF Done, Only
<1>4. IsDcc(W0) /\ EntryOk(W0) /\ DOMAIN w = Parts
  BY <1>3, EntryIs
<1>5. Sets(w, t, d, E)
  BY <1>3, <1>4 DEF Sets, Only, Others, Parts, IsDcc, Fields
<1>6. Like(W0, E, {"sok", "port"}) /\ E.port = TRUE
  BY <1>4 DEF Like, IsDcc, Fields
<1> HIDE DEF t, E, W0
<1>7. IsDcc(E)
  BY <1>4, <1>6 DEF IsDcc, Like, Fields
<1>8. E.type = W0.type /\ E.fast = W0.fast /\ E.iotag = W0.iotag
  BY <1>6 DEF Like, Fields
<1>9. Done(w, t, d)
  <2>1. Like(w.dcc[d], E, {"sok", "port", "fast", "proxy"})
        /\ (E.port = FALSE => w.dcc[d].port = FALSE) /\ (E.type \in Chats => E.fast = FALSE)
    BY <1>4, <1>6, <1>8 DEF Like, W0, EntryOk
  <2> QED BY <1>3, <1>5, <1>7, <2>1, SoftPut
<1>10. t.dcc[d] = E
  BY <1>5 DEF Sets
<1>11. Like(s.dcc[d], E, {"iotag", "sok", "port"})
  BY <1>1, <1>6 DEF Like, Fields
<1> QED BY <1>1, <1>2, <1>6, <1>8, <1>9, <1>10, <1>11, DoneTwice

\* The state of a connection.
StatTo(s, d, stat) == [s EXCEPT !.dcc[d].stat = stat]

LEMMA StatToIs ==
    ASSUME NEW s, NEW d \in DOMAIN s.dcc, Core(s), NEW stat, s.dcc[d].stat # "active",
           stat \in {"connecting", "active", "failed"},
           stat # "failed" => s.dcc[d].stat \in {"queued", "connecting"},
           ~Mixed /\ stat # "failed" /\ s.dcc[d].type = "recv" /\ s.dcc[d].resumable > 0
              => s.dcc[d].peer = s.dcc[d].resumable
    PROVE  /\ Done(s, StatTo(s, d, stat), d)
           /\ Like(s.dcc[d], StatTo(s, d, stat).dcc[d], {"stat"})
           /\ StatTo(s, d, stat).dcc[d].stat = stat
BY StatIs DEF StatTo

\* z: what the handler did with the entry before it connects.
LEMMA ConnectRests ==
    ASSUME NEW s, NEW z, NEW d \in DOMAIN s.dcc, d \in DOMAIN z.dcc, NEW ok \in BOOLEAN, NEW kind \in ProxyKinds,
           DOMAIN z = Parts, DOMAIN z.dcc[d] = Fields,
           z.dcc[d].stat = "queued", z.dcc[d].iotag = "none", z.dcc[d].wiotag = "none",
           z.dcc[d].proxy.kind = "none",
           Done(s, StatTo(z, d, "connecting"), d), Done(s, StatTo(z, d, "failed"), d)
    PROVE  Rests(s, dcc_connect(z, d, ok, kind), d)
<1> DEFINE D == z.dcc[d]
           c == StatTo(z, d, "connecting")
           cb == IF kind = "none" THEN "connected" ELSE "proxy_connect"
           w == Watch(c, d, "iotag", cb)
           x == [w EXCEPT !.dcc[d].sok = TRUE, !.dcc[d].proxy.kind = kind]
           f == StatTo(z, d, "failed")
           t == dcc_connect(z, d, ok, kind)
<1>1. t = IF D.passive /\ ~D.port
          THEN IF ok THEN Listening(c, d) ELSE dcc_close(c, d, "failed")
          ELSE IF ~ok THEN f ELSE x
  BY DEF dcc_connect, StatTo
<1> HIDE DEF t
<1>2. /\ Done(s, c, d) /\ Like(D, c.dcc[d], {"stat"}) /\ c.dcc[d].stat = "connecting"
      /\ Done(s, f, d) /\ Like(D, f.dcc[d], {"stat"}) /\ f.dcc[d].stat = "failed"
  <2>1. DOMAIN D = Fields /\ "dcc" \in DOMAIN z /\ d \in DOMAIN z.dcc /\ "stat" \in DOMAIN D
    BY DEF Parts, Fields
  <2>2. ASSUME NEW stat
        PROVE  /\ Like(D, StatTo(z, d, stat).dcc[d], {"stat"})
               /\ StatTo(z, d, stat).dcc[d].stat = stat
    BY <2>1 DEF StatTo, Like, Fields
  <2> QED BY <2>2
<1> HIDE DEF c, f
<1>3. /\ Core(c) /\ d \in DOMAIN c.dcc /\ c.dcc[d].iotag = "none" /\ c.dcc[d].wiotag = "none"
      /\ c.dcc[d].proxy.kind = "none" /\ IsDcc(c.dcc[d]) /\ EntryOk(c.dcc[d])
  BY <1>2 DEF Done, Only, Like, Fields, Core, IsState
<1>4. CASE t = Listening(c, d)
  <2>1. /\ Done(c, t, d) /\ Like(c.dcc[d], t.dcc[d], {"iotag", "sok", "port"})
        /\ t.dcc[d].iotag = "accept"
    BY <1>3, <1>4, ListeningProps
  <2>2. TagsOk(t.dcc[d])
    BY <1>2, <1>3, <2>1 DEF Like, Fields, TagsOk, ConnectingOk, Dead
  <2> QED BY <1>2, <2>1, <2>2, DoneTwice DEF Rests, t
<1>5. CASE t = dcc_close(c, d, "failed")
  <2>1. "failed" \in Dead /\ "failed" # "done"
    BY DEF Dead
  <2>2. Rests(c, t, d)
    BY <1>3, <1>5, <2>1, ClosedRests
  <2> QED BY <1>2, <2>2, RestsTwice DEF t
<1>6. CASE t = f
  <2>1. TagsOk(f.dcc[d])
    BY <1>2 DEF Like, Fields, TagsOk, DeadOk, Dead
  <2> QED BY <1>2, <1>6, <2>1 DEF Rests, t
<1>7. CASE t = x
  <2>1. cb \in Callbacks /\ cb # "none" /\ "iotag" \in Tags /\ c.dcc[d]["iotag"] = "none"
    BY <1>3 DEF Callbacks, Tags
  <2>2. Done(c, w, d) /\ Like(c.dcc[d], w.dcc[d], {"iotag"}) /\ w.dcc[d]["iotag"] = cb
    <3> HIDE DEF cb
    <3>1. c.dcc[d].iotag = "none" /\ c.dcc[d].wiotag # cb
      BY <1>3, <2>1
    <3>2. /\ Done(c, Watch(c, d, "iotag", cb), d)
          /\ Like(c.dcc[d], Watch(c, d, "iotag", cb).dcc[d], {"iotag"})
          /\ Watch(c, d, "iotag", cb).dcc[d].iotag = cb
      BY <1>3, <2>1, <3>1, InWatched
    <3> QED BY <3>2
  <2> DEFINE W0 == w.dcc[d]
             p == [W0.proxy EXCEPT !.kind = kind]
             E == [W0 EXCEPT !.sok = TRUE, !.proxy = p]
  <2> HIDE DEF w
  <2>3. Core(w) /\ d \in DOMAIN w.dcc
    BY <1>3, <2>2 DEF Done, Only
  <2>4. IsDcc(W0) /\ EntryOk(W0) /\ DOMAIN w = Parts
    BY <2>3, EntryIs
  <2>5. Sets(w, x, d, E)
    BY <2>3, <2>4 DEF Sets, Only, Others, Parts, IsDcc, Fields
  <2>6. DOMAIN p = {"kind", "phase", "asked"} /\ p.kind = kind
    BY <2>4 DEF IsDcc
  <2> HIDE DEF p
  <2>7. Like(W0, E, {"sok", "proxy"}) /\ E.proxy = p
    BY <2>4 DEF Like, IsDcc, Fields
  <2> HIDE DEF x, E, W0
  <2>8. /\ E.type = W0.type /\ E.fast = W0.fast /\ E.iotag = W0.iotag /\ E.port = W0.port
        /\ E.wiotag = W0.wiotag /\ E.stat = W0.stat
    BY <2>7 DEF Like, Fields
  <2>9. IsDcc(E)
    BY <2>4, <2>6, <2>7 DEF IsDcc, Like, Fields
  <2>10. Done(w, x, d)
    <3>1. Like(w.dcc[d], E, {"sok", "port", "fast", "proxy"})
          /\ (E.port = FALSE => w.dcc[d].port = FALSE) /\ (E.type \in Chats => E.fast = FALSE)
      BY <2>4, <2>7, <2>8 DEF Like, W0, EntryOk
    <3> QED BY <2>3, <2>5, <2>9, <3>1, SoftPut
  <2>11. x.dcc[d] = E
    BY <2>5 DEF Sets
  <2>12. kind \in {"none"} \cup Kinds
    BY DccAssumption
  <2>13. TagsOk(E)
    <3>1. E.stat = "connecting" /\ E.wiotag = "none" /\ E.iotag = cb /\ E.proxy.kind = kind
      BY <1>2, <1>3, <2>2, <2>6, <2>7, <2>8 DEF Like, Fields, W0
    <3> QED BY <2>12, <3>1 DEF TagsOk, ConnectingOk, Dead
  <2>14. Done(s, x, d)
    BY <1>2, <2>2, <2>10, DoneTwice
  <2> QED BY <1>7, <2>11, <2>13, <2>14 DEF Rests, t
<1> QED BY <1>1, <1>4, <1>5, <1>6, <1>7


\* A connection is up: the callbacks of the type are set.
LEMMA StartedRests ==
    ASSUME NEW s, NEW d \in DOMAIN s.dcc, Core(s), s.dcc[d].stat \in {"queued", "connecting"},
           s.dcc[d].type = "recv" => s.dcc[d].stat = "connecting",
           s.dcc[d].iotag = "none", s.dcc[d].wiotag = "none", Heard(s.dcc[d].proxy),
           NEW fast \in BOOLEAN, NEW n \in Nat, NEW then,
           s.dcc[d].type = "send" => n <= Size - s.dcc[d].pos
    PROVE  Rests(s, Started(s, d, fast, n, then), d)
<1> DEFINE D == s.dcc[d]
           a == [s EXCEPT !.dcc[d].stat = "active"]
           w == IF fast THEN Watch(a, d, "wiotag", "data") ELSE a
           x == Watch(w, d, "iotag", "ack")
           f == [x EXCEPT !.dcc[d].fast = fast]
           t == Started(s, d, fast, n, then)
<1>1. IsDcc(D) /\ EntryOk(D) /\ (~Mixed => RecvOk(s.disk, d, D))
  BY EntryIs
<1>2. D.type \in {"send", "recv"} \cup Chats /\ D.fp \in BOOLEAN
      /\ D.stat \in {"queued", "connecting"} /\ (D.type = "recv" => D.stat = "connecting")
  BY <1>1 DEF IsDcc
<1>3. /\ D.type = "recv" => t = Watch(a, d, "iotag", "read")
      /\ D.type = "send" => t = dcc_send_data(f, d, n, then)
      /\ D.type \in Chats => t = Watch(a, d, "iotag", "chat")
  BY DEF Started, Chats
<1> HIDE DEF t
<1>4. ~Mixed /\ D.type = "recv" /\ D.resumable > 0 => D.peer = D.resumable
  BY <1>1, <1>2 DEF RecvOk, OpenOk, WaitOk, Live
<1>5. Done(s, a, d) /\ Like(D, a.dcc[d], {"stat"}) /\ a.dcc[d].stat = "active"
  <2>1. /\ s.dcc[d].stat # "active" /\ s.dcc[d].stat \in {"queued", "connecting"}
        /\ (~Mixed /\ s.dcc[d].type = "recv" /\ s.dcc[d].resumable > 0
              => s.dcc[d].peer = s.dcc[d].resumable)
    BY <1>2, <1>4
  <2>2. /\ Done(s, StatTo(s, d, "active"), d)
        /\ Like(s.dcc[d], StatTo(s, d, "active").dcc[d], {"stat"})
        /\ StatTo(s, d, "active").dcc[d].stat = "active"
    <3> HIDE DEF D, a
    <3>1. "active" \in {"connecting", "active", "failed"}
      OBVIOUS
    <3> QED BY <2>1, <3>1, StatToIs
  <2> QED BY <2>2 DEF StatTo
<1> HIDE DEF a
<1>6. /\ Core(a) /\ d \in DOMAIN a.dcc /\ a.dcc[d].iotag = "none" /\ a.dcc[d].wiotag = "none"
      /\ a.dcc[d].type = D.type /\ a.dcc[d].proxy = D.proxy /\ a.dcc[d].pos = D.pos
  BY <1>5 DEF Done, Only, Like, Fields
<1>7. {"read", "chat", "ack", "data"} \subseteq Callbacks /\ "none" \notin Callbacks
  BY DEF Callbacks
<1>8. ASSUME NEW cb \in {"read", "chat"}, t = Watch(a, d, "iotag", cb),
             cb = "read" => D.type = "recv", cb = "chat" => D.type \in Chats
      PROVE  Rests(s, t, d)
  <2>1. Done(a, t, d) /\ Like(a.dcc[d], t.dcc[d], {"iotag"}) /\ t.dcc[d].iotag = cb
    BY <1>6, <1>7, <1>8, InWatched
  <2>2. TagsOk(t.dcc[d])
    BY <1>5, <1>6, <1>8, <2>1 DEF Like, Fields, TagsOk, ActiveOk, Dead, Chats
  <2> QED BY <1>5, <2>1, <2>2, DoneTwice DEF Rests
<1>9. CASE D.type = "recv"
  BY <1>3, <1>8, <1>9 DEF t
<1>10. CASE D.type \in Chats
  BY <1>3, <1>8, <1>10 DEF t
<1>11. CASE D.type = "send"
  <2>1. /\ Done(a, w, d) /\ Like(a.dcc[d], w.dcc[d], {"wiotag"})
        /\ w.dcc[d].wiotag \in {"none", "data"}
    <3>1. CASE fast
      <4>1. a.dcc[d].wiotag = "none" /\ a.dcc[d].iotag # "data"
        BY <1>6
      <4> QED BY <1>6, <1>7, <3>1, <4>1, OutWatched
    <3>2. CASE ~fast
      <4>1. DOMAIN a.dcc[d] = Fields
        BY <1>6 DEF Core, IsState, IsDcc
      <4> QED BY <1>6, <3>2, <4>1 DEF Done, Only, Others, Like
    <3> QED BY <3>1, <3>2
  <2> HIDE DEF w
  <2>2. /\ Core(w) /\ d \in DOMAIN w.dcc /\ w.dcc[d].iotag = "none" /\ w.dcc[d].wiotag # "ack"
    BY <1>6, <2>1 DEF Done, Only, Like, Fields
  <2>3. Done(w, x, d) /\ Like(w.dcc[d], x.dcc[d], {"iotag"}) /\ x.dcc[d].iotag = "ack"
    BY <1>7, <2>2, InWatched
  <2> DEFINE X == x.dcc[d]
             E == [X EXCEPT !.fast = fast]
  <2> HIDE DEF x
  <2>4. Core(x) /\ d \in DOMAIN x.dcc
    BY <2>2, <2>3 DEF Done, Only
  <2>5. IsDcc(X) /\ EntryOk(X) /\ DOMAIN x = Parts
    BY <2>4, EntryIs
  <2>6. Sets(x, f, d, E)
    BY <2>4, <2>5 DEF Sets, Only, Others, Parts, IsDcc, Fields
  <2>7. Like(X, E, {"fast"}) /\ E.fast = fast
    BY <2>5 DEF Like, IsDcc, Fields
  <2>8. /\ X.iotag = "ack" /\ X.wiotag \in {"none", "data"} /\ X.stat = "active"
        /\ X.type = "send" /\ X.proxy = D.proxy /\ X.pos = D.pos
    BY <1>5, <1>6, <1>11, <2>1, <2>3 DEF Like, Fields
  <2> HIDE DEF f, E, X
  <2>9. /\ E.iotag = "ack" /\ E.wiotag \in {"none", "data"} /\ E.stat = "active"
        /\ E.type = "send" /\ E.proxy = D.proxy /\ E.pos = D.pos /\ E.port = X.port
    BY <2>7, <2>8 DEF Like, Fields
  <2>10. IsDcc(E)
    BY <2>5, <2>7 DEF IsDcc, Like, Fields
  <2>11. Done(x, f, d)
    <3>1. Like(x.dcc[d], E, {"sok", "port", "fast", "proxy"})
          /\ (E.port = FALSE => x.dcc[d].port = FALSE) /\ (E.type \in Chats => E.fast = FALSE)
      BY <2>7, <2>9 DEF Like, X, Chats
    <3> QED BY <2>4, <2>6, <2>10, <3>1, SoftPut
  <2>12. f.dcc[d] = E
    BY <2>6 DEF Sets
  <2>13. TagsOk(f.dcc[d])
    BY <2>9, <2>12 DEF TagsOk, ActiveOk, Chats, Dead
  <2>14. Done(s, f, d)
    BY <1>5, <2>1, <2>3, <2>11, DoneTwice
  <2>15. Core(f) /\ d \in DOMAIN f.dcc /\ f.dcc[d].type # "recv" /\ f.dcc[d].stat = "active"
         /\ n <= Size - f.dcc[d].pos
    BY <1>11, <2>4, <2>9, <2>11, <2>12 DEF Done, Only
  <2>16. Rests(f, dcc_send_data(f, d, n, then), d)
    BY <2>13, <2>15, SendDataRests
  <2>17. Rests(f, t, d)
    BY <1>3, <1>11, <2>16 DEF f, x
  <2> QED BY <2>14, <2>17, RestsTwice DEF t
<1> QED BY <1>2, <1>9, <1>10, <1>11

LEMMA FinishedRests ==
    ASSUME NEW s, NEW d \in DOMAIN s.dcc, Core(s), s.dcc[d].stat = "connecting",
           s.dcc[d].wiotag = "none", Heard(s.dcc[d].proxy), NEW ok \in BOOLEAN,
           NEW fast \in BOOLEAN, NEW n \in Nat, NEW then,
           s.dcc[d].type = "send" /\ ok => n <= Size - s.dcc[d].pos
    PROVE  Rests(s, dcc_connect_finished(s, d, ok, fast, n, then), d)
<1> DEFINE u == Unwatch(s, d, "iotag")
           t == dcc_connect_finished(s, d, ok, fast, n, then)
<1>1. Done(s, u, d) /\ Like(s.dcc[d], u.dcc[d], {"iotag"}) /\ u.dcc[d].iotag = "none"
  BY BothUnwatched
<1>2. t = IF ok THEN Started(u, d, fast, n, then) ELSE [u EXCEPT !.dcc[d].stat = "failed"]
  BY DEF dcc_connect_finished
<1> HIDE DEF u, t
<1>3. /\ Core(u) /\ d \in DOMAIN u.dcc /\ u.dcc[d].stat = "connecting"
      /\ u.dcc[d].wiotag = "none" /\ Heard(u.dcc[d].proxy)
      /\ (u.dcc[d].type = "send" /\ ok => n <= Size - u.dcc[d].pos)
  BY <1>1 DEF Done, Only, Like, Fields
<1>4. CASE ok
  <2>1. Rests(u, t, d)
    BY <1>1, <1>2, <1>3, <1>4, StartedRests
  <2> QED BY <1>1, <2>1, RestsTwice DEF t
<1>5. CASE ~ok
  <2> DEFINE f == [u EXCEPT !.dcc[d].stat = "failed"]
  <2>0. Core(u) /\ d \in DOMAIN u.dcc /\ u.dcc[d].stat # "active"
    BY <1>3
  <2>1. Done(u, f, d) /\ Like(u.dcc[d], f.dcc[d], {"stat"}) /\ f.dcc[d].stat = "failed"
    BY <2>0, StatIs
  <2>2. t = f
    BY <1>2, <1>5
  <2> HIDE DEF f
  <2>3. TagsOk(f.dcc[d])
    BY <1>1, <1>3, <2>1 DEF Like, Fields, TagsOk, DeadOk, Dead
  <2> QED BY <1>1, <2>1, <2>2, <2>3, DoneTwice DEF Rests, t
<1> QED BY <1>4, <1>5

LEMMA AcceptRests ==
    ASSUME NEW s, NEW d \in DOMAIN s.dcc, Core(s), s.dcc[d].stat \in {"queued", "connecting"},
           s.dcc[d].wiotag = "none", s.dcc[d].proxy.kind = "none", NEW ok \in BOOLEAN,
           NEW fast \in BOOLEAN, NEW n \in Nat, NEW then,
           s.dcc[d].type = "send" /\ ok => n <= Size - s.dcc[d].pos,
           s.dcc[d].type = "recv" => s.dcc[d].stat = "connecting"
    PROVE  Rests(s, dcc_accept(s, d, ok, fast, n, then), d)
<1> DEFINE u == Unwatch(s, d, "iotag")
           t == dcc_accept(s, d, ok, fast, n, then)
<1>1. Done(s, u, d) /\ Like(s.dcc[d], u.dcc[d], {"iotag"}) /\ u.dcc[d].iotag = "none"
  BY BothUnwatched
<1>2. t = IF ok THEN Started(u, d, fast, n, then) ELSE dcc_close(s, d, "failed")
  BY DEF dcc_accept
<1> HIDE DEF u, t
<1>3. CASE ok
  <2>1. /\ Core(u) /\ d \in DOMAIN u.dcc /\ u.dcc[d].stat \in {"queued", "connecting"}
        /\ (u.dcc[d].type = "recv" => u.dcc[d].stat = "connecting")
        /\ u.dcc[d].wiotag = "none" /\ Heard(u.dcc[d].proxy)
        /\ (u.dcc[d].type = "send" /\ ok => n <= Size - u.dcc[d].pos)
    BY <1>1 DEF Done, Only, Like, Fields, Heard
  <2>2. Rests(u, t, d)
    BY <1>1, <1>2, <1>3, <2>1, StartedRests
  <2> QED BY <1>1, <2>2, RestsTwice DEF t
<1>4. CASE ~ok
  <2>1. "failed" \in Dead /\ "failed" # "done"
    BY DEF Dead
  <2> QED BY <1>2, <1>4, <2>1, ClosedRests DEF t
<1> QED BY <1>3, <1>4

-----------------------------------------------------------------------------
(* The dialogue with a proxy.                                              *)

ProxyTo(s, d, p) == [s EXCEPT !.dcc[d].proxy = p]

LEMMA ProxyToIs ==
    ASSUME NEW s, NEW d \in DOMAIN s.dcc, Core(s), NEW p, DOMAIN p = {"kind", "phase", "asked"}
    PROVE  /\ Done(s, ProxyTo(s, d, p), d)
           /\ Like(s.dcc[d], ProxyTo(s, d, p).dcc[d], {"proxy"})
           /\ ProxyTo(s, d, p).dcc[d].proxy = p
<1> DEFINE t == ProxyTo(s, d, p)
           D == s.dcc[d]
           E == [D EXCEPT !.proxy = p]
<1>1. IsDcc(D) /\ EntryOk(D) /\ DOMAIN s = Parts
  BY EntryIs
<1>2. Sets(s, t, d, E)
  BY <1>1 DEF Sets, Only, Others, Parts, ProxyTo
<1> HIDE DEF t
<1>3. Like(D, E, {"proxy"}) /\ E.proxy = p
  BY <1>1 DEF IsDcc, Like, Fields
<1> HIDE DEF E
<1>4. E.type = D.type /\ E.fast = D.fast /\ E.port = D.port
  BY <1>3 DEF Like, Fields
<1>5. IsDcc(E)
  BY <1>1, <1>3 DEF IsDcc, Like, Fields
<1>6. Like(s.dcc[d], E, {"sok", "port", "fast", "proxy"})
      /\ (E.port = FALSE => s.dcc[d].port = FALSE) /\ (E.type \in Chats => E.fast = FALSE)
  BY <1>1, <1>3, <1>4 DEF Like, EntryOk
<1>7. Done(s, t, d)
  BY <1>2, <1>5, <1>6, SoftPut
<1> QED BY <1>2, <1>3, <1>7 DEF Sets, t

LEMMA AdvancedProps ==
    ASSUME NEW p, Talking(p), DOMAIN p = {"kind", "phase", "asked"}
    PROVE  LET q == Advanced(p)
           IN /\ DOMAIN q = {"kind", "phase", "asked"} /\ q.kind = p.kind
              /\ q.phase = p.phase + 1 /\ q.asked = Said(Phases[p.kind], p.phase)
<1> DEFINE q == Advanced(p)
           steps == Phases[p.kind]
<1>1. p.kind \in Kinds /\ p.phase \in 1..Len(steps) /\ p.asked = Said(steps, p.phase - 1)
  BY DEF Talking
<1>2. Len(steps) \in Nat
  BY <1>1, PhasesProps
<1>3. Step(p) = steps[p.phase]
  BY DEF Step
<1>4. /\ DOMAIN q = {"kind", "phase", "asked"} /\ q.kind = p.kind /\ q.phase = p.phase + 1
      /\ q.asked = IF Step(p).do = "write" THEN Append(p.asked, Step(p).what) ELSE p.asked
  BY DEF Advanced
<1> HIDE DEF q, steps
<1>5. Said(steps, p.phase) = IF steps[p.phase].do = "write"
                             THEN Append(Said(steps, p.phase - 1), steps[p.phase].what)
                             ELSE Said(steps, p.phase - 1)
  BY <1>1, <1>2, SaidStep
<1>6. q.asked = Said(steps, p.phase)
  BY <1>1, <1>3, <1>4, <1>5
<1> QED BY <1>4, <1>6 DEF q, steps

\* The next phase waits for what it does.
LEMMA PhaseRests ==
    ASSUME NEW s, NEW d \in DOMAIN s.dcc, Core(s), s.dcc[d].stat = "connecting",
           NEW p, Talking(p), DOMAIN p = {"kind", "phase", "asked"}, p.kind # "wingate",
           Step(p).do = "write" => s.dcc[d].wiotag \in {"none", "traverse"} /\ s.dcc[d].iotag = "none",
           Step(p).do # "write" => s.dcc[d].iotag \in {"none", "traverse"} /\ s.dcc[d].wiotag = "none"
    PROVE  Rests(s, Phase(s, d, p), d)
<1> DEFINE D == s.dcc[d]
           v == ProxyTo(s, d, p)
           t == Phase(s, d, p)
<1>1. t = IF Step(p).do = "write"
          THEN IF D.wiotag = "none" THEN Watch(v, d, "wiotag", "traverse") ELSE v
          ELSE IF D.iotag = "none" THEN Watch(v, d, "iotag", "traverse") ELSE v
  BY DEF Phase, ProxyTo
<1>2. Done(s, v, d) /\ Like(D, v.dcc[d], {"proxy"}) /\ v.dcc[d].proxy = p
  BY ProxyToIs
<1> HIDE DEF v, t
<1>3. /\ Core(v) /\ d \in DOMAIN v.dcc /\ v.dcc[d].stat = "connecting"
      /\ v.dcc[d].iotag = D.iotag /\ v.dcc[d].wiotag = D.wiotag /\ DOMAIN v.dcc[d] = Fields
  BY <1>2 DEF Done, Only, Like, Fields
<1>4. "traverse" \in Callbacks /\ "traverse" # "none"
  BY DEF Callbacks
<1>5. CASE Step(p).do = "write"
  <2>1. /\ Done(v, t, d) /\ Like(v.dcc[d], t.dcc[d], {"wiotag"})
        /\ t.dcc[d].wiotag = "traverse"
    <3>1. CASE D.wiotag = "none"
      <4>1. v.dcc[d].wiotag = "none" /\ v.dcc[d].iotag # "traverse"
        BY <1>3, <1>5, <3>1
      <4>2. t = Watch(v, d, "wiotag", "traverse")
        BY <1>1, <1>5, <3>1
      <4> QED BY <1>3, <1>4, <4>1, <4>2, OutWatched
    <3>2. CASE D.wiotag = "traverse"
      <4>1. t = v
        BY <1>1, <1>5, <3>2
      <4> QED BY <1>3, <3>2, <4>1 DEF Done, Only, Others, Like
    <3> QED BY <1>5, <3>1, <3>2
  <2>2. t.dcc[d].iotag = "none" /\ t.dcc[d].stat = "connecting" /\ t.dcc[d].proxy = p
    BY <1>2, <1>3, <1>5, <2>1 DEF Like, Fields
  <2>3. TagsOk(t.dcc[d])
    BY <1>5, <2>1, <2>2 DEF TagsOk, ConnectingOk, Awaits, Dead
  <2> QED BY <1>2, <2>1, <2>3, DoneTwice DEF Rests, t
<1>6. CASE Step(p).do # "write"
  <2>1. /\ Done(v, t, d) /\ Like(v.dcc[d], t.dcc[d], {"iotag"})
        /\ t.dcc[d].iotag = "traverse"
    <3>1. CASE D.iotag = "none"
      <4>1. v.dcc[d].iotag = "none" /\ v.dcc[d].wiotag # "traverse"
        BY <1>3, <1>6, <3>1
      <4>2. t = Watch(v, d, "iotag", "traverse")
        BY <1>1, <1>6, <3>1
      <4> QED BY <1>3, <1>4, <4>1, <4>2, InWatched
    <3>2. CASE D.iotag = "traverse"
      <4>1. t = v
        BY <1>1, <1>6, <3>2
      <4> QED BY <1>3, <3>2, <4>1 DEF Done, Only, Others, Like
    <3> QED BY <1>6, <3>1, <3>2
  <2>2. t.dcc[d].wiotag = "none" /\ t.dcc[d].stat = "connecting" /\ t.dcc[d].proxy = p
    BY <1>2, <1>3, <1>6, <2>1 DEF Like, Fields
  <2>3. TagsOk(t.dcc[d])
    BY <1>6, <2>1, <2>2 DEF TagsOk, ConnectingOk, Awaits, Dead
  <2> QED BY <1>2, <2>1, <2>3, DoneTwice DEF Rests, t
<1> QED BY <1>5, <1>6

LEMMA ProxyConnectRests ==
    ASSUME NEW s, NEW d \in DOMAIN s.dcc, Core(s), s.dcc[d].stat = "connecting",
           s.dcc[d].wiotag = "none", s.dcc[d].proxy.kind \in Kinds, NEW ok \in BOOLEAN
    PROVE  Rests(s, dcc_proxy_connect(s, d, ok), d)
<1> DEFINE u == Unwatch(s, d, "iotag")
           p == NewProxy(s.dcc[d].proxy.kind)
           w == Watch(u, d, "wiotag", "traverse")
           t == dcc_proxy_connect(s, d, ok)
<1>1. t = IF ~ok THEN StatTo(u, d, "failed")
          ELSE IF p.kind = "wingate" THEN ProxyTo(w, d, p) ELSE Phase(u, d, p)
  BY DEF dcc_proxy_connect, StatTo, ProxyTo
<1>2. Done(s, u, d) /\ Like(s.dcc[d], u.dcc[d], {"iotag"}) /\ u.dcc[d].iotag = "none"
  BY BothUnwatched
<1>3. p.kind \in Kinds /\ p.phase = 1 /\ p.asked = <<>> /\ DOMAIN p = {"kind", "phase", "asked"}
  BY DEF NewProxy
<1> HIDE DEF u, p, t
<1>4. Talking(p)
  <2>1. Len(Phases[p.kind]) \in Nat \ {0}
    BY <1>3, PhasesProps
  <2>2. Said(Phases[p.kind], 0) = <<>>
    BY <2>1, SaidStep
  <2> QED BY <1>3, <2>1, <2>2 DEF Talking
<1>5. /\ Core(u) /\ d \in DOMAIN u.dcc /\ u.dcc[d].stat = "connecting"
      /\ u.dcc[d].wiotag = "none"
  BY <1>2 DEF Done, Only, Like, Fields
<1>6. CASE ~ok
  <2>1. /\ Done(u, StatTo(u, d, "failed"), d)
        /\ Like(u.dcc[d], StatTo(u, d, "failed").dcc[d], {"stat"})
        /\ StatTo(u, d, "failed").dcc[d].stat = "failed"
    BY <1>5, StatToIs
  <2>2. t = StatTo(u, d, "failed")
    BY <1>1, <1>6
  <2>3. TagsOk(t.dcc[d])
    BY <1>2, <1>5, <2>1, <2>2 DEF Like, Fields, TagsOk, DeadOk, Dead
  <2> QED BY <1>2, <2>1, <2>2, <2>3, DoneTwice DEF Rests, t
<1>7. CASE ok /\ p.kind = "wingate"
  <2>1. "traverse" \in Callbacks /\ u.dcc[d].iotag # "traverse"
    BY <1>2 DEF Callbacks
  <2>2. /\ Done(u, w, d) /\ Like(u.dcc[d], w.dcc[d], {"wiotag"}) /\ w.dcc[d].wiotag = "traverse"
    BY <1>5, <2>1, OutWatched
  <2> HIDE DEF w
  <2>3. Core(w) /\ d \in DOMAIN w.dcc
    BY <1>5, <2>2 DEF Done, Only
  <2>4. t = ProxyTo(w, d, p)
    BY <1>1, <1>7
  <2>5. Done(w, t, d) /\ Like(w.dcc[d], t.dcc[d], {"proxy"}) /\ t.dcc[d].proxy = p
    BY <1>3, <2>3, <2>4, ProxyToIs
  <2>6. t.dcc[d].wiotag = "traverse" /\ t.dcc[d].iotag = "none" /\ t.dcc[d].stat = "connecting"
    BY <1>2, <1>5, <2>2, <2>5 DEF Like, Fields
  <2>7. TagsOk(t.dcc[d])
    BY <1>4, <1>7, <2>5, <2>6 DEF TagsOk, ConnectingOk, Awaits, Dead
  <2> QED BY <1>2, <2>2, <2>5, <2>7, DoneTwice DEF Rests, t
<1>8. CASE ok /\ p.kind # "wingate"
  <2>1. Rests(u, Phase(u, d, p), d)
    BY <1>2, <1>3, <1>4, <1>5, <1>8, PhaseRests
  <2>2. t = Phase(u, d, p)
    BY <1>1, <1>8
  <2> QED BY <1>2, <2>1, <2>2, RestsTwice DEF t
<1> QED BY <1>6, <1>7, <1>8

LEMMA TraverseRests ==
    ASSUME NEW s, NEW d \in DOMAIN s.dcc, Core(s), TagsOk(s.dcc[d]),
           s.dcc[d].iotag = "traverse" \/ s.dcc[d].wiotag = "traverse",
           NEW answer \in {"yes", "no", "broken"}, s.dcc[d].stat = "failed" => answer = "broken",
           NEW ok \in BOOLEAN, NEW fast \in BOOLEAN, NEW n \in Nat, NEW then,
           s.dcc[d].type = "send" /\ ok => n <= Size - s.dcc[d].pos
    PROVE  Rests(s, dcc_proxy_traverse(s, d, answer, ok, fast, n, then), d)
<1> DEFINE D == s.dcc[d]
           p == D.proxy
           tag == IF Step(p).do = "write" THEN "wiotag" ELSE "iotag"
           q == Advanced(p)
           stays == ~IsLast(p) /\ Step(q).do = Step(p).do
           last == IF p.kind = "wingate" THEN "wiotag" ELSE tag
           u == IF stays THEN s ELSE Unwatch(s, d, last)
           t == dcc_proxy_traverse(s, d, answer, ok, fast, n, then)
<1>1. t = IF answer \in {"no", "broken"} THEN StatTo(Unwatch(s, d, tag), d, "failed")
          ELSE IF IsLast(p)
          THEN dcc_connect_finished(ProxyTo(u, d, q), d, ok, fast, n, then)
          ELSE Phase(u, d, q)
  BY DEF dcc_proxy_traverse, StatTo, ProxyTo
<1>2. IsDcc(D) /\ D.stat \in Live \cup Dead /\ TagsOk(D)
      /\ (D.iotag = "traverse" \/ D.wiotag = "traverse") /\ (D.stat = "failed" => answer = "broken")
      /\ (D.type \in {"send", "recv"} \cup Chats)
  BY EntryIs DEF IsDcc
<1>3. tag \in {"iotag", "wiotag"} /\ last = Awaits(p)
  BY DEF Awaits
<1> HIDE DEF t, u, stays
<1>4. \/ D.stat = "connecting" /\ Talking(p) /\ ConnectingOk(D)
      \/ D.stat = "failed" /\ DeadOk(D) /\ D.wiotag = "traverse"
  <2> HIDE DEF p, D
  <2>1. D.stat # "queued"
    BY <1>2 DEF TagsOk, QueuedOk
  <2>2. D.stat # "active"
    BY <1>2 DEF TagsOk, ActiveOk
  <2>3. D.stat = "connecting" => ConnectingOk(D) /\ Talking(D.proxy)
    BY <1>2 DEF TagsOk, ConnectingOk
  <2>4. D.stat \in Dead => D.stat = "failed" /\ DeadOk(D) /\ D.wiotag = "traverse"
    BY <1>2 DEF TagsOk, DeadOk
  <2> QED BY <1>2, <2>1, <2>2, <2>3, <2>4 DEF Live, p
<1>5. DOMAIN p = {"kind", "phase", "asked"}
  BY <1>2 DEF IsDcc
<1>6. CASE answer \in {"no", "broken"}
  <2> DEFINE v == Unwatch(s, d, tag)
             f == StatTo(v, d, "failed")
  <2>1. Done(s, v, d) /\ Like(D, v.dcc[d], {tag}) /\ v.dcc[d][tag] = "none"
    <3>1. tag \in Tags
      BY <1>3 DEF Tags
    <3> HIDE DEF tag
    <3> QED BY <3>1, Unwatched
  <2>2. D.iotag = "none" \/ (tag = "iotag" /\ D.wiotag = "none")
    BY <1>4 DEF ConnectingOk, DeadOk, Awaits
  <2>3. D.wiotag = "none" \/ tag = "wiotag" \/ (D.wiotag = "traverse" /\ p.kind = "wingate")
    BY <1>4 DEF ConnectingOk, DeadOk, Awaits
  <2>4. v.dcc[d].iotag = "none" /\ v.dcc[d].stat = D.stat /\ v.dcc[d].proxy = p
        /\ (v.dcc[d].wiotag = "none" \/ (v.dcc[d].wiotag = "traverse" /\ p.kind = "wingate"))
    <3>1. CASE tag = "iotag"
      BY <2>1, <2>3, <3>1 DEF Like, Fields
    <3>2. CASE tag = "wiotag"
      BY <2>1, <2>2, <3>2 DEF Like, Fields
    <3> QED BY <1>3, <3>1, <3>2
  <2> HIDE DEF v
  <2>5. Core(v) /\ d \in DOMAIN v.dcc /\ v.dcc[d].stat # "active"
    BY <1>4, <2>1, <2>4 DEF Done, Only
  <2>6. /\ Done(v, f, d) /\ Like(v.dcc[d], f.dcc[d], {"stat"}) /\ f.dcc[d].stat = "failed"
    <3> HIDE DEF D, p
    <3> QED BY <2>5, StatToIs
  <2>7. t = f
    BY <1>1, <1>6 DEF v
  <2> HIDE DEF f
  <2>8. TagsOk(f.dcc[d])
    BY <2>4, <2>6 DEF Like, Fields, TagsOk, DeadOk, Dead
  <2> QED BY <2>1, <2>6, <2>7, <2>8, DoneTwice DEF Rests, t
<1>7. ASSUME answer \notin {"no", "broken"} PROVE D.stat = "connecting" /\ Talking(p) /\ ConnectingOk(D)
  BY <1>2, <1>4, <1>7
<1>8. ASSUME answer \notin {"no", "broken"}
      PROVE  \/ D.iotag = "traverse" /\ D.wiotag = "none" /\ Awaits(p) = "iotag"
             \/ D.wiotag = "traverse" /\ D.iotag = "none" /\ Awaits(p) = "wiotag"
  <2>1. ConnectingOk(D) /\ (D.iotag = "traverse" \/ D.wiotag = "traverse") /\ p = D.proxy
    BY <1>2, <1>7, <1>8
  <2>2. Awaits(p) \in {"iotag", "wiotag"}
    BY DEF Awaits
  <2> HIDE DEF D, p
  <2> QED BY <2>1, <2>2 DEF ConnectingOk
<1>9. ASSUME answer \notin {"no", "broken"}
      PROVE  /\ Done(s, Unwatch(s, d, last), d)
             /\ Like(D, Unwatch(s, d, last).dcc[d], {last})
             /\ Unwatch(s, d, last).dcc[d].iotag = "none"
             /\ Unwatch(s, d, last).dcc[d].wiotag = "none"
  <2> DEFINE v == Unwatch(s, d, last)
  <2>1. last \in Tags
    BY <1>3 DEF Tags
  <2>2. Done(s, v, d) /\ Like(D, v.dcc[d], {last}) /\ v.dcc[d][last] = "none"
    <3> HIDE DEF last
    <3> QED BY <2>1, Unwatched
  <2> HIDE DEF v, D, p
  <2>3. CASE last = "iotag"
    <3>1. D.wiotag = "none"
      BY <1>3, <1>8, <1>9, <2>3
    <3> HIDE DEF last
    <3> QED BY <2>2, <2>3, <3>1 DEF Like, Fields, v
  <2>4. CASE last = "wiotag"
    <3>1. D.iotag = "none"
      BY <1>3, <1>8, <1>9, <2>4
    <3> HIDE DEF last
    <3> QED BY <2>2, <2>4, <3>1 DEF Like, Fields, v
  <2> QED BY <2>1, <2>3, <2>4 DEF Tags
<1>10. ASSUME Talking(p)
       PROVE  /\ DOMAIN q = {"kind", "phase", "asked"} /\ q.kind = p.kind
              /\ q.phase = p.phase + 1 /\ q.asked = Said(Phases[p.kind], p.phase)
              /\ p.kind \in Kinds /\ p.phase \in 1..Len(Phases[p.kind])
              /\ Len(Phases[p.kind]) \in Nat
  <2>1. p.kind \in Kinds /\ p.phase \in 1..Len(Phases[p.kind])
    BY <1>10 DEF Talking
  <2>2. Len(Phases[p.kind]) \in Nat
    BY <2>1, PhasesProps
  <2> HIDE DEF p
  <2> QED BY <1>5, <1>10, <2>1, <2>2, AdvancedProps
<1> HIDE DEF q
<1>11. CASE answer \notin {"no", "broken"} /\ IsLast(p)
  <2> DEFINE v == Unwatch(s, d, last)
             y == ProxyTo(v, d, q)
  <2>1. t = dcc_connect_finished(y, d, ok, fast, n, then)
    <3>1. u = v
      BY <1>11 DEF u, stays
    <3> QED BY <1>1, <1>11, <3>1
  <2>2. Done(s, v, d) /\ Like(D, v.dcc[d], {last}) /\ v.dcc[d].iotag = "none" /\ v.dcc[d].wiotag = "none"
    BY <1>9, <1>11
  <2>3. D.stat = "connecting" /\ Talking(p)
    BY <1>7, <1>11
  <2>4. last # "stat" /\ last # "type" /\ last # "pos"
    BY <1>3
  <2> HIDE DEF v, last
  <2>5. /\ Core(v) /\ d \in DOMAIN v.dcc /\ v.dcc[d].stat = "connecting"
        /\ v.dcc[d].type = D.type /\ v.dcc[d].pos = D.pos
    BY <2>2, <2>3, <2>4 DEF Done, Only, Like, Fields
  <2>6. DOMAIN q = {"kind", "phase", "asked"}
    BY <1>10, <2>3
  <2>7. Done(v, y, d) /\ Like(v.dcc[d], y.dcc[d], {"proxy"}) /\ y.dcc[d].proxy = q
    BY <2>5, <2>6, ProxyToIs
  <2> HIDE DEF y
  <2>8. Heard(q)
    <3>1. p.phase = Len(Phases[p.kind])
      BY <1>11 DEF IsLast
    <3>2. Asked(Phases[p.kind]) = Said(Phases[p.kind], Len(Phases[p.kind]))
      BY <1>10, <2>3, SaidStep
    <3>3. p.kind # "wingate" => Phases[p.kind] = Traverse[p.kind]
      BY <1>10, <2>3, PhasesProps
    <3> HIDE DEF p
    <3> QED BY <1>10, <2>3, <3>1, <3>2, <3>3 DEF Heard
  <2>9. /\ Core(y) /\ d \in DOMAIN y.dcc /\ y.dcc[d].stat = "connecting"
        /\ y.dcc[d].wiotag = "none" /\ Heard(y.dcc[d].proxy)
        /\ (y.dcc[d].type = "send" /\ ok => n <= Size - y.dcc[d].pos)
    BY <2>2, <2>5, <2>7, <2>8 DEF Done, Only, Like, Fields
  <2>10. Rests(y, dcc_connect_finished(y, d, ok, fast, n, then), d)
    BY <2>9, FinishedRests
  <2>11. Done(s, y, d)
    BY <2>2, <2>7, DoneTwice
  <2> QED BY <2>1, <2>10, <2>11, RestsTwice DEF t
<1>12. CASE answer \notin {"no", "broken"} /\ ~IsLast(p)
  <2>1. t = Phase(u, d, q)
    BY <1>1, <1>12
  <2>2. D.stat = "connecting" /\ Talking(p)
    BY <1>7, <1>12
  <2>3. Talking(q)
    <3>1. p.phase # Len(Phases[p.kind])
      BY <1>12 DEF IsLast
    <3> HIDE DEF p
    <3>2. (p.phase + 1) - 1 = p.phase /\ p.phase + 1 \in 1..Len(Phases[p.kind])
      BY <1>10, <2>2, <3>1
    <3> QED BY <1>10, <2>2, <3>2 DEF Talking
  <2>4. p.kind # "wingate"
    <3> DEFINE L == Len(Phases[p.kind])
    <3>1. p.kind = "wingate" => L = 1
      BY <1>10, <2>2, PhasesProps
    <3>2. p.phase # L /\ p.phase \in 1..L
      BY <1>10, <1>12, <2>2 DEF IsLast
    <3> HIDE DEF p, L
    <3>3. L # 1
      BY <3>2
    <3> QED BY <3>1, <3>3
  <2>5. Awaits(p) = tag
    BY <2>4 DEF Awaits
  <2>6. /\ Core(u) /\ d \in DOMAIN u.dcc /\ Done(s, u, d) /\ u.dcc[d].stat = "connecting"
        /\ (Step(q).do = "write" => u.dcc[d].wiotag \in {"none", "traverse"} /\ u.dcc[d].iotag = "none")
        /\ (Step(q).do # "write" => u.dcc[d].iotag \in {"none", "traverse"} /\ u.dcc[d].wiotag = "none")
    <3>1. CASE stays
      <4>1. u = s /\ Step(q).do = Step(p).do
        BY <3>1 DEF u, stays
      <4>2. Core(s) /\ d \in DOMAIN s.dcc /\ Done(s, s, d)
        BY DEF Done, Only, Others
      <4>3. /\ (Step(q).do = "write" => tag = "wiotag") /\ (Step(q).do # "write" => tag = "iotag")
        BY <4>1
      <4>4. \/ D.iotag = "traverse" /\ D.wiotag = "none" /\ tag = "iotag"
            \/ D.wiotag = "traverse" /\ D.iotag = "none" /\ tag = "wiotag"
        BY <1>8, <1>12, <2>5
      <4> HIDE DEF tag
      <4> QED BY <2>2, <4>1, <4>2, <4>3, <4>4
    <3>2. CASE ~stays
      <4> DEFINE v == Unwatch(s, d, last)
      <4>1. u = v
        BY <3>2 DEF u
      <4>2. Done(s, v, d) /\ Like(D, v.dcc[d], {last}) /\ v.dcc[d].iotag = "none" /\ v.dcc[d].wiotag = "none"
        BY <1>9, <1>12
      <4>3. last # "stat"
        BY <1>3
      <4> HIDE DEF v, last
      <4> QED BY <2>2, <4>1, <4>2, <4>3 DEF Done, Only, Like, Fields
    <3> QED BY <3>1, <3>2
  <2>7. q.kind # "wingate" /\ DOMAIN q = {"kind", "phase", "asked"}
    BY <1>10, <2>2, <2>4
  <2>8. Rests(u, Phase(u, d, q), d)
    <3> HIDE DEF D, p
    <3> QED BY <2>3, <2>6, <2>7, PhaseRests
  <2> QED BY <2>1, <2>6, <2>8, RestsTwice DEF t
<1> QED BY <1>6, <1>11, <1>12

-----------------------------------------------------------------------------
(* Between the handlers.                                                   *)

Inv(s) == Core(s) /\ \A d \in DOMAIN s.dcc : TagsOk(s.dcc[d])

\* What a handler makes of the state.
Keep(s, t) == Inv(t) /\ DOMAIN t.dcc \subseteq DOMAIN s.dcc

LEMMA InvRests ==
    ASSUME NEW s, NEW t, NEW d, Inv(s), Rests(s, t, d)
    PROVE  Keep(s, t) /\ DOMAIN t.dcc = DOMAIN s.dcc
BY DEF Keep, Inv, Rests, Done, Only, Others

LEMMA InvDestroyed ==
    ASSUME NEW s, NEW d \in DOMAIN s.dcc, Inv(s)
    PROVE  /\ Keep(s, Destroy(s, d)) /\ DOMAIN Destroy(s, d).dcc = DOMAIN s.dcc \ {d}
           /\ \A e \in DOMAIN s.dcc \ {d} : Destroy(s, d).dcc[e] = s.dcc[e]
<1> DEFINE t == Destroy(s, d)
<1>1. Core(t) /\ DOMAIN t.dcc = DOMAIN s.dcc \ {d} /\ Others(s, t, d)
  BY Destroyed DEF Inv
<1> HIDE DEF t
<1>2. Keep(s, t) /\ \A e \in DOMAIN s.dcc \ {d} : t.dcc[e] = s.dcc[e]
  BY <1>1 DEF Keep, Inv, Others
<1> QED BY <1>1, <1>2 DEF t

\* An entry that may be put into the list, as d.
Fresh(s, d, D) ==
    /\ d \in Dccs /\ d \notin DOMAIN s.dcc
    /\ IsDcc(D) /\ EntryOk(D) /\ D.stat = "queued" /\ D.iotag = "none" /\ D.wiotag = "none"
    /\ D.proxy.kind = "none"
    /\ D.type = "send" /\ D.passive = TRUE => D.port = FALSE
    /\ ~Mixed => Fits(s, d, D)

LEMMA InvCreated ==
    ASSUME NEW s, NEW d, NEW D, Inv(s), Fresh(s, d, D)
    PROVE  /\ Inv(new_dcc(s, d, D)) /\ DOMAIN new_dcc(s, d, D).dcc = DOMAIN s.dcc \cup {d}
           /\ new_dcc(s, d, D).dcc[d] = D /\ new_dcc(s, d, D).disk = s.disk
           /\ \A e \in DOMAIN s.dcc : new_dcc(s, d, D).dcc[e] = s.dcc[e]
<1> DEFINE t == new_dcc(s, d, D)
<1>1. /\ Core(t) /\ DOMAIN t.dcc = DOMAIN s.dcc \cup {d} /\ Others(s, t, d)
      /\ t.dcc[d] = D /\ t.disk = s.disk
  BY Created DEF Inv, Fresh
<1> HIDE DEF t
<1>2. TagsOk(D)
  BY DEF Fresh, TagsOk, QueuedOk, Dead
<1>3. \A e \in DOMAIN s.dcc : t.dcc[e] = s.dcc[e]
  BY <1>1 DEF Others, Fresh
<1>4. Inv(t)
  BY <1>1, <1>2, <1>3 DEF Inv
<1> QED BY <1>1, <1>3, <1>4 DEF t

\* What a callback finds.
Found(D, cb) ==
    /\ D.iotag = cb \/ D.wiotag = cb
    /\ cb = "read" => D.type = "recv" /\ D.stat = "active"
    /\ cb = "chat" => D.type \in Chats /\ D.stat = "active"
    /\ cb \in {"data", "ack"} => D.type = "send" /\ D.stat = "active"
    /\ cb = "connected" =>
          D.stat = "connecting" /\ D.wiotag = "none" /\ D.proxy.kind = "none"
    /\ cb = "accept" => /\ D.stat \in {"queued", "connecting"} /\ D.wiotag = "none"
                        /\ D.proxy.kind = "none"
                        /\ D.type = "recv" => D.stat = "connecting"
    /\ cb = "proxy_connect" =>
          D.stat = "connecting" /\ D.wiotag = "none" /\ D.proxy.kind \in Kinds

LEMMA Called ==
    ASSUME NEW s, Inv(s), NEW d, NEW cb \in Callbacks, <<d, cb>> \in s.sources
    PROVE  /\ d \in DOMAIN s.dcc /\ Core(s) /\ TagsOk(s.dcc[d])
           /\ IsDcc(s.dcc[d]) /\ EntryOk(s.dcc[d]) /\ Found(s.dcc[d], cb)
<1> DEFINE D == s.dcc[d]
<1>1. d \in DOMAIN s.dcc /\ (D.iotag = cb \/ D.wiotag = cb) /\ cb # "none"
  <2>1. Owned(s) /\ d \in Dccs
    BY DEF Inv, Core, IsState, Owned
  <2> QED BY <2>1 DEF Owned, Callbacks
<1>2. Core(s) /\ TagsOk(D) /\ IsDcc(D) /\ EntryOk(D)
  BY <1>1, EntryIs DEF Inv
<1>3. D.stat \in Live \cup Dead /\ D.type \in {"send", "recv"} \cup Chats
  BY <1>2 DEF IsDcc
<1> HIDE DEF D
<1>4. Found(D, cb)
  <2>1. CASE D.stat = "queued"
    BY <1>1, <1>2, <2>1 DEF TagsOk, QueuedOk, Found, Chats
  <2>2. CASE D.stat = "connecting"
    <3>1. ConnectingOk(D) /\ (Awaits(D.proxy) = "iotag" \/ Awaits(D.proxy) = "wiotag")
      BY <1>2, <2>2 DEF TagsOk, Awaits
    <3> QED BY <1>1, <2>2, <3>1 DEF ConnectingOk, Found
  <2>3. CASE D.stat = "active"
    BY <1>1, <1>2, <1>3, <2>3 DEF TagsOk, ActiveOk, Chats, Found
  <2>4. CASE D.stat \in Dead
    BY <1>1, <1>2, <2>4 DEF TagsOk, DeadOk, Found
  <2> QED BY <1>3, <2>1, <2>2, <2>3, <2>4 DEF Live
<1> QED BY <1>1, <1>2, <1>4 DEF D

-----------------------------------------------------------------------------
(* How much of a file there is.                                            *)

LEMMA AmountsPut ==
    ASSUME NEW s, NEW t, NEW d \in DOMAIN s.dcc, NEW E, Core(s), Sets(s, t, d, E), IsDcc(E),
           Like(s.dcc[d], E, {"pos", "ack", "peer", "resumable"}), s.dcc[d].type # "recv",
           ~Mixed => SendOk(E)
    PROVE  Done(s, t, d) /\ t.dcc[d] = E /\ (TagsOk(s.dcc[d]) => TagsOk(E))
<1> DEFINE D == s.dcc[d]
<1>1. IsDcc(D) /\ EntryOk(D)
  BY EntryIs
<1>2. /\ E.type = D.type /\ E.passive = D.passive /\ E.port = D.port
      /\ E.fp = D.fp /\ E.stat = D.stat /\ E.resume_sent = D.resume_sent /\ E.fast = D.fast
      /\ E.cps = D.cps /\ E.proxy = D.proxy /\ E.iotag = D.iotag /\ E.wiotag = D.wiotag
  BY DEF Like, Fields
<1>3. Fits(s, d, E)
  BY <1>2, NotRecvFits
<1> HIDE DEF D
<1>4. EntryOk(E)
  BY <1>1, <1>2 DEF EntryOk
<1>5. \A x \in Directions : Weight(E, x) = Weight(D, x)
  BY <1>2 DEF Weight, Sum
<1>6. E.iotag = s.dcc[d].iotag /\ E.wiotag = s.dcc[d].wiotag
      /\ (\A x \in Directions : Weight(E, x) = Weight(s.dcc[d], x))
  BY <1>2, <1>5 DEF D
<1>7. Done(s, t, d)
  BY <1>3, <1>4, <1>6, Put
<1>8. TagsOk(D) => TagsOk(E)
  BY <1>2 DEF TagsOk, QueuedOk, ConnectingOk, ActiveOk, DeadOk
<1> QED BY <1>7, <1>8 DEF Sets, D

\* The same of a download that has not begun, and may be connected.
LEMMA WaitPut ==
    ASSUME NEW s, NEW t, NEW d \in DOMAIN s.dcc, NEW E, Core(s), Sets(s, t, d, E), IsDcc(E),
           Like(s.dcc[d], E, {"pos", "ack", "peer", "resumable", "resume_sent", "stat"}),
           s.dcc[d].type = "recv", s.dcc[d].stat \in {"queued", "connecting"},
           E.stat \in {"queued", "connecting", "failed"},
           ~Mixed => /\ E.pos <= Size /\ E.ack <= Size /\ E.peer <= Size
                     /\ E.stat # "failed" => WaitOk(s.disk, E)
                     /\ Claims(E) => \/ Claims(s.dcc[d])
                                     \/ \A e \in DOMAIN s.dcc \ {d} :
                                           Claims(s.dcc[e]) => s.dcc[e].dest # E.dest
    PROVE  Done(s, t, d) /\ t.dcc[d] = E
<1> DEFINE D == s.dcc[d]
<1>1. IsDcc(D) /\ EntryOk(D) /\ (~Mixed => FilesOk(s) /\ RecvOk(s.disk, d, D))
  BY EntryIs
<1>2. /\ E.type = D.type /\ E.file = D.file /\ E.dest = D.dest /\ E.passive = D.passive
      /\ E.port = D.port /\ E.fp = D.fp /\ E.fast = D.fast
      /\ E.cps = D.cps /\ E.iotag = D.iotag /\ E.wiotag = D.wiotag
  BY DEF Like, Fields
<1>3. D.type = "recv" /\ D.stat \in {"queued", "connecting"} /\ D.fp \in BOOLEAN
  BY <1>1 DEF IsDcc
<1>4. ASSUME ~Mixed PROVE Fits(s, d, E)
  <2>1. D.fp = FALSE /\ D.file \in Files /\ D.dest \in {D.file, d} /\ (D.port = FALSE => D.passive = TRUE)
    BY <1>1, <1>3, <1>4 DEF RecvOk, OpenOk, Live
  <2>2. RecvOk(s.disk, d, E)
    BY <1>2, <1>4, <2>1 DEF RecvOk, Live
  <2>3. Claims(E) => \A e \in DOMAIN s.dcc \ {d} : Claims(s.dcc[e]) => s.dcc[e].dest # E.dest
    BY <1>1, <1>2, <1>4 DEF FilesOk, Apart
  <2>4. Passive(E) => \A e \in DOMAIN s.dcc \ {d} : ~Passive(s.dcc[e])
    BY <1>1, <1>2, <1>4 DEF FilesOk, Passive
  <2> QED BY <2>2, <2>3, <2>4 DEF Fits
<1> HIDE DEF D
<1>5. EntryOk(E)
  BY <1>1, <1>2, <1>3 DEF EntryOk, SendOk, Chats
<1>6. \A x \in Directions : Weight(E, x) = Weight(D, x)
  BY <1>3 DEF Weight
<1>7. E.iotag = s.dcc[d].iotag /\ E.wiotag = s.dcc[d].wiotag
      /\ (\A x \in Directions : Weight(E, x) = Weight(s.dcc[d], x))
  BY <1>2, <1>6 DEF D
<1>8. Done(s, t, d)
  BY <1>4, <1>5, <1>7, Put
<1> QED BY <1>8 DEF Sets

-----------------------------------------------------------------------------
(* Offers, and what is made of them.                                       *)

LEMMA ListedIs ==
    ASSUME NEW s, Core(s)
    PROVE  ToSet(s.list) = DOMAIN s.dcc /\ DOMAIN s.dcc \subseteq Dccs
BY DEF Core, IsState, ListOk, ToSet

\* A connection that waits for the user or the peer is made.
LEMMA ConnectKeeps ==
    ASSUME NEW s, NEW d \in DOMAIN s.dcc, Core(s), TagsOk(s.dcc[d]), NEW ok \in BOOLEAN,
           NEW kind \in ProxyKinds, s.dcc[d].stat \in {"queued", "connecting"},
           s.dcc[d].type \in {"recv", "chatrecv"} \/ s.dcc[d].passive = TRUE,
           ~Mixed /\ s.dcc[d].type = "recv" /\ s.dcc[d].resumable > 0
              => s.dcc[d].peer = s.dcc[d].resumable
    PROVE  Rests(s, dcc_connect(s, d, ok, kind), d)
<1> DEFINE D == s.dcc[d]
<1>1. IsDcc(D) /\ DOMAIN s = Parts
  BY EntryIs
<1>2. CASE D.stat = "connecting"
  BY <1>2 DEF dcc_connect, Rests, Done, Only, Others
<1>3. CASE D.stat = "queued"
  <2>1. DOMAIN D = Fields
    BY <1>1 DEF IsDcc
  <2>2. D.iotag = "none" /\ D.wiotag = "none" /\ D.proxy.kind = "none"
    <3>1. QueuedOk(D) /\ (D.type \in {"recv", "chatrecv"} \/ D.passive = TRUE)
      BY <1>3 DEF TagsOk
    <3> HIDE DEF D
    <3> QED BY <3>1 DEF QueuedOk
  <2>3. s.dcc[d].stat # "active" /\ s.dcc[d].stat \in {"queued", "connecting"}
    BY <1>3
  <2>4. Done(s, StatTo(s, d, "connecting"), d) /\ Done(s, StatTo(s, d, "failed"), d)
    BY <2>3, StatToIs
  <2> QED BY <1>1, <1>3, <2>1, <2>2, <2>4, ConnectRests
<1> QED BY <1>2, <1>3

\* A download is got from its start.
LEMMA RestartRests ==
    ASSUME NEW s, NEW z, NEW d \in DOMAIN s.dcc, NEW F, Core(s), TagsOk(s.dcc[d]),
           NEW ok \in BOOLEAN, NEW kind \in ProxyKinds,
           s.dcc[d].stat = "queued", s.dcc[d].type = "recv",
           Sets(s, z, d, F), IsDcc(F), Like(s.dcc[d], F, {"pos", "ack", "resumable"}),
           F.pos = 0, F.resumable = 0, F.ack \in {0, s.dcc[d].ack}
    PROVE  Rests(s, dcc_connect(z, d, ok, kind), d)
<1> DEFINE D == s.dcc[d]
<1>1. IsDcc(D) /\ EntryOk(D) /\ DOMAIN s = Parts /\ (~Mixed => FilesOk(s) /\ RecvOk(s.disk, d, D))
  BY EntryIs
<1>2. /\ F.type = D.type /\ F.file = D.file /\ F.dest = D.dest /\ F.passive = D.passive
      /\ F.port = D.port /\ F.fp = D.fp /\ F.peer = D.peer /\ F.resume_sent = D.resume_sent
      /\ F.stat = D.stat /\ F.proxy = D.proxy
      /\ F.iotag = D.iotag /\ F.wiotag = D.wiotag /\ DOMAIN F = Fields
  BY DEF Like, Fields
<1>3. D.type = "recv" /\ D.stat = "queued" /\ D.fp \in BOOLEAN /\ D.resume_sent \in Nat
      /\ F.pos = 0 /\ F.resumable = 0 /\ F.ack \in {0, D.ack} /\ Size \in Nat
  BY <1>1, DccAssumption DEF IsDcc
<1>4. ASSUME ~Mixed PROVE WaitOk(s.disk, D) /\ D.fp = FALSE /\ D.ack <= Size /\ D.peer <= Size
  <2> HIDE DEF D
  <2> QED BY <1>1, <1>3, <1>4 DEF RecvOk, OpenOk, EntryOk, SendOk, Live
<1>5. D.iotag = "none" /\ D.wiotag = "none" /\ D.proxy.kind = "none"
  <2>1. QueuedOk(D)
    BY <1>3 DEF TagsOk
  <2> HIDE DEF D
  <2> QED BY <1>3, <2>1 DEF QueuedOk
<1>6. ASSUME NEW stat \in {"connecting", "failed"} PROVE Done(s, StatTo(z, d, stat), d)
  <2> DEFINE E == [F EXCEPT !.stat = stat]
             t == StatTo(z, d, stat)
  <2>1. Sets(s, t, d, E)
    BY <1>1, <1>2 DEF Sets, Only, Others, Parts, StatTo
  <2>2. Like(F, E, {"stat"}) /\ E.stat = stat
    BY <1>2 DEF Like, Fields
  <2> HIDE DEF E, t
  <2>3. /\ E.dest = F.dest /\ E.file = F.file /\ E.pos = F.pos /\ E.resumable = F.resumable
        /\ E.peer = F.peer /\ E.resume_sent = F.resume_sent /\ E.fp = F.fp /\ E.ack = F.ack
        /\ E.type = F.type
    BY <2>2 DEF Like, Fields
  <2>4. IsDcc(E)
    BY <1>6, <2>2 DEF IsDcc, Like, Fields, Live, Dead
  <2>5. Like(D, E, {"pos", "ack", "peer", "resumable", "resume_sent", "stat"})
    BY <2>2 DEF Like, Fields
  <2> HIDE DEF D
  <2>6. ASSUME ~Mixed
        PROVE  /\ E.pos <= Size /\ E.ack <= Size /\ E.peer <= Size /\ WaitOk(s.disk, E)
               /\ (Claims(E) => Claims(D))
    <3>1. WaitOk(s.disk, E)
      BY <1>2, <1>3, <1>4, <1>6, <2>2, <2>3, <2>6 DEF WaitOk
    <3> QED BY <1>2, <1>3, <1>4, <2>3, <2>6, <3>1 DEF Claims, Live
  <2>7. D.stat \in {"queued", "connecting"} /\ E.stat \in {"queued", "connecting", "failed"}
    BY <1>3, <1>6, <2>2
  <2> QED BY <1>3, <2>1, <2>4, <2>5, <2>6, <2>7, WaitPut DEF D, t
<1>7. Done(s, StatTo(z, d, "connecting"), d) /\ Done(s, StatTo(z, d, "failed"), d)
  BY <1>6
<1>8. /\ d \in DOMAIN z.dcc /\ DOMAIN z = Parts /\ DOMAIN z.dcc[d] = Fields
      /\ z.dcc[d].stat = "queued" /\ z.dcc[d].iotag = "none" /\ z.dcc[d].wiotag = "none"
      /\ z.dcc[d].proxy.kind = "none"
  BY <1>2, <1>3, <1>5 DEF Sets, Only
<1> QED BY <1>7, <1>8, ConnectRests

\* A download that waits is got, or asked to be resumed.
LEMMA GetRests ==
    ASSUME NEW s, NEW d \in DOMAIN s.dcc, Core(s), TagsOk(s.dcc[d]), NEW autoresume \in BOOLEAN,
           NEW ok \in BOOLEAN, NEW kind \in ProxyKinds,
           s.dcc[d].stat = "queued", s.dcc[d].type = "recv"
    PROVE  Rests(s, dcc_get(s, d, autoresume, ok, kind), d)
<1> DEFINE D == s.dcc[d]
           z == [s EXCEPT !.dcc[d].resumable = 0, !.dcc[d].pos = 0]
           t == dcc_get(s, d, autoresume, ok, kind)
<1>1. t = IF autoresume /\ D.resumable > 0 THEN dcc_resume(s, d) ELSE dcc_connect(z, d, ok, kind)
  <2>1. s.dcc[d].stat = "queued" /\ s.dcc[d].type = "recv" /\ s.dcc[d].type # "chatsend"
        /\ ~(s.dcc[d].stat \in Dead)
    BY DEF Dead
  <2> QED BY <2>1 DEF dcc_get
<1>2. IsDcc(D) /\ EntryOk(D) /\ DOMAIN s = Parts /\ (~Mixed => FilesOk(s) /\ RecvOk(s.disk, d, D))
  BY EntryIs
<1> HIDE DEF t
<1>3. D.type = "recv" /\ D.stat = "queued" /\ D.fp \in BOOLEAN /\ D.resume_sent \in Nat
      /\ D.resumable \in Nat
  BY <1>2 DEF IsDcc
<1>4. CASE t = dcc_resume(s, d) /\ D.resumable > 0
  <2> DEFINE E == [D EXCEPT !.resume_sent = D.resumable]
             y == dcc_resume(s, d)
  <2>1. Sets(s, y, d, E)
    BY <1>2 DEF Sets, Only, Others, Parts, dcc_resume
  <2>2. Like(D, E, {"resume_sent"}) /\ E.resume_sent = D.resumable
    BY <1>2 DEF Like, IsDcc, Fields
  <2> HIDE DEF E, y
  <2>3. /\ E.dest = D.dest /\ E.file = D.file /\ E.pos = D.pos /\ E.resumable = D.resumable
        /\ E.peer = D.peer /\ E.fp = D.fp /\ E.ack = D.ack /\ E.type = D.type /\ E.stat = D.stat
    BY <2>2 DEF Like, Fields
  <2>4. IsDcc(E)
    BY <1>2, <1>3, <2>2 DEF IsDcc, Like, Fields
  <2>5. Like(s.dcc[d], E, {"pos", "ack", "peer", "resumable", "resume_sent", "stat"})
    BY <2>2 DEF Like, Fields
  <2>6. TagsOk(E)
    <3>1. TagsOk(D)
      OBVIOUS
    <3> HIDE DEF D
    <3> QED BY <2>2, <3>1 DEF Like, Fields, TagsOk, QueuedOk, ConnectingOk, ActiveOk, DeadOk
  <2> HIDE DEF D
  <2>7. ASSUME ~Mixed
        PROVE  /\ E.pos <= Size /\ E.ack <= Size /\ E.peer <= Size
               /\ (E.stat # "failed" => WaitOk(s.disk, E))
               /\ (Claims(E) => Claims(D))
    <3>1. WaitOk(s.disk, D) /\ SendOk(D) /\ D.fp = FALSE
      BY <1>2, <1>3, <2>7 DEF RecvOk, OpenOk, EntryOk, Live
    <3>2. WaitOk(s.disk, E)
      BY <1>3, <1>4, <2>2, <2>3, <3>1 DEF WaitOk
    <3> QED BY <1>3, <1>4, <2>3, <3>1, <3>2 DEF SendOk, Claims, Live
  <2>8. s.dcc[d].stat \in {"queued", "connecting"} /\ E.stat \in {"queued", "connecting", "failed"}
        /\ (~Mixed => /\ E.pos <= Size /\ E.ack <= Size /\ E.peer <= Size
                      /\ (E.stat # "failed" => WaitOk(s.disk, E))
                      /\ (Claims(E) => Claims(s.dcc[d])))
    BY <1>3, <2>3, <2>7 DEF D
  <2>9. Done(s, y, d) /\ y.dcc[d] = E
    BY <2>1, <2>4, <2>5, <2>8, WaitPut
  <2> QED BY <1>4, <2>6, <2>9 DEF Rests, t, y
<1>5. CASE t = dcc_connect(z, d, ok, kind)
  <2> DEFINE F == [D EXCEPT !.resumable = 0, !.pos = 0]
  <2>1. Sets(s, z, d, F)
    BY <1>2 DEF Sets, Only, Others, Parts, IsDcc, Fields
  <2>2. Like(D, F, {"pos", "ack", "resumable"}) /\ F.pos = 0 /\ F.resumable = 0 /\ F.ack = D.ack
    BY <1>2 DEF Like, IsDcc, Fields
  <2> HIDE DEF F, z
  <2>3. IsDcc(F)
    BY <1>2, <2>2 DEF IsDcc, Like, Fields
  <2> QED BY <1>5, <2>1, <2>2, <2>3, RestartRests DEF t
<1> QED BY <1>1, <1>4, <1>5

\* The part of the file that is there.
LEMMA ResumableRests ==
    ASSUME NEW s, NEW d \in DOMAIN s.dcc, Core(s), TagsOk(s.dcc[d]),
           s.dcc[d].type = "recv", s.dcc[d].stat = "queued", s.dcc[d].peer = 0,
           s.dcc[d].resume_sent = 0, s.dcc[d].ack = 0, s.dcc[d].dest \in Paths,
           ~Mixed => s.dcc[d].dest \in Files
    PROVE  /\ Rests(s, is_resumable(s, d), d) /\ is_resumable(s, d).dcc[d].type = "recv"
           /\ is_resumable(s, d).dcc[d].stat = "queued"
<1> DEFINE D == s.dcc[d]
           busy == \E e \in ToSet(s.list) : /\ s.dcc[e].type = "recv"
                                            /\ s.dcc[e].stat \in Live
                                            /\ is_same_file(s, d, e)
           n == IF s.disk[D.dest] = Absent \/ busy \/ Len(s.disk[D.dest]) >= Size THEN 0
                ELSE Len(s.disk[D.dest])
           t == is_resumable(s, d)
           E == [D EXCEPT !.resumable = n, !.pos = n]
<1>1. t = [s EXCEPT !.dcc[d].resumable = n, !.dcc[d].pos = n]
  BY DEF is_resumable
<1>2. IsDcc(D) /\ EntryOk(D) /\ DOMAIN s = Parts /\ (~Mixed => FilesOk(s) /\ RecvOk(s.disk, d, D))
  BY EntryIs
<1> HIDE DEF n, t
<1>3. Sets(s, t, d, E)
  BY <1>1, <1>2 DEF Sets, Only, Others, Parts, IsDcc, Fields
<1>4. Like(D, E, {"pos", "resumable"}) /\ E.pos = n /\ E.resumable = n
  BY <1>2 DEF Like, IsDcc, Fields
<1>5. D.type = "recv" /\ D.stat = "queued" /\ D.fp \in BOOLEAN /\ Size \in Nat
      /\ D.peer = 0 /\ D.resume_sent = 0 /\ D.ack = 0
  BY <1>2, DccAssumption DEF IsDcc
<1>6. n \in Nat /\ (n > 0 => /\ s.disk[D.dest] # Absent /\ ~busy /\ n < Size
                             /\ n = Len(s.disk[D.dest]))
  <2>1. s.disk[D.dest] \in Seq(Int)
    BY DEF Core, DiskOk
  <2> DEFINE q == s.disk[D.dest]
  <2>2. Len(q) \in Nat
    BY <2>1
  <2> HIDE DEF q
  <2>3. n = IF q = Absent \/ busy \/ Len(q) >= Size THEN 0 ELSE Len(q)
    BY DEF n, q
  <2> HIDE DEF busy
  <2>4. n \in Nat /\ (n > 0 => q # Absent /\ ~busy /\ n < Size /\ n = Len(q))
    BY <1>5, <2>2, <2>3
  <2> QED BY <2>4 DEF q
<1> HIDE DEF E
<1>7. IsDcc(E)
  BY <1>2, <1>4, <1>6 DEF IsDcc, Like, Fields
<1>8. /\ E.dest = D.dest /\ E.file = D.file /\ E.resume_sent = D.resume_sent
      /\ E.peer = D.peer /\ E.fp = D.fp /\ E.ack = D.ack /\ E.type = D.type /\ E.stat = D.stat
  BY <1>4 DEF Like, Fields
<1>9. TagsOk(E)
  <2>1. TagsOk(D)
    OBVIOUS
  <2> HIDE DEF D
  <2> QED BY <1>4, <2>1 DEF Like, Fields, TagsOk, QueuedOk, ConnectingOk, ActiveOk, DeadOk
<1>10. ASSUME ~Mixed
       PROVE  /\ E.pos <= Size /\ E.ack <= Size /\ E.peer <= Size
              /\ (E.stat # "failed" => WaitOk(s.disk, E))
              /\ (Claims(E) => \A e \in DOMAIN s.dcc \ {d} :
                                  Claims(s.dcc[e]) => s.dcc[e].dest # E.dest)
  <2>1. WaitOk(s.disk, D) /\ D.fp = FALSE /\ D.dest \in Files
    BY <1>2, <1>5, <1>10 DEF RecvOk, OpenOk, Live
  <2>2. n > 0 => Has(s.disk, D.dest, n)
    <3>1. SUFFICES ASSUME n > 0 PROVE Has(s.disk, D.dest, n)
      OBVIOUS
    <3>2. PICK m \in Nat : Has(s.disk, D.dest, m)
      BY <1>2, <1>6, <1>10, <2>1, <3>1 DEF FilesOk
    <3>3. m = n
      <4>1. s.disk[D.dest] = Blocks(0, m) /\ Len(Blocks(0, m)) = m
        BY <3>2, BlocksProps DEF Has
      <4> QED BY <1>6, <3>1, <4>1
    <3> QED BY <3>2, <3>3
  <2>3. E.pos <= Size /\ E.ack <= Size /\ E.peer <= Size
    <3> HIDE DEF D
    <3> QED BY <1>4, <1>5, <1>6, <1>8
  <2>4. WaitOk(s.disk, E)
    <3> HIDE DEF D
    <3> QED BY <1>4, <1>5, <1>6, <1>8, <2>1, <2>2 DEF WaitOk
  <2>5. ASSUME Claims(E), NEW e \in DOMAIN s.dcc \ {d}, Claims(s.dcc[e]) PROVE s.dcc[e].dest # E.dest
    <3>1. n > 0
      <4> HIDE DEF D
      <4> QED BY <1>4, <1>5, <1>6, <1>8, <2>1, <2>5 DEF Claims
    <3>2. e \in ToSet(s.list)
      BY ListedIs
    <3>3. ~is_same_file(s, d, e)
      BY <1>6, <2>5, <3>1, <3>2 DEF Claims
    <3> QED BY <1>8, <3>3 DEF is_same_file
  <2> QED BY <2>3, <2>4, <2>5
<1>11. Done(s, t, d) /\ t.dcc[d] = E
  <2>1. Like(s.dcc[d], E, {"pos", "ack", "peer", "resumable", "resume_sent", "stat"})
    BY <1>4 DEF Like
  <2>2. s.dcc[d].type = "recv" /\ s.dcc[d].stat \in {"queued", "connecting"}
        /\ E.stat \in {"queued", "connecting", "failed"}
    BY <1>5, <1>8
  <2> HIDE DEF D
  <2> QED BY <1>3, <1>7, <1>10, <2>1, <2>2, WaitPut
<1> QED BY <1>5, <1>8, <1>9, <1>11 DEF Rests, t

-----------------------------------------------------------------------------
(* The user's requests.                                                    *)

\* What is offered, and listens unless it is passive.
Offered(s, d, passive, ok) ==
    IF passive THEN s ELSE IF ok THEN Listening(s, d) ELSE Destroy(s, d)

LEMMA OfferedKeeps ==
    ASSUME NEW s, NEW d \in DOMAIN s.dcc, Inv(s), NEW passive \in BOOLEAN, NEW ok \in BOOLEAN,
           s.dcc[d].passive = passive, s.dcc[d].type \in {"send", "chatsend"},
           s.dcc[d].stat = "queued", s.dcc[d].iotag = "none", s.dcc[d].wiotag = "none",
           s.dcc[d].proxy.kind = "none"
    PROVE  Keep(s, Offered(s, d, passive, ok))
<1> DEFINE t == Listening(s, d)
<1>1. CASE passive
  BY <1>1 DEF Offered, Keep
<1>2. CASE ~passive /\ ok
  <2>1. Core(s)
    BY DEF Inv
  <2>2. /\ Done(s, t, d) /\ Like(s.dcc[d], t.dcc[d], {"iotag", "sok", "port"})
        /\ t.dcc[d].iotag = "accept"
    BY <2>1, ListeningProps
  <2>3. Offered(s, d, passive, ok) = t
    BY <1>2 DEF Offered
  <2> HIDE DEF t
  <2>4. TagsOk(t.dcc[d])
    BY <1>2, <2>2 DEF Like, Fields, TagsOk, QueuedOk, Dead
  <2> QED BY <2>2, <2>3, <2>4, InvRests DEF Rests
<1>3. CASE ~passive /\ ~ok
  BY <1>3, InvDestroyed DEF Offered
<1> QED BY <1>1, <1>2, <1>3

LEMMA NewFields ==
    /\ DOMAIN NewDcc = Fields /\ NewDcc.type = "send" /\ NewDcc.stat = "queued"
    /\ NewDcc.iotag = "none" /\ NewDcc.wiotag = "none" /\ NewDcc.fp = FALSE
    /\ NewDcc.passive = FALSE /\ NewDcc.port = FALSE /\ NewDcc.pos = 0 /\ NewDcc.ack = 0
    /\ NewDcc.resumable = 0 /\ NewDcc.resume_sent = 0 /\ NewDcc.fast = FALSE
    /\ NewDcc.throttled = FALSE /\ NewDcc.cps = 0 /\ NewDcc.peer = 0
    /\ NewDcc.proxy = NoProxy
BY DEF NewDcc, Fields

\* An entry as it is made.
Made == {"type", "fp", "file", "dest", "passive", "port"}

LEMMA EntryProps ==
    ASSUME NEW D, Like(NewDcc, D, Made), D.type \in {"send", "recv"} \cup Chats,
           D.fp \in BOOLEAN, D.passive \in BOOLEAN, D.port \in BOOLEAN,
           D.type # "send" => D.fp = FALSE
    PROVE  /\ IsDcc(D) /\ EntryOk(D) /\ D.stat = "queued" /\ D.iotag = "none"
           /\ D.wiotag = "none" /\ D.proxy.kind = "none"
           /\ D.pos = 0 /\ D.ack = 0 /\ D.peer = 0 /\ D.resumable = 0 /\ D.resume_sent = 0
<1>1. /\ D.stat = "queued" /\ D.iotag = "none" /\ D.wiotag = "none"
      /\ D.pos = 0 /\ D.ack = 0
      /\ D.resumable = 0 /\ D.resume_sent = 0 /\ D.fast = FALSE /\ D.throttled = FALSE
      /\ D.cps = 0 /\ D.peer = 0 /\ D.proxy = NoProxy /\ DOMAIN D = Fields
  BY NewFields DEF Like, Fields, Made
<1>2. D.proxy.kind = "none" /\ DOMAIN D.proxy = {"kind", "phase", "asked"}
  BY <1>1 DEF NoProxy
<1>3. D.stat \in Live \cup Dead
  BY <1>1 DEF Live
<1>4. IsDcc(D)
  <2>1. /\ D.pos \in Nat /\ D.ack \in Nat /\ D.peer \in Nat
        /\ D.resumable \in Nat /\ D.resume_sent \in Nat /\ D.cps \in Int
    BY <1>1
  <2>2. D.iotag \in Callbacks \cup {"none"} /\ D.wiotag \in Callbacks \cup {"none"}
    BY <1>1
  <2>3. D.fast \in BOOLEAN /\ D.throttled \in BOOLEAN
    <3>1. D.fast = FALSE /\ D.throttled = FALSE
      BY <1>1
    <3> QED BY <3>1, Zenon
  <2> QED BY <1>1, <1>2, <1>3, <2>1, <2>2, <2>3 DEF IsDcc
<1>5. EntryOk(D)
  BY <1>1, DccAssumption DEF EntryOk, SendOk, Chats
<1> QED BY <1>1, <1>2, <1>4, <1>5

\* What is true of the program between two handlers.
DccInv ==
    /\ Inv(st)
    /\ DOMAIN st.dcc \subseteq used
    /\ used \subseteq Dccs

\* The same of the state after a step.
DccNext ==
    /\ Inv(st')
    /\ DOMAIN st'.dcc \subseteq used'
    /\ used' \subseteq Dccs

LEMMA Kepts ==
    ASSUME DccInv, Keep(st, st'), Kept
    PROVE  DccNext
BY DEF DccInv, DccNext, Keep, Kept

LEMMA ListedEntry ==
    ASSUME DccInv
    PROVE  Listed = DOMAIN st.dcc /\ Core(st) /\ Inv(st)
BY ListedIs DEF DccInv, Inv, Listed

LEMMA Keeps_dcc_send ==
    ASSUME DccInv, dcc_send
    PROVE  DccNext
<1>1. PICK d \in New, f \in Files, passive \in BOOLEAN, ok \in BOOLEAN :
        /\ used' = used \cup {d}
        /\ st' = Offered(new_dcc(st, d, [NewDcc EXCEPT !.fp = TRUE, !.file = f,
                                                       !.passive = passive]), d, passive, ok)
  BY DEF dcc_send, Becomes, Offered
<1> DEFINE D == [NewDcc EXCEPT !.fp = TRUE, !.file = f, !.passive = passive]
           s == new_dcc(st, d, D)
<1>2. Like(NewDcc, D, Made) /\ D.type = "send" /\ D.fp = TRUE /\ D.passive = passive
      /\ D.port = FALSE
  BY NewFields DEF Like, Fields, Made
<1>3. st' = Offered(s, d, passive, ok)
  BY <1>1
<1> HIDE DEF D
<1>4. Inv(st) /\ d \in Dccs /\ d \notin DOMAIN st.dcc /\ DOMAIN st.dcc \subseteq used /\ used \subseteq Dccs
  BY DEF DccInv, New
<1>5. /\ IsDcc(D) /\ EntryOk(D) /\ D.stat = "queued" /\ D.iotag = "none" /\ D.wiotag = "none"
      /\ D.proxy.kind = "none" /\ D.type # "recv" /\ (~Mixed => Fits(st, d, D))
  BY <1>2, EntryProps, NotRecvFits
<1>6. Inv(s) /\ DOMAIN s.dcc = DOMAIN st.dcc \cup {d} /\ s.dcc[d] = D
  <2>1. Fresh(st, d, D)
    BY <1>2, <1>4, <1>5 DEF Fresh
  <2> QED BY <1>4, <2>1, InvCreated
<1> HIDE DEF s
<1>7. Keep(s, Offered(s, d, passive, ok))
  BY <1>2, <1>5, <1>6, OfferedKeeps
<1> QED BY <1>1, <1>3, <1>4, <1>6, <1>7 DEF Keep, DccNext

LEMMA Keeps_UserAbort ==
    ASSUME DccInv, UserAbort
    PROVE  DccNext
<1>1. PICK d \in Listed : st' = dcc_abort(st, d) /\ Kept
  BY DEF UserAbort, Becomes
<1>2. d \in DOMAIN st.dcc /\ Inv(st) /\ Core(st)
  BY ListedEntry
<1>3. CASE st.dcc[d].stat \in Live
  <2>1. "aborted" \in Dead /\ "aborted" # "done" /\ st' = dcc_close(st, d, "aborted")
    BY <1>1, <1>3 DEF Dead, dcc_abort
  <2>2. Rests(st, dcc_close(st, d, "aborted"), d)
    BY <1>2, <2>1, ClosedRests
  <2> QED BY <1>1, <1>2, <2>1, <2>2, InvRests, Kepts
<1>4. CASE st.dcc[d].stat \notin Live
  <2>1. st' = Destroy(st, d)
    BY <1>1, <1>4 DEF dcc_abort
  <2> QED BY <1>1, <1>2, <2>1, InvDestroyed, Kepts
<1> QED BY <1>3, <1>4

LEMMA Keeps_UserGet ==
    ASSUME DccInv, UserGet
    PROVE  DccNext
<1>1. PICK d \in Listed :
        /\ st.dcc[d].type = "recv" /\ Kept
        /\ \/ /\ st.dcc[d].stat = "queued"
              /\ \E autoresume, ok \in BOOLEAN, kind \in ProxyKinds :
                    st' = dcc_get(st, d, autoresume, ok, kind)
           \/ st.dcc[d].stat \in Dead /\ st' = dcc_get(st, d, FALSE, FALSE, "none")
  BY DEF UserGet, Becomes, First, Of, Listed, ToSet
<1>2. d \in DOMAIN st.dcc /\ Inv(st) /\ Core(st) /\ TagsOk(st.dcc[d]) /\ IsDcc(st.dcc[d])
  BY ListedEntry, EntryIs DEF Inv
<1>3. ASSUME st.dcc[d].stat = "queued",
             NEW autoresume \in BOOLEAN, NEW ok \in BOOLEAN, NEW kind \in ProxyKinds,
             st' = dcc_get(st, d, autoresume, ok, kind)
      PROVE  DccNext
  <2>1. Rests(st, dcc_get(st, d, autoresume, ok, kind), d)
    BY <1>1, <1>2, <1>3, GetRests
  <2> QED BY <1>1, <1>2, <1>3, <2>1, InvRests, Kepts
<1>4. CASE st.dcc[d].stat \in Dead /\ st' = dcc_get(st, d, FALSE, FALSE, "none")
  <2>1. st.dcc[d].stat # "queued"
    BY <1>4 DEF Dead
  <2>2. st' = Destroy(st, d)
    BY <1>4, <2>1 DEF dcc_get
  <2> QED BY <1>1, <1>2, <2>2, InvDestroyed, Kepts
<1> QED BY <1>1, <1>3, <1>4

LEMMA Keeps_dcc_get_nick ==
    ASSUME DccInv, dcc_get_nick
    PROVE  DccNext
<1>1. PICK ok \in BOOLEAN, kind \in ProxyKinds, d \in Listed :
        /\ st' = dcc_connect([st EXCEPT !.dcc[d].resumable = 0, !.dcc[d].pos = 0,
                                        !.dcc[d].ack = 0], d, ok, kind)
        /\ Kept /\ st.dcc[d].type = "recv" /\ st.dcc[d].stat = "queued"
  BY DEF dcc_get_nick, Becomes, First, Of, Listed, ToSet
<1>2. d \in DOMAIN st.dcc /\ Inv(st) /\ Core(st) /\ TagsOk(st.dcc[d])
  BY ListedEntry DEF Inv
<1> DEFINE D == st.dcc[d]
           z == [st EXCEPT !.dcc[d].resumable = 0, !.dcc[d].pos = 0, !.dcc[d].ack = 0]
           F == [D EXCEPT !.resumable = 0, !.pos = 0, !.ack = 0]
<1>3. IsDcc(D) /\ DOMAIN st = Parts
  BY <1>2, EntryIs
<1>4. Sets(st, z, d, F)
  BY <1>2, <1>3 DEF Sets, Only, Others, Parts, IsDcc, Fields
<1>5. Like(D, F, {"pos", "ack", "resumable"}) /\ F.pos = 0 /\ F.resumable = 0 /\ F.ack = 0
  BY <1>3 DEF Like, IsDcc, Fields
<1>6. st' = dcc_connect(z, d, ok, kind)
  BY <1>1
<1> HIDE DEF F, z
<1>7. IsDcc(F)
  BY <1>3, <1>5 DEF IsDcc, Like, Fields
<1>8. Rests(st, dcc_connect(z, d, ok, kind), d)
  BY <1>1, <1>2, <1>4, <1>5, <1>7, RestartRests
<1> QED BY <1>1, <1>2, <1>6, <1>8, InvRests, Kepts


LEMMA KeepTwice ==
    ASSUME NEW s, NEW t, NEW u, Keep(s, t), Keep(t, u)
    PROVE  Keep(s, u)
BY DEF Keep

\* An entry is made, and a handler goes on with it.
LEMMA Adds ==
    ASSUME DccInv, NEW s, Keep(st, s), NEW d \in New, NEW D, Fresh(s, d, D),
           Keep(new_dcc(s, d, D), st'), used' = used \cup {d}
    PROVE  DccNext
<1>1. DOMAIN new_dcc(s, d, D).dcc = DOMAIN s.dcc \cup {d}
  BY InvCreated DEF Keep
<1>2. DOMAIN st'.dcc \subseteq DOMAIN st.dcc \cup {d} /\ Inv(st')
  BY <1>1 DEF Keep
<1> QED BY <1>2 DEF DccInv, DccNext, New

LEMMA Keeps_dcc_chat ==
    ASSUME DccInv, dcc_chat
    PROVE  DccNext
<1> DEFINE mine == First(LAMBDA e : Of(e).type = "chatsend")
           theirs == First(LAMBDA e : Of(e).type = "chatrecv")
           s == IF \E e \in mine : Of(e).stat \in {"aborted", "failed"}
                THEN Destroy(st, CHOOSE e \in mine : TRUE) ELSE st
           D(passive) == [NewDcc EXCEPT !.type = "chatsend", !.passive = passive]
<1>1. \/ \E e \in theirs, ok \in BOOLEAN, kind \in ProxyKinds :
            /\ st' = CASE Of(e).stat = "queued" -> dcc_connect(s, e, ok, kind)
                       [] Of(e).stat \in {"failed", "aborted"} -> Destroy(s, e)
                       [] OTHER -> s
            /\ Kept
      \/ \E d \in New, passive, ok \in BOOLEAN :
            /\ used' = used \cup {d}
            /\ st' = Offered(new_dcc(s, d, D(passive)), d, passive, ok)
  BY DEF dcc_chat, Becomes, Offered
<1>2. /\ \A e \in mine : e \in Listed /\ st.dcc[e].type = "chatsend"
      /\ \A e \in theirs : e \in Listed /\ st.dcc[e].type = "chatrecv"
  BY DEF First, Of, Listed, ToSet
<1>3. Listed = DOMAIN st.dcc /\ Inv(st)
  BY ListedEntry
<1> HIDE DEF mine, theirs
<1>4. /\ Keep(st, s)
      /\ \A e \in theirs : e \in DOMAIN s.dcc /\ s.dcc[e] = st.dcc[e]
  <2>1. CASE \E e \in mine : Of(e).stat \in {"aborted", "failed"}
    <3> DEFINE m == CHOOSE e \in mine : TRUE
    <3>1. m \in mine
      BY <2>1
    <3>2. s = Destroy(st, m)
      BY <2>1
    <3> HIDE DEF m, s
    <3>3. m \in DOMAIN st.dcc /\ \A e \in theirs : e \in DOMAIN st.dcc \ {m}
      BY <1>2, <1>3, <3>1
    <3> QED BY <1>3, <3>2, <3>3, InvDestroyed
  <2>2. CASE ~\E e \in mine : Of(e).stat \in {"aborted", "failed"}
    <3>1. s = st
      BY <2>2
    <3> QED BY <1>2, <1>3, <3>1 DEF Keep
  <2> QED BY <2>1, <2>2
<1> HIDE DEF s
<1>5. ASSUME NEW e \in theirs, NEW ok \in BOOLEAN, NEW kind \in ProxyKinds, Kept,
             st' = CASE Of(e).stat = "queued" -> dcc_connect(s, e, ok, kind)
                     [] Of(e).stat \in {"failed", "aborted"} -> Destroy(s, e)
                     [] OTHER -> s
      PROVE  DccNext
  <2>1. e \in DOMAIN s.dcc /\ s.dcc[e] = st.dcc[e] /\ st.dcc[e].type = "chatrecv" /\ Inv(s)
        /\ Core(s) /\ TagsOk(s.dcc[e]) /\ Of(e) = s.dcc[e]
    BY <1>2, <1>4 DEF Keep, Inv, Of
  <2>2. CASE Of(e).stat = "queued"
    <3>1. st' = dcc_connect(s, e, ok, kind)
      BY <1>5, <2>2
    <3>2. s.dcc[e].stat \in {"queued", "connecting"} /\ s.dcc[e].type \in {"recv", "chatrecv"}
          /\ s.dcc[e].type # "recv"
      BY <2>1, <2>2
    <3>3. Rests(s, dcc_connect(s, e, ok, kind), e)
      BY <2>1, <3>2, ConnectKeeps
    <3>4. Keep(s, st')
      BY <2>1, <3>1, <3>3, InvRests
    <3> QED BY <1>4, <1>5, <3>4, KeepTwice, Kepts
  <2>3. CASE Of(e).stat \in {"failed", "aborted"}
    <3>1. st' = Destroy(s, e)
      BY <1>5, <2>3
    <3>2. Keep(s, st')
      BY <2>1, <3>1, InvDestroyed
    <3> QED BY <1>4, <1>5, <3>2, KeepTwice, Kepts
  <2>4. CASE Of(e).stat \notin {"queued", "failed", "aborted"}
    <3>1. st' = s
      BY <1>5, <2>4
    <3> QED BY <1>4, <1>5, <3>1, Kepts
  <2> QED BY <2>2, <2>3, <2>4
<1>6. ASSUME NEW d \in New, NEW passive \in BOOLEAN, NEW ok \in BOOLEAN, used' = used \cup {d},
             st' = Offered(new_dcc(s, d, D(passive)), d, passive, ok)
      PROVE  DccNext
  <2> DEFINE E == D(passive)
             t == new_dcc(s, d, E)
  <2>1. Like(NewDcc, E, Made) /\ E.type = "chatsend" /\ E.fp = FALSE /\ E.passive = passive
        /\ E.port = FALSE
    BY NewFields DEF Like, Fields, Made
  <2>2. st' = Offered(t, d, passive, ok)
    BY <1>6
  <2> HIDE DEF D, E
  <2>3. Inv(s) /\ d \in Dccs /\ d \notin DOMAIN s.dcc
    BY <1>4 DEF DccInv, New, Keep
  <2>4. /\ IsDcc(E) /\ EntryOk(E) /\ E.stat = "queued" /\ E.iotag = "none" /\ E.wiotag = "none"
        /\ E.proxy.kind = "none" /\ E.type # "recv" /\ (~Mixed => Fits(s, d, E))
    BY <2>1, EntryProps, NotRecvFits DEF Chats
  <2>5. Fresh(s, d, E)
    BY <2>1, <2>3, <2>4 DEF Fresh
  <2>6. Inv(t) /\ d \in DOMAIN t.dcc /\ t.dcc[d] = E
    BY <2>3, <2>5, InvCreated
  <2> HIDE DEF t
  <2>7. Keep(t, st')
    BY <2>1, <2>2, <2>4, <2>6, OfferedKeeps
  <2> QED BY <1>4, <1>6, <2>5, <2>7, Adds DEF t
<1> QED BY <1>1, <1>5, <1>6

-----------------------------------------------------------------------------
(* The peer's offers.                                                      *)

LEMMA Keeps_dcc_add_file ==
    ASSUME DccInv, dcc_add_file
    PROVE  DccNext
<1> DEFINE D(f, passive) == [NewDcc EXCEPT !.type = "recv", !.file = f, !.dest = f,
                                           !.passive = passive, !.port = ~passive]
<1>1. PICK d \in New, f \in Files, passive \in BOOLEAN, auto \in BOOLEAN,
           autoresume \in BOOLEAN, ok \in BOOLEAN, kind \in ProxyKinds :
        LET s == is_resumable(new_dcc(st, d, D(f, passive)), d)
        IN /\ Mixed \/ ~passive \/ \A e \in Listed : ~Of(e).passive
           /\ used' = used \cup {d}
           /\ st' = IF auto THEN dcc_get(s, d, autoresume, ok, kind) ELSE s
  BY DEF dcc_add_file, Becomes
<1> DEFINE E == D(f, passive)
           t == new_dcc(st, d, E)
           s == is_resumable(t, d)
<1>2. /\ Mixed \/ ~passive \/ \A e \in Listed : ~Of(e).passive
      /\ used' = used \cup {d}
      /\ st' = IF auto THEN dcc_get(s, d, autoresume, ok, kind) ELSE s
  BY <1>1
<1>3. /\ Like(NewDcc, E, Made) /\ E.type = "recv" /\ E.fp = FALSE /\ E.passive = passive
      /\ E.port = ~passive /\ E.file = f /\ E.dest = f
  BY NewFields DEF Like, Fields, Made
<1> HIDE DEF D, E
<1>4. Inv(st) /\ d \in Dccs /\ d \notin DOMAIN st.dcc /\ Listed = DOMAIN st.dcc
  BY ListedEntry DEF DccInv, New
<1>5. E.port \in BOOLEAN
  BY <1>3
<1>6. /\ IsDcc(E) /\ EntryOk(E) /\ E.stat = "queued" /\ E.iotag = "none" /\ E.wiotag = "none"
      /\ E.proxy.kind = "none" /\ E.pos = 0 /\ E.ack = 0 /\ E.peer = 0
      /\ E.resumable = 0 /\ E.resume_sent = 0
  BY <1>3, <1>5, EntryProps
<1>7. ASSUME ~Mixed PROVE Fits(st, d, E)
  <2>1. RecvOk(st.disk, d, E)
    <3>1. E.port = FALSE => E.passive = TRUE
      <4>1. passive = TRUE \/ passive = FALSE
        OBVIOUS
      <4> QED BY <1>3, <4>1
    <3>2. WaitOk(st.disk, E)
      BY <1>3, <1>6 DEF WaitOk
    <3> QED BY <1>3, <1>6, <3>1, <3>2 DEF RecvOk
  <2>2. ~Claims(E)
    BY <1>3, <1>6 DEF Claims
  <2>3. Passive(E) => \A e \in DOMAIN st.dcc \ {d} : ~Passive(st.dcc[e])
    BY <1>2, <1>3, <1>4, <1>7 DEF Passive, Of
  <2> QED BY <2>1, <2>2, <2>3 DEF Fits
<1>8. Fresh(st, d, E)
  BY <1>3, <1>4, <1>6, <1>7 DEF Fresh
<1>9. Inv(t) /\ d \in DOMAIN t.dcc /\ t.dcc[d] = E
  BY <1>4, <1>8, InvCreated
<1> HIDE DEF t
<1>10. Rests(t, s, d) /\ s.dcc[d].type = "recv" /\ s.dcc[d].stat = "queued"
  <2>1. /\ Core(t) /\ TagsOk(t.dcc[d]) /\ t.dcc[d].type = "recv" /\ t.dcc[d].stat = "queued"
        /\ t.dcc[d].peer = 0 /\ t.dcc[d].resume_sent = 0 /\ t.dcc[d].ack = 0
        /\ t.dcc[d].dest \in Paths /\ t.dcc[d].dest \in Files
    BY <1>3, <1>6, <1>9 DEF Inv, Paths
  <2> QED BY <1>9, <2>1, ResumableRests
<1> HIDE DEF s
<1>11. Keep(t, s) /\ d \in DOMAIN s.dcc
  BY <1>9, <1>10, InvRests
<1>12. Keep(s, st')
  <2>1. CASE auto
    <3>1. Core(s) /\ TagsOk(s.dcc[d]) /\ Inv(s)
      BY <1>11 DEF Keep, Inv
    <3>2. Rests(s, dcc_get(s, d, autoresume, ok, kind), d)
      BY <1>10, <1>11, <3>1, GetRests
    <3> QED BY <1>2, <2>1, <3>1, <3>2, InvRests
  <2>2. CASE ~auto
    BY <1>2, <1>11, <2>2 DEF Keep
  <2> QED BY <2>1, <2>2
<1>13. Keep(t, st')
  BY <1>11, <1>12, KeepTwice
<1>14. Keep(st, st)
  BY <1>4 DEF Keep
<1> QED BY <1>2, <1>8, <1>13, <1>14, Adds DEF t

\* What was found of a kind is gone.
LEMMA GoneKeeps ==
    ASSUME NEW s, Inv(s), NEW found, found \cap DOMAIN s.dcc = found,
           \A d, e \in found : d = e
    PROVE  /\ Keep(s, Gone(s, found))
           /\ \A e \in DOMAIN s.dcc \ found : e \in DOMAIN Gone(s, found).dcc
<1>1. CASE found = {}
  BY <1>1 DEF Gone, Keep
<1>2. CASE found # {}
  <2> DEFINE m == CHOOSE d \in found : TRUE
  <2>1. m \in found /\ Gone(s, found) = Destroy(s, m)
    BY <1>2 DEF Gone
  <2> HIDE DEF m
  <2> QED BY <2>1, InvDestroyed
<1> QED BY <1>1, <1>2

LEMMA Keeps_dcc_add_chat ==
    ASSUME DccInv, dcc_add_chat
    PROVE  DccNext
<1> DEFINE mine == First(LAMBDA e : Of(e).type = "chatsend")
           theirs == First(LAMBDA e : Of(e).type = "chatrecv")
           s == Gone(Gone(st, mine), theirs)
           D(passive) == [NewDcc EXCEPT !.type = "chatrecv", !.passive = passive,
                                        !.port = ~passive]
<1>1. PICK d \in New, passive \in BOOLEAN, auto \in BOOLEAN, ok \in BOOLEAN, kind \in ProxyKinds :
        LET t == new_dcc(s, d, D(passive))
        IN /\ used' = used \cup {d}
           /\ st' = IF auto THEN dcc_connect(t, d, ok, kind) ELSE t
  BY DEF dcc_add_chat, Becomes
<1>2. /\ \A e \in mine : e \in Listed /\ st.dcc[e].type = "chatsend"
      /\ \A e \in theirs : e \in Listed /\ st.dcc[e].type = "chatrecv"
  BY DEF First, Of, Listed, ToSet
<1>3. /\ \A e, g \in mine : e = g
      /\ \A e, g \in theirs : e = g
  <2>1. st.list \in Seq(Dccs)
    BY ListedEntry DEF Core, IsState, ListOk
  <2>2. \A i, j \in DOMAIN st.list : i \in Int /\ j \in Int /\ (i # j => i \in 1..(j-1) \/ j \in 1..(i-1))
    BY <2>1
  <2>3. \A e, g \in mine : e = g
    BY <2>2 DEF First
  <2>4. \A e, g \in theirs : e = g
    BY <2>2 DEF First
  <2> QED BY <2>3, <2>4
<1>4. Listed = DOMAIN st.dcc /\ Inv(st)
  BY ListedEntry
<1> DEFINE E == D(passive)
           t == new_dcc(s, d, E)
<1>5. used' = used \cup {d} /\ st' = IF auto THEN dcc_connect(t, d, ok, kind) ELSE t
  BY <1>1
<1>6. Like(NewDcc, E, Made) /\ E.type = "chatrecv" /\ E.fp = FALSE /\ E.passive = passive
      /\ E.port = ~passive
  BY NewFields DEF Like, Fields, Made
<1> HIDE DEF mine, theirs, D, E
<1>7. Keep(st, s)
  <2> DEFINE r == Gone(st, mine)
  <2>1. Keep(st, r) /\ \A e \in theirs : e \in DOMAIN r.dcc
    BY <1>2, <1>3, <1>4, GoneKeeps
  <2> HIDE DEF r
  <2>2. Inv(r) /\ theirs \cap DOMAIN r.dcc = theirs
    BY <2>1 DEF Keep
  <2>3. Keep(r, Gone(r, theirs))
    BY <1>3, <2>2, GoneKeeps
  <2> QED BY <2>1, <2>3, KeepTwice DEF r
<1> HIDE DEF s
<1>8. Inv(s) /\ d \in Dccs /\ d \notin DOMAIN s.dcc
  BY <1>7 DEF DccInv, New, Keep
<1>9. E.port \in BOOLEAN
  BY <1>6
<1>10. /\ IsDcc(E) /\ EntryOk(E) /\ E.stat = "queued" /\ E.iotag = "none" /\ E.wiotag = "none"
       /\ E.proxy.kind = "none" /\ E.type # "recv" /\ (~Mixed => Fits(s, d, E))
  BY <1>6, <1>9, EntryProps, NotRecvFits DEF Chats
<1>11. Fresh(s, d, E)
  BY <1>6, <1>8, <1>10 DEF Fresh
<1>12. Inv(t) /\ d \in DOMAIN t.dcc /\ t.dcc[d] = E
  BY <1>8, <1>11, InvCreated
<1> HIDE DEF t
<1>13. Keep(t, st')
  <2>1. CASE auto
    <3>1. /\ Core(t) /\ TagsOk(t.dcc[d]) /\ t.dcc[d].stat \in {"queued", "connecting"}
          /\ t.dcc[d].type \in {"recv", "chatrecv"} /\ t.dcc[d].type # "recv"
      BY <1>6, <1>10, <1>12 DEF Inv
    <3>2. Rests(t, dcc_connect(t, d, ok, kind), d)
      BY <1>12, <3>1, ConnectKeeps
    <3> QED BY <1>5, <1>12, <2>1, <3>2, InvRests
  <2>2. CASE ~auto
    BY <1>5, <1>12, <2>2 DEF Keep
  <2> QED BY <2>1, <2>2
<1> QED BY <1>5, <1>7, <1>11, <1>13, Adds DEF t

LEMMA Keeps_PassiveAnswered ==
    ASSUME DccInv, PassiveAnswered
    PROVE  DccNext
<1>1. PICK d \in Listed, ok \in BOOLEAN, kind \in ProxyKinds :
        /\ st.dcc[d].type \in {"send", "chatsend"} /\ st.dcc[d].passive
        /\ st.dcc[d].stat = "queued"
        /\ st' = dcc_connect([st EXCEPT !.dcc[d].port = TRUE], d, ok, kind) /\ Kept
  BY DEF PassiveAnswered, Becomes, Of
<1>2. d \in DOMAIN st.dcc /\ Inv(st) /\ Core(st) /\ TagsOk(st.dcc[d])
  BY ListedEntry DEF Inv
<1> DEFINE D == st.dcc[d]
           z == [st EXCEPT !.dcc[d].port = TRUE]
           F == [D EXCEPT !.port = TRUE]
<1>3. IsDcc(D) /\ EntryOk(D) /\ DOMAIN st = Parts
  BY <1>2, EntryIs
<1>4. Sets(st, z, d, F)
  BY <1>2, <1>3 DEF Sets, Only, Others, Parts, IsDcc, Fields
<1>5. Like(D, F, {"port"}) /\ F.port = TRUE
  BY <1>3 DEF Like, IsDcc, Fields
<1>6. st' = dcc_connect(z, d, ok, kind)
  BY <1>1
<1> HIDE DEF F, z
<1>7. /\ F.stat = "queued" /\ F.type = D.type /\ F.iotag = D.iotag /\ F.wiotag = D.wiotag
      /\ F.proxy = D.proxy /\ F.fast = D.fast /\ DOMAIN F = Fields
  BY <1>1, <1>5 DEF Like, Fields
<1>8. D.iotag = "none" /\ D.wiotag = "none" /\ D.proxy.kind = "none"
  <2>1. QueuedOk(D) /\ D.passive = TRUE
    <3>1. D.passive \in BOOLEAN
      BY <1>3 DEF IsDcc
    <3> QED BY <1>1, <1>2, <3>1 DEF TagsOk
  <2> HIDE DEF D
  <2> QED BY <2>1 DEF QueuedOk
<1>9. Done(st, z, d)
  <2>1. IsDcc(F)
    BY <1>3, <1>5 DEF IsDcc, Like, Fields
  <2>2. Like(st.dcc[d], F, {"sok", "port", "fast", "proxy"})
    BY <1>5 DEF Like
  <2>3. F.type \in Chats => F.fast = FALSE
    BY <1>3, <1>7 DEF EntryOk
  <2>4. F.port = FALSE => st.dcc[d].port = FALSE
    BY <1>5
  <2> QED BY <1>2, <1>4, <2>1, <2>2, <2>3, <2>4, SoftPut
<1>10. d \in DOMAIN z.dcc /\ z.dcc[d] = F /\ Core(z) /\ DOMAIN z = Parts
  BY <1>2, <1>4, <1>9 DEF Done, Sets, Only
<1>11. ASSUME NEW stat \in {"connecting", "failed"} PROVE Done(st, StatTo(z, d, stat), d)
  <2>1. /\ z.dcc[d].stat # "active" /\ z.dcc[d].stat \in {"queued", "connecting"}
        /\ z.dcc[d].type # "recv"
    BY <1>1, <1>7, <1>10
  <2>2. Done(z, StatTo(z, d, stat), d)
    BY <1>10, <1>11, <2>1, StatToIs
  <2> QED BY <1>9, <2>2, DoneTwice
<1>12. Done(st, StatTo(z, d, "connecting"), d) /\ Done(st, StatTo(z, d, "failed"), d)
  BY <1>11
<1>13. /\ DOMAIN z.dcc[d] = Fields /\ z.dcc[d].stat = "queued" /\ z.dcc[d].iotag = "none"
       /\ z.dcc[d].wiotag = "none" /\ z.dcc[d].proxy.kind = "none"
  BY <1>7, <1>8, <1>10
<1>14. Rests(st, dcc_connect(z, d, ok, kind), d)
  BY <1>2, <1>10, <1>12, <1>13, ConnectRests
<1> QED BY <1>1, <1>2, <1>6, <1>14, InvRests, Kepts

LEMMA Keeps_HandleResume ==
    ASSUME DccInv, HandleResume
    PROVE  DccNext
<1> DEFINE asked(f) == {d \in Listed : Of(d).type = "send" /\ Of(d).file = f}
           found(f) == {d \in asked(f) : Of(d).stat = "queued" /\ ~(Of(d).passive /\ Of(d).port)}
           other(f) == First(LAMBDA e : Of(e).type = "send" /\ Of(e).file = f)
           resumed(d, r, f) == [st EXCEPT !.dcc[d].resumable = r, !.dcc[d].pos = r,
                                          !.dcc[d].ack = r,
                                          !.dcc[d].peer = IF d \in found(f) THEN r ELSE @]
<1>1. PICK r \in 1..(Size - 1), f \in Files :
        /\ Mixed \/ \A d \in asked(f) : Of(d).stat \in {"queued", "aborted", "failed"}
        /\ \E d \in (IF found(f) # {} /\ ~Mixed THEN found(f) ELSE found(f) \cup other(f)) :
              st' = resumed(d, r, f) /\ Kept
  BY DEF HandleResume, Becomes
<1>2. PICK d \in (IF found(f) # {} /\ ~Mixed THEN found(f) ELSE found(f) \cup other(f)) :
        st' = resumed(d, r, f) /\ Kept
  BY <1>1
<1>3. found(f) \subseteq asked(f) /\ other(f) \subseteq asked(f)
  BY DEF First, Of, Listed, ToSet
<1>4. d \in asked(f)
  BY <1>2, <1>3
<1>5. d \in DOMAIN st.dcc /\ Inv(st) /\ Core(st) /\ TagsOk(st.dcc[d]) /\ st.dcc[d].type = "send"
  BY <1>4, ListedEntry DEF Inv, Of
<1> DEFINE D == st.dcc[d]
           p == IF d \in found(f) THEN r ELSE D.peer
           t == resumed(d, r, f)
           E == [D EXCEPT !.resumable = r, !.pos = r, !.ack = r, !.peer = p]
<1>6. IsDcc(D) /\ EntryOk(D) /\ DOMAIN st = Parts
  BY <1>5, EntryIs
<1>7. ASSUME ~Mixed, d \notin found(f) PROVE D.stat \notin Live /\ D.stat # "done"
  <2>1. D.stat \in {"queued", "aborted", "failed"}
    BY <1>1, <1>4, <1>7 DEF Of
  <2>2. SUFFICES ASSUME D.stat = "queued" PROVE FALSE
    BY <2>1 DEF Live
  <2>3. D.passive /\ D.port
    BY <1>4, <1>7, <2>2 DEF Of
  <2>4. D.passive = TRUE => D.port = FALSE
    BY <1>5, <2>2 DEF TagsOk, QueuedOk
  <2>5. D.passive \in BOOLEAN /\ D.port \in BOOLEAN
    BY <1>6 DEF IsDcc
  <2> HIDE DEF D
  <2> QED BY <2>3, <2>4, <2>5
<1>8. d \in found(f) => D.stat = "queued"
  BY DEF Of
<1> HIDE DEF found
<1>9. t = [st EXCEPT !.dcc[d].resumable = r, !.dcc[d].pos = r, !.dcc[d].ack = r,
                     !.dcc[d].peer = p]
  BY <1>5, <1>6 DEF IsDcc, Fields, Parts
<1>10. st' = t /\ Kept
  BY <1>2
<1> HIDE DEF t, p
<1>11. Sets(st, t, d, E)
  BY <1>5, <1>6, <1>9 DEF Sets, Only, Others, Parts, IsDcc, Fields
<1>12. Like(D, E, {"pos", "ack", "peer", "resumable"}) /\ E.pos = r /\ E.ack = r
       /\ E.resumable = r /\ E.peer = p
  BY <1>6 DEF Like, IsDcc, Fields
<1>13. p = IF d \in found(f) THEN r ELSE D.peer
  BY DEF p
<1> HIDE DEF E, D
<1>14. r \in Nat /\ r <= Size /\ r # 0 /\ Size \in Nat
  BY DccAssumption
<1>15. E.type = D.type /\ E.stat = D.stat
  BY <1>12 DEF Like, Fields
<1>16. IsDcc(E)
  <2>1. E.pos \in Nat /\ E.ack \in Nat /\ E.resumable \in Nat /\ E.peer \in Nat
    BY <1>6, <1>12, <1>13, <1>14 DEF IsDcc
  <2> QED BY <1>6, <1>12, <2>1 DEF IsDcc, Like, Fields
<1>17. ASSUME ~Mixed PROVE SendOk(E)
  <2>1. SendOk(D)
    BY <1>6, <1>17 DEF EntryOk
  <2>2. CASE d \in found(f)
    BY <1>8, <1>12, <1>13, <1>14, <1>15, <2>2 DEF SendOk
  <2>3. CASE d \notin found(f)
    BY <1>7, <1>12, <1>13, <1>14, <1>15, <1>17, <2>1, <2>3 DEF SendOk
  <2> QED BY <2>2, <2>3
<1>18. Done(st, t, d) /\ t.dcc[d] = E /\ TagsOk(E)
  <2>1. st.dcc[d].type # "recv" /\ Like(st.dcc[d], E, {"pos", "ack", "peer", "resumable"})
    BY <1>5, <1>12 DEF D
  <2> QED BY <1>5, <1>11, <1>16, <1>17, <2>1, AmountsPut
<1> QED BY <1>5, <1>10, <1>18, InvRests, Kepts DEF Rests

LEMMA Keeps_HandleAccept ==
    ASSUME DccInv, HandleAccept
    PROVE  DccNext
<1> DEFINE s(d) == [st EXCEPT !.dcc[d].peer = Of(d).resume_sent]
           found(d) == First(LAMBDA e : /\ Of(e).type = "recv" /\ Of(e).stat = "queued"
                                        /\ IF Of(d).port THEN e = d ELSE ~Of(e).port)
<1>1. PICK d \in Listed, ok \in BOOLEAN, kind \in ProxyKinds :
        /\ Of(d).resume_sent > 0 /\ Of(d).stat \in {"queued", "connecting"}
        /\ (\E e \in found(d) : st' = dcc_connect(s(d), e, ok, kind)) \/ st' = s(d)
        /\ Kept
  BY DEF HandleAccept, Becomes
<1>2. \A e \in found(d) : /\ e \in Listed /\ st.dcc[e].type = "recv" /\ st.dcc[e].stat = "queued"
                          /\ IF st.dcc[d].port THEN e = d ELSE ~st.dcc[e].port
  BY DEF First, Of, Listed, ToSet
<1> HIDE DEF found
<1>3. Listed = DOMAIN st.dcc /\ d \in DOMAIN st.dcc /\ Inv(st) /\ Core(st) /\ TagsOk(st.dcc[d])
  BY ListedEntry DEF Inv
<1> DEFINE D == st.dcc[d]
           t == s(d)
           E == [D EXCEPT !.peer = D.resume_sent]
<1>4. IsDcc(D) /\ EntryOk(D) /\ DOMAIN st = Parts /\ (~Mixed => FilesOk(st) /\ RecvOk(st.disk, d, D))
  BY <1>3, EntryIs
<1>5. Sets(st, t, d, E)
  BY <1>3, <1>4 DEF Sets, Only, Others, Parts, IsDcc, Fields, Of
<1>6. Like(D, E, {"peer"}) /\ E.peer = D.resume_sent
  BY <1>4 DEF Like, IsDcc, Fields
<1>7. (\E e \in found(d) : st' = dcc_connect(t, e, ok, kind)) \/ st' = t
  BY <1>1
<1>8. D.resume_sent > 0 /\ D.stat \in {"queued", "connecting"}
  BY <1>1 DEF Of
<1> HIDE DEF E, t, s
<1>9. D.type = "recv" /\ D.fp \in BOOLEAN /\ D.resume_sent \in Nat /\ D.resumable \in Nat
      /\ Size \in Nat /\ D.resume_sent # 0
  BY <1>4, <1>8, DccAssumption DEF EntryOk, IsDcc
<1>10. /\ E.type = D.type /\ E.stat = D.stat /\ E.file = D.file /\ E.dest = D.dest
       /\ E.pos = D.pos /\ E.ack = D.ack /\ E.resumable = D.resumable
       /\ E.resume_sent = D.resume_sent /\ E.fp = D.fp /\ E.passive = D.passive /\ E.port = D.port
  BY <1>6 DEF Like, Fields
<1>11. IsDcc(E)
  BY <1>4, <1>6, <1>9 DEF IsDcc, Like, Fields
<1>12. TagsOk(E)
  <2>1. TagsOk(D)
    BY <1>3
  <2> HIDE DEF D
  <2> QED BY <1>6, <2>1 DEF Like, Fields, TagsOk, QueuedOk, ConnectingOk, ActiveOk, DeadOk
<1>13. ASSUME ~Mixed
       PROVE  /\ WaitOk(st.disk, D) /\ SendOk(D) /\ D.fp = FALSE
              /\ (D.port = FALSE => D.passive = TRUE)
  <2> HIDE DEF D
  <2> QED BY <1>4, <1>8, <1>9, <1>13 DEF RecvOk, OpenOk, EntryOk, Live
<1>14. ASSUME ~Mixed
       PROVE  /\ E.pos <= Size /\ E.ack <= Size /\ E.peer <= Size
              /\ (E.stat # "failed" => WaitOk(st.disk, E))
              /\ (Claims(E) => Claims(D))
  <2> HIDE DEF D
  <2>1. D.resume_sent < Size
    BY <1>8, <1>9, <1>13, <1>14 DEF WaitOk
  <2>2. WaitOk(st.disk, E)
    BY <1>6, <1>8, <1>9, <1>10, <1>13, <1>14 DEF WaitOk
  <2> QED BY <1>6, <1>9, <1>10, <1>13, <1>14, <2>1, <2>2 DEF SendOk, Claims
<1>15. Done(st, t, d) /\ t.dcc[d] = E
  <2>1. /\ Like(st.dcc[d], E, {"pos", "ack", "peer", "resumable", "resume_sent", "stat"})
        /\ st.dcc[d].type = "recv" /\ st.dcc[d].stat \in {"queued", "connecting"}
        /\ E.stat \in {"queued", "connecting", "failed"}
        /\ (~Mixed => /\ E.pos <= Size /\ E.ack <= Size /\ E.peer <= Size
                      /\ (E.stat # "failed" => WaitOk(st.disk, E))
                      /\ (Claims(E) => Claims(st.dcc[d])))
    BY <1>6, <1>8, <1>9, <1>10, <1>14 DEF Like
  <2> HIDE DEF D
  <2> QED BY <1>3, <1>5, <1>11, <2>1, WaitPut
<1>16. Keep(st, t) /\ DOMAIN t.dcc = DOMAIN st.dcc
  BY <1>3, <1>12, <1>15, InvRests DEF Rests
<1>17. ASSUME NEW e \in found(d), st' = dcc_connect(t, e, ok, kind) PROVE Keep(t, st')
  <2>1. e \in DOMAIN st.dcc /\ e \in DOMAIN t.dcc /\ (e # d => t.dcc[e] = st.dcc[e])
    BY <1>2, <1>3, <1>15, <1>16 DEF Done, Only, Others
  <2>2. Inv(t) /\ Core(t) /\ TagsOk(t.dcc[e])
    BY <1>16, <2>1 DEF Keep, Inv
  <2>3. t.dcc[e].type = "recv" /\ t.dcc[e].stat = "queued"
    BY <1>2, <1>10, <1>15, <2>1
  <2>4. ASSUME ~Mixed PROVE e = d
    <3>1. SUFFICES ASSUME e # d PROVE FALSE
      OBVIOUS
    <3>2. ~D.port /\ ~st.dcc[e].port
      BY <1>2, <3>1
    <3>3. st.dcc[e].type = "recv" /\ st.dcc[e].stat = "queued" /\ RecvOk(st.disk, e, st.dcc[e])
          /\ IsDcc(st.dcc[e])
      BY <1>2, <1>3, <2>1, <2>4, EntryIs
    <3>4. st.dcc[e].port \in BOOLEAN /\ D.port \in BOOLEAN
      BY <1>4, <3>3 DEF IsDcc
    <3>5. st.dcc[e].port = FALSE /\ D.port = FALSE
      BY <3>2, <3>4
    <3>6. st.dcc[e].passive = TRUE /\ D.passive = TRUE
      BY <1>13, <2>4, <3>3, <3>5 DEF RecvOk, Live
    <3>7. Passive(st.dcc[e]) /\ Passive(st.dcc[d])
      BY <1>9, <3>3, <3>6 DEF Passive
    <3> QED BY <1>3, <1>4, <2>1, <2>4, <3>1, <3>7 DEF FilesOk
  <2>5. ~Mixed /\ t.dcc[e].type = "recv" /\ t.dcc[e].resumable > 0
          => t.dcc[e].peer = t.dcc[e].resumable
    <3>1. SUFFICES ASSUME ~Mixed PROVE t.dcc[e].peer = t.dcc[e].resumable
      OBVIOUS
    <3>2. t.dcc[e] = E
      BY <1>15, <2>4, <3>1
    <3>3. D.stat = "queued"
      BY <1>10, <2>3, <3>2
    <3> HIDE DEF D
    <3> QED BY <1>6, <1>8, <1>10, <1>13, <3>1, <3>2, <3>3 DEF WaitOk
  <2>6. t.dcc[e].stat \in {"queued", "connecting"} /\ t.dcc[e].type \in {"recv", "chatrecv"}
    BY <2>3
  <2>7. Rests(t, dcc_connect(t, e, ok, kind), e)
    BY <2>1, <2>2, <2>5, <2>6, ConnectKeeps
  <2> QED BY <1>17, <2>2, <2>7, InvRests
<1>18. Keep(st, st')
  BY <1>7, <1>16, <1>17, KeepTwice
<1> QED BY <1>1, <1>18, Kepts

-----------------------------------------------------------------------------
(* The main loop.                                                          *)

LEMMA Starts ==
    ASSUME NEW d, NEW ok, IsDcc(st.dcc[d]), NEW o \in Starting(d, ok)
    PROVE  /\ o.fast \in BOOLEAN /\ o.n \in Nat
           /\ st.dcc[d].type = "send" /\ ok => o.n <= Size - st.dcc[d].pos
<1>1. st.dcc[d].pos \in Nat /\ Size \in Nat /\ FastSends \subseteq BOOLEAN
  BY DccAssumption DEF IsDcc
<1>2. CASE st.dcc[d].type = "send" /\ ok
  <2>1. o \in [fast : FastSends, n : Sendable(d), then : Sending]
    BY <1>2 DEF Starting, Of
  <2>2. o.fast \in BOOLEAN /\ o.n \in 0..(Size - st.dcc[d].pos)
    BY <1>1, <2>1 DEF Sendable, Of
  <2> QED BY <1>1, <2>2
<1>3. CASE ~(st.dcc[d].type = "send" /\ ok)
  <2>1. o = [fast |-> FALSE, n |-> 0, then |-> "nothing"]
    BY <1>3 DEF Starting, Of
  <2> QED BY <1>3, <2>1
<1> QED BY <1>2, <1>3

\* What the main loop calls back.
LEMMA CalledBack ==
    ASSUME DccInv, NEW d \in Listed, NEW cb \in Callbacks, Calls(d, cb)
    PROVE  /\ d \in DOMAIN st.dcc /\ Inv(st) /\ Core(st) /\ TagsOk(st.dcc[d])
           /\ IsDcc(st.dcc[d]) /\ EntryOk(st.dcc[d]) /\ Found(st.dcc[d], cb)
BY Called, ListedEntry DEF Calls

LEMMA Keeps_Connected ==
    ASSUME DccInv, Connected
    PROVE  DccNext
<1>0. PICK d \in Listed, ok \in BOOLEAN : \E o \in Starting(d, ok) :
        /\ \/ /\ Calls(d, "connected")
              /\ st' = dcc_connect_finished(st, d, ok, o.fast, o.n, o.then)
           \/ /\ Calls(d, "accept")
              /\ st' = dcc_accept(st, d, ok, o.fast, o.n, o.then)
           \/ /\ Calls(d, "proxy_connect") /\ st' = dcc_proxy_connect(st, d, ok)
           \/ /\ Calls(d, "traverse")
              /\ \E answer \in {"yes", "no", "broken"} :
                   /\ st.dcc[d].stat = "failed" => answer = "broken"
                   /\ st' = dcc_proxy_traverse(st, d, answer, ok, o.fast, o.n, o.then)
        /\ Kept
  BY DEF Connected, Becomes, Of
<1>1. PICK o \in Starting(d, ok) :
        /\ \/ /\ Calls(d, "connected")
              /\ st' = dcc_connect_finished(st, d, ok, o.fast, o.n, o.then)
           \/ /\ Calls(d, "accept")
              /\ st' = dcc_accept(st, d, ok, o.fast, o.n, o.then)
           \/ /\ Calls(d, "proxy_connect") /\ st' = dcc_proxy_connect(st, d, ok)
           \/ /\ Calls(d, "traverse")
              /\ \E answer \in {"yes", "no", "broken"} :
                   /\ st.dcc[d].stat = "failed" => answer = "broken"
                   /\ st' = dcc_proxy_traverse(st, d, answer, ok, o.fast, o.n, o.then)
        /\ Kept
  BY <1>0
<1>2. d \in DOMAIN st.dcc /\ Inv(st) /\ Core(st) /\ TagsOk(st.dcc[d]) /\ IsDcc(st.dcc[d])
  BY ListedEntry, EntryIs DEF Inv
<1>3. /\ o.fast \in BOOLEAN /\ o.n \in Nat
      /\ st.dcc[d].type = "send" /\ ok => o.n <= Size - st.dcc[d].pos
  BY <1>2, Starts
<1>4. CASE Calls(d, "connected") /\ st' = dcc_connect_finished(st, d, ok, o.fast, o.n, o.then)
  <2>1. Found(st.dcc[d], "connected")
    BY <1>4, CalledBack DEF Callbacks
  <2>2. st.dcc[d].stat = "connecting" /\ st.dcc[d].wiotag = "none" /\ Heard(st.dcc[d].proxy)
    BY <2>1 DEF Found, Heard
  <2>3. Rests(st, dcc_connect_finished(st, d, ok, o.fast, o.n, o.then), d)
    BY <1>2, <1>3, <2>2, FinishedRests
  <2> QED BY <1>1, <1>2, <1>4, <2>3, InvRests, Kepts
<1>5. CASE Calls(d, "accept") /\ st' = dcc_accept(st, d, ok, o.fast, o.n, o.then)
  <2>1. Found(st.dcc[d], "accept")
    BY <1>5, CalledBack DEF Callbacks
  <2>2. /\ st.dcc[d].stat \in {"queued", "connecting"} /\ st.dcc[d].wiotag = "none"
        /\ st.dcc[d].proxy.kind = "none"
        /\ (st.dcc[d].type = "recv" => st.dcc[d].stat = "connecting")
    BY <2>1 DEF Found
  <2>3. Rests(st, dcc_accept(st, d, ok, o.fast, o.n, o.then), d)
    BY <1>2, <1>3, <2>2, AcceptRests
  <2> QED BY <1>1, <1>2, <1>5, <2>3, InvRests, Kepts
<1>6. CASE Calls(d, "proxy_connect") /\ st' = dcc_proxy_connect(st, d, ok)
  <2>1. Found(st.dcc[d], "proxy_connect")
    BY <1>6, CalledBack DEF Callbacks
  <2>2. /\ st.dcc[d].stat = "connecting" /\ st.dcc[d].wiotag = "none"
        /\ st.dcc[d].proxy.kind \in Kinds
    BY <2>1 DEF Found
  <2>3. Rests(st, dcc_proxy_connect(st, d, ok), d)
    BY <1>2, <2>2, ProxyConnectRests
  <2> QED BY <1>1, <1>2, <1>6, <2>3, InvRests, Kepts
<1>7. ASSUME Calls(d, "traverse"), NEW answer \in {"yes", "no", "broken"},
             st.dcc[d].stat = "failed" => answer = "broken",
             st' = dcc_proxy_traverse(st, d, answer, ok, o.fast, o.n, o.then)
      PROVE  DccNext
  <2>1. Found(st.dcc[d], "traverse")
    BY <1>7, CalledBack DEF Callbacks
  <2>2. st.dcc[d].iotag = "traverse" \/ st.dcc[d].wiotag = "traverse"
    BY <2>1 DEF Found
  <2>3. Rests(st, dcc_proxy_traverse(st, d, answer, ok, o.fast, o.n, o.then), d)
    BY <1>2, <1>3, <1>7, <2>2, TraverseRests
  <2> QED BY <1>1, <1>2, <1>7, <2>3, InvRests, Kepts
<1> QED BY <1>1, <1>4, <1>5, <1>6, <1>7

LEMMA Keeps_Reads ==
    ASSUME DccInv, Reads
    PROVE  DccNext
<1>0. PICK d \in Listed, then \in Reading :
        \E n \in 0..(Size - st.dcc[d].peer) :
           Calls(d, "read") /\ st' = dcc_read(st, d, n, then) /\ Kept
  BY DEF Reads, Becomes, Arriving, Of
<1>1. PICK n \in 0..(Size - st.dcc[d].peer) :
        Calls(d, "read") /\ st' = dcc_read(st, d, n, then) /\ Kept
  BY <1>0
<1>2. /\ d \in DOMAIN st.dcc /\ Inv(st) /\ Core(st) /\ TagsOk(st.dcc[d])
      /\ IsDcc(st.dcc[d]) /\ Found(st.dcc[d], "read")
  BY <1>1, CalledBack DEF Callbacks
<1>3. st.dcc[d].type = "recv" /\ st.dcc[d].stat = "active"
  BY <1>2 DEF Found
<1>4. n \in Nat /\ n <= Size - st.dcc[d].peer
  BY <1>2, DccAssumption DEF IsDcc
<1>5. Rests(st, dcc_read(st, d, n, then), d)
  BY <1>2, <1>3, <1>4, ReadRests
<1> QED BY <1>1, <1>2, <1>5, InvRests, Kepts

LEMMA Keeps_ReadsChat ==
    ASSUME DccInv, ReadsChat
    PROVE  DccNext
<1>1. PICK d \in Listed, then \in {"lines", "broken"} :
        /\ Calls(d, "chat")
        /\ st' = (IF st.dcc[d].throttled THEN Unwatch(st, d, "iotag")
                  ELSE IF then = "broken" THEN dcc_close(st, d, "failed")
                  ELSE [st EXCEPT !.dcc[d].pos = 1])
        /\ Kept
  BY DEF ReadsChat, Becomes, Of
<1>2. /\ d \in DOMAIN st.dcc /\ Inv(st) /\ Core(st) /\ TagsOk(st.dcc[d])
      /\ IsDcc(st.dcc[d]) /\ EntryOk(st.dcc[d]) /\ Found(st.dcc[d], "chat")
  BY <1>1, CalledBack DEF Callbacks
<1>3. st.dcc[d].type \in Chats /\ st.dcc[d].stat = "active"
  BY <1>2 DEF Found
<1> DEFINE D == st.dcc[d]
<1>4. CASE st' = Unwatch(st, d, "iotag")
  <2> DEFINE t == Unwatch(st, d, "iotag")
  <2>1. Done(st, t, d) /\ Like(D, t.dcc[d], {"iotag"}) /\ t.dcc[d].iotag = "none"
    BY <1>2, BothUnwatched
  <2> HIDE DEF t
  <2>2. TagsOk(t.dcc[d])
    <3>1. ActiveOk(D)
      BY <1>2, <1>3 DEF TagsOk
    <3> HIDE DEF D
    <3> QED BY <1>3, <2>1, <3>1 DEF D, Like, Fields, TagsOk, ActiveOk, Dead, Chats
  <2> QED BY <1>1, <1>2, <1>4, <2>1, <2>2, InvRests, Kepts DEF Rests, t
<1>5. CASE st' = dcc_close(st, d, "failed")
  <2>1. "failed" \in Dead /\ "failed" # "done"
    BY DEF Dead
  <2>2. Rests(st, dcc_close(st, d, "failed"), d)
    BY <1>2, <2>1, ClosedRests
  <2> QED BY <1>1, <1>2, <1>5, <2>2, InvRests, Kepts
<1>6. CASE st' = [st EXCEPT !.dcc[d].pos = 1]
  <2> DEFINE t == [st EXCEPT !.dcc[d].pos = 1]
             E == [D EXCEPT !.pos = 1]
  <2>1. DOMAIN st = Parts
    BY <1>2, EntryIs
  <2>2. Sets(st, t, d, E)
    BY <1>2, <2>1 DEF Sets, Only, Others, Parts, IsDcc, Fields
  <2>3. Like(D, E, {"pos"}) /\ E.pos = 1
    BY <1>2 DEF Like, IsDcc, Fields
  <2>4. st' = t
    BY <1>6
  <2> HIDE DEF E, t
  <2>5. E.type = D.type /\ E.stat = D.stat /\ E.ack = D.ack /\ E.peer = D.peer
    BY <2>3 DEF Like, Fields
  <2>6. IsDcc(E) /\ Like(st.dcc[d], E, {"pos", "ack", "peer", "resumable"})
    BY <1>2, <2>3 DEF IsDcc, Like, Fields
  <2>7. st.dcc[d].type # "recv" /\ st.dcc[d].type # "send"
    BY <1>3 DEF Chats
  <2>8. ASSUME ~Mixed PROVE SendOk(E)
    BY <1>2, <2>3, <2>5, <2>7, <2>8, DccAssumption DEF EntryOk, SendOk
  <2>9. Done(st, t, d) /\ t.dcc[d] = E /\ TagsOk(E)
    BY <1>2, <2>2, <2>6, <2>7, <2>8, AmountsPut
  <2> QED BY <1>1, <1>2, <2>4, <2>9, InvRests, Kepts DEF Rests
<1> QED BY <1>1, <1>4, <1>5, <1>6

LEMMA Keeps_Sends ==
    ASSUME DccInv, Sends
    PROVE  DccNext
<1>0. PICK d \in Listed, then \in Sending :
        \E n \in 0..(Size - st.dcc[d].pos) :
           Calls(d, "data") /\ st' = dcc_send_data(st, d, n, then) /\ Kept
  BY DEF Sends, Becomes, Sendable, Of
<1>1. PICK n \in 0..(Size - st.dcc[d].pos) :
        Calls(d, "data") /\ st' = dcc_send_data(st, d, n, then) /\ Kept
  BY <1>0
<1>2. /\ d \in DOMAIN st.dcc /\ Inv(st) /\ Core(st) /\ TagsOk(st.dcc[d])
      /\ IsDcc(st.dcc[d]) /\ Found(st.dcc[d], "data")
  BY <1>1, CalledBack DEF Callbacks
<1>3. st.dcc[d].type # "recv" /\ st.dcc[d].stat = "active"
  BY <1>2 DEF Found
<1>4. n \in Nat /\ n <= Size - st.dcc[d].pos
  BY <1>2, DccAssumption DEF IsDcc
<1>5. Rests(st, dcc_send_data(st, d, n, then), d)
  BY <1>2, <1>3, <1>4, SendDataRests
<1> QED BY <1>1, <1>2, <1>5, InvRests, Kepts

LEMMA Keeps_ReadsAck ==
    ASSUME DccInv, ReadsAck
    PROVE  DccNext
<1>1. PICK d \in Listed :
        /\ Calls(d, "ack") /\ Kept
        /\ \/ \E a \in st.dcc[d].ack..st.dcc[d].peer, n \in 0..(Size - st.dcc[d].pos), then \in Sending :
                st' = dcc_handle_new_ack(d, a, n, then)
           \/ st' = dcc_close(st, d, "failed")
  BY DEF ReadsAck, Becomes, Sendable, Of
<1>2. /\ d \in DOMAIN st.dcc /\ Inv(st) /\ Core(st) /\ TagsOk(st.dcc[d])
      /\ IsDcc(st.dcc[d]) /\ EntryOk(st.dcc[d]) /\ Found(st.dcc[d], "ack")
  BY <1>1, CalledBack DEF Callbacks
<1>3. st.dcc[d].type = "send" /\ st.dcc[d].stat = "active" /\ st.dcc[d].type # "recv"
  BY <1>2 DEF Found
<1> DEFINE D == st.dcc[d]
<1>5. CASE st' = dcc_close(st, d, "failed")
  <2>1. "failed" \in Dead /\ "failed" # "done"
    BY DEF Dead
  <2>2. Rests(st, dcc_close(st, d, "failed"), d)
    BY <1>2, <2>1, ClosedRests
  <2> QED BY <1>1, <1>2, <1>5, <2>2, InvRests, Kepts
<1>6. ASSUME NEW a \in st.dcc[d].ack..st.dcc[d].peer, NEW n \in 0..(Size - st.dcc[d].pos), NEW then \in Sending,
             st' = dcc_handle_new_ack(d, a, n, then)
      PROVE  DccNext
  <2>0. /\ n \in Nat /\ n <= Size - D.pos /\ a \in Nat /\ a <= D.peer
        /\ D.pos \in Nat /\ D.peer \in Nat /\ Size \in Nat
    BY <1>2, DccAssumption DEF IsDcc
  <2> DEFINE s == [st EXCEPT !.dcc[d].ack = a]
             E == [D EXCEPT !.ack = a]
  <2>1. DOMAIN st = Parts
    BY <1>2, EntryIs
  <2>2. Sets(st, s, d, E)
    BY <1>2, <2>1 DEF Sets, Only, Others, Parts, IsDcc, Fields
  <2>3. Like(D, E, {"ack"}) /\ E.ack = a
    BY <1>2 DEF Like, IsDcc, Fields
  <2>4. \/ D.pos >= Size /\ a >= Size /\ st' = dcc_close(s, d, "done")
        \/ st' = dcc_send_data(s, d, n, then)
        \/ st' = s
    BY <1>6 DEF dcc_handle_new_ack, Of
  <2> HIDE DEF E, s, D
  <2>5. E.type = D.type /\ E.stat = D.stat /\ E.pos = D.pos /\ E.peer = D.peer
    BY <2>3 DEF Like, Fields
  <2>6. IsDcc(E) /\ Like(st.dcc[d], E, {"pos", "ack", "peer", "resumable"})
    BY <1>2, <2>0, <2>3 DEF IsDcc, Like, Fields, D
  <2>7. D.type = "send" /\ D.stat = "active" /\ (~Mixed => SendOk(D))
    BY <1>2, <1>3 DEF EntryOk, D
  <2>8. ASSUME ~Mixed PROVE SendOk(E)
    BY <2>0, <2>3, <2>5, <2>7, <2>8 DEF SendOk
  <2>9. Done(st, s, d) /\ s.dcc[d] = E /\ TagsOk(E)
    BY <1>2, <1>3, <2>2, <2>6, <2>8, AmountsPut
  <2>10. d \in DOMAIN s.dcc /\ Core(s) /\ Inv(s) /\ Keep(st, s)
    BY <1>2, <2>9, InvRests DEF Rests, Keep, Inv
  <2>11. Keep(s, st')
    <3>1. CASE D.pos >= Size /\ a >= Size /\ st' = dcc_close(s, d, "done")
      <4>1. ASSUME ~Mixed PROVE Complete(s, d)
        <5>1. D.pos = D.peer /\ D.peer <= Size
          BY <2>7, <4>1 DEF SendOk, Live
        <5>2. E.peer = Size /\ E.ack = Size
          BY <2>0, <2>3, <2>5, <3>1, <5>1
        <5> QED BY <2>5, <2>7, <2>9, <5>2 DEF Complete
      <4>2. "done" \in Dead
        BY DEF Dead
      <4>3. Rests(s, dcc_close(s, d, "done"), d)
        BY <2>10, <4>1, <4>2, ClosedRests
      <4> QED BY <2>10, <3>1, <4>3, InvRests
    <3>2. CASE st' = dcc_send_data(s, d, n, then)
      <4>1. /\ s.dcc[d].type # "recv" /\ s.dcc[d].stat = "active" /\ TagsOk(s.dcc[d])
            /\ n <= Size - s.dcc[d].pos
        BY <2>0, <2>5, <2>7, <2>9
      <4>2. Rests(s, dcc_send_data(s, d, n, then), d)
        BY <2>0, <2>10, <4>1, SendDataRests
      <4> QED BY <2>10, <3>2, <4>2, InvRests
    <3>3. CASE st' = s
      BY <2>10, <3>3 DEF Keep
    <3> QED BY <2>4, <3>1, <3>2, <3>3
  <2> QED BY <1>1, <2>10, <2>11, KeepTwice, Kepts
<1> QED BY <1>1, <1>5, <1>6

\* What is found when a throttle is lifted, or not.
LEMMA Goes ==
    ASSUME NEW d, NEW cps, IsDcc(st.dcc[d]), NEW o \in Going(d, cps)
    PROVE  /\ o.n \in Nat
           /\ ~Stays(st, d, cps) =>
                /\ st.dcc[d].type = "recv" => o.n <= Size - st.dcc[d].peer
                /\ st.dcc[d].type # "recv" => o.n <= Size - st.dcc[d].pos
<1>1. st.dcc[d].pos \in Nat /\ st.dcc[d].peer \in Nat /\ Size \in Nat
  BY DccAssumption DEF IsDcc
<1>2. CASE Stays(st, d, cps)
  <2>1. o = [n |-> 0, then |-> "nothing"]
    BY <1>2 DEF Going, Of, Stays
  <2> QED BY <1>2, <2>1
<1>3. CASE ~Stays(st, d, cps) /\ st.dcc[d].type # "recv"
  <2>1. o \in [n : Sendable(d), then : Sending]
    BY <1>3 DEF Going, Of, Stays
  <2>2. o.n \in 0..(Size - st.dcc[d].pos)
    BY <2>1 DEF Sendable, Of
  <2> QED BY <1>1, <1>3, <2>2
<1>4. CASE ~Stays(st, d, cps) /\ st.dcc[d].type = "recv"
  <2>1. o.n \in Arriving(d)
    BY <1>4 DEF Going, Of, Stays
  <2>2. o.n \in 0..(Size - st.dcc[d].peer)
    BY <2>1 DEF Arriving, Of
  <2> QED BY <1>1, <1>4, <2>2
<1> QED BY <1>2, <1>3, <1>4

LEMMA Keeps_dcc_check_timeouts ==
    ASSUME DccInv, dcc_check_timeouts
    PROVE  DccNext
<1>1. PICK d \in Listed :
        /\ \/ /\ st.dcc[d].stat = "active"
              /\ \E cps \in (IF st.dcc[d].type \in {"send", "recv"} THEN {0, 1} ELSE ChatRates) :
                   \E o \in Going(d, cps) :
                   LET s == dcc_calc_cps(st, d, cps, o.n, o.then)
                   IN st' = s \/ st' = dcc_close(s, d, "aborted")
           \/ st' = dcc_close(st, d, "aborted")
           \/ st' = Destroy(st, d)
        /\ Kept
  BY DEF dcc_check_timeouts, Check, Becomes, Of
<1>2. d \in DOMAIN st.dcc /\ Inv(st) /\ Core(st) /\ TagsOk(st.dcc[d]) /\ IsDcc(st.dcc[d])
  BY ListedEntry, EntryIs DEF Inv
<1>3. "aborted" \in Dead /\ "aborted" # "done"
  BY DEF Dead
<1>4. ASSUME st.dcc[d].stat = "active",
             NEW cps \in (IF st.dcc[d].type \in {"send", "recv"} THEN {0, 1} ELSE ChatRates),
             NEW o \in Going(d, cps),
             \/ st' = dcc_calc_cps(st, d, cps, o.n, o.then)
             \/ st' = dcc_close(dcc_calc_cps(st, d, cps, o.n, o.then), d, "aborted")
      PROVE  DccNext
  <2> DEFINE s == dcc_calc_cps(st, d, cps, o.n, o.then)
  <2>1. cps \in Nat /\ (st.dcc[d].type \in Chats => cps \in ChatRates)
    BY <1>4, DccAssumption DEF Chats
  <2>2. /\ o.n \in Nat
        /\ ~Stays(st, d, cps) =>
             /\ st.dcc[d].type = "recv" => o.n <= Size - st.dcc[d].peer
             /\ st.dcc[d].type # "recv" => o.n <= Size - st.dcc[d].pos
    BY <1>2, Goes
  <2>3. Rests(st, s, d)
    BY <1>2, <1>4, <2>1, <2>2, CalcRests
  <2>4. Keep(st, s) /\ d \in DOMAIN s.dcc
    BY <1>2, <2>3, InvRests
  <2>5. st' = s \/ st' = dcc_close(s, d, "aborted")
    BY <1>4
  <2> HIDE DEF s
  <2>6. CASE st' = s
    BY <1>1, <2>4, <2>6, Kepts
  <2>7. CASE st' = dcc_close(s, d, "aborted")
    <3>1. Inv(s) /\ Core(s)
      BY <2>4 DEF Keep, Inv
    <3>2. Rests(s, dcc_close(s, d, "aborted"), d)
      BY <1>3, <2>4, <3>1, ClosedRests
    <3>3. Keep(s, st')
      BY <2>7, <3>1, <3>2, InvRests
    <3> QED BY <1>1, <2>4, <3>3, KeepTwice, Kepts
  <2> QED BY <2>5, <2>6, <2>7
<1>5. CASE st' = dcc_close(st, d, "aborted")
  <2>1. Rests(st, dcc_close(st, d, "aborted"), d)
    BY <1>2, <1>3, ClosedRests
  <2> QED BY <1>1, <1>2, <1>5, <2>1, InvRests, Kepts
<1>6. CASE st' = Destroy(st, d)
  BY <1>1, <1>2, <1>6, InvDestroyed, Kepts
<1> QED BY <1>1, <1>4, <1>5, <1>6

-----------------------------------------------------------------------------
(* The theorems.                                                           *)

\* Nothing has been offered yet; a file on disk has its first blocks.
LEMMA Starting_Holds ==
    ASSUME Init
    PROVE  DccInv
<1>1. PICK given \in [Files -> Given] :
        st = [dcc |-> [d \in {} |-> NewDcc], list |-> <<>>, sources |-> {},
              sum |-> [send |-> 0, get |-> 0, left |-> 0], completed |-> {},
              disk |-> [p \in Paths |->
                          IF p \in Files /\ given[p] # 0
                          THEN Blocks(0, given[p]) ELSE Absent]]
  BY DEF Init
<1>2. /\ DOMAIN st = Parts /\ DOMAIN st.dcc = {} /\ st.list = <<>> /\ st.sources = {}
      /\ DOMAIN st.sum = Counters /\ \A x \in Counters : st.sum[x] = 0
      /\ st.completed = {} /\ DOMAIN st.disk = Paths
  BY <1>1 DEF Parts, Counters, Directions
<1>3. ASSUME NEW p \in Paths
      PROVE  \/ st.disk[p] = Absent
             \/ \E n \in 0..Size : st.disk[p] = Blocks(0, n)
  <2>1. st.disk[p] = IF p \in Files /\ given[p] # 0 THEN Blocks(0, given[p]) ELSE Absent
    BY <1>1
  <2>2. p \in Files => given[p] \in 0..Size
    BY DccAssumption
  <2> QED BY <2>1, <2>2
<1>4. DiskOk(st)
  <2>1. \A n \in 0..Size : Blocks(0, n) \in Seq(Int)
    BY BlocksProps, DccAssumption
  <2>2. Absent \in Seq(Int)
    BY DEF Absent
  <2> QED BY <1>2, <1>3, <2>1, <2>2 DEF DiskOk
<1>5. IsState(st)
  BY <1>2 DEF IsState, ListOk, Owned
<1>6. SumsOk(st)
  <2>1. \A x \in Directions : Active(st, x) = {}
    BY <1>2 DEF Active
  <2>2. ASSUME NEW f PROVE Total(f, {}) = 0
    BY TotalStep
  <2>3. \A x \in Directions : Net(st, x) = 0
    BY <1>2 DEF Net, Counters, Directions
  <2> QED BY <2>1, <2>2, <2>3 DEF SumsOk
<1>7. FilesOk(st)
  <2>1. ASSUME NEW f \in Files PROVE st.disk[f] = Absent \/ \E n \in Nat : Has(st.disk, f, n)
    <3>1. f \in Paths
      BY DEF Paths
    <3>2. \A n \in 0..Size : n \in Nat
      BY DccAssumption
    <3> QED BY <1>3, <3>1, <3>2 DEF Has
  <2> QED BY <1>2, <2>1 DEF FilesOk, Apart
<1>8. Inv(st)
  BY <1>2, <1>4, <1>5, <1>6, <1>7 DEF Inv, Core
<1>9. used = {}
  BY DEF Init
<1> QED BY <1>2, <1>8, <1>9 DEF DccInv

LEMMA Steps ==
    ASSUME DccInv, Next
    PROVE  DccNext
<1>1. CASE User
  BY <1>1, Keeps_dcc_send, Keeps_dcc_chat, Keeps_UserAbort, Keeps_UserGet, Keeps_dcc_get_nick
     DEF User
<1>2. CASE Peer
  BY <1>2, Keeps_dcc_add_file, Keeps_dcc_add_chat, Keeps_PassiveAnswered, Keeps_HandleResume,
     Keeps_HandleAccept DEF Peer
<1>3. CASE Loop
  BY <1>3, Keeps_Connected, Keeps_Reads, Keeps_ReadsChat, Keeps_Sends, Keeps_ReadsAck DEF Loop
<1>4. CASE dcc_check_timeouts
  BY <1>4, Keeps_dcc_check_timeouts
<1> QED BY <1>1, <1>2, <1>3, <1>4 DEF Next

\* What is true of the program between two handlers is an invariant.
THEOREM HandlersRest == Spec => []DccInv
<1>1. Init => DccInv
  BY Starting_Holds
<1>2. DccInv /\ [Next]_vars => DccInv'
  <2>1. DccInv /\ Next => DccInv'
    BY Steps DEF DccInv, DccNext
  <2>2. DccInv /\ UNCHANGED vars => DccInv'
    BY DEF DccInv, vars
  <2> QED BY <2>1, <2>2
<1> QED BY <1>1, <1>2, PTL DEF Spec

\* The main loop calls back for exactly the entries whose tags say so
\* (fe_input_add and fe_input_remove in dcc.cpp).
THEOREM SourcesAreOwned == Spec => []SourcesOwned
<1>1. DccInv => SourcesOwned
  <2>1. SUFFICES ASSUME DccInv PROVE SourcesOwned
    OBVIOUS
  <2>2. Listed = DOMAIN st.dcc /\ Core(st)
    BY <2>1, ListedEntry
  <2>3. /\ st.sources \subseteq Dccs \X Callbacks
        /\ \A e \in Dccs, cb \in Callbacks :
              <<e, cb>> \in st.sources <=> /\ e \in Listed
                                           /\ st.dcc[e].iotag = cb \/ st.dcc[e].wiotag = cb
    BY <2>2 DEF Core, IsState, Owned
  <2>4. ASSUME NEW d \in Listed
        PROVE  /\ d \in Dccs /\ st.dcc[d].iotag \in Callbacks \cup {"none"}
               /\ st.dcc[d].wiotag \in Callbacks \cup {"none"}
    BY <2>2, EntryIs DEF IsDcc
  <2>5. "none" \notin Callbacks
    BY DEF Callbacks
  <2> DEFINE A == UNION {{<<d, Of(d).iotag>>, <<d, Of(d).wiotag>>} : d \in Listed}
             B == Dccs \X {"none"}
             U == A \ B
  <2>6. ASSUME NEW p \in st.sources PROVE p \in U
    <3>1. PICK e \in Dccs, cb \in Callbacks : p = <<e, cb>>
      BY <2>3
    <3>2. e \in Listed /\ (Of(e).iotag = cb \/ Of(e).wiotag = cb)
      BY <2>3, <3>1 DEF Of
    <3>3. p # <<e, "none">> /\ \A d \in Dccs : p # <<d, "none">>
      BY <2>5, <3>1
    <3>4. p \notin B
      BY <3>3
    <3>5. p \in {<<e, Of(e).iotag>>, <<e, Of(e).wiotag>>}
      BY <3>1, <3>2
    <3>6. p \in A
      BY <3>2, <3>5
    <3> HIDE DEF A, B
    <3> QED BY <3>4, <3>6
  <2>7. ASSUME NEW p \in U PROVE p \in st.sources
    <3>0. p \in A /\ p \notin B
      <4> HIDE DEF A, B
      <4> QED OBVIOUS
    <3>1. PICK d \in Listed : p \in {<<d, Of(d).iotag>>, <<d, Of(d).wiotag>>}
      BY <3>0
    <3>2. p \notin Dccs \X {"none"}
      BY <3>0
    <3>3. PICK cb \in {Of(d).iotag, Of(d).wiotag} : p = <<d, cb>>
      BY <3>1
    <3>4. cb # "none"
      BY <2>4, <3>2, <3>3
    <3>5. cb \in Callbacks
      BY <2>4, <3>3, <3>4 DEF Of
    <3> QED BY <2>3, <2>4, <3>3, <3>5 DEF Of
  <2>8. st.sources = U
    <3> HIDE DEF U
    <3> QED BY <2>6, <2>7
  <2> QED BY <2>8 DEF SourcesOwned
<1> QED BY <1>1, HandlersRest, PTL

\* A transfer that goes through a proxy has asked it for all that the child
\* that connects to a server asks for (dcc_socks_proxy_traverse and others).
THEOREM ProxiesAreAsked == Spec => []ProxyAsked
<1>1. DccInv => ProxyAsked
  <2>1. SUFFICES ASSUME DccInv, NEW d \in Listed, st.dcc[d].stat = "active",
                        st.dcc[d].proxy.kind \notin {"none", "wingate"}
                 PROVE  st.dcc[d].proxy.asked = Asked(Traverse[st.dcc[d].proxy.kind])
    BY DEF ProxyAsked, Of
  <2>2. TagsOk(st.dcc[d])
    BY <2>1, ListedEntry DEF Inv
  <2> QED BY <2>1, <2>2 DEF TagsOk, ActiveOk, Heard
<1> QED BY <1>1, HandlersRest, PTL

\* The sums that throttle transfers are those of what is active, and, in that
\* of what is received, what the chats that ended had: whatever rates are
\* measured (dcc_calc_cps, dcc_remove_from_sum).
THEOREM SumsAreExact == Spec => []SumsExact
<1>1. DccInv => SumsExact
  <2>1. SUFFICES ASSUME DccInv PROVE SumsExact
    OBVIOUS
  <2>2. Listed = DOMAIN st.dcc /\ SumsOk(st) /\ \A x \in Counters : st.sum[x] \in Int
    BY <2>1, ListedEntry DEF Core, IsState
  <2>3. ASSUME NEW x \in Directions PROVE Net(st, x) = Rate(x)
    BY <2>2 DEF SumsOk, Active, Of, Rate
  <2>4. st.sum["send"] = Rate("send") /\ st.sum["get"] - st.sum["left"] = Rate("get")
    BY <2>3 DEF Net, Directions
  <2>5. st.sum["get"] \in Int /\ st.sum["left"] \in Int
    BY <2>2 DEF Counters, Directions
  <2> QED BY <2>4, <2>5 DEF SumsExact
<1> QED BY <1>1, HandlersRest, PTL

\* Where offers of one file, and passive offers, do not coexist, the blocks
\* that are sent follow on those the peer has, and "done" means that it has
\* acknowledged them all (dcc_send_data, dcc_handle_new_ack, handle_dcc).
THEOREM StreamsAreUnbroken ==
    ASSUME ~Mixed
    PROVE  Spec => []StreamUnbroken
<1>1. DccInv => StreamUnbroken
  <2>1. SUFFICES ASSUME DccInv, NEW d \in Listed, st.dcc[d].type = "send"
                 PROVE  /\ st.dcc[d].stat = "active" => st.dcc[d].peer = st.dcc[d].pos
                        /\ st.dcc[d].stat = "done" => st.dcc[d].peer = Size /\ st.dcc[d].ack = Size
    BY DEF StreamUnbroken, Of
  <2>2. SendOk(st.dcc[d])
    BY <2>1, ListedEntry, EntryIs DEF EntryOk
  <2> QED BY <2>1, <2>2 DEF SendOk, Live
<1> QED BY <1>1, HandlersRest, PTL

\* Under the same condition, what is moved to the completed files was received
\* whole and in order, however transfers of the name were resumed and broken
\* off (dcc_read, dcc_close, is_resumable).
THEOREM ReceivedIsWhole ==
    ASSUME ~Mixed
    PROVE  Spec => []ReceivedWhole
<1>1. DccInv => ReceivedWhole
  BY ListedEntry DEF Core, FilesOk, ReceivedWhole
<1> QED BY <1>1, HandlersRest, PTL

\* Under the same condition, the list names what there is, and no position in
\* a file is beyond its end.
THEOREM TypeCorrect ==
    ASSUME ~Mixed
    PROVE  Spec => []TypeOK
<1>1. DccInv => TypeOK
  <2>1. SUFFICES ASSUME DccInv PROVE TypeOK
    OBVIOUS
  <2>2. Listed = DOMAIN st.dcc /\ Core(st)
    BY <2>1, ListedEntry
  <2>3. ASSUME NEW d \in Listed
        PROVE  /\ st.dcc[d].stat \in Live \cup Dead
               /\ st.dcc[d].pos \in 0..Size /\ st.dcc[d].ack \in 0..Size
               /\ st.dcc[d].peer \in 0..Size
    <3>1. IsDcc(st.dcc[d]) /\ SendOk(st.dcc[d])
      BY <2>2, EntryIs DEF EntryOk
    <3>2. st.dcc[d].stat \in Live \cup Dead
      BY <3>1 DEF IsDcc
    <3>3. /\ st.dcc[d].pos \in Nat /\ st.dcc[d].ack \in Nat /\ st.dcc[d].peer \in Nat
          /\ st.dcc[d].pos <= Size /\ st.dcc[d].ack <= Size /\ st.dcc[d].peer <= Size
          /\ Size \in Nat
      BY <3>1, DccAssumption DEF IsDcc, SendOk
    <3> QED BY <3>2, <3>3
  <2> QED BY <2>1, <2>2, <2>3 DEF TypeOK, DccInv, Of
<1> QED BY <1>1, HandlersRest, PTL
=============================================================================
