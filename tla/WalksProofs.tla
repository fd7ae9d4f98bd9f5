----------------------------- MODULE WalksProofs -----------------------------
(***************************************************************************)
(* Proofs about the two lists that are changed while loops go through      *)
(* them: the hooks of plugins and the windows.                             *)
(*                                                                         *)
(* Hooks, for any number of hooks, plugins and nested walks: first the     *)
(* list, what inserting and removing an element does to its elements and   *)
(* to their order; then HooksInv, which owns the sources and follows every *)
(* walker on the stack.                                                    *)
(*                                                                         *)
(* Sessions: whatever windows are opened and closed, and in whatever       *)
(* order, the pointers to windows stay valid, a server lives as long as    *)
(* its windows, a connection that is closed by closing windows was sent    *)
(* exactly one QUIT, and each of the loops comes to an end.                *)
(***************************************************************************)
EXTENDS Hooks, Sessions, SequenceTheorems, WellFoundedInduction, TLAPS

-----------------------------------------------------------------------------
(* Lists without repetition.                                               *)

\* No element is in the list twice.
Once(s) == \A i, j \in DOMAIN s : s[i] = s[j] => i = j

\* Where an element is.
At(s, x) == CHOOSE i \in DOMAIN s : s[i] = x

\* A nonempty set of natural numbers has a least element, and CHOOSE finds it.
LEMMA Least ==
    ASSUME NEW S, S \subseteq Nat, S # {}
    PROVE  LET m == CHOOSE i \in S : \A j \in S : i <= j
           IN m \in S /\ \A j \in S : m <= j
<1> DEFINE Less == {ss \in Nat \X Nat : ss[1] < ss[2]}
<1>1. IsWellFoundedOn(Less, Nat)
  BY NatLessThanWellFounded DEF OpToRel
<1>2. PICK p \in S : \A q \in S : ~ (<<q, p>> \in Less)
  <2> HIDE DEF Less
  <2> QED BY <1>1, WFMin
<1>3. ASSUME NEW q \in S PROVE p <= q
  <2>1. p \in Nat /\ q \in Nat
    OBVIOUS
  <2>2. <<q, p>> \notin Less
    BY <1>2
  <2>3. ~ (q < p)
    BY <2>1, <2>2 DEF Less
  <2> QED BY <2>1, <2>3
<1> QED BY <1>3

\* An element of a list is at its place, and only there.
LEMMA AtFacts ==
    ASSUME NEW S, NEW s \in Seq(S), Once(s), NEW x \in ToSet(s)
    PROVE  /\ At(s, x) \in 1..Len(s) /\ s[At(s, x)] = x
           /\ \A i \in 1..Len(s) : s[i] = x => i = At(s, x)
<1>1. PICK i \in DOMAIN s : s[i] = x
  BY DEF ToSet
<1>2. At(s, x) \in DOMAIN s /\ s[At(s, x)] = x
  BY <1>1 DEF At
<1>3. DOMAIN s = 1..Len(s)
  BY LenProperties
<1> QED BY <1>2, <1>3 DEF Once

\* A list t that holds the elements of s at places moved by a monotonic m
\* keeps their order.
LEMMA MovedOrder ==
    ASSUME NEW S, NEW s \in Seq(S), NEW t \in Seq(S), Once(s), Once(t),
           NEW m \in [Int -> Int],
           \A i, j \in Int : i <= j => m[i] <= m[j],
           NEW D, D \subseteq ToSet(s),
           \A x \in D : m[At(s, x)] \in 1..Len(t) /\ t[m[At(s, x)]] = x,
           NEW g \in D, NEW h \in D
    PROVE  At(s, g) <= At(s, h) <=> At(t, g) <= At(t, h)
<1>1. /\ At(s, g) \in 1..Len(s) /\ s[At(s, g)] = g
      /\ At(s, h) \in 1..Len(s) /\ s[At(s, h)] = h
      /\ Len(s) \in Nat /\ Len(t) \in Nat
  BY AtFacts, LenProperties
<1>2. DOMAIN t = 1..Len(t)
  BY LenProperties
<1>3. g \in ToSet(t) /\ h \in ToSet(t)
  BY <1>2 DEF ToSet
<1>4. At(t, g) = m[At(s, g)] /\ At(t, h) = m[At(s, h)]
  BY <1>3, AtFacts
<1>5. m[At(s, g)] \in 1..Len(t) /\ t[m[At(s, g)]] = g
  OBVIOUS
<1>6. At(s, g) <= At(s, h) => At(t, g) <= At(t, h)
  BY <1>1, <1>4
<1>7. CASE ~ (At(s, g) <= At(s, h))
  <2>1. At(s, h) <= At(s, g)
    BY <1>1, <1>7
  <2>2. At(t, h) <= At(t, g)
    BY <1>1, <1>4, <2>1
  <2>3. g # h
    BY <1>1, <1>7
  <2>4. At(t, h) # At(t, g)
    BY <1>4, <2>3
  <2> QED BY <1>1, <1>4, <1>7, <2>2, <2>4
<1> QED BY <1>6, <1>7

\* Taking an element out.
LEMMA RemoveFacts ==
    ASSUME NEW S, NEW s \in Seq(S), Once(s), NEW k \in 1..Len(s)
    PROVE  /\ RemoveAt(s, k) \in Seq(S) /\ Once(RemoveAt(s, k))
           /\ ToSet(RemoveAt(s, k)) = ToSet(s) \ {s[k]}
           /\ \A g, h \in ToSet(s) \ {s[k]} :
                 At(s, g) <= At(s, h) <=> At(RemoveAt(s, k), g) <= At(RemoveAt(s, k), h)
<1> DEFINE n == Len(s)
           s1 == SubSeq(s, 1, k - 1)
           s2 == SubSeq(s, k + 1, n)
           t == RemoveAt(s, k)
           m == [i \in Int |-> IF i < k THEN i ELSE i - 1]
<1>1. /\ n \in Nat /\ DOMAIN s = 1..n
      /\ \A i \in 1..n : s[i] \in S
  BY LenProperties, ElementOfSeq
<1>2. k \in 1..n
  OBVIOUS
<1> HIDE DEF n
<1>3. /\ s1 \in Seq(S) /\ Len(s1) = k - 1
      /\ \A i \in 1..(k - 1) : s1[i] = s[i]
  <2>1. \A i \in 1..(k - 1) : s[i] \in S
    BY <1>1, <1>2
  <2>2. 1 \in Int /\ k - 1 \in Int /\ k - 1 >= 0
    BY <1>1, <1>2
  <2>3. /\ s1 \in Seq(S) /\ Len(s1) = IF 1 <= k - 1 THEN k - 1 - 1 + 1 ELSE 0
        /\ \A i \in 1..(k - 1 - 1 + 1) : s1[i] = s[1 + i - 1]
    BY <2>1, <2>2, SubSeqProperties
  <2> HIDE DEF s1
  <2> QED BY <2>2, <2>3
<1>4. /\ s2 \in Seq(S) /\ Len(s2) = n - k
      /\ \A i \in 1..(n - k) : s2[i] = s[k + i]
  <2>1. \A i \in (k + 1)..n : s[i] \in S
    BY <1>1, <1>2
  <2>2. k + 1 \in Int /\ n \in Int /\ k <= n
    BY <1>1, <1>2
  <2>3. /\ s2 \in Seq(S) /\ Len(s2) = IF k + 1 <= n THEN n - (k + 1) + 1 ELSE 0
        /\ \A i \in 1..(n - (k + 1) + 1) : s2[i] = s[k + 1 + i - 1]
    BY <2>1, <2>2, SubSeqProperties
  <2>4. k \in Int
    BY <1>1, <1>2
  <2> HIDE DEF s2
  <2> QED BY <2>2, <2>3, <2>4
<1>5. t = s1 \o s2
  BY DEF RemoveAt, n
<1> HIDE DEF s1, s2, t
<1>6. /\ t \in Seq(S) /\ Len(t) = n - 1
      /\ \A i \in 1..(n - 1) : t[i] = IF i < k THEN s[i] ELSE s[i + 1]
  <2>1. /\ t \in Seq(S) /\ Len(t) = Len(s1) + Len(s2)
        /\ \A i \in 1..Len(s1) + Len(s2) :
              t[i] = IF i <= Len(s1) THEN s1[i] ELSE s2[i - Len(s1)]
    BY <1>3, <1>4, <1>5, ConcatProperties
  <2> QED BY <1>1, <1>2, <1>3, <1>4, <2>1
<1>7. DOMAIN t = 1..(n - 1)
  BY <1>6, LenProperties
<1>8. \A i \in 1..n : i # k => m[i] \in 1..(n - 1) /\ t[m[i]] = s[i]
  BY <1>1, <1>2, <1>6
<1>9. \A i \in 1..(n - 1) : \E j \in 1..n : j # k /\ m[j] = i /\ t[i] = s[j]
  <2> SUFFICES ASSUME NEW i \in 1..(n - 1)
               PROVE  \E j \in 1..n : j # k /\ m[j] = i /\ t[i] = s[j]
    OBVIOUS
  <2>1. CASE i < k
    <3>1. i \in 1..n /\ i # k /\ m[i] = i /\ t[i] = s[i]
      BY <1>1, <1>2, <1>6, <2>1
    <3> QED BY <3>1
  <2>2. CASE ~ (i < k)
    <3>1. i + 1 \in 1..n /\ i + 1 # k /\ m[i + 1] = i /\ t[i] = s[i + 1]
      BY <1>1, <1>2, <1>6, <2>2
    <3> QED BY <3>1
  <2> QED BY <2>1, <2>2
<1>10. m \in [Int -> Int] /\ \A i, j \in Int : i <= j => m[i] <= m[j]
  BY <1>1, <1>2
<1> HIDE DEF m
<1>11. Once(t)
  <2> SUFFICES ASSUME NEW i \in 1..(n - 1), NEW j \in 1..(n - 1), t[i] = t[j]
               PROVE  i = j
    BY <1>7 DEF Once
  <2>1. PICK a \in 1..n : a # k /\ m[a] = i /\ t[i] = s[a]
    BY <1>9
  <2>2. PICK b \in 1..n : b # k /\ m[b] = j /\ t[j] = s[b]
    BY <1>9
  <2> QED BY <1>1, <2>1, <2>2 DEF Once
<1>12. ToSet(t) = ToSet(s) \ {s[k]}
  <2>1. ASSUME NEW x \in ToSet(t) PROVE x \in ToSet(s) \ {s[k]}
    <3>1. PICK i \in 1..(n - 1) : x = t[i]
      BY <1>7 DEF ToSet
    <3>2. PICK j \in 1..n : j # k /\ t[i] = s[j]
      BY <1>9
    <3> QED BY <1>1, <1>2, <3>1, <3>2 DEF ToSet, Once
  <2>2. ASSUME NEW x \in ToSet(s) \ {s[k]} PROVE x \in ToSet(t)
    <3>1. PICK j \in 1..n : x = s[j]
      BY <1>1 DEF ToSet
    <3>2. j # k
      BY <3>1
    <3> QED BY <1>7, <1>8, <3>1, <3>2 DEF ToSet
  <2> QED BY <2>1, <2>2
<1>13. ASSUME NEW g \in ToSet(s) \ {s[k]}, NEW h \in ToSet(s) \ {s[k]}
       PROVE  At(s, g) <= At(s, h) <=> At(t, g) <= At(t, h)
  <2> DEFINE D == ToSet(s) \ {s[k]}
  <2>1. \A x \in D : m[At(s, x)] \in 1..Len(t) /\ t[m[At(s, x)]] = x
    <3> SUFFICES ASSUME NEW x \in D
                 PROVE  m[At(s, x)] \in 1..Len(t) /\ t[m[At(s, x)]] = x
      OBVIOUS
    <3>1. At(s, x) \in 1..n /\ s[At(s, x)] = x
      BY AtFacts DEF n
    <3>2. At(s, x) # k
      BY <3>1
    <3> QED BY <1>6, <1>8, <3>1, <3>2
  <2>2. D \subseteq ToSet(s) /\ g \in D /\ h \in D
    OBVIOUS
  <2> HIDE DEF D
  <2> QED BY <1>6, <1>10, <1>11, <2>1, <2>2, MovedOrder
<1> QED BY <1>6, <1>11, <1>12, <1>13 DEF t

\* Putting a new element in.
LEMMA InsertFacts ==
    ASSUME NEW S, NEW s \in Seq(S), Once(s), NEW k \in 1..(Len(s) + 1),
           NEW x \in S, x \notin ToSet(s)
    PROVE  /\ InsertAt(s, k, x) \in Seq(S) /\ Once(InsertAt(s, k, x))
           /\ ToSet(InsertAt(s, k, x)) = ToSet(s) \cup {x}
           /\ \A g, h \in ToSet(s) :
                 At(s, g) <= At(s, h) <=> At(InsertAt(s, k, x), g) <= At(InsertAt(s, k, x), h)
<1> DEFINE n == Len(s)
           s1 == SubSeq(s, 1, k - 1)
           s2 == SubSeq(s, k, n)
           u == s1 \o <<x>>
           t == InsertAt(s, k, x)
           m == [i \in Int |-> IF i < k THEN i ELSE i + 1]
<1>1. /\ n \in Nat /\ DOMAIN s = 1..n
      /\ \A i \in 1..n : s[i] \in S
  BY LenProperties, ElementOfSeq
<1>2. k \in 1..(n + 1)
  OBVIOUS
<1> HIDE DEF n
<1>3. /\ s1 \in Seq(S) /\ Len(s1) = k - 1
      /\ \A i \in 1..(k - 1) : s1[i] = s[i]
  <2>1. \A i \in 1..(k - 1) : s[i] \in S
    BY <1>1, <1>2
  <2>2. 1 \in Int /\ k - 1 \in Int /\ k - 1 >= 0
    BY <1>1, <1>2
  <2>3. /\ s1 \in Seq(S) /\ Len(s1) = IF 1 <= k - 1 THEN k - 1 - 1 + 1 ELSE 0
        /\ \A i \in 1..(k - 1 - 1 + 1) : s1[i] = s[1 + i - 1]
    BY <2>1, <2>2, SubSeqProperties
  <2> HIDE DEF s1
  <2> QED BY <2>2, <2>3
<1>4. /\ s2 \in Seq(S) /\ Len(s2) = n - k + 1
      /\ \A i \in 1..(n - k + 1) : s2[i] = s[k + i - 1]
  <2>1. \A i \in k..n : s[i] \in S
    BY <1>1, <1>2
  <2>2. k \in Int /\ n \in Int /\ k <= n + 1
    BY <1>1, <1>2
  <2>3. /\ s2 \in Seq(S) /\ Len(s2) = IF k <= n THEN n - k + 1 ELSE 0
        /\ \A i \in 1..(n - k + 1) : s2[i] = s[k + i - 1]
    BY <2>1, <2>2, SubSeqProperties
  <2> HIDE DEF s2
  <2> QED BY <2>2, <2>3
<1>5. t = u \o s2
  BY DEF InsertAt, n
<1>6. /\ <<x>> \in Seq(S) /\ Len(<<x>>) = 1 /\ <<x>>[1] = x
  OBVIOUS
<1> DEFINE y == <<x>>
<1>7. /\ u \in Seq(S) /\ Len(u) = k
      /\ \A i \in 1..k : u[i] = IF i < k THEN s[i] ELSE x
  <2> HIDE DEF s1, y
  <2>1. /\ u \in Seq(S) /\ Len(u) = Len(s1) + Len(y)
        /\ \A i \in 1..Len(s1) + Len(y) :
              u[i] = IF i <= Len(s1) THEN s1[i] ELSE y[i - Len(s1)]
    BY <1>3, <1>6, ConcatProperties DEF y
  <2>2. Len(y) = 1 /\ y[1] = x
    BY DEF y
  <2> HIDE DEF u
  <2> QED BY <1>1, <1>2, <1>3, <2>1, <2>2
<1> HIDE DEF s1, s2, t, u
<1>8. /\ t \in Seq(S) /\ Len(t) = n + 1
      /\ \A i \in 1..(n + 1) : t[i] = IF i < k THEN s[i] ELSE IF i = k THEN x ELSE s[i - 1]
  <2>1. /\ t \in Seq(S) /\ Len(t) = Len(u) + Len(s2)
        /\ \A i \in 1..Len(u) + Len(s2) :
              t[i] = IF i <= Len(u) THEN u[i] ELSE s2[i - Len(u)]
    BY <1>4, <1>5, <1>7, ConcatProperties
  <2>2. Len(t) = n + 1 /\ k \in Int /\ n \in Nat
    BY <1>1, <1>2, <1>4, <1>7, <2>1
  <2>3. ASSUME NEW i \in 1..(n + 1)
        PROVE  t[i] = IF i < k THEN s[i] ELSE IF i = k THEN x ELSE s[i - 1]
    <3>1. t[i] = IF i <= k THEN u[i] ELSE s2[i - k]
      BY <1>4, <1>7, <2>1, <2>2
    <3>2. CASE i <= k
      <4>1. i \in 1..k
        BY <2>2, <3>2
      <4> QED BY <1>7, <2>2, <3>1, <3>2, <4>1
    <3>3. CASE ~ (i <= k)
      <4>1. i - k \in 1..(n - k + 1) /\ k + (i - k) - 1 = i - 1
        BY <2>2, <3>3
      <4>2. s2[i - k] = s[i - 1]
        BY <1>4, <4>1
      <4> QED BY <2>2, <3>1, <3>3, <4>2
    <3> QED BY <3>2, <3>3
  <2> QED BY <2>1, <2>2, <2>3
<1>9. DOMAIN t = 1..(n + 1) /\ k \in 1..(n + 1) /\ t[k] = x
  BY <1>1, <1>2, <1>8, LenProperties
<1>10. \A i \in 1..n : m[i] \in 1..(n + 1) /\ m[i] # k /\ t[m[i]] = s[i]
  BY <1>1, <1>2, <1>8
<1>11. \A i \in 1..(n + 1) : i # k => \E j \in 1..n : m[j] = i /\ t[i] = s[j]
  <2> SUFFICES ASSUME NEW i \in 1..(n + 1), i # k
               PROVE  \E j \in 1..n : m[j] = i /\ t[i] = s[j]
    OBVIOUS
  <2>1. CASE i < k
    <3>1. i \in 1..n /\ m[i] = i /\ t[i] = s[i]
      BY <1>1, <1>2, <1>8, <2>1
    <3> QED BY <3>1
  <2>2. CASE ~ (i < k)
    <3>1. i - 1 \in 1..n /\ m[i - 1] = i /\ t[i] = s[i - 1]
      BY <1>1, <1>2, <1>8, <2>2
    <3> QED BY <3>1
  <2> QED BY <2>1, <2>2
<1>12. m \in [Int -> Int] /\ \A i, j \in Int : i <= j => m[i] <= m[j]
  BY <1>1, <1>2
<1> HIDE DEF m
<1>13. \A j \in 1..n : s[j] # x
  BY <1>1 DEF ToSet
<1>14. Once(t)
  <2> SUFFICES ASSUME NEW i \in 1..(n + 1), NEW j \in 1..(n + 1), t[i] = t[j]
               PROVE  i = j
    BY <1>9 DEF Once
  <2>1. CASE i = k \/ j = k
    BY <1>9, <1>11, <1>13, <2>1
  <2>2. CASE i # k /\ j # k
    <3>1. PICK a \in 1..n : m[a] = i /\ t[i] = s[a]
      BY <1>11, <2>2
    <3>2. PICK b \in 1..n : m[b] = j /\ t[j] = s[b]
      BY <1>11, <2>2
    <3> QED BY <1>1, <3>1, <3>2 DEF Once
  <2> QED BY <2>1, <2>2
<1>15. ToSet(t) = ToSet(s) \cup {x}
  <2>1. ASSUME NEW y1 \in ToSet(t) PROVE y1 \in ToSet(s) \cup {x}
    <3>1. PICK i \in 1..(n + 1) : y1 = t[i]
      BY <1>9 DEF ToSet
    <3> QED BY <1>1, <1>9, <1>11, <3>1 DEF ToSet
  <2>2. ASSUME NEW y1 \in ToSet(s) PROVE y1 \in ToSet(t)
    <3>1. PICK j \in 1..n : y1 = s[j]
      BY <1>1 DEF ToSet
    <3> QED BY <1>9, <1>10, <3>1 DEF ToSet
  <2>3. x \in ToSet(t)
    BY <1>9 DEF ToSet
  <2> QED BY <2>1, <2>2, <2>3
<1>16. ASSUME NEW g \in ToSet(s), NEW h \in ToSet(s)
       PROVE  At(s, g) <= At(s, h) <=> At(t, g) <= At(t, h)
  <2>1. \A z \in ToSet(s) : m[At(s, z)] \in 1..Len(t) /\ t[m[At(s, z)]] = z
    <3> SUFFICES ASSUME NEW z \in ToSet(s)
                 PROVE  m[At(s, z)] \in 1..Len(t) /\ t[m[At(s, z)]] = z
      OBVIOUS
    <3>1. At(s, z) \in 1..n /\ s[At(s, z)] = z
      BY AtFacts DEF n
    <3> QED BY <1>8, <1>10, <3>1
  <2>2. ToSet(s) \subseteq ToSet(s)
    OBVIOUS
  <2> QED BY <1>8, <1>12, <1>14, <2>1, <2>2, MovedOrder, ZenonT(30)
<1> QED BY <1>8, <1>14, <1>15, <1>16 DEF t

-----------------------------------------------------------------------------
(* The inductive invariant.                                                *)

\* What holds of a frame f when the list is l, the structures are d and the
\* freed addresses g.  The hooks that are due, and live, were called or are
\* where the walker still goes; the ones it holds a link to may be freed, and
\* freed ones never come back.
Follows(f, l, d, g) ==
    /\ f.due \subseteq ToSet(l) \cup g
    /\ f.next \in ToSet(l) \cup g \cup {NoHook}
    /\ \A h \in f.due : d[h].type \in {f.type, "deleted"}
    /\ f.what \in {"walk", "call"} =>
          \A h \in f.due : h \in ToSet(l) /\ d[h].type # "deleted" =>
             \/ h \in ToSet(f.called)
             \/ f.next # NoHook /\ (f.next \in ToSet(l) => At(l, f.next) <= At(l, h))
    /\ f.what = "expunge" =>
          \A h \in f.due : h \in ToSet(l) /\ d[h].type # "deleted" =>
             h \in ToSet(f.called)

\* The hooks, their sources and their plugins.
Registry ==
    /\ hook_list \in Seq(Hooks) /\ Once(hook_list)
    /\ hook \in [Hooks -> HookData]
    /\ freed \subseteq Hooks /\ freed \cap Listed = {}
    /\ plugin_list \subseteq Plugins
    /\ SourcesOwned /\ HooksOfLoaded

Walkers ==
    /\ stack \in Seq(Frame)
    /\ \A f \in ToSet(stack) : Follows(f, hook_list, hook, freed)

HooksInv == Registry /\ Walkers

\* What no step does to the list: drop a hook without freeing it, list a freed
\* one again, revive a deleted one, or swap two.
Older ==
    /\ Listed \cup freed \subseteq Listed' \cup freed'
    /\ Listed' \cap (Listed \cup freed) \subseteq Listed
    /\ \A h \in Listed \cup freed : hook'[h].type \in {hook[h].type, "deleted"}
    /\ \A a, b \in Listed \cap Listed' :
          At(hook_list, a) <= At(hook_list, b) <=> At(hook_list', a) <= At(hook_list', b)

\* The listed hooks are hooks.
LEMMA ListedHooks ==
    ASSUME hook_list \in Seq(Hooks)
    PROVE  Listed \subseteq Hooks
BY LenProperties, ElementOfSeq DEF Listed, ToSet

\* A frame that is not touched follows the list as before.
LEMMA StillFollows ==
    ASSUME Older, NEW f, Follows(f, hook_list, hook, freed)
    PROVE  Follows(f, hook_list', hook', freed')
<1>1. f.due \subseteq Listed' \cup freed' /\ f.next \in Listed' \cup freed' \cup {NoHook}
  BY DEF Older, Follows, Listed
<1>2. \A h \in f.due : hook'[h].type \in {f.type, "deleted"}
  BY DEF Older, Follows, Listed
<1>3. ASSUME NEW h \in f.due, h \in Listed', hook'[h].type # "deleted"
      PROVE  h \in Listed /\ hook[h].type # "deleted"
  BY <1>3 DEF Older, Follows, Listed
<1>4. ASSUME NEW h \in f.due, h \in Listed', hook'[h].type # "deleted",
             f.what \in {"walk", "call"}
      PROVE  \/ h \in ToSet(f.called)
             \/ f.next # NoHook /\ (f.next \in Listed' => At(hook_list', f.next) <= At(hook_list', h))
  <2>1. h \in Listed /\ hook[h].type # "deleted"
    BY <1>3, <1>4
  <2>2. CASE h \in ToSet(f.called)
    BY <2>2
  <2>3. CASE f.next # NoHook /\ (f.next \in Listed => At(hook_list, f.next) <= At(hook_list, h))
    <3>1. f.next \in Listed' => f.next \in Listed
      BY <2>3 DEF Older, Follows, Listed
    <3> QED BY <1>4, <2>1, <2>3, <3>1 DEF Older
  <2> QED BY <1>4, <2>1, <2>2, <2>3 DEF Follows, Listed
<1>5. ASSUME NEW h \in f.due, h \in Listed', hook'[h].type # "deleted",
             f.what = "expunge"
      PROVE  h \in ToSet(f.called)
  BY <1>3, <1>5 DEF Follows, Listed
<1> QED BY <1>1, <1>2, <1>4, <1>5 DEF Follows, Listed

\* If nothing happens to the hooks, they are as before.
LEMMA RegistrySame ==
    ASSUME Registry, UNCHANGED <<hook_list, hook, freed, sources, plugin_list>>
    PROVE  Registry' /\ Older
BY DEF Registry, Older, SourcesOwned, HooksOfLoaded, Live, Listed

\* The frames of a stack, the top taken off and another put on.
LEMMA StackFacts ==
    ASSUME stack \in Seq(Frame)
    PROVE  /\ stack # <<>> => /\ Top \in Frame /\ Top \in ToSet(stack)
                             /\ Tail(stack) \in Seq(Frame)
                             /\ ToSet(Tail(stack)) \subseteq ToSet(stack)
           /\ \A f \in Frame, s \in Seq(Frame) :
                 <<f>> \o s \in Seq(Frame) /\ ToSet(<<f>> \o s) = {f} \cup ToSet(s)
<1>1. ASSUME stack # <<>>
      PROVE  /\ Top \in Frame /\ Top \in ToSet(stack)
             /\ Tail(stack) \in Seq(Frame)
             /\ ToSet(Tail(stack)) \subseteq ToSet(stack)
  <2>1. Len(stack) \in Nat \ {0} /\ DOMAIN stack = 1..Len(stack)
    BY <1>1, LenProperties, EmptySeq
  <2>2. Top = stack[1] /\ 1 \in DOMAIN stack
    BY <2>1 DEF Top
  <2>3. /\ Head(stack) \in Frame /\ Tail(stack) \in Seq(Frame)
        /\ Len(Tail(stack)) = Len(stack) - 1
        /\ \A i \in 1..Len(Tail(stack)) : Tail(stack)[i] = stack[i + 1]
    BY <1>1, HeadTailProperties
  <2>4. DOMAIN Tail(stack) = 1..(Len(stack) - 1)
    BY <2>3, LenProperties
  <2>5. ASSUME NEW i \in 1..(Len(stack) - 1)
        PROVE  i + 1 \in DOMAIN stack /\ Tail(stack)[i] = stack[i + 1]
    BY <2>1, <2>3
  <2> QED BY <2>2, <2>3, <2>4, <2>5 DEF ToSet, Top
<1>2. ASSUME NEW f \in Frame, NEW s \in Seq(Frame)
      PROVE  <<f>> \o s \in Seq(Frame) /\ ToSet(<<f>> \o s) = {f} \cup ToSet(s)
  <2> DEFINE one == <<f>>
             t == one \o s
  <2>1. one \in Seq(Frame) /\ Len(one) = 1 /\ one[1] = f
    OBVIOUS
  <2>2. Len(s) \in Nat /\ DOMAIN s = 1..Len(s)
    BY LenProperties
  <2> HIDE DEF one
  <2>3. /\ t \in Seq(Frame) /\ Len(t) = 1 + Len(s)
        /\ \A i \in 1..1 + Len(s) : t[i] = IF i <= 1 THEN one[i] ELSE s[i - 1]
    <3>1. /\ t \in Seq(Frame) /\ Len(t) = Len(one) + Len(s)
          /\ \A i \in 1..Len(one) + Len(s) :
                t[i] = IF i <= Len(one) THEN one[i] ELSE s[i - Len(one)]
      BY <2>1, ConcatProperties
    <3> HIDE DEF t
    <3> QED BY <2>1, <3>1
  <2> HIDE DEF t
  <2>4. DOMAIN t = 1..(1 + Len(s))
    BY <2>3, LenProperties
  <2>5. ASSUME NEW i \in 1..(1 + Len(s)) PROVE t[i] \in {f} \cup ToSet(s)
    <3>1. CASE i = 1
      BY <2>1, <2>2, <2>3, <3>1
    <3>2. CASE i # 1
      <4>1. i - 1 \in DOMAIN s /\ t[i] = s[i - 1]
        BY <2>2, <2>3, <3>2
      <4> QED BY <4>1 DEF ToSet
    <3> QED BY <3>1, <3>2
  <2>6. f \in ToSet(t)
    <3>1. 1 \in DOMAIN t /\ t[1] = f
      BY <2>1, <2>2, <2>3, <2>4
    <3> QED BY <3>1 DEF ToSet
  <2>7. ASSUME NEW i \in DOMAIN s PROVE s[i] \in ToSet(t)
    <3>1. i + 1 \in DOMAIN t /\ t[i + 1] = s[i]
      BY <2>2, <2>3, <2>4
    <3> QED BY <3>1 DEF ToSet
  <2>8. ToSet(t) \subseteq {f} \cup ToSet(s)
    BY <2>4, <2>5 DEF ToSet
  <2>9. ToSet(s) \subseteq ToSet(t)
    BY <2>7 DEF ToSet
  <2> QED BY <2>3, <2>6, <2>8, <2>9 DEF t, one
<1> QED BY <1>1, <1>2

\* A step that leaves the hooks in order and changes the stack at its top, if
\* at all, keeps the invariant if the new top follows the list.
LEMMA StackStep ==
    ASSUME HooksInv, Registry', Older,
           \/ UNCHANGED stack
           \/ stack # <<>> /\ Pop
           \/ \E f \in Frame : /\ Push(f) \/ (stack # <<>> /\ Become(f))
                               /\ Follows(f, hook_list', hook', freed')
    PROVE  HooksInv'
<1>1. stack \in Seq(Frame) /\ \A f \in ToSet(stack) : Follows(f, hook_list', hook', freed')
  BY StillFollows DEF HooksInv, Walkers
<1>2. CASE UNCHANGED stack
  BY <1>1, <1>2 DEF HooksInv, Walkers
<1>3. CASE stack # <<>> /\ Pop
  BY <1>1, <1>3, StackFacts DEF HooksInv, Walkers, Pop
<1>4. ASSUME NEW f \in Frame, Push(f), Follows(f, hook_list', hook', freed')
      PROVE  HooksInv'
  BY <1>1, <1>4, StackFacts DEF HooksInv, Walkers, Push
<1>5. ASSUME NEW f \in Frame, stack # <<>>, Become(f), Follows(f, hook_list', hook', freed')
      PROVE  HooksInv'
  <2>1. stack' \in Seq(Frame) /\ ToSet(stack') = {f} \cup ToSet(Tail(stack))
    BY <1>1, <1>5, StackFacts DEF Become
  <2> QED BY <1>1, <1>5, <2>1, StackFacts DEF HooksInv, Walkers
<1> QED BY <1>2, <1>3, <1>4, <1>5

-----------------------------------------------------------------------------
(* The steps.                                                              *)

\* A frame that is no walker follows anything.
LEMMA PlainFrame ==
    ASSUME NEW f, f.due = {}, f.next = NoHook, NEW l, NEW d, NEW g
    PROVE  Follows(f, l, d, g)
BY DEF Follows

LEMMA RunInv ==
    ASSUME HooksInv, plugin_hook_run
    PROVE  HooksInv'
<1>1. Registry /\ Registry' /\ Older
  BY RegistrySame DEF HooksInv, plugin_hook_run
<1>2. PICK type \in Events :
         Push([what |-> "walk", type |-> type, hook |-> NoHook,
               next |-> IF hook_list = <<>> THEN NoHook ELSE Head(hook_list),
               pl |-> NoPlugin,
               due |-> {h \in Live : hook[h].type = type}, called |-> <<>>])
  BY DEF plugin_hook_run
<1> DEFINE first == IF hook_list = <<>> THEN NoHook ELSE Head(hook_list)
           due == {h \in Live : hook[h].type = type}
           walk == [what |-> "walk", type |-> type, hook |-> NoHook, next |-> first,
                 pl |-> NoPlugin, due |-> due, called |-> <<>>]
<1>3. Listed \subseteq Hooks /\ Live \subseteq Listed
  BY <1>1, ListedHooks DEF Registry, Live
<1>4. ASSUME NEW h \in Listed
      PROVE  first # NoHook /\ first \in Listed /\ At(hook_list, first) <= At(hook_list, h)
  <2>1. At(hook_list, h) \in 1..Len(hook_list) /\ Len(hook_list) \in Nat
    BY <1>1, AtFacts, LenProperties DEF Registry, Listed
  <2>2. hook_list # <<>> /\ first = hook_list[1] /\ 1 \in 1..Len(hook_list)
    BY <2>1
  <2>3. first \in Listed
    BY <1>1, <2>2, LenProperties DEF Registry, Listed, ToSet
  <2>4. 1 = At(hook_list, first)
    BY <1>1, <2>2, <2>3, AtFacts DEF Registry, Listed
  <2> QED BY <1>3, <2>1, <2>3, <2>4, HooksAssumption
<1>5. first \in Listed \cup {NoHook}
  <2>1. CASE hook_list = <<>>
    BY <2>1
  <2>2. CASE hook_list # <<>>
    <3>1. Len(hook_list) \in Nat \ {0} /\ DOMAIN hook_list = 1..Len(hook_list)
      BY <1>1, <2>2, EmptySeq, LenProperties DEF Registry
    <3>2. 1 \in DOMAIN hook_list /\ first = hook_list[1]
      BY <2>2, <3>1
    <3> QED BY <3>2 DEF Listed, ToSet
  <2> QED BY <2>1, <2>2
<1>6. type \in Types /\ due \subseteq Live
  BY DEF Types
<1>7. \A h \in due : hook[h].type = type
  OBVIOUS
<1>8. Push(walk)
  BY <1>2
<1> HIDE DEF first, due
<1>9. walk \in Frame
  BY <1>3, <1>5, <1>6 DEF Frame
<1>10. Follows(walk, hook_list, hook, freed)
  BY <1>3, <1>4, <1>5, <1>6, <1>7 DEF Follows, Listed
<1>11. Follows(walk, hook_list', hook', freed')
  BY <1>1, <1>10, StillFollows
<1> HIDE DEF walk
<1> QED BY <1>1, <1>8, <1>9, <1>11, StackStep

\* What plugin_hook_find finds.
LEMMA FindFacts ==
    ASSUME Registry, NEW type, NEW x \in Listed
    PROVE  LET h == plugin_hook_find(x, type)
           IN /\ h # NoHook => /\ h \in Listed /\ hook[h].type = type
              /\ \A g \in Listed : hook[g].type = type /\ At(hook_list, x) <= At(hook_list, g)
                    => h # NoHook /\ At(hook_list, h) <= At(hook_list, g)
<1> DEFINE found == {i \in DOMAIN hook_list :
                       i >= HookPosition(x) /\ hook[hook_list[i]].type = type}
           m == CHOOSE i \in found : \A j \in found : i <= j
           h == plugin_hook_find(x, type)
<1>1. DOMAIN hook_list = 1..Len(hook_list) /\ Len(hook_list) \in Nat
  BY LenProperties DEF Registry
<1>2. x \in Hooks /\ x # NoHook /\ HookPosition(x) = At(hook_list, x)
  BY ListedHooks, HooksAssumption DEF Registry, HookPosition, At
<1>3. found # {} => m \in found /\ \A j \in found : m <= j
  <2>1. found \subseteq Nat
    BY <1>1
  <2> HIDE DEF found
  <2> QED BY <2>1, Least
<1>4. h = IF found = {} THEN NoHook ELSE hook_list[m]
  BY <1>2 DEF plugin_hook_find
<1>5. ASSUME NEW g \in Listed, hook[g].type = type, At(hook_list, x) <= At(hook_list, g)
      PROVE  At(hook_list, g) \in found
  <2>1. At(hook_list, g) \in 1..Len(hook_list) /\ hook_list[At(hook_list, g)] = g
    BY AtFacts DEF Registry, Listed
  <2>2. At(hook_list, x) \in 1..Len(hook_list)
    BY AtFacts DEF Registry, Listed
  <2> QED BY <1>1, <1>2, <1>5, <2>1, <2>2
<1>6. CASE found = {}
  BY <1>4, <1>5, <1>6
<1>7. CASE found # {}
  <2>1. /\ m \in 1..Len(hook_list) /\ h = hook_list[m] /\ hook[h].type = type
        /\ \A j \in found : m <= j
    BY <1>1, <1>3, <1>4, <1>7
  <2> HIDE DEF found, m, h
  <2>2. h \in Listed
    BY <1>1, <2>1 DEF Listed, ToSet
  <2>3. h # NoHook
    BY <2>2, ListedHooks, HooksAssumption DEF Registry
  <2>4. m = At(hook_list, h)
    BY <2>1, <2>2, AtFacts DEF Registry, Listed
  <2> QED BY <1>5, <2>1, <2>2, <2>3, <2>4 DEF h
<1> QED BY <1>6, <1>7

\* The link after a hook.
LEMMA SuccessorFacts ==
    ASSUME Registry, NEW h \in Listed
    PROVE  /\ NextHook(h) \in Listed \cup {NoHook}
           /\ \A g \in Listed : At(hook_list, h) <= At(hook_list, g) /\ g # h =>
                 /\ NextHook(h) # NoHook
                 /\ At(hook_list, NextHook(h)) <= At(hook_list, g)
<1> DEFINE n == Len(hook_list)
           p == At(hook_list, h)
<1>1. DOMAIN hook_list = 1..n /\ n \in Nat
  BY LenProperties DEF Registry
<1>2. p \in 1..n /\ hook_list[p] = h /\ HookPosition(h) = p
  BY AtFacts DEF Registry, Listed, HookPosition, At
<1>3. NextHook(h) = IF p = n THEN NoHook ELSE hook_list[p + 1]
  BY <1>2 DEF NextHook
<1>4. CASE p = n
  <2>1. ASSUME NEW g \in Listed, p <= At(hook_list, g) PROVE g = h
    <3>1. At(hook_list, g) \in 1..n /\ hook_list[At(hook_list, g)] = g
      BY AtFacts DEF Registry, Listed
    <3>2. At(hook_list, g) = p
      BY <1>1, <1>4, <2>1, <3>1
    <3> QED BY <1>2, <3>1, <3>2
  <2> QED BY <1>3, <1>4, <2>1
<1>5. CASE p # n
  <2> DEFINE s == hook_list[p + 1]
  <2>1. p + 1 \in 1..n /\ NextHook(h) = s
    BY <1>1, <1>2, <1>3, <1>5
  <2>2. s \in Listed
    BY <1>1, <2>1 DEF Listed, ToSet
  <2>3. At(hook_list, s) = p + 1
    BY <2>1, <2>2, AtFacts DEF Registry, Listed
  <2>4. s # NoHook
    BY <2>2, ListedHooks, HooksAssumption DEF Registry
  <2>5. ASSUME NEW g \in Listed, p <= At(hook_list, g), g # h
        PROVE  p + 1 <= At(hook_list, g)
    <3>1. At(hook_list, g) \in 1..n /\ hook_list[At(hook_list, g)] = g
      BY AtFacts DEF Registry, Listed
    <3>2. At(hook_list, g) # p
      BY <1>2, <2>5, <3>1
    <3> QED BY <1>1, <1>2, <2>5, <3>1, <3>2
  <2> HIDE DEF s, p
  <2> QED BY <2>1, <2>2, <2>3, <2>4, <2>5 DEF p
<1> QED BY <1>4, <1>5

LEMMA CallNextInv ==
    ASSUME HooksInv, CallNext
    PROVE  HooksInv'
<1> DEFINE h == plugin_hook_find(Top.next, Top.type)
           e == [Top EXCEPT !.what = "expunge"]
           c == [Top EXCEPT !.what = "call", !.hook = h, !.next = NextHook(h),
                    !.pl = hook[h].pl, !.called = Append(Top.called, h)]
<1>1. Registry /\ Registry' /\ Older
  BY RegistrySame DEF HooksInv, CallNext
<1>2. /\ stack # <<>> /\ Top.what = "walk" /\ Top.next \in Listed \cup {NoHook}
      /\ Become(IF h = NoHook THEN e ELSE c)
  BY DEF CallNext
<1>3. Top \in Frame /\ Follows(Top, hook_list, hook, freed)
  BY <1>2, StackFacts DEF HooksInv, Walkers
<1>4. h # NoHook => h \in Listed /\ h \in Hooks
  <2>1. Top.next = NoHook => h = NoHook
    BY DEF plugin_hook_find
  <2> QED BY <1>1, <1>2, <2>1, FindFacts, ListedHooks DEF Registry
\* What is still due is not before h.
<1>5. ASSUME NEW g \in Top.due, g \in Live, g \notin ToSet(Top.called)
      PROVE  h # NoHook /\ At(hook_list, h) <= At(hook_list, g)
  <2>1. g \in Listed /\ hook[g].type = Top.type
    BY <1>3, <1>5 DEF Follows, Live, Listed
  <2>2. Top.next # NoHook /\ At(hook_list, Top.next) <= At(hook_list, g)
    BY <1>2, <1>3, <1>5, <2>1 DEF Follows, Live, Listed
  <2> QED BY <1>1, <1>2, <2>1, <2>2, FindFacts
<1>6. CASE h = NoHook
  <2>1. e \in Frame
    BY <1>3 DEF Frame
  <2>2. e.due = Top.due /\ e.next = Top.next /\ e.type = Top.type
        /\ e.called = Top.called /\ e.what = "expunge"
    BY <1>3 DEF Frame
  <2> HIDE DEF e, h
  <2>3. Follows(e, hook_list, hook, freed)
    BY <1>3, <1>5, <1>6, <2>2 DEF Follows, Live, Listed
  <2>4. Follows(e, hook_list', hook', freed')
    BY <1>1, <2>3, StillFollows
  <2>5. Become(e)
    BY <1>2, <1>6
  <2> QED BY <1>1, <1>2, <2>1, <2>4, <2>5, StackStep
<1>7. CASE h # NoHook
  <2>1. /\ NextHook(h) \in Listed \cup {NoHook}
        /\ \A g \in Listed : At(hook_list, h) <= At(hook_list, g) /\ g # h =>
              /\ NextHook(h) # NoHook
              /\ At(hook_list, NextHook(h)) <= At(hook_list, g)
    BY <1>1, <1>4, <1>7, SuccessorFacts
  <2>2. hook[h].pl \in Plugins \cup {NoPlugin}
    BY <1>1, <1>4, <1>7 DEF Registry, HookData
  <2>3. NextHook(h) \in Hooks \cup {NoHook}
    BY <1>1, <2>1, ListedHooks DEF Registry
  <2>4. Top.called \in Seq(Hooks)
    BY <1>3 DEF Frame
  <2>5. Append(Top.called, h) \in Seq(Hooks)
        /\ ToSet(Append(Top.called, h)) = ToSet(Top.called) \cup {h}
    <3> DEFINE q == Top.called
               t == Append(q, h)
    <3>1. /\ t \in Seq(Hooks) /\ Len(t) = Len(q) + 1
          /\ \A i \in 1..Len(q) : t[i] = q[i]
          /\ t[Len(q) + 1] = h
      BY <1>4, <1>7, <2>4, AppendProperties
    <3>2. DOMAIN q = 1..Len(q) /\ Len(q) \in Nat /\ DOMAIN t = 1..Len(t)
      BY <2>4, <3>1, LenProperties
    <3> HIDE DEF q, t, h
    <3>3. \A i \in DOMAIN t : i \in DOMAIN q \/ i = Len(q) + 1
      BY <3>1, <3>2
    <3>4. DOMAIN q \subseteq DOMAIN t /\ Len(q) + 1 \in DOMAIN t
      BY <3>1, <3>2
    <3>5. ToSet(t) = ToSet(q) \cup {h}
      BY <3>1, <3>2, <3>3, <3>4 DEF ToSet
    <3> QED BY <3>1, <3>5 DEF t, q
  <2> HIDE DEF h
  <2>6. c \in Frame
    BY <1>3, <1>4, <1>7, <2>2, <2>3, <2>5 DEF Frame
  <2>7. /\ c.due = Top.due /\ c.next = NextHook(h) /\ c.type = Top.type
        /\ c.called = Append(Top.called, h) /\ c.what = "call"
    BY <1>3 DEF Frame
  <2> HIDE DEF c
  <2>8. ASSUME NEW g \in Top.due, g \in Live, g \notin ToSet(c.called)
        PROVE  /\ NextHook(h) # NoHook
               /\ At(hook_list, NextHook(h)) <= At(hook_list, g)
    <3>1. g \notin ToSet(Top.called) /\ g # h /\ g \in Listed
      BY <2>5, <2>7, <2>8 DEF Live
    <3> QED BY <1>5, <2>1, <2>8, <3>1
  <2>9. Follows(c, hook_list, hook, freed)
    BY <1>3, <2>1, <2>7, <2>8 DEF Follows, Live, Listed
  <2>10. Follows(c, hook_list', hook', freed')
    BY <1>1, <2>9, StillFollows
  <2>11. Become(c)
    BY <1>2, <1>7
  <2> QED BY <1>1, <1>2, <2>6, <2>10, <2>11, StackStep
<1> QED BY <1>6, <1>7

LEMMA CallReturnsInv ==
    ASSUME HooksInv, CallReturns
    PROVE  HooksInv'
<1> DEFINE e == [Top EXCEPT !.what = "expunge", !.due = {}]
           w == [Top EXCEPT !.what = "walk"]
<1>1. Registry /\ Registry' /\ Older
  BY RegistrySame DEF HooksInv, CallReturns
<1>2. stack # <<>> /\ Top.what = "call" /\ (Become(e) \/ Become(w))
  BY DEF CallReturns, InPlugin
<1>3. Top \in Frame /\ Follows(Top, hook_list, hook, freed)
  BY <1>2, StackFacts DEF HooksInv, Walkers
<1>4. e \in Frame /\ e.due = {} /\ e.next = Top.next /\ w \in Frame
      /\ w.due = Top.due /\ w.next = Top.next /\ w.type = Top.type
      /\ w.called = Top.called /\ w.what = "walk"
  BY <1>3 DEF Frame
<1> HIDE DEF e, w
<1>5. Follows(e, hook_list, hook, freed) /\ Follows(w, hook_list, hook, freed)
  BY <1>2, <1>3, <1>4 DEF Follows
<1>6. Follows(e, hook_list', hook', freed') /\ Follows(w, hook_list', hook', freed')
  BY <1>1, <1>5, StillFollows
<1> QED BY <1>1, <1>2, <1>4, <1>6, StackStep

LEMMA ExpungeInv ==
    ASSUME HooksInv, Expunge
    PROVE  HooksInv'
<1>1. Registry /\ stack # <<>>
  BY DEF HooksInv, Expunge
<1>2. CASE Live = Listed
  <2>1. UNCHANGED <<hook_list, hook, freed, sources, plugin_list>> /\ Pop
    BY <1>2 DEF Expunge
  <2> QED BY <1>1, <2>1, RegistrySame, StackStep
<1>3. CASE Live # Listed
  <2>1. PICK h \in Listed \ Live :
           /\ hook_list' = RemoveAt(hook_list, HookPosition(h))
           /\ freed' = freed \cup {h}
           /\ UNCHANGED <<hook, sources, plugin_list, stack>>
    BY <1>3 DEF Expunge
  <2>2. h \in Hooks /\ hook[h].type = "deleted"
    BY <1>1, ListedHooks DEF Registry, Live
  <2>3. HookPosition(h) \in 1..Len(hook_list) /\ hook_list[HookPosition(h)] = h
    BY <1>1, AtFacts DEF Registry, Listed, HookPosition, At
  <2>4. /\ hook_list' \in Seq(Hooks) /\ Once(hook_list')
        /\ Listed' = Listed \ {h}
        /\ \A a, b \in Listed \ {h} :
              At(hook_list, a) <= At(hook_list, b) <=> At(hook_list', a) <= At(hook_list', b)
    BY <1>1, <2>1, <2>3, RemoveFacts DEF Registry, Listed
  <2>5. Live' = Live
    BY <2>1, <2>2, <2>4 DEF Live
  <2>6. Registry'
    BY <1>1, <2>1, <2>2, <2>4, <2>5 DEF Registry, SourcesOwned, HooksOfLoaded
  <2>7. Older
    BY <2>1, <2>4 DEF Older
  <2> QED BY <2>1, <2>6, <2>7, StackStep
<1> QED BY <1>2, <1>3

LEMMA AddHookInv ==
    ASSUME HooksInv, plugin_add_hook
    PROVE  HooksInv'
<1>1. Registry /\ stack # <<>> /\ Top.pl \in plugin_list /\ Listed \subseteq Hooks
  BY ListedHooks DEF HooksInv, Registry, plugin_add_hook, InPlugin
<1>2. PICK h \in Hooks \ (Listed \cup freed), type \in Events \cup {"source"}, pri \in Pris :
         LET data == [type |-> type, pri |-> pri, pl |-> Top.pl]
         IN /\ plugin_insert_hook(h, data)
            /\ hook' = [hook EXCEPT ![h] = data]
            /\ sources' = IF type = "source" THEN sources \cup {h} ELSE sources
  BY DEF plugin_add_hook
<1> DEFINE data == [type |-> type, pri |-> pri, pl |-> Top.pl]
           lower == {i \in DOMAIN hook_list :
                       /\ hook[hook_list[i]].type = type
                       /\ hook[hook_list[i]].pri <= pri}
           m == CHOOSE i \in lower : \A j \in lower : i <= j
           at == IF lower = {} THEN Len(hook_list) + 1 ELSE m
<1>3. hook_list' = InsertAt(hook_list, at, h)
  BY <1>2 DEF plugin_insert_hook
<1>4. at \in 1..(Len(hook_list) + 1)
  <2>1. Len(hook_list) \in Nat /\ lower \subseteq 1..Len(hook_list)
    BY <1>1, LenProperties DEF Registry
  <2>2. lower # {} => m \in lower
    <3> HIDE DEF lower
    <3>1. lower \subseteq Nat
      BY <2>1
    <3> QED BY <3>1, Least
  <2> HIDE DEF lower, m
  <2>3. lower # {} => m \in 1..Len(hook_list)
    BY <2>1, <2>2
  <2>4. CASE lower = {}
    BY <2>1, <2>4
  <2>5. CASE lower # {}
    BY <2>1, <2>3, <2>5
  <2> QED BY <2>4, <2>5
<1> HIDE DEF at
<1>5. /\ hook_list' \in Seq(Hooks) /\ Once(hook_list')
      /\ Listed' = Listed \cup {h}
      /\ \A a, b \in Listed :
            At(hook_list, a) <= At(hook_list, b) <=> At(hook_list', a) <= At(hook_list', b)
  BY <1>1, <1>2, <1>3, <1>4, InsertFacts DEF Registry, Listed
<1>6. UNCHANGED <<freed, plugin_list, stack>>
  BY DEF plugin_add_hook
<1>7. data \in HookData /\ data.type = type /\ data.pl = Top.pl /\ type # "deleted"
  BY <1>1, EventAssumption DEF HookData, Types, Registry
<1> HIDE DEF data
<1>8. hook' = [hook EXCEPT ![h] = data]
  BY <1>2 DEF data
<1>9. hook' \in [Hooks -> HookData] /\ hook'[h] = data
      /\ \A g \in Hooks : g # h => hook'[g] = hook[g]
  BY <1>1, <1>7, <1>8 DEF Registry
<1>10. Live' = Live \cup {h}
  BY <1>1, <1>2, <1>5, <1>7, <1>9 DEF Live
<1>11. SourcesOwned'
  BY <1>1, <1>2, <1>7, <1>9, <1>10 DEF Registry, SourcesOwned, Live
<1>12. HooksOfLoaded'
  BY <1>1, <1>2, <1>6, <1>7, <1>9, <1>10 DEF Registry, HooksOfLoaded, Live
<1>13. Registry'
  BY <1>1, <1>2, <1>5, <1>6, <1>9, <1>11, <1>12 DEF Registry
<1>14. Older
  BY <1>1, <1>2, <1>5, <1>6, <1>9 DEF Older, Registry
<1> QED BY <1>6, <1>13, <1>14, StackStep

\* Marking some live hooks as deleted, their sources gone with them.
LEMMA Deleting ==
    ASSUME Registry, NEW D, D \subseteq Live, UNCHANGED <<hook_list, freed>>,
           hook' = [h \in Hooks |-> IF h \in D THEN [hook[h] EXCEPT !.type = "deleted"]
                                    ELSE hook[h]],
           sources' = sources \ D, plugin_list' \subseteq plugin_list,
           \A h \in Live \ D : hook[h].pl \in plugin_list'
    PROVE  Registry' /\ Older
<1>1. Listed \subseteq Hooks /\ Live \subseteq Listed /\ freed \subseteq Hooks
  BY ListedHooks DEF Registry, Live
<1>2. ASSUME NEW h \in Hooks
      PROVE  /\ hook'[h] \in HookData
             /\ h \in D => hook'[h].type = "deleted"
             /\ h \notin D => hook'[h] = hook[h]
  BY DEF Registry, HookData, Types
<1>3. hook' \in [Hooks -> HookData]
  BY <1>2
<1>4. Listed' = Listed
  BY DEF Listed
<1>5. Live' = Live \ D
  BY <1>1, <1>2, <1>4 DEF Live
<1>6. SourcesOwned'
  BY <1>1, <1>2, <1>5 DEF Registry, SourcesOwned
<1>7. HooksOfLoaded'
  BY <1>1, <1>2, <1>5 DEF HooksOfLoaded
<1>8. Registry'
  BY <1>3, <1>4, <1>6, <1>7 DEF Registry
<1>9. Older
  BY <1>1, <1>2, <1>4 DEF Older
<1> QED BY <1>8, <1>9

LEMMA UnhookInv ==
    ASSUME HooksInv, xchat_unhook
    PROVE  HooksInv'
<1>1. PICK h \in Live : /\ hook' = [hook EXCEPT ![h].type = "deleted"]
                         /\ sources' = sources \ {h}
  BY DEF xchat_unhook
<1>2. Registry /\ UNCHANGED <<hook_list, freed, plugin_list, stack>> /\ h \in Hooks
  BY ListedHooks DEF HooksInv, Registry, xchat_unhook, Live
<1>3. hook' = [g \in Hooks |-> IF g \in {h} THEN [hook[g] EXCEPT !.type = "deleted"]
                               ELSE hook[g]]
  BY <1>1, <1>2 DEF Registry
<1>4. Registry' /\ Older
  BY <1>1, <1>2, <1>3, Deleting DEF Registry, HooksOfLoaded
<1> QED BY <1>2, <1>4, StackStep

LEMMA SourceFiresInv ==
    ASSUME HooksInv, SourceFires
    PROVE  HooksInv'
<1>1. Registry /\ Registry' /\ Older
  BY RegistrySame DEF HooksInv, SourceFires
<1>2. PICK h \in sources :
         Push([what |-> "source", type |-> "source", hook |-> h, next |-> NoHook,
               pl |-> hook[h].pl, due |-> {}, called |-> <<>>])
  BY DEF SourceFires
<1> DEFINE fr == [what |-> "source", type |-> "source", hook |-> h, next |-> NoHook,
                  pl |-> hook[h].pl, due |-> {}, called |-> <<>>]
<1>3. h \in Hooks
  BY <1>1, ListedHooks DEF Registry, SourcesOwned, Live
<1>4. hook[h].pl \in Plugins \cup {NoPlugin}
  BY <1>1, <1>3 DEF Registry, HookData
<1>5. fr \in Frame
  BY <1>3, <1>4 DEF Frame, Types
<1>6. Push(fr) /\ fr.due = {} /\ fr.next = NoHook
  BY <1>2
<1> HIDE DEF fr
<1>7. Follows(fr, hook_list', hook', freed')
  BY <1>6, PlainFrame
<1> QED BY <1>1, <1>5, <1>6, <1>7, StackStep

LEMMA SourceReturnsInv ==
    ASSUME HooksInv, SourceReturns
    PROVE  HooksInv'
<1>1. Registry /\ stack # <<>> /\ Pop /\ UNCHANGED <<hook_list, freed, plugin_list>>
  BY DEF HooksInv, SourceReturns, InPlugin
<1> DEFINE h == Top.hook
<1>2. CASE UNCHANGED <<hook, sources>>
  BY <1>1, <1>2, RegistrySame, StackStep
<1>3. CASE h \in Live /\ hook' = [hook EXCEPT ![h].type = "deleted"]
           /\ sources' = sources \ {h}
  <2> HIDE DEF h
  <2>1. h \in Hooks
    BY <1>1, <1>3, ListedHooks DEF Registry, Live
  <2>2. hook' = [g \in Hooks |-> IF g \in {h} THEN [hook[g] EXCEPT !.type = "deleted"]
                                 ELSE hook[g]]
    BY <1>1, <1>3, <2>1 DEF Registry
  <2>3. Registry' /\ Older
    BY <1>1, <1>3, <2>2, Deleting DEF Registry, HooksOfLoaded
  <2> QED BY <1>1, <2>3, StackStep
<1> QED BY <1>2, <1>3 DEF SourceReturns

LEMMA FreeInv ==
    ASSUME Registry, NEW p, plugin_free(p), UNCHANGED <<hook_list, freed>>
    PROVE  Registry' /\ Older
<1> DEFINE mine == {h \in Live : hook[h].pl = p}
<1>1. /\ hook' = [h \in Hooks |-> IF h \in mine THEN [hook[h] EXCEPT !.type = "deleted"]
                                   ELSE hook[h]]
      /\ sources' = sources \ mine
      /\ plugin_list' = plugin_list \ {p}
  BY DEF plugin_free
<1>2. mine \subseteq Live /\ \A h \in Live \ mine : hook[h].pl \in plugin_list'
  BY <1>1 DEF Registry, HooksOfLoaded
<1>3. plugin_list' \subseteq plugin_list
  BY <1>1
<1> HIDE DEF mine
<1> QED BY <1>1, <1>2, <1>3, Deleting

LEMMA RoutineReturnsInv ==
    ASSUME HooksInv, InitReturns \/ DeinitReturns
    PROVE  HooksInv'
<1>1. Registry /\ stack # <<>> /\ Pop /\ UNCHANGED <<hook_list, freed>>
  BY DEF HooksInv, InitReturns, DeinitReturns, InPlugin
<1>2. CASE UNCHANGED <<hook, sources, plugin_list>>
  BY <1>1, <1>2, RegistrySame, StackStep
<1>3. CASE plugin_free(Top.pl)
  BY <1>1, <1>3, FreeInv, StackStep
<1> QED BY <1>2, <1>3 DEF InitReturns, DeinitReturns

LEMMA RoutineCalledInv ==
    ASSUME HooksInv, plugin_add \/ plugin_kill
    PROVE  HooksInv'
<1>1. Registry
  BY DEF HooksInv
<1>2. PICK p \in Plugins, what \in {"init", "deinit"} :
         /\ Push([what |-> what, type |-> "deleted", hook |-> NoHook,
                  next |-> NoHook, pl |-> p, due |-> {}, called |-> <<>>])
         /\ plugin_list \subseteq plugin_list' /\ plugin_list' \subseteq Plugins
         /\ UNCHANGED <<hook_list, hook, freed, sources>>
  <2>1. CASE plugin_add
    BY <1>1, <2>1 DEF plugin_add, Registry
  <2>2. CASE plugin_kill
    BY <1>1, <2>2 DEF plugin_kill, Registry
  <2> QED BY <2>1, <2>2
<1> DEFINE fr == [what |-> what, type |-> "deleted", hook |-> NoHook,
                  next |-> NoHook, pl |-> p, due |-> {}, called |-> <<>>]
<1>3. Registry' /\ Older
  BY <1>1, <1>2 DEF Registry, Older, SourcesOwned, HooksOfLoaded, Live, Listed
<1>4. fr \in Frame
  BY <1>2 DEF Frame, Types
<1>5. Push(fr) /\ fr.due = {} /\ fr.next = NoHook
  BY <1>2
<1> HIDE DEF fr
<1>6. Follows(fr, hook_list', hook', freed')
  BY <1>5, PlainFrame
<1> QED BY <1>3, <1>4, <1>5, <1>6, StackStep

-----------------------------------------------------------------------------
(* The theorems.                                                           *)

LEMMA InitInv == HooksInit => HooksInv
<1> SUFFICES ASSUME HooksInit PROVE HooksInv
  OBVIOUS
<1>1. hook_list = <<>> /\ stack = <<>>
  BY DEF HooksInit
<1>2. Listed = {} /\ Live = {} /\ ToSet(stack) = {}
  BY <1>1 DEF Listed, Live, ToSet
<1>3. hook \in [Hooks -> HookData]
  BY BoundAssumption DEF HooksInit, HookData, Types
<1> QED BY <1>1, <1>2, <1>3
        DEF HooksInit, HooksInv, Registry, Walkers, Once, SourcesOwned, HooksOfLoaded

LEMMA NextInv == HooksInv /\ [HooksNext]_hook_vars => HooksInv'
<1> SUFFICES ASSUME HooksInv, [HooksNext]_hook_vars PROVE HooksInv'
  OBVIOUS
<1>1. CASE UNCHANGED hook_vars
  BY <1>1, RegistrySame, StackStep DEF hook_vars, HooksInv
<1>2. CASE HooksNext
  BY <1>2, RunInv, CallNextInv, CallReturnsInv, ExpungeInv, AddHookInv, UnhookInv,
     SourceFiresInv, SourceReturnsInv, RoutineCalledInv, RoutineReturnsInv DEF HooksNext
<1> QED BY <1>1, <1>2

LEMMA Invariance == HooksSpec => []HooksInv
BY InitInv, NextInv, PTL DEF HooksSpec

\* Type correctness of the list, the structures and the stack.
THEOREM HooksTypeCorrect == HooksSpec => []HooksTypeOK
<1>1. HooksInv => HooksTypeOK
  BY ListedHooks DEF HooksInv, Registry, Walkers, HooksTypeOK, SourcesOwned, Live
<1> QED BY <1>1, Invariance, PTL

\* The main loop's sources are those of the hooks that are not unhooked, however
\* deep the walk in which one is unhooked.
THEOREM SourcesAreOwned == HooksSpec => []SourcesOwned
<1>1. HooksInv => SourcesOwned
  BY DEF HooksInv, Registry
<1> QED BY <1>1, Invariance, PTL

\* No hook of an unloaded plugin can be called.
THEOREM HooksAreOfLoaded == HooksSpec => []HooksOfLoaded
<1>1. HooksInv => HooksOfLoaded
  BY DEF HooksInv, Registry
<1> QED BY <1>1, Invariance, PTL

\* Both together.
THEOREM CallbacksAreOwned == HooksSpec => []CallbacksOwned
BY SourcesAreOwned, HooksAreOfLoaded, PTL DEF CallbacksOwned

\* A walk that comes to its end has missed no hook, for any number of hooks,
\* priorities and walks within walks that hook and unhook others.
THEOREM NoHookIsMissed == HooksSpec => []EveryHookCalled
<1>1. HooksInv => EveryHookCalled
  <2> SUFFICES ASSUME HooksInv, NEW i \in DOMAIN stack, stack[i].what = "expunge"
               PROVE  stack[i].due \cap Live \subseteq ToSet(stack[i].called)
    BY DEF EveryHookCalled
  <2>1. Follows(stack[i], hook_list, hook, freed)
    BY DEF HooksInv, Walkers, ToSet
  <2> QED BY <2>1 DEF Follows, Live, Listed
<1> QED BY <1>1, Invariance, PTL

-----------------------------------------------------------------------------
(* The inductive invariant.                                                *)

\* A window is in the list once.
ListedOnce ==
    \A i, j \in DOMAIN sess_list : sess_list[i] = sess_list[j] => i = j

\* A QUIT is what sent_quit says, and no connection outlives its server.
QuitIsMarked ==
    /\ connected \subseteq serv_list
    /\ \A v \in connected : said[v] # "more" /\ (said[v] = "quit" <=> v \in sent_quit)

\* sent_quit is only set on a server that goes on to exist when the program
\* ends; /close -m ends it by closing the last window.
QuitEndsAll ==
    /\ quitting => job # "none" /\ (job = "dialogs" => sess_list = <<>>)
    /\ serv_list \cap sent_quit # {} => quitting

\* The channels we are on have a named window of a live connection.
OnIsJoined ==
    \A w \in on : /\ w \in Open /\ kind[w] = "channel" /\ w \in named
                  /\ server[w] \in connected /\ server[w] \notin sent_quit

IInv == /\ TypeOK /\ ListedOnce
        /\ PointersValid /\ CurrentValid /\ ServerPerWindow /\ NextIsOpen
        /\ QuitIsMarked /\ QuitEndsAll /\ OnIsJoined

-----------------------------------------------------------------------------
(* The list of windows.                                                    *)

\* A window of the list is at its position, and only there.
LEMMA PositionFacts ==
    ASSUME sess_list \in Seq(Windows), ListedOnce, NEW w \in Open
    PROVE  /\ Position(w) \in 1..Len(sess_list) /\ sess_list[Position(w)] = w
           /\ \A i \in 1..Len(sess_list) : sess_list[i] = w => i = Position(w)
<1>1. PICK i \in DOMAIN sess_list : sess_list[i] = w
  BY DEF Open
<1>2. Position(w) \in DOMAIN sess_list /\ sess_list[Position(w)] = w
  BY <1>1 DEF Position
<1>3. DOMAIN sess_list = 1..Len(sess_list)
  BY LenProperties
<1> QED BY <1>2, <1>3 DEF ListedOnce

\* What taking a window out of the list leaves.
LEMMA WithoutFacts ==
    ASSUME sess_list \in Seq(Windows), ListedOnce, NEW w \in Open
    PROVE  /\ Without(w) \in Seq(Windows)
           /\ {Without(w)[i] : i \in DOMAIN Without(w)} = Open \ {w}
           /\ \A i, j \in DOMAIN Without(w) : Without(w)[i] = Without(w)[j] => i = j
           /\ Len(Without(w)) = Len(sess_list) - 1
           /\ DOMAIN Without(w) = 1..(Len(sess_list) - 1)
           /\ \A i \in 1..(Len(sess_list) - 1) :
                 Without(w)[i] = IF i < Position(w) THEN sess_list[i] ELSE sess_list[i + 1]
<1> DEFINE n == Len(sess_list)
           p == Position(w)
           s1 == SubSeq(sess_list, 1, p - 1)
           s2 == SubSeq(sess_list, p + 1, n)
           t == Without(w)
<1>1. /\ n \in Nat /\ DOMAIN sess_list = 1..n
      /\ \A i \in 1..n : sess_list[i] \in Windows
  BY LenProperties, ElementOfSeq
<1>2. p \in 1..n /\ sess_list[p] = w /\ \A i \in 1..n : sess_list[i] = w => i = p
  BY PositionFacts
<1> HIDE DEF n, p
<1>3. /\ s1 \in Seq(Windows) /\ Len(s1) = p - 1
      /\ \A i \in 1..(p - 1) : s1[i] = sess_list[i]
  <2>1. \A i \in 1..(p - 1) : sess_list[i] \in Windows
    BY <1>1, <1>2
  <2>2. 1 \in Int /\ p - 1 \in Int /\ p - 1 >= 0
    BY <1>1, <1>2
  <2>3. /\ s1 \in Seq(Windows) /\ Len(s1) = IF 1 <= p - 1 THEN p - 1 - 1 + 1 ELSE 0
        /\ \A i \in 1..(p - 1 - 1 + 1) : s1[i] = sess_list[1 + i - 1]
    BY <2>1, <2>2, SubSeqProperties
  <2> HIDE DEF s1
  <2> QED BY <2>2, <2>3
<1>4. /\ s2 \in Seq(Windows) /\ Len(s2) = n - p
      /\ \A i \in 1..(n - p) : s2[i] = sess_list[p + i]
  <2>1. \A i \in (p + 1)..n : sess_list[i] \in Windows
    BY <1>1, <1>2
  <2>2. p + 1 \in Int /\ n \in Int /\ p <= n
    BY <1>1, <1>2
  <2>3. /\ s2 \in Seq(Windows) /\ Len(s2) = IF p + 1 <= n THEN n - (p + 1) + 1 ELSE 0
        /\ \A i \in 1..(n - (p + 1) + 1) : s2[i] = sess_list[p + 1 + i - 1]
    BY <2>1, <2>2, SubSeqProperties
  <2>4. p \in Int
    BY <1>1, <1>2
  <2> HIDE DEF s2
  <2> QED BY <2>2, <2>3, <2>4
<1>5. t = s1 \o s2
  BY DEF Without, n, p
<1> HIDE DEF s1, s2, t
<1>6. /\ t \in Seq(Windows) /\ Len(t) = n - 1
      /\ \A i \in 1..(n - 1) : t[i] = IF i < p THEN sess_list[i] ELSE sess_list[i + 1]
  <2>1. /\ t \in Seq(Windows) /\ Len(t) = Len(s1) + Len(s2)
        /\ \A i \in 1..Len(s1) + Len(s2) :
              t[i] = IF i <= Len(s1) THEN s1[i] ELSE s2[i - Len(s1)]
    BY <1>3, <1>4, <1>5, ConcatProperties
  <2> QED BY <1>1, <1>2, <1>3, <1>4, <2>1
<1>7. DOMAIN t = 1..(n - 1)
  BY <1>6, LenProperties
<1>8. {t[i] : i \in 1..(n - 1)} = {sess_list[i] : i \in 1..n} \ {w}
  <2>1. ASSUME NEW i \in 1..(n - 1)
        PROVE  t[i] \in {sess_list[k] : k \in 1..n} /\ t[i] # w
    BY <1>1, <1>2, <1>6
  <2>2. ASSUME NEW i \in 1..n, sess_list[i] # w
        PROVE  sess_list[i] \in {t[k] : k \in 1..(n - 1)}
    <3>1. CASE i < p
      <4>1. i \in 1..(n - 1) /\ t[i] = sess_list[i]
        BY <1>1, <1>2, <1>6, <3>1
      <4> QED BY <4>1
    <3>2. CASE i > p
      <4>1. i - 1 \in 1..(n - 1) /\ t[i - 1] = sess_list[i]
        BY <1>1, <1>2, <1>6, <3>2
      <4> QED BY <4>1
    <3> QED BY <1>1, <1>2, <2>2, <3>1, <3>2
  <2> QED BY <2>1, <2>2
<1>9. \A i, j \in 1..(n - 1) : t[i] = t[j] => i = j
  <2> DEFINE Moved(i) == IF i < p THEN i ELSE i + 1
  <2>1. \A i \in 1..(n - 1) : Moved(i) \in 1..n /\ t[i] = sess_list[Moved(i)]
    BY <1>1, <1>2, <1>6
  <2>2. \A i, j \in 1..n : sess_list[i] = sess_list[j] => i = j
    BY <1>1 DEF ListedOnce
  <2>3. \A i, j \in 1..(n - 1) : Moved(i) = Moved(j) => i = j
    BY <1>1, <1>2
  <2> HIDE DEF Moved
  <2> QED BY <2>1, <2>2, <2>3
<1> QED BY <1>1, <1>6, <1>7, <1>8, <1>9 DEF Open, t, n, p

\* What a new window at the head of the list adds.
LEMMA ConsFacts ==
    ASSUME sess_list \in Seq(Windows), ListedOnce, NEW w \in Windows, w \notin Open
    PROVE  LET t == <<w>> \o sess_list
           IN /\ t \in Seq(Windows)
              /\ {t[i] : i \in DOMAIN t} = Open \cup {w}
              /\ \A i, j \in DOMAIN t : t[i] = t[j] => i = j
<1> DEFINE t == <<w>> \o sess_list
           n == Len(sess_list)
<1>1. n \in Nat /\ DOMAIN sess_list = 1..n
  BY LenProperties
<1>2. <<w>> \in Seq(Windows) /\ Len(<<w>>) = 1 /\ <<w>>[1] = w
  OBVIOUS
<1>3. /\ t \in Seq(Windows) /\ Len(t) = 1 + n
      /\ \A i \in 1..(1 + n) : t[i] = IF i <= 1 THEN <<w>>[i] ELSE sess_list[i - 1]
  BY <1>2, ConcatProperties
<1> HIDE DEF t, n
<1>4. t \in Seq(Windows) /\ DOMAIN t = 1..(1 + n) /\ t[1] = w
      /\ \A i \in 1..n : t[i + 1] = sess_list[i]
  <2>1. DOMAIN t = 1..(1 + n)
    BY <1>3, LenProperties
  <2> QED BY <1>1, <1>2, <1>3, <2>1
<1>5. {t[i] : i \in 1..(1 + n)} = {sess_list[i] : i \in 1..n} \cup {w}
  <2>1. ASSUME NEW i \in 1..(1 + n)
        PROVE  t[i] \in {sess_list[k] : k \in 1..n} \cup {w}
    <3>1. CASE i = 1 BY <1>4, <3>1
    <3>2. CASE i # 1
      <4>1. i - 1 \in 1..n /\ t[i] = sess_list[i - 1]
        BY <1>1, <1>3, <3>2
      <4> QED BY <4>1
    <3> QED BY <3>1, <3>2
  <2>2. \A i \in 1..n : i + 1 \in 1..(1 + n)
    BY <1>1
  <2>3. 1 \in 1..(1 + n)
    BY <1>1
  <2> QED BY <1>4, <2>1, <2>2, <2>3
<1>6. \A i, j \in 1..(1 + n) : t[i] = t[j] => i = j
  <2>1. \A i \in 1..n : sess_list[i] # w
    BY <1>1 DEF Open
  <2>2. \A i \in 1..(1 + n) : i # 1 => i - 1 \in 1..n /\ t[i] = sess_list[i - 1]
    BY <1>1, <1>3
  <2>3. \A i, j \in 1..n : sess_list[i] = sess_list[j] => i = j
    BY <1>1 DEF ListedOnce
  <2> QED BY <1>1, <1>4, <2>1, <2>2, <2>3
<1>7. {t[i] : i \in DOMAIN t} = Open \cup {w}
  BY <1>1, <1>4, <1>5 DEF Open
<1> QED BY <1>4, <1>6, <1>7 DEF t

\* The first of some windows is one of them: positions are numbers.
LEMMA FirstFacts ==
    ASSUME sess_list \in Seq(Windows), ListedOnce,
           NEW ws, ws \subseteq Open, ws # {}
    PROVE  First(ws) \in ws
<1> DEFINE Positions == {Position(w) : w \in ws}
<1>1. Positions \subseteq Nat /\ Positions # {}
  <2>1. \A w \in ws : Position(w) \in 1..Len(sess_list)
    BY PositionFacts
  <2> QED BY <2>1
<1> DEFINE Less == {ss \in Nat \X Nat : ss[1] < ss[2]}
<1>2. IsWellFoundedOn(Less, Nat)
  BY NatLessThanWellFounded DEF OpToRel
<1> HIDE DEF Positions
<1>3. PICK p \in Positions : \A q \in Positions : ~ (<<q, p>> \in Less)
  <2> HIDE DEF Less
  <2> QED BY <1>1, <1>2, WFMin
<1>4. ASSUME NEW q \in Positions PROVE p <= q
  <2>1. p \in Nat /\ q \in Nat
    BY <1>1
  <2>2. <<q, p>> \notin Less
    BY <1>3
  <2>3. ~ (q < p)
    BY <2>1, <2>2 DEF Less
  <2> QED BY <2>1, <2>3
<1>5. PICK w \in ws : p = Position(w)
  BY <1>3 DEF Positions
<1>6. \A x \in ws : Position(w) <= Position(x)
  BY <1>4, <1>5 DEF Positions
<1> QED BY <1>5, <1>6 DEF First

\* The head of the list is an open window, if there is any.
LEMMA HeadFacts ==
    ASSUME sess_list \in Seq(Windows)
    PROVE  /\ sess_list = <<>> <=> Open = {}
           /\ sess_list # <<>> => Head(sess_list) \in Open
           /\ Open \subseteq Windows
<1>1. Len(sess_list) \in Nat /\ DOMAIN sess_list = 1..Len(sess_list)
  BY LenProperties
<1>2. \A i \in 1..Len(sess_list) : sess_list[i] \in Windows
  BY ElementOfSeq
<1>3. CASE sess_list = <<>>
  BY <1>3 DEF Open
<1>4. CASE sess_list # <<>>
  <2>1. 1 \in DOMAIN sess_list /\ Head(sess_list) = sess_list[1]
    BY <1>4
  <2>2. sess_list[1] \in Open
    BY <2>1 DEF Open
  <2> QED BY <1>1, <1>2, <1>4, <2>1, <2>2 DEF Open
<1> QED BY <1>3, <1>4

-----------------------------------------------------------------------------
(* Closing one window.                                                     *)

\* The list without the window that is closed.
LEMMA ClosedList ==
    ASSUME IInv, NEW w \in Open, session_free(w)
    PROVE  /\ sess_list' \in Seq(Windows) /\ ListedOnce'
           /\ Open' = Open \ {w} /\ (sess_list' = <<>> <=> Open' = {})
           /\ server' = server /\ kind' = kind
           /\ \A v : Of(v)' = Of(v) \ {w}
<1>1. sess_list' = Without(w) /\ server' = server /\ kind' = kind
  BY DEF session_free
<1>2. sess_list \in Seq(Windows) /\ ListedOnce
  BY DEF IInv, TypeOK
<1>3. /\ sess_list' \in Seq(Windows)
      /\ {sess_list'[i] : i \in DOMAIN sess_list'} = Open \ {w}
      /\ \A i, j \in DOMAIN sess_list' : sess_list'[i] = sess_list'[j] => i = j
  BY <1>1, <1>2, WithoutFacts
<1>4. Open' = Open \ {w} /\ ListedOnce'
  BY <1>3 DEF Open, ListedOnce
<1>5. sess_list' = <<>> <=> {sess_list'[i] : i \in DOMAIN sess_list'} = {}
  <2>1. sess_list' # <<>> => 1 \in DOMAIN sess_list'
    BY <1>3
  <2> QED BY <2>1
<1> QED BY <1>1, <1>3, <1>4, <1>5 DEF Of

\* The pointers of the servers that stay, and the two of the program.
LEMMA ClosedPointers ==
    ASSUME IInv, NEW w \in Open, session_free(w)
    PROVE  /\ server_session' \in [Servers -> Ptr] /\ front_session' \in [Servers -> Ptr]
           /\ current_tab' \in Ptr /\ current_sess' \in Ptr
           /\ serv_list' \subseteq Servers
           /\ PointersValid' /\ CurrentValid' /\ ServerPerWindow'
<1> DEFINE v == server[w]
<1>1. /\ sess_list' \in Seq(Windows) /\ Open' = Open \ {w}
      /\ (sess_list' = <<>> <=> Open' = {}) /\ server' = server
      /\ \A u : Of(u)' = Of(u) \ {w}
  BY ClosedList
<1>2. /\ sess_list \in Seq(Windows) /\ ListedOnce /\ Open \subseteq Windows
      /\ v \in Servers /\ v \in serv_list
  BY HeadFacts DEF IInv, TypeOK, ServerPerWindow
<1>3. Others(w) # {} => Replacement(w) \in Of(v) \ {w}
  <2>1. Others(w) \subseteq Open
    BY DEF Others, Of
  <2>2. Others(w) # {} => First(Others(w)) \in Others(w)
    BY <1>2, <2>1, FirstFacts
  <2> QED BY <2>2 DEF Replacement, Others
<1>4. Replacement(w) \in Ptr
  BY <1>2, <1>3 DEF Replacement, Ptr, Of
<1>5. server_session' \in [Servers -> Ptr] /\ front_session' \in [Servers -> Ptr]
  BY <1>2, <1>4 DEF session_free, Repointed, IInv, TypeOK
<1>6. PointersValid'
  <2> SUFFICES ASSUME NEW u \in serv_list'
               PROVE  server_session'[u] \in Of(u)' /\ front_session'[u] \in Of(u)'
    BY DEF PointersValid
  <2>1. u \in serv_list /\ u \in Servers /\ (u = v => Others(w) # {})
    BY DEF session_free, IInv, TypeOK
  <2>2. server_session[u] \in Of(u) /\ front_session[u] \in Of(u)
    BY <2>1 DEF IInv, PointersValid
  <2>3. CASE u # v
    <3>1. server_session'[u] = server_session[u] /\ front_session'[u] = front_session[u]
      BY <2>1, <2>3 DEF session_free, Repointed, IInv, TypeOK
    <3>2. w \notin Of(u)
      BY <2>3 DEF Of
    <3> QED BY <1>1, <2>2, <3>1, <3>2
  <2>4. CASE u = v
    <3>1. front_session'[v] = IF front_session[v] = w THEN Replacement(w) ELSE front_session[v]
      BY <1>2 DEF session_free, Repointed, IInv, TypeOK
    <3>2. server_session'[v] = IF server_session[v] = w THEN front_session'[v] ELSE server_session[v]
      BY <1>2, <3>1 DEF session_free, Repointed, IInv, TypeOK
    <3>3. front_session'[v] \in Of(v) \ {w}
      BY <1>3, <2>1, <2>2, <2>4, <3>1
    <3> QED BY <1>1, <2>2, <2>4, <3>2, <3>3
  <2> QED BY <2>3, <2>4
<1>7. CurrentValid' /\ current_tab' \in Ptr /\ current_sess' \in Ptr
  <2>1. current_tab' \in Open' \cup {NoWindow}
    BY <1>1 DEF session_free, IInv, CurrentValid
  <2>2. current_sess' \in IF Open' = {} THEN {NoWindow} ELSE Open'
    <3>1. current_sess \in Open
      BY DEF IInv, CurrentValid
    <3>2. sess_list' # <<>> => Head(sess_list') \in Open'
      <4>1. sess_list' # <<>> => 1 \in DOMAIN sess_list' /\ Head(sess_list') = sess_list'[1]
        BY <1>1
      <4> QED BY <4>1 DEF Open
    <3>3. CASE current_sess # w
      BY <1>1, <3>1, <3>3 DEF session_free
    <3>4. CASE current_sess = w
      BY <1>1, <3>2, <3>4 DEF session_free
    <3> QED BY <3>3, <3>4
  <2> QED BY <1>1, <1>2, <2>1, <2>2 DEF CurrentValid, Ptr
<1>8. ServerPerWindow' /\ serv_list' \subseteq Servers
  <2>1. serv_list = {server[x] : x \in Open} /\ serv_list \subseteq Servers
    BY DEF IInv, ServerPerWindow, TypeOK
  <2>2. serv_list' = IF Others(w) = {} THEN serv_list \ {v} ELSE serv_list
    BY DEF session_free
  <2>3. Others(w) = {x \in Open : server[x] = v /\ x # w}
    BY DEF Others, Of
  <2>4. serv_list' = {server[x] : x \in Open \ {w}}
    BY <2>1, <2>2, <2>3
  <2> QED BY <1>1, <2>1, <2>2, <2>4 DEF ServerPerWindow
<1> QED BY <1>5, <1>6, <1>7, <1>8

\* What the IRC server hears when a window is closed.
LEMMA ClosedQuit ==
    ASSUME IInv, NEW w \in Open, session_free(w)
    PROVE  /\ connected' \subseteq Servers /\ sent_quit' \subseteq Servers
           /\ said' \in [Servers -> {"nothing", "part", "quit", "more"}]
           /\ on' \subseteq Windows /\ named' \subseteq Windows
           /\ QuitIsMarked' /\ OnIsJoined'
           /\ quitting' \in BOOLEAN /\ (quitting' <=> (quitting \/ sess_list' = <<>>))
           /\ serv_list' \cap sent_quit' # {} => quitting'
           /\ \A u \in serv_list \cap connected : u \notin serv_list' => said'[u] = "quit"
<1> DEFINE v == server[w]
           part == kind[w] = "channel" /\ w \in named /\ v \notin sent_quit
           last == Others(w) = {}
<1>1. /\ Open' = Open \ {w} /\ server' = server /\ kind' = kind
      /\ v \in Servers /\ v \in serv_list
      /\ connected \subseteq serv_list /\ connected \subseteq Servers
      /\ sent_quit \subseteq Servers /\ serv_list \subseteq Servers
      /\ said \in [Servers -> {"nothing", "part", "quit", "more"}]
      /\ on \subseteq Windows /\ named \subseteq Windows /\ quitting \in BOOLEAN
  BY ClosedList DEF IInv, TypeOK, QuitIsMarked, ServerPerWindow
<1>2. /\ send_quit_or_part(w) /\ named' = named \ {w}
      /\ quitting' = (quitting \/ sess_list' = <<>>)
      /\ serv_list' = IF last THEN serv_list \ {v} ELSE serv_list
      /\ connected' = IF last THEN connected \ {v} ELSE connected
  BY DEF session_free
<1>3. \A u \in connected : said[u] # "more" /\ (said[u] = "quit" <=> u \in sent_quit)
  BY DEF IInv, QuitIsMarked
<1>4. \A x \in on : /\ x \in Open /\ kind[x] = "channel" /\ x \in named
                    /\ server[x] \in connected /\ server[x] \notin sent_quit
  BY DEF IInv, OnIsJoined
<1>5. serv_list \cap sent_quit # {} => quitting
  BY DEF IInv, QuitEndsAll
<1> HIDE DEF v, part, last
<1>6. Of(v) = {x \in Open : server[x] = v}
  BY DEF Of
<1>7. \A x \in Open : server[x] = v /\ last => x = w
  BY <1>6 DEF Others, last, v
\* the three cases of send_quit_or_part
<1>8. CASE v \notin connected
  <2>1. UNCHANGED <<sent_quit, said, on>>
    BY <1>2, <1>8 DEF send_quit_or_part, v
  <2>2. w \notin on
    BY <1>4, <1>8 DEF v
  <2>3. connected' = connected
    BY <1>2, <1>8
  <2>4. OnIsJoined'
    BY <1>1, <1>2, <1>4, <2>1, <2>2, <2>3 DEF OnIsJoined
  <2>5. QuitIsMarked'
    BY <1>1, <1>2, <1>3, <1>8, <2>1, <2>3 DEF QuitIsMarked
  <2>6. serv_list' \cap sent_quit' # {} => quitting'
    BY <1>2, <1>5, <2>1
  <2>7. \A u \in serv_list \cap connected : u \in serv_list'
    BY <1>2, <1>8
  <2> QED BY <1>1, <1>2, <2>1, <2>3, <2>4, <2>5, <2>6, <2>7
<1>9. CASE v \in connected /\ (last \/ quitting)
  <2>1. /\ sent_quit' = sent_quit \cup {v}
        /\ said' = IF v \in sent_quit THEN said ELSE [said EXCEPT ![v] = Said(v, "quit")]
        /\ on' = on \ Of(v)
    BY <1>2, <1>9 DEF send_quit_or_part, v, last
  <2>2. v \notin sent_quit => Said(v, "quit") = "quit"
    BY <1>1, <1>3, <1>9 DEF Said
  <2>3. /\ said' \in [Servers -> {"nothing", "part", "quit", "more"}]
        /\ said'[v] = "quit" /\ \A u \in Servers \ {v} : said'[u] = said[u]
    BY <1>1, <1>3, <1>9, <2>1, <2>2
  <2>4. OnIsJoined'
    <3> SUFFICES ASSUME NEW x \in on'
                 PROVE  /\ x \in Open' /\ kind'[x] = "channel" /\ x \in named'
                        /\ server'[x] \in connected' /\ server'[x] \notin sent_quit'
      BY DEF OnIsJoined
    <3>1. x \in on /\ x \in Open /\ server[x] # v
      BY <1>4, <1>6, <2>1
    <3>2. x # w
      BY <3>1 DEF v
    <3> QED BY <1>1, <1>2, <1>4, <2>1, <3>1, <3>2
  <2>5. QuitIsMarked'
    BY <1>1, <1>2, <1>3, <2>1, <2>3 DEF QuitIsMarked
  <2>6. serv_list' \cap sent_quit' # {} => quitting'
    <3>1. CASE quitting BY <1>2, <3>1
    <3>2. CASE ~quitting
      <4>1. last
        BY <1>9, <3>2
      <4> QED BY <1>2, <1>5, <2>1, <3>2, <4>1
    <3> QED BY <3>1, <3>2
  <2>7. \A u \in serv_list \cap connected : u \notin serv_list' => u = v
    BY <1>2
  <2>8. connected' \subseteq Servers /\ sent_quit' \subseteq Servers
        /\ on' \subseteq Windows /\ named' \subseteq Windows
    BY <1>1, <1>2, <2>1
  <2>9. quitting' \in BOOLEAN /\ (quitting' <=> (quitting \/ sess_list' = <<>>))
    BY <1>1, <1>2
  <2> QED BY <2>3, <2>4, <2>5, <2>6, <2>7, <2>8, <2>9
<1>10. CASE v \in connected /\ ~last /\ ~quitting
  <2>1. /\ sent_quit' = sent_quit
        /\ said' = IF part THEN [said EXCEPT ![v] = Said(v, "part")] ELSE said
        /\ on' = IF part THEN on \ {w} ELSE on
    BY <1>2, <1>10 DEF send_quit_or_part, v, last, part
  <2>2. v \notin sent_quit
    BY <1>1, <1>5, <1>10
  <2>3. Said(v, "part") = "part" /\ said[v] # "quit"
    BY <1>1, <1>3, <1>10, <2>2 DEF Said
  <2>4. /\ said' \in [Servers -> {"nothing", "part", "quit", "more"}]
        /\ said'[v] \notin {"quit", "more"} /\ \A u \in Servers \ {v} : said'[u] = said[u]
    BY <1>1, <1>3, <1>10, <2>1, <2>3
  <2>5. w \notin on'
    BY <1>4, <2>1 DEF part, v
  <2>6. serv_list' = serv_list /\ connected' = connected
    BY <1>2, <1>10
  <2>7. OnIsJoined'
    <3>1. on' \subseteq on \ {w}
      BY <2>1, <2>5
    <3> QED BY <1>1, <1>2, <1>4, <2>1, <2>6, <3>1 DEF OnIsJoined
  <2>8. QuitIsMarked'
    BY <1>1, <1>3, <2>1, <2>2, <2>4, <2>6 DEF QuitIsMarked
  <2>9. connected' \subseteq Servers /\ sent_quit' \subseteq Servers
        /\ on' \subseteq Windows /\ named' \subseteq Windows
    BY <1>1, <1>2, <2>1, <2>6
  <2>10. quitting' \in BOOLEAN /\ (quitting' <=> (quitting \/ sess_list' = <<>>))
    BY <1>1, <1>2
  <2> QED BY <1>2, <1>5, <2>1, <2>4, <2>6, <2>7, <2>8, <2>9, <2>10
<1> QED BY <1>8, <1>9, <1>10

-----------------------------------------------------------------------------
(* Opening one window.                                                     *)

\* The lists and the pointers with a new window w of the server v.
LEMMA Opened ==
    ASSUME IInv, NEW w \in Windows, NEW v \in Servers, NEW k \in Kinds,
           NEW focus \in BOOLEAN, session_new(w, v, k, focus)
    PROVE  /\ sess_list' \in Seq(Windows) /\ ListedOnce'
           /\ w \notin Open /\ Open' = Open \cup {w}
           /\ server' \in [Windows -> Servers \cup {NoServer}]
           /\ kind' \in [Windows -> Kinds]
           /\ server'[w] = v /\ kind'[w] = k
           /\ \A x \in Open : server'[x] = server[x] /\ kind'[x] = kind[x]
           /\ \A x \in Open' : server'[x] \in Servers
           /\ Of(v)' = {x \in Open : server[x] = v} \cup {w}
           /\ \A u : u # v => Of(u)' = Of(u)
           /\ current_tab' \in Ptr /\ current_sess' \in Ptr /\ CurrentValid'
<1>1. /\ sess_list \in Seq(Windows) /\ ListedOnce /\ Open \subseteq Windows
      /\ server \in [Windows -> Servers \cup {NoServer}] /\ kind \in [Windows -> Kinds]
      /\ \A x \in Open : server[x] \in Servers
      /\ current_tab \in Open \cup {NoWindow}
  BY HeadFacts DEF IInv, TypeOK, CurrentValid
<1>2. /\ w \notin Open /\ sess_list' = <<w>> \o sess_list
      /\ server' = [server EXCEPT ![w] = v] /\ kind' = [kind EXCEPT ![w] = k]
      /\ current_sess' = w
      /\ current_tab' = IF focus \/ current_tab = NoWindow THEN w ELSE current_tab
  BY DEF session_new
<1>3. /\ sess_list' \in Seq(Windows)
      /\ {sess_list'[i] : i \in DOMAIN sess_list'} = Open \cup {w}
      /\ \A i, j \in DOMAIN sess_list' : sess_list'[i] = sess_list'[j] => i = j
  BY <1>1, <1>2, ConsFacts
<1>4. Open' = Open \cup {w} /\ ListedOnce'
  BY <1>3 DEF Open, ListedOnce
<1>5. /\ server' \in [Windows -> Servers \cup {NoServer}] /\ kind' \in [Windows -> Kinds]
      /\ server'[w] = v /\ kind'[w] = k
      /\ \A x \in Open : server'[x] = server[x] /\ kind'[x] = kind[x]
  BY <1>1, <1>2
<1>6. \A x \in Open' : server'[x] \in Servers
  BY <1>1, <1>4, <1>5
<1>7. /\ Of(v)' = {x \in Open : server[x] = v} \cup {w}
      /\ \A u : u # v => Of(u)' = Of(u)
  BY <1>4, <1>5 DEF Of
<1>8. CurrentValid' /\ current_tab' \in Ptr /\ current_sess' \in Ptr
  BY <1>1, <1>2, <1>4 DEF CurrentValid, Ptr
<1> QED BY <1>2, <1>3, <1>4, <1>5, <1>6, <1>7, <1>8

-----------------------------------------------------------------------------
(* The invariant.                                                          *)

\* xchat_init opens one window of one server.
LEMMA InitIInv == Init => IInv
<1> SUFFICES ASSUME Init PROVE IInv
  OBVIOUS
<1>1. PICK v \in Servers, w \in Windows, k \in {"server", "channel"} :
        /\ sess_list = <<w>>
        /\ serv_list = {v}
        /\ server = [x \in Windows |-> IF x = w THEN v ELSE NoServer]
        /\ kind = [x \in Windows |-> IF x = w THEN k ELSE "channel"]
        /\ named = {}
        /\ server_session = [x \in Servers |-> IF x = v THEN w ELSE NoWindow]
        /\ front_session = server_session
        /\ current_tab = w /\ current_sess = w
        /\ connected = {} /\ sent_quit = {}
        /\ said = [x \in Servers |-> "nothing"]
        /\ on = {} /\ quitting = FALSE /\ job = "none" /\ next = NoWindow
  BY DEF Init
<1>2. sess_list \in Seq(Windows) /\ Len(sess_list) = 1 /\ sess_list[1] = w
  BY <1>1
<1>3. DOMAIN sess_list = {1}
  BY <1>2
<1>4. Open = {w}
  BY <1>2, <1>3 DEF Open
<1>5. server[w] = v /\ Of(v) = {w}
  BY <1>1, <1>4 DEF Of
<1>6. TypeOK
  BY <1>1, <1>2, <1>4, <1>5 DEF TypeOK, Ptr, Kinds
<1>7. ListedOnce
  BY <1>3 DEF ListedOnce
<1>8. PointersValid /\ CurrentValid
  BY <1>1, <1>4, <1>5 DEF PointersValid, CurrentValid
<1>9. ServerPerWindow
  BY <1>1, <1>4, <1>5 DEF ServerPerWindow
<1>10. NextIsOpen /\ QuitIsMarked /\ QuitEndsAll /\ OnIsJoined
  BY <1>1 DEF NextIsOpen, QuitIsMarked, QuitEndsAll, OnIsJoined
<1> QED BY <1>6, <1>7, <1>8, <1>9, <1>10 DEF IInv

\* A new server comes with a window, and takes nothing of a freed one.
LEMMA NewServerIInv == IInv /\ NewServer => IInv'
<1> SUFFICES ASSUME IInv, NewServer PROVE IInv'
  OBVIOUS
<1>1. PICK v \in Servers \ serv_list, w \in Windows, focus \in BOOLEAN, name \in BOOLEAN,
           k \in {"server", "channel"} :
        /\ session_new(w, v, k, focus)
        /\ serv_list' = serv_list \cup {v}
        /\ server_session' = [server_session EXCEPT ![v] = w]
        /\ front_session' = [front_session EXCEPT ![v] = w]
        /\ connected' = connected \ {v}
        /\ sent_quit' = sent_quit \ {v}
        /\ said' = [said EXCEPT ![v] = "nothing"]
        /\ named' = IF name THEN named \cup {w} ELSE named \ {w}
  BY DEF NewServer
<1>2. job = "none" /\ UNCHANGED <<on, quitting, job, next>>
  BY DEF NewServer, Free
<1>3. k \in Kinds
  BY DEF Kinds
<1>4. /\ sess_list' \in Seq(Windows) /\ ListedOnce'
      /\ w \notin Open /\ Open' = Open \cup {w}
      /\ server' \in [Windows -> Servers \cup {NoServer}] /\ kind' \in [Windows -> Kinds]
      /\ server'[w] = v /\ kind'[w] = k
      /\ \A x \in Open : server'[x] = server[x] /\ kind'[x] = kind[x]
      /\ \A x \in Open' : server'[x] \in Servers
      /\ Of(v)' = {x \in Open : server[x] = v} \cup {w}
      /\ \A u : u # v => Of(u)' = Of(u)
      /\ current_tab' \in Ptr /\ current_sess' \in Ptr /\ CurrentValid'
  BY <1>1, <1>3, Opened
<1>5. TypeOK'
  <2>1. server_session' \in [Servers -> Ptr] /\ front_session' \in [Servers -> Ptr]
    BY <1>1 DEF IInv, TypeOK, Ptr
  <2>2. /\ said' \in [Servers -> {"nothing", "part", "quit", "more"}]
        /\ serv_list' \subseteq Servers /\ connected' \subseteq Servers
        /\ sent_quit' \subseteq Servers /\ named' \subseteq Windows
    BY <1>1 DEF IInv, TypeOK
  <2>3. /\ on' \subseteq Windows /\ quitting' \in BOOLEAN /\ next' \in Ptr
        /\ job' \in {"none", "dialogs", "exit", "over"}
    BY <1>2 DEF IInv, TypeOK
  <2> QED BY <1>4, <2>1, <2>2, <2>3 DEF TypeOK
<1>6. PointersValid'
  <2> SUFFICES ASSUME NEW u \in serv_list'
               PROVE  server_session'[u] \in Of(u)' /\ front_session'[u] \in Of(u)'
    BY DEF PointersValid
  <2>1. CASE u = v
    <3>1. server_session'[v] = w /\ front_session'[v] = w
      BY <1>1 DEF IInv, TypeOK
    <3> QED BY <1>4, <2>1, <3>1
  <2>2. CASE u # v
    <3>1. u \in serv_list /\ u \in Servers
      BY <1>1, <2>2 DEF IInv, TypeOK
    <3>2. server_session'[u] = server_session[u] /\ front_session'[u] = front_session[u]
      BY <1>1, <2>2, <3>1 DEF IInv, TypeOK
    <3> QED BY <1>4, <2>2, <3>1, <3>2 DEF IInv, PointersValid
  <2> QED BY <2>1, <2>2
<1>7. ServerPerWindow'
  BY <1>1, <1>4 DEF IInv, ServerPerWindow
<1>8. QuitIsMarked' /\ QuitEndsAll' /\ NextIsOpen'
  <2>1. QuitIsMarked'
    BY <1>1 DEF IInv, TypeOK, QuitIsMarked
  <2>2. QuitEndsAll'
    BY <1>1, <1>2 DEF IInv, QuitEndsAll
  <2> QED BY <1>2, <2>1, <2>2 DEF NextIsOpen
<1>9. OnIsJoined'
  <2>1. \A x \in on : x \in Open /\ x # w /\ server[x] # v
    BY <1>4 DEF IInv, OnIsJoined, QuitIsMarked
  <2> QED BY <1>1, <1>2, <1>4, <2>1 DEF IInv, OnIsJoined
<1> QED BY <1>4, <1>5, <1>6, <1>7, <1>8, <1>9 DEF IInv

\* A dialog belongs to a server that exists.
LEMMA NewDialogIInv == IInv /\ NewDialog => IInv'
<1> SUFFICES ASSUME IInv, NewDialog PROVE IInv'
  OBVIOUS
<1>1. PICK v \in serv_list, w \in Windows, focus \in BOOLEAN :
        session_new(w, v, "dialog", focus) /\ named' = named \cup {w}
  BY DEF NewDialog
<1>2. /\ job = "none"
      /\ UNCHANGED <<serv_list, server_session, front_session, connected, sent_quit,
                     said, on, quitting, job, next>>
  BY DEF NewDialog, Free, network
<1>3. v \in Servers /\ "dialog" \in Kinds
  BY DEF IInv, TypeOK, Kinds
<1>4. /\ sess_list' \in Seq(Windows) /\ ListedOnce'
      /\ w \notin Open /\ Open' = Open \cup {w}
      /\ server' \in [Windows -> Servers \cup {NoServer}] /\ kind' \in [Windows -> Kinds]
      /\ server'[w] = v
      /\ \A x \in Open : server'[x] = server[x] /\ kind'[x] = kind[x]
      /\ \A x \in Open' : server'[x] \in Servers
      /\ Of(v)' = {x \in Open : server[x] = v} \cup {w}
      /\ \A u : u # v => Of(u)' = Of(u)
      /\ current_tab' \in Ptr /\ current_sess' \in Ptr /\ CurrentValid'
  BY <1>1, <1>3, Opened
<1>5. TypeOK'
  BY <1>1, <1>2, <1>4 DEF IInv, TypeOK
<1>6. PointersValid'
  <2>1. \A u \in serv_list : Of(u) \subseteq Of(u)'
    BY <1>4 DEF Of
  <2> QED BY <1>2, <2>1 DEF IInv, PointersValid
<1>7. ServerPerWindow'
  BY <1>1, <1>2, <1>4 DEF IInv, ServerPerWindow
<1>8. QuitIsMarked' /\ QuitEndsAll' /\ NextIsOpen'
  BY <1>2 DEF IInv, QuitIsMarked, QuitEndsAll, NextIsOpen
<1>9. OnIsJoined'
  BY <1>1, <1>2, <1>4 DEF IInv, OnIsJoined
<1> QED BY <1>4, <1>5, <1>6, <1>7, <1>8, <1>9 DEF IInv

\* A joined channel has a window, opened for it or not.
LEMMA JoinIInv == IInv /\ Join => IInv'
<1> SUFFICES ASSUME IInv, Join PROVE IInv'
  OBVIOUS
<1>1. PICK v \in connected, w \in Windows :
        /\ \/ /\ w \in Of(v) /\ kind[w] = "channel" /\ w \notin named
              /\ UNCHANGED <<windows, current_tab, current_sess>>
           \/ session_new(w, v, "channel", TRUE)
        /\ named' = named \cup {w}
        /\ on' = on \cup {w}
  BY DEF Join
<1>2. /\ job = "none"
      /\ UNCHANGED <<serv_list, server_session, front_session, connected, sent_quit,
                     said, quitting, job, next>>
  BY DEF Join, Free, network
<1>3. /\ v \in Servers /\ v \in serv_list /\ v \notin sent_quit /\ "channel" \in Kinds
  BY <1>2 DEF IInv, TypeOK, QuitIsMarked, QuitEndsAll, Kinds
<1>4. named' \subseteq Windows /\ on' \subseteq Windows
  BY <1>1 DEF IInv, TypeOK
<1>5. QuitIsMarked' /\ QuitEndsAll' /\ NextIsOpen'
  BY <1>2 DEF IInv, QuitIsMarked, QuitEndsAll, NextIsOpen
<1>6. CASE session_new(w, v, "channel", TRUE)
  <2>1. /\ sess_list' \in Seq(Windows) /\ ListedOnce'
        /\ w \notin Open /\ Open' = Open \cup {w}
        /\ server' \in [Windows -> Servers \cup {NoServer}] /\ kind' \in [Windows -> Kinds]
        /\ server'[w] = v /\ kind'[w] = "channel"
        /\ \A x \in Open : server'[x] = server[x] /\ kind'[x] = kind[x]
        /\ \A x \in Open' : server'[x] \in Servers
        /\ Of(v)' = {x \in Open : server[x] = v} \cup {w}
        /\ \A u : u # v => Of(u)' = Of(u)
        /\ current_tab' \in Ptr /\ current_sess' \in Ptr /\ CurrentValid'
    BY <1>3, <1>6, Opened
  <2>2. TypeOK'
    BY <1>2, <1>4, <2>1 DEF IInv, TypeOK
  <2>3. PointersValid'
    <3>1. \A u \in serv_list : Of(u) \subseteq Of(u)'
      BY <2>1 DEF Of
    <3> QED BY <1>2, <3>1 DEF IInv, PointersValid
  <2>4. ServerPerWindow'
    BY <1>2, <1>3, <2>1 DEF IInv, ServerPerWindow
  <2>5. OnIsJoined'
    BY <1>1, <1>2, <1>3, <2>1 DEF IInv, OnIsJoined
  <2> QED BY <1>5, <2>1, <2>2, <2>3, <2>4, <2>5 DEF IInv
<1>7. CASE /\ w \in Of(v) /\ kind[w] = "channel" /\ w \notin named
           /\ UNCHANGED <<windows, current_tab, current_sess>>
  <2>1. /\ UNCHANGED <<sess_list, server, kind, current_tab, current_sess>>
        /\ Open' = Open /\ \A u : Of(u)' = Of(u)
    BY <1>7 DEF windows, Open, Of
  <2>2. TypeOK'
    BY <1>2, <1>4, <2>1 DEF IInv, TypeOK
  <2>3. ListedOnce' /\ PointersValid' /\ CurrentValid' /\ ServerPerWindow'
    BY <1>2, <2>1 DEF IInv, ListedOnce, PointersValid, CurrentValid, ServerPerWindow
  <2>4. OnIsJoined'
    BY <1>1, <1>2, <1>3, <1>7, <2>1 DEF IInv, OnIsJoined, Of
  <2> QED BY <1>5, <2>2, <2>3, <2>4 DEF IInv
<1> QED BY <1>1, <1>6, <1>7

\* Steps that open and close no window.
LEMMA SameWindows ==
    ASSUME IInv, UNCHANGED <<windows, serv_list>>
    PROVE  /\ sess_list' \in Seq(Windows) /\ ListedOnce' /\ Open' = Open
           /\ \A u : Of(u)' = Of(u)
           /\ UNCHANGED <<sess_list, server, kind, serv_list>>
           /\ ServerPerWindow'
<1>1. UNCHANGED <<sess_list, server, kind, serv_list>>
  BY DEF windows
<1>2. Open' = Open /\ \A u : Of(u)' = Of(u)
  BY <1>1 DEF Open, Of
<1> QED BY <1>1, <1>2 DEF IInv, TypeOK, ListedOnce, ServerPerWindow

\* The window that is given the focus is an open one.
LEMMA FocusIInv == IInv /\ Focus => IInv'
<1> SUFFICES ASSUME IInv, Focus PROVE IInv'
  OBVIOUS
<1>1. PICK w \in Open :
        /\ current_sess' = w /\ current_tab' = w
        /\ front_session' = [front_session EXCEPT ![server[w]] = w]
  BY DEF Focus
<1>2. /\ job = "none" /\ UNCHANGED <<windows, serv_list>>
      /\ UNCHANGED <<named, server_session, connected, sent_quit, said, on,
                     quitting, job, next>>
  BY DEF Focus, Free, network
<1>3. /\ sess_list' \in Seq(Windows) /\ ListedOnce' /\ Open' = Open
      /\ \A u : Of(u)' = Of(u)
      /\ UNCHANGED <<sess_list, server, kind, serv_list>>
      /\ ServerPerWindow'
  BY <1>2, SameWindows
<1>4. w \in Ptr /\ server[w] \in Servers
  BY HeadFacts DEF IInv, TypeOK, Ptr
<1>5. front_session' \in [Servers -> Ptr]
  BY <1>1, <1>4 DEF IInv, TypeOK
<1>6. TypeOK'
  BY <1>1, <1>2, <1>3, <1>4, <1>5 DEF IInv, TypeOK
<1>7. PointersValid'
  <2>1. \A u \in serv_list : front_session'[u] = IF u = server[w] THEN w ELSE front_session[u]
    BY <1>1 DEF IInv, TypeOK
  <2>2. w \in Of(server[w])
    BY DEF Of
  <2> QED BY <1>2, <1>3, <2>1, <2>2 DEF IInv, PointersValid
<1>8. CurrentValid'
  BY <1>1, <1>3 DEF CurrentValid
<1>9. QuitIsMarked' /\ QuitEndsAll' /\ NextIsOpen' /\ OnIsJoined'
  BY <1>2, <1>3 DEF IInv, QuitIsMarked, QuitEndsAll, NextIsOpen, OnIsJoined
<1> QED BY <1>3, <1>6, <1>7, <1>8, <1>9 DEF IInv

\* A connection starts with nothing said: sent_quit is not set.
LEMMA ConnectIInv == IInv /\ Connect => IInv'
<1> SUFFICES ASSUME IInv, Connect PROVE IInv'
  OBVIOUS
<1>1. PICK v \in serv_list \ connected :
        /\ connected' = connected \cup {v}
        /\ said' = [said EXCEPT ![v] = "nothing"]
  BY DEF Connect
<1>2. /\ job = "none" /\ UNCHANGED <<windows, serv_list>>
      /\ UNCHANGED <<named, server_session, front_session, current_tab, current_sess,
                     sent_quit, on, quitting, job, next>>
  BY DEF Connect, Free, pointers
<1>3. /\ sess_list' \in Seq(Windows) /\ ListedOnce' /\ Open' = Open
      /\ \A u : Of(u)' = Of(u)
      /\ UNCHANGED <<sess_list, server, kind, serv_list>>
      /\ ServerPerWindow'
  BY <1>2, SameWindows
<1>4. TypeOK'
  <2>1. /\ connected' \subseteq Servers
        /\ said' \in [Servers -> {"nothing", "part", "quit", "more"}]
    BY <1>1 DEF IInv, TypeOK
  <2> QED BY <1>2, <1>3, <2>1 DEF IInv, TypeOK
<1>5. PointersValid' /\ CurrentValid'
  BY <1>2, <1>3 DEF IInv, PointersValid, CurrentValid
<1>6. QuitIsMarked'
  <2>1. v \notin sent_quit
    BY <1>2 DEF IInv, QuitEndsAll
  <2>2. \A u \in connected' : said'[u] = IF u = v THEN "nothing" ELSE said[u]
    BY <1>1 DEF IInv, TypeOK
  <2> QED BY <1>1, <1>2, <1>3, <2>1, <2>2 DEF IInv, QuitIsMarked
<1>7. QuitEndsAll' /\ NextIsOpen' /\ OnIsJoined'
  BY <1>1, <1>2, <1>3 DEF IInv, QuitEndsAll, NextIsOpen, OnIsJoined
<1> QED BY <1>3, <1>4, <1>5, <1>6, <1>7 DEF IInv

\* A lost connection leaves no channel joined.
LEMMA DisconnectIInv == IInv /\ Disconnect => IInv'
<1> SUFFICES ASSUME IInv, Disconnect PROVE IInv'
  OBVIOUS
<1>1. PICK v \in connected, quit \in BOOLEAN :
        /\ connected' = connected \ {v}
        /\ said' = IF quit THEN [said EXCEPT ![v] = Said(v, "quit")] ELSE said
        /\ named' = named \ Cleared(v)
        /\ on' = on \ Of(v)
  BY DEF Disconnect
<1>2. /\ job = "none" /\ UNCHANGED <<windows, serv_list>>
      /\ UNCHANGED <<server_session, front_session, current_tab, current_sess,
                     sent_quit, quitting, job, next>>
  BY DEF Disconnect, Free, pointers
<1>3. /\ sess_list' \in Seq(Windows) /\ ListedOnce' /\ Open' = Open
      /\ \A u : Of(u)' = Of(u)
      /\ UNCHANGED <<sess_list, server, kind, serv_list>>
      /\ ServerPerWindow'
  BY <1>2, SameWindows
<1>4. TypeOK'
  <2>1. Said(v, "quit") \in {"quit", "more"}
    BY DEF Said
  <2>2. said' \in [Servers -> {"nothing", "part", "quit", "more"}]
    BY <1>1, <2>1 DEF IInv, TypeOK
  <2>3. connected' \subseteq Servers /\ named' \subseteq Windows /\ on' \subseteq Windows
    BY <1>1 DEF IInv, TypeOK
  <2> QED BY <1>2, <1>3, <2>2, <2>3 DEF IInv, TypeOK
<1>5. PointersValid' /\ CurrentValid'
  BY <1>2, <1>3 DEF IInv, PointersValid, CurrentValid
<1>6. QuitIsMarked'
  <2>1. \A u \in connected' : u \in connected /\ said'[u] = said[u]
    BY <1>1 DEF IInv, TypeOK
  <2> QED BY <1>1, <1>2, <1>3, <2>1 DEF IInv, QuitIsMarked
<1>7. OnIsJoined'
  <2>1. \A x \in on' : x \in on /\ server[x] # v
    BY <1>1 DEF Of, IInv, OnIsJoined
  <2>2. \A x \in on' : x \notin Cleared(v)
    BY <2>1 DEF Cleared, Of
  <2> QED BY <1>1, <1>2, <1>3, <2>1, <2>2 DEF IInv, OnIsJoined
<1>8. QuitEndsAll' /\ NextIsOpen'
  BY <1>2, <1>3 DEF IInv, QuitEndsAll, NextIsOpen
<1> QED BY <1>3, <1>4, <1>5, <1>6, <1>7, <1>8 DEF IInv

\* A channel that was left keeps its window.
LEMMA LeftChannelIInv == IInv /\ LeftChannel => IInv'
<1> SUFFICES ASSUME IInv, LeftChannel PROVE IInv'
  OBVIOUS
<1>1. PICK w \in on : named' = named \ {w} /\ on' = on \ {w}
  BY DEF LeftChannel
<1>2. /\ UNCHANGED <<windows, serv_list>>
      /\ UNCHANGED <<server_session, front_session, current_tab, current_sess,
                     connected, sent_quit, said, quitting, job, next>>
  BY DEF LeftChannel, pointers, network
<1>3. /\ sess_list' \in Seq(Windows) /\ ListedOnce' /\ Open' = Open
      /\ \A u : Of(u)' = Of(u)
      /\ UNCHANGED <<sess_list, server, kind, serv_list>>
      /\ ServerPerWindow'
  BY <1>2, SameWindows
<1>4. TypeOK'
  BY <1>1, <1>2, <1>3 DEF IInv, TypeOK
<1>5. PointersValid' /\ CurrentValid'
  BY <1>2, <1>3 DEF IInv, PointersValid, CurrentValid
<1>6. QuitIsMarked' /\ QuitEndsAll' /\ NextIsOpen'
  BY <1>2, <1>3 DEF IInv, QuitIsMarked, QuitEndsAll, NextIsOpen
<1>7. OnIsJoined'
  BY <1>1, <1>2, <1>3 DEF IInv, OnIsJoined
<1> QED BY <1>3, <1>4, <1>5, <1>6, <1>7 DEF IInv

\* Closing a window, whatever loop does it, if the loop's own state is right.
LEMMA SessionFreeIInv ==
    ASSUME IInv, NEW w \in Open, session_free(w),
           job' \in {"none", "dialogs", "exit", "over"}, next' \in Ptr,
           quitting' => job' # "none" /\ (job' = "dialogs" => sess_list' = <<>>),
           NextIsOpen'
    PROVE  IInv'
<1>1. /\ sess_list' \in Seq(Windows) /\ ListedOnce'
      /\ Open' = Open \ {w} /\ server' = server /\ kind' = kind
  BY ClosedList
<1>2. /\ server_session' \in [Servers -> Ptr] /\ front_session' \in [Servers -> Ptr]
      /\ current_tab' \in Ptr /\ current_sess' \in Ptr /\ serv_list' \subseteq Servers
      /\ PointersValid' /\ CurrentValid' /\ ServerPerWindow'
  BY ClosedPointers
<1>3. /\ connected' \subseteq Servers /\ sent_quit' \subseteq Servers
      /\ said' \in [Servers -> {"nothing", "part", "quit", "more"}]
      /\ on' \subseteq Windows /\ named' \subseteq Windows
      /\ QuitIsMarked' /\ OnIsJoined' /\ quitting' \in BOOLEAN
      /\ serv_list' \cap sent_quit' # {} => quitting'
  BY ClosedQuit
<1>4. TypeOK'
  BY <1>1, <1>2, <1>3 DEF IInv, TypeOK
<1>5. QuitEndsAll'
  BY <1>3 DEF QuitEndsAll
<1> QED BY <1>1, <1>2, <1>3, <1>4, <1>5 DEF IInv

\* /close: the last window ends the program.
LEMMA CloseIInv == IInv /\ Close => IInv'
<1> SUFFICES ASSUME IInv, Close PROVE IInv'
  OBVIOUS
<1>1. PICK w \in Open : session_free(w) /\ job' = AfterClose(w)
  BY DEF Close
<1>2. job = "none" /\ next' = next
  BY DEF Close, Free
<1>3. sess_list' = Without(w) /\ quitting' = (quitting \/ sess_list' = <<>>)
  BY <1>1 DEF session_free
<1>4. job' = IF sess_list' = <<>> THEN "over" ELSE "none"
  BY <1>1, <1>3 DEF AfterClose
<1>5. ~quitting /\ next \in Ptr
  BY <1>2 DEF IInv, TypeOK, QuitEndsAll
<1>6. quitting' => job' # "none" /\ (job' = "dialogs" => sess_list' = <<>>)
  BY <1>3, <1>4, <1>5
<1>7. NextIsOpen'
  BY <1>4 DEF NextIsOpen
<1> QED BY <1>1, <1>2, <1>4, <1>5, <1>6, <1>7, SessionFreeIInv

\* /close -m: the saved link is not the window that is closed.
LEMMA CloseDialogIInv == IInv /\ CloseDialog => IInv'
<1> SUFFICES ASSUME IInv, CloseDialog PROVE IInv'
  OBVIOUS
<1>1. /\ job = "dialogs" /\ job' = "dialogs" /\ next # NoWindow
      /\ next' = Successor(next)
  BY DEF CloseDialog
<1>2. next \in Open /\ Open \subseteq Windows
  BY <1>1, HeadFacts DEF IInv, TypeOK, NextIsOpen
<1>3. next' \in (Open \ {next}) \cup {NoWindow}
  <2>1. /\ Position(next) \in 1..Len(sess_list)
        /\ \A i \in 1..Len(sess_list) : sess_list[i] = next => i = Position(next)
    BY <1>2, PositionFacts DEF IInv, TypeOK
  <2>2. Len(sess_list) \in Nat /\ DOMAIN sess_list = 1..Len(sess_list)
    BY LenProperties DEF IInv, TypeOK
  <2>3. CASE Position(next) = Len(sess_list)
    BY <1>1, <2>3 DEF Successor
  <2>4. CASE Position(next) # Len(sess_list)
    <3>1. /\ Position(next) + 1 \in 1..Len(sess_list)
          /\ Position(next) + 1 # Position(next)
      BY <2>1, <2>2, <2>4
    <3>2. next' = sess_list[Position(next) + 1]
      BY <1>1, <2>4 DEF Successor
    <3>3. next' \in Open
      BY <2>2, <3>1, <3>2 DEF Open
    <3>4. next' # next
      BY <2>1, <3>1, <3>2
    <3> QED BY <3>3, <3>4
  <2> QED BY <2>3, <2>4
<1>4. next' \in Ptr
  BY <1>2, <1>3 DEF Ptr
<1>5. CASE kind[next] = "dialog"
  <2>1. session_free(next)
    BY <1>5 DEF CloseDialog
  <2>2. Open' = Open \ {next}
    BY <1>2, <2>1, ClosedList
  <2>3. NextIsOpen'
    BY <1>3, <2>2 DEF NextIsOpen
  <2>4. ~quitting
    BY <1>1, <1>2, HeadFacts DEF IInv, TypeOK, QuitEndsAll
  <2>5. quitting' <=> (quitting \/ sess_list' = <<>>)
    BY <1>2, <2>1, ClosedQuit
  <2> QED BY <1>1, <1>2, <1>4, <2>1, <2>3, <2>4, <2>5, SessionFreeIInv
<1>6. CASE kind[next] # "dialog"
  <2>1. UNCHANGED <<windows, serv_list, named, pointers, network, on, quitting>>
    BY <1>6 DEF CloseDialog
  <2>2. /\ sess_list' \in Seq(Windows) /\ ListedOnce' /\ Open' = Open
        /\ \A u : Of(u)' = Of(u)
        /\ UNCHANGED <<sess_list, server, kind, serv_list>>
        /\ ServerPerWindow'
    BY <2>1, SameWindows
  <2>3. /\ UNCHANGED <<named, server_session, front_session, current_tab, current_sess>>
        /\ UNCHANGED <<connected, sent_quit, said, on, quitting>>
    BY <2>1 DEF pointers, network
  <2>4. TypeOK'
    BY <1>1, <1>4, <2>2, <2>3 DEF IInv, TypeOK
  <2>5. PointersValid' /\ CurrentValid'
    BY <2>2, <2>3 DEF IInv, PointersValid, CurrentValid
  <2>6. QuitIsMarked' /\ QuitEndsAll' /\ OnIsJoined'
    BY <1>1, <2>2, <2>3 DEF IInv, QuitIsMarked, QuitEndsAll, OnIsJoined
  <2>7. NextIsOpen'
    BY <1>3, <2>2 DEF NextIsOpen
  <2> QED BY <2>2, <2>4, <2>5, <2>6, <2>7 DEF IInv
<1> QED BY <1>5, <1>6

\* The steps that start a loop or end one.
LEMMA JobIInv ==
    ASSUME IInv, CloseDialogs \/ DialogsClosed \/ Exit \/ ExitEnds
    PROVE  IInv'
<1>1. UNCHANGED <<windows, serv_list, named, pointers, network, on>>
  BY DEF CloseDialogs, DialogsClosed, Exit, ExitEnds
<1>2. /\ sess_list' \in Seq(Windows) /\ ListedOnce' /\ Open' = Open
      /\ \A u : Of(u)' = Of(u)
      /\ UNCHANGED <<sess_list, server, kind, serv_list>>
      /\ ServerPerWindow'
  BY <1>1, SameWindows
<1>3. /\ UNCHANGED <<named, server_session, front_session, current_tab, current_sess>>
      /\ UNCHANGED <<connected, sent_quit, said, on>>
  BY <1>1 DEF pointers, network
<1>4. /\ sess_list = <<>> <=> Open = {}
      /\ sess_list # <<>> => Head(sess_list) \in Open
      /\ Open \subseteq Windows
  BY HeadFacts DEF IInv, TypeOK
<1>5. /\ next' \in Ptr /\ quitting' \in BOOLEAN
      /\ job' \in {"none", "dialogs", "exit", "over"} /\ NextIsOpen'
  <2>1. next \in Ptr /\ quitting \in BOOLEAN
    BY DEF IInv, TypeOK
  <2> QED BY <1>2, <1>4, <2>1
          DEF CloseDialogs, DialogsClosed, Exit, ExitEnds, Ptr, NextIsOpen
<1>6. TypeOK'
  BY <1>2, <1>3, <1>5 DEF IInv, TypeOK
<1>7. PointersValid' /\ CurrentValid' /\ QuitIsMarked' /\ OnIsJoined'
  BY <1>2, <1>3 DEF IInv, PointersValid, CurrentValid, QuitIsMarked, OnIsJoined
<1>8. quitting' => job' # "none" /\ (job' = "dialogs" => sess_list' = <<>>)
  <2> USE DEF IInv, QuitEndsAll
  <2>1. CASE CloseDialogs BY <2>1 DEF CloseDialogs, Free
  <2>2. CASE DialogsClosed BY <1>2, <2>2 DEF DialogsClosed
  <2>3. CASE Exit BY <2>3 DEF Exit
  <2>4. CASE ExitEnds BY <2>4 DEF ExitEnds
  <2> QED BY <2>1, <2>2, <2>3, <2>4
<1>9. QuitEndsAll'
  <2>1. quitting => quitting'
    BY DEF CloseDialogs, DialogsClosed, Exit, ExitEnds
  <2> QED BY <1>2, <1>3, <1>8, <2>1 DEF IInv, QuitEndsAll
<1> QED BY <1>2, <1>5, <1>6, <1>7, <1>9 DEF IInv

\* free_sessions: the head of the list is closed until there is none.
LEMMA ExitClosesIInv == IInv /\ ExitCloses => IInv'
<1> SUFFICES ASSUME IInv, ExitCloses PROVE IInv'
  OBVIOUS
<1>1. /\ job = "exit" /\ Open # {} /\ session_free(Head(sess_list))
      /\ job' = job /\ next' = next
  BY DEF ExitCloses
<1>2. Head(sess_list) \in Open
  BY <1>1, HeadFacts DEF IInv, TypeOK
<1>3. next' \in Ptr /\ job' \in {"none", "dialogs", "exit", "over"} /\ NextIsOpen'
  BY <1>1 DEF IInv, TypeOK, NextIsOpen
<1> QED BY <1>1, <1>2, <1>3, SessionFreeIInv

\* Nothing moves.
LEMMA StutterIInv == IInv /\ UNCHANGED vars => IInv'
<1> SUFFICES ASSUME IInv, UNCHANGED vars PROVE IInv'
  OBVIOUS
<1>1. /\ UNCHANGED <<windows, serv_list>>
      /\ UNCHANGED <<named, server_session, front_session, current_tab, current_sess>>
      /\ UNCHANGED <<connected, sent_quit, said, on, quitting, job, next>>
  BY DEF vars, pointers, network
<1>2. /\ sess_list' \in Seq(Windows) /\ ListedOnce' /\ Open' = Open
      /\ \A u : Of(u)' = Of(u)
      /\ UNCHANGED <<sess_list, server, kind, serv_list>>
      /\ ServerPerWindow'
  BY <1>1, SameWindows
<1>3. TypeOK'
  BY <1>1, <1>2 DEF IInv, TypeOK
<1>4. PointersValid' /\ CurrentValid' /\ QuitIsMarked'
  BY <1>1, <1>2 DEF IInv, PointersValid, CurrentValid, QuitIsMarked
<1>5. QuitEndsAll' /\ NextIsOpen' /\ OnIsJoined'
  BY <1>1, <1>2 DEF IInv, QuitEndsAll, NextIsOpen, OnIsJoined
<1> QED BY <1>2, <1>3, <1>4, <1>5 DEF IInv

\* The invariant is inductive.
LEMMA NextIInv == IInv /\ [Next]_vars => IInv'
BY NewServerIInv, NewDialogIInv, JoinIInv, FocusIInv, ConnectIInv, DisconnectIInv,
   LeftChannelIInv, CloseIInv, CloseDialogIInv, JobIInv, ExitClosesIInv, StutterIInv
   DEF Next, Loop

\* Every reachable state satisfies it.
THEOREM Invariant == Spec => []IInv
<1>1. Init => IInv
  BY InitIInv
<1>2. IInv /\ [Next]_vars => IInv'
  BY NextIInv
<1> QED BY <1>1, <1>2, PTL DEF Spec

-----------------------------------------------------------------------------
(* The theorems.                                                           *)

\* The lists, the pointers and the history keep their types, for any number
\* of windows and servers.
THEOREM TypeCorrect == Spec => []TypeOK
BY Invariant, PTL DEF IInv

\* server_session and front_session of a server that exists name open windows
\* of that server, whichever windows session_free closes, in whatever order.
THEOREM PointersAreValid == Spec => []PointersValid
BY Invariant, PTL DEF IInv

\* current_sess and current_tab never name a freed window.
THEOREM CurrentIsValid == Spec => []CurrentValid
BY Invariant, PTL DEF IInv

\* session_free calls server_free for the last window of a server and for no
\* other.
THEOREM ServersLiveWithWindows == Spec => []ServerPerWindow
BY Invariant, PTL DEF IInv

\* send_quit_or_part says nothing after a QUIT.
THEOREM OneQuit == Spec => []QuitOnce
<1>1. IInv => QuitOnce
  BY DEF IInv, QuitIsMarked, QuitOnce
<1> QED BY <1>1, Invariant, PTL

\* A channel the IRC server has us on has a window.
THEOREM NoGhosts == Spec => []NoGhost
<1>1. IInv => NoGhost
  BY DEF IInv, OnIsJoined, NoGhost
<1> QED BY <1>1, Invariant, PTL

\* cmd_close's saved link stays in the list: a session closed while /close -m
\* runs is never the one it goes on with.
THEOREM SavedLinkIsOpen == Spec => []NextIsOpen
BY Invariant, PTL DEF IInv

\* A connected server is only freed after the QUIT of send_quit_or_part.
THEOREM QuitComesFirst == Spec => QuitBeforeFree
<1> DEFINE Quits == \A v \in serv_list \cap connected : v \notin serv_list' => said'[v] = "quit"
<1>1. ASSUME IInv, NEW w \in Open, session_free(w)
      PROVE  Quits
  BY <1>1, ClosedQuit
<1>2. IInv /\ [Next]_vars => [Quits]_vars
  <2> SUFFICES ASSUME IInv, Next PROVE Quits
    OBVIOUS
  <2>1. CASE serv_list \subseteq serv_list'
    BY <2>1
  <2>2. CASE \E w \in Open : session_free(w)
    BY <1>1, <2>2
  <2>3. ASSUME NewServer \/ NewDialog \/ Join \/ Focus \/ Connect \/ Disconnect \/ LeftChannel
                 \/ CloseDialogs \/ DialogsClosed \/ Exit \/ ExitEnds
        PROVE  serv_list \subseteq serv_list'
    BY <2>3 DEF NewServer, NewDialog, Join, Focus, Connect, Disconnect, LeftChannel,
                CloseDialogs, DialogsClosed, Exit, ExitEnds
  <2>4. ASSUME Close \/ ExitCloses PROVE \E w \in Open : session_free(w)
    <3>1. Open # {} => Head(sess_list) \in Open
      BY HeadFacts DEF IInv, TypeOK
    <3> QED BY <2>4, <3>1 DEF Close, ExitCloses
  <2>5. ASSUME CloseDialog
        PROVE  serv_list \subseteq serv_list' \/ \E w \in Open : session_free(w)
    BY <2>5 DEF CloseDialog, IInv, NextIsOpen
  <2> HIDE DEF Quits
  <2> QED BY <2>1, <2>2, <2>3, <2>4, <2>5 DEF Next, Loop
<1> QED BY <1>2, Invariant, PTL DEF Spec, QuitBeforeFree

\* Every pointer between windows and servers can be followed.
THEOREM PointersAreFollowed == Spec => []PointersFollowed
BY PointersAreValid, CurrentIsValid, ServersLiveWithWindows, PTL DEF PointersFollowed

\* send_quit_or_part says QUIT once on every connection it closes.
THEOREM OneQuitForEach == Spec => OneQuitEach
BY OneQuit, QuitComesFirst, PTL DEF OneQuitEach

-----------------------------------------------------------------------------
(* The loops end.                                                          *)

\* What CHOOSE finds when there is one place.
LEMMA OnePlace ==
    ASSUME NEW s, NEW x, NEW p \in DOMAIN s, s[p] = x,
           \A i \in DOMAIN s : s[i] = x => i = p
    PROVE  (CHOOSE i \in DOMAIN s : s[i] = x) = p
OBVIOUS

\* A turn of cmd_close's loop: one link less to go, whether its window is
\* closed, and the others move up, or not.
LEMMA DialogTurn ==
    ASSUME IInv, CloseDialog
    PROVE  Remaining' < Remaining
<1> DEFINE n == Len(sess_list)
           p == Position(next)
<1>1. /\ job = "dialogs" /\ job' = "dialogs" /\ next # NoWindow
      /\ next' = Successor(next) /\ next \in Open
  BY DEF CloseDialog, IInv, NextIsOpen
<1>2. /\ n \in Nat /\ p \in 1..n /\ DOMAIN sess_list = 1..n
      /\ \A i, j \in 1..n : sess_list[i] = sess_list[j] => i = j
  BY <1>1, PositionFacts, LenProperties DEF IInv, TypeOK, ListedOnce
<1>3. Remaining = n - p + 1
  BY <1>1 DEF Remaining
<1>4. CASE p = n
  <2>1. next' = NoWindow
    BY <1>1, <1>4 DEF Successor
  <2>2. Remaining' = 0
    BY <1>1, <2>1 DEF Remaining
  <2> HIDE DEF n, p
  <2> QED BY <1>2, <1>3, <1>4, <2>2
<1>5. CASE p # n
  <2>1. next' = sess_list[p + 1] /\ p + 1 \in 1..n
    BY <1>1, <1>2, <1>5 DEF Successor
  <2>2. next' # NoWindow
    <3>1. sess_list[p + 1] \in Windows
      BY <1>2, <2>1, ElementOfSeq DEF IInv, TypeOK
    <3> QED BY <2>1, <3>1, NullAssumption
  <2>3. CASE kind[next] = "dialog"
    <3> DEFINE t == Without(next)
    <3>1. sess_list' = t
      BY <2>3 DEF CloseDialog, session_free
    <3>2. /\ Len(t) = n - 1 /\ DOMAIN t = 1..(n - 1)
          /\ \A i \in 1..(n - 1) : t[i] = IF i < p THEN sess_list[i] ELSE sess_list[i + 1]
      BY <1>1, WithoutFacts DEF IInv, TypeOK
    <3> HIDE DEF t, n, p
    <3>3. /\ p \in DOMAIN t /\ t[p] = sess_list[p + 1]
          /\ \A i \in DOMAIN t : t[i] = sess_list[p + 1] => i = p
      BY <1>2, <2>1, <3>2
    <3>4. (CHOOSE i \in DOMAIN sess_list' : sess_list'[i] = next') = p
      BY <2>1, <3>1, <3>3, OnePlace
    <3>5. Remaining' = Len(sess_list') - p + 1
      BY <1>1, <2>2, <3>4, Zenon DEF Remaining, Position
    <3> QED BY <1>2, <1>3, <3>1, <3>2, <3>5
  <2>4. CASE kind[next] # "dialog"
    <3>1. sess_list' = sess_list
      BY <2>4 DEF CloseDialog, windows
    <3> HIDE DEF n, p
    <3>2. (CHOOSE i \in DOMAIN sess_list' : sess_list'[i] = next') = p + 1
      BY <1>2, <2>1, <3>1, OnePlace
    <3>3. Remaining' = Len(sess_list') - (p + 1) + 1
      BY <1>1, <2>2, <3>2, Zenon DEF Remaining, Position
    <3> QED BY <1>2, <1>3, <3>1, <3>3 DEF n
  <2> QED BY <2>3, <2>4
<1> QED BY <1>4, <1>5

\* A turn of free_sessions: one window less.
LEMMA ExitTurn ==
    ASSUME IInv, ExitCloses
    PROVE  Remaining' < Remaining
<1>1. /\ job = "exit" /\ job' = "exit" /\ session_free(Head(sess_list))
      /\ Head(sess_list) \in Open
  BY HeadFacts DEF ExitCloses, IInv, TypeOK
<1>2. /\ sess_list' = Without(Head(sess_list))
      /\ Len(Without(Head(sess_list))) = Len(sess_list) - 1
      /\ Len(sess_list) \in Nat
  BY <1>1, WithoutFacts, LenProperties DEF session_free, IInv, TypeOK
<1>3. Remaining = Len(sess_list) /\ Remaining' = Len(sess_list')
  BY <1>1 DEF Remaining
<1> QED BY <1>2, <1>3

\* With no window left there is no server.
LEMMA NoServerLeft == IInv /\ sess_list = <<>> => serv_list = {}
BY HeadFacts DEF IInv, TypeOK, ServerPerWindow

\* The loops of /close -m and of the exit end, for any number of windows, and
\* the program ends without servers.
THEOREM LoopsEnd == Spec => LoopsShrink
<1> DEFINE Turn == /\ job \in {"exit", "dialogs"} =>
                        IF job' = job THEN Remaining' < Remaining ELSE Remaining = 0
                   /\ job' = "over" => serv_list' = {}
<1>1. IInv /\ [Next]_vars => [Turn]_vars
  <2> SUFFICES ASSUME IInv, IInv', Next PROVE Turn
    BY NextIInv
  <2>1. CASE CloseDialog
    <3>1. job = "dialogs" /\ job' = "dialogs"
      BY <2>1 DEF CloseDialog
    <3> QED BY <2>1, <3>1, DialogTurn
  <2>2. CASE ExitCloses
    <3>1. job = "exit" /\ job' = "exit"
      BY <2>2 DEF ExitCloses
    <3> QED BY <2>2, <3>1, ExitTurn
  <2>3. CASE DialogsClosed
    <3>1. job = "dialogs" /\ Remaining = 0 /\ job' # job
      BY <2>3 DEF DialogsClosed, Remaining
    <3>2. sess_list' = sess_list /\ (job' = "over" => sess_list = <<>>)
      BY <2>3 DEF DialogsClosed, windows
    <3>3. job' = "over" => serv_list' = {}
      BY <2>3, <3>2, NoServerLeft DEF DialogsClosed
    <3> QED BY <3>1, <3>3
  <2>4. CASE ExitEnds
    <3>1. job = "exit" /\ job' = "over" /\ Open = {} /\ serv_list' = serv_list
      BY <2>4 DEF ExitEnds
    <3>2. sess_list = <<>>
      BY <3>1, HeadFacts DEF IInv, TypeOK
    <3>3. Remaining = 0
      BY <3>1, <3>2 DEF Remaining
    <3> QED BY <3>1, <3>2, <3>3, NoServerLeft
  <2>5. CASE Close
    <3>1. PICK w \in Open : session_free(w) /\ job' = AfterClose(w)
      BY <2>5 DEF Close
    <3>2. job = "none" /\ (job' = "over" => sess_list' = <<>>)
      BY <2>5, <3>1 DEF Close, Free, AfterClose, session_free
    <3>3. sess_list' = <<>> => serv_list' = {}
      BY DEF IInv, ServerPerWindow, Open
    <3> QED BY <3>2, <3>3
  <2>6. CASE NewServer \/ NewDialog \/ Join \/ Focus \/ Connect \/ Disconnect
             \/ LeftChannel \/ CloseDialogs \/ Exit
    <3>1. job = "none" /\ job' # "over"
      BY <2>6 DEF NewServer, NewDialog, Join, Focus, Connect, Disconnect,
                  LeftChannel, CloseDialogs, Exit, Free
    <3> QED BY <3>1
  <2> QED BY <2>1, <2>2, <2>3, <2>4, <2>5, <2>6 DEF Next, Loop
<1> QED BY <1>1, Invariant, PTL DEF Spec, LoopsShrink
=============================================================================
