--------------------------- MODULE CommandsProofs ---------------------------
(***************************************************************************)
(* Proofs about Commands, for any number of windows, children, timers and  *)
(* frames: command_level counts the commands that run, the children of     *)
(* /exec are watched as long as a window has them, their output is shown in*)
(* whole lines however it is cut into reads, timers run as often as they   *)
(* were asked to, and texts are sent whole. What carries it is how the     *)
(* stack may look (StackInv: the frames of the main loop lie at its bottom,*)
(* and only talk lies above the end of a child), who has which child and   *)
(* which timer (ChildInv, TimerInv), and what is due of the one text that  *)
(* is on its way (SayInv).                                                 *)
(***************************************************************************)
EXTENDS Commands, SequenceTheorems, FunctionTheorems, FiniteSetTheorems, WellFoundedInduction, TLAPS

-----------------------------------------------------------------------------
(* Sequences and natural numbers.                                          *)

\* The least element principle, and induction, over sets.
LEMMA NatMin ==
    ASSUME NEW T, T \subseteq Nat, T # {}
    PROVE  \E x \in T : \A y \in T : ~(y < x)
<1> DEFINE R == {ss \in Nat \X Nat : ss[1] < ss[2]}
<1>1. IsWellFoundedOn(R, Nat)
  BY NatLessThanWellFounded DEF OpToRel
<1> HIDE DEF R
<1>2. PICK x \in T : \A y \in T : <<y, x>> \notin R
  BY <1>1, WFMin
<1>3. \A y \in T : y < x => <<y, x>> \in R
  BY DEF R
<1> QED BY <1>2, <1>3

LEMMA NatInduct ==
    ASSUME NEW T, 0 \in T, \A n \in Nat : n \in T => n + 1 \in T
    PROVE  \A n \in Nat : n \in T
<1> SUFFICES ASSUME NEW n \in Nat, n \notin T PROVE FALSE
  OBVIOUS
<1> DEFINE U == Nat \ T
<1>1. PICK x \in U : \A y \in U : ~(y < x)
  <2>1. U \subseteq Nat /\ U # {}
    OBVIOUS
  <2> HIDE DEF U
  <2> QED BY <2>1, NatMin
<1>2. x \in Nat /\ x # 0 /\ x - 1 \in Nat /\ x - 1 < x
  OBVIOUS
<1>3. x - 1 \in T
  BY <1>1, <1>2
<1> QED BY <1>1, <1>2, <1>3

\* What RemoveAt makes of a sequence.
LEMMA RemoveAtProps ==
    ASSUME NEW S, NEW q \in Seq(S), NEW i \in 1..Len(q)
    PROVE  /\ RemoveAt(q, i) \in Seq(S) /\ Len(RemoveAt(q, i)) = Len(q) - 1
           /\ \A j \in 1..(i-1) : RemoveAt(q, i)[j] = q[j]
           /\ \A j \in i..(Len(q)-1) : RemoveAt(q, i)[j] = q[j+1]
<1> DEFINE a == SubSeq(q, 1, i - 1)
           b == SubSeq(q, i + 1, Len(q))
           r == a \o b
<1>1. /\ a \in Seq(S) /\ Len(a) = i - 1
      /\ b \in Seq(S) /\ Len(b) = Len(q) - i
  BY SubSeqProperties
<1>2. \A j \in 1..(i-1) : a[j] = q[j]
  OBVIOUS
<1>3. \A j \in 1..(Len(q)-i) : b[j] = q[i + j]
  OBVIOUS
<1>4. RemoveAt(q, i) = r
  BY DEF RemoveAt
<1> HIDE DEF a, b, r
<1>5. /\ r \in Seq(S) /\ Len(r) = Len(a) + Len(b)
      /\ \A j \in 1..(Len(a) + Len(b)) :
            r[j] = IF j <= Len(a) THEN a[j] ELSE b[j - Len(a)]
  <2>1. /\ a \o b \in Seq(S) /\ Len(a \o b) = Len(a) + Len(b)
        /\ \A j \in 1..(Len(a) + Len(b)) :
              (a \o b)[j] = IF j <= Len(a) THEN a[j] ELSE b[j - Len(a)]
    BY <1>1, ConcatProperties
  <2> QED BY <2>1 DEF r
<1>6. ASSUME NEW j \in 1..(i-1) PROVE r[j] = q[j]
  <2>1. j <= Len(a) /\ j \in 1..(Len(a) + Len(b))
    BY <1>1
  <2>2. r[j] = a[j]
    BY <1>5, <2>1
  <2> QED BY <1>2, <2>2
<1>7. ASSUME NEW j \in i..(Len(q)-1) PROVE r[j] = q[j+1]
  <2>1. /\ j - (i - 1) \in 1..(Len(q) - i) /\ ~(j <= Len(a))
        /\ j \in 1..(Len(a) + Len(b)) /\ i + (j - (i - 1)) = j + 1
    BY <1>1
  <2>2. r[j] = b[j - (i - 1)]
    BY <1>1, <1>5, <2>1
  <2> QED BY <1>3, <2>1, <2>2
<1>8. /\ r \in Seq(S) /\ Len(r) = Len(q) - 1
      /\ \A j \in 1..(i-1) : r[j] = q[j]
      /\ \A j \in i..(Len(q)-1) : r[j] = q[j+1]
  <2>1. Len(r) = Len(q) - 1
    BY <1>1, <1>5
  <2> QED BY <1>5, <1>6, <1>7, <2>1
<1> QED BY <1>4, <1>8


IsSeq(s) == \E S : s \in Seq(S)

\* A sequence with one element more in front.
LEMMA InFront ==
    ASSUME NEW f, NEW s, IsSeq(s)
    PROVE  /\ IsSeq(<<f>> \o s) /\ Len(s) \in Nat /\ Len(<<f>> \o s) = Len(s) + 1
           /\ <<f>> \o s # <<>> /\ Head(<<f>> \o s) = f /\ Tail(<<f>> \o s) = s
           /\ (<<f>> \o s)[1] = f
           /\ \A i \in 1..Len(s) : (<<f>> \o s)[i+1] = s[i]
<1>1. PICK S : s \in Seq(S)
  BY DEF IsSeq
<1> DEFINE T == S \cup {f}
           t == <<f>> \o s
<1>2. <<f>> \in Seq(T) /\ s \in Seq(T) /\ Len(<<f>>) = 1 /\ <<f>>[1] = f
  BY <1>1
<1> HIDE DEF T
<1>3. /\ t \in Seq(T) /\ Len(t) = 1 + Len(s)
      /\ \A i \in 1..(1 + Len(s)) : t[i] = IF i <= 1 THEN <<f>>[i] ELSE s[i - 1]
  BY <1>2, ConcatProperties
<1>4. Len(s) \in Nat
  BY <1>1
<1> HIDE DEF t
<1>5. t # <<>> /\ t[1] = f
  BY <1>2, <1>3, <1>4
<1>6. \A i \in 1..Len(s) : t[i+1] = s[i]
  BY <1>3, <1>4
<1>7. Head(t) = f
  BY <1>3, <1>5
<1>8. Tail(t) = s
  <2>1. /\ Tail(t) \in Seq(T) /\ Len(Tail(t)) = Len(s)
        /\ \A i \in 1..Len(s) : Tail(t)[i] = t[i+1]
    BY <1>3, <1>4, <1>5
  <2> QED BY <1>2, <1>6, <2>1, SeqEqual
<1>9. IsSeq(t)
  BY <1>3 DEF IsSeq
<1>10. Len(t) = Len(s) + 1
  BY <1>3, <1>4
<1>11. /\ IsSeq(t) /\ Len(s) \in Nat /\ Len(t) = Len(s) + 1
       /\ t # <<>> /\ Head(t) = f /\ Tail(t) = s
       /\ t[1] = f
       /\ \A i \in 1..Len(s) : t[i+1] = s[i]
  BY <1>4, <1>5, <1>6, <1>7, <1>8, <1>9, <1>10
<1> QED BY <1>11 DEF t

\* A sequence that is not empty is its head in front of its tail.
LEMMA HeadAndTail ==
    ASSUME NEW s, IsSeq(s), s # <<>>
    PROVE  s = <<Head(s)>> \o Tail(s) /\ IsSeq(Tail(s))
<1>1. PICK S : s \in Seq(S)
  BY DEF IsSeq
<1>2. Tail(s) \in Seq(S) /\ Head(s) \in S
  BY <1>1
<1>3. s = <<Head(s)>> \o Tail(s)
  <2>1. /\ <<Head(s)>> \in Seq(S) /\ Len(<<Head(s)>>) = 1 /\ <<Head(s)>>[1] = s[1]
    BY <1>1, <1>2
  <2>2. /\ <<Head(s)>> \o Tail(s) \in Seq(S)
        /\ Len(<<Head(s)>> \o Tail(s)) = 1 + Len(Tail(s))
        /\ \A i \in 1..(1 + Len(Tail(s))) : (<<Head(s)>> \o Tail(s))[i] =
              IF i <= 1 THEN <<Head(s)>>[i] ELSE Tail(s)[i - 1]
    BY <1>2, <2>1, ConcatProperties
  <2>3. Len(Tail(s)) = Len(s) - 1 /\ \A i \in 1..(Len(s) - 1) : Tail(s)[i] = s[i+1]
    BY <1>1
  <2>4. Len(s) \in Nat /\ Len(s) > 0
    BY <1>1
  <2> DEFINE t == <<Head(s)>> \o Tail(s)
  <2>5. t \in Seq(S) /\ Len(t) = Len(s)
    BY <2>2, <2>3, <2>4
  <2>6. ASSUME NEW i \in 1..Len(s) PROVE s[i] = t[i]
    <3>1. CASE i = 1
      BY <2>1, <2>2, <2>3, <2>4, <3>1
    <3>2. CASE i # 1
      <4>1. i - 1 \in 1..(Len(s) - 1) /\ ~(i <= 1) /\ (i - 1) + 1 = i
        BY <2>4, <3>2
      <4> QED BY <2>2, <2>3, <2>4, <4>1
    <3> QED BY <3>1, <3>2
  <2> HIDE DEF t
  <2>7. s = t
    BY <1>1, <2>5, <2>6, SeqEqual
  <2> QED BY <2>7 DEF t
<1> QED BY <1>2, <1>3 DEF IsSeq

LEMMA NoneSeq == IsSeq(<<>>) /\ Len(<<>>) = 0
<1>1. <<>> \in Seq({})
  OBVIOUS
<1> QED BY <1>1 DEF IsSeq

LEMMA SingleSeq == \A f : <<f>> = <<f>> \o <<>>
<1> TAKE f
<1>1. <<f>> \in Seq({f})
  OBVIOUS
<1> QED BY <1>1, ConcatEmptySeq
LEMMA PairSeq ==
    ASSUME NEW f, NEW g, NEW s, IsSeq(s)
    PROVE  <<f, g>> \o s = <<f>> \o (<<g>> \o s)
<1>1. PICK S : s \in Seq(S)
  BY DEF IsSeq
<1> DEFINE T == S \cup {f, g}
<1>2. <<f>> \in Seq(T) /\ <<g>> \in Seq(T) /\ s \in Seq(T) /\ <<f, g>> \in Seq(T)
  BY <1>1
<1>3. <<f, g>> = <<f>> \o <<g>>
  <2>1. /\ <<f>> \o <<g>> \in Seq(T) /\ Len(<<f>> \o <<g>>) = 2
        /\ (<<f>> \o <<g>>)[1] = f /\ (<<f>> \o <<g>>)[2] = g
    BY <1>2
  <2>2. Len(<<f, g>>) = 2 /\ <<f, g>>[1] = f /\ <<f, g>>[2] = g
    OBVIOUS
  <2>3. \A i \in 1..2 : i = 1 \/ i = 2
    OBVIOUS
  <2> QED BY <1>2, <2>1, <2>2, <2>3, SeqEqual
<1> HIDE DEF T
<1> QED BY <1>2, <1>3, ConcatAssociative

-----------------------------------------------------------------------------
(* The stack                                                               *)

Commanding == {"command", "run", "usercmds", "all", "return"}
\* The frames that the main loop enters first.
Waiting == {"timer", "eof"}
\* The frames that no plugin and no command stands on: what was read from a child is said.
Talk(f) ==
    \/ f.at \in {"say", "take", "printed", "send"}
    \/ /\ f.at = "lines" /\ "rest" \in DOMAIN f /\ IsSeq(f.rest)
       /\ \A i \in 1..Len(f.rest) : f.rest[i].op = "text"

Levels(s) == {i \in 1..Len(s) : s[i].at \in Commanding}
Marks(s) == {s[i] : i \in {i \in 1..Len(s) : s[i].at \in Waiting}}
Frames(s) == IsSeq(s) /\ \A i \in 1..Len(s) : "at" \in DOMAIN s[i]
\* Below a frame of the main loop there is none.
Bottom(s) == \A i \in 1..Len(s) : s[i].at \in Waiting => i = Len(s)
\* Above the end of a child's output there is only talk.
Quiet(s) ==
    (\E m \in Marks(s) : m.at = "eof") => \A i \in 1..Len(s) : s[i].at \in Waiting \/ Talk(s[i])

LEMMA PushLevels ==
    ASSUME NEW f, NEW s, IsSeq(s)
    PROVE  /\ IsFiniteSet(Levels(s)) /\ Cardinality(Levels(s)) \in Nat
           /\ Cardinality(Levels(<<f>> \o s)) =
                 Cardinality(Levels(s)) + (IF f.at \in Commanding THEN 1 ELSE 0)
<1> DEFINE t == <<f>> \o s
           up == {i + 1 : i \in Levels(s)}
<1>1. /\ Len(s) \in Nat /\ Len(t) = Len(s) + 1 /\ t[1] = f
      /\ \A i \in 1..Len(s) : t[i+1] = s[i]
  BY InFront
<1>2. IsFiniteSet(Levels(s)) /\ Cardinality(Levels(s)) \in Nat
  <2>1. IsFiniteSet(1..Len(s)) /\ Levels(s) \subseteq 1..Len(s)
    BY <1>1, FS_Interval DEF Levels
  <2> QED BY <2>1, FS_Subset, FS_CardinalityType
<1>3. IsFiniteSet(up) /\ Cardinality(up) = Cardinality(Levels(s))
  <2> DEFINE g == [i \in Levels(s) |-> i + 1]
  <2>1. Levels(s) \subseteq Int
    BY <1>1 DEF Levels
  <2>2. g \in Bijection(Levels(s), up)
    <3>1. g \in [Levels(s) -> up]
      OBVIOUS
    <3>2. \A a, b \in Levels(s) : g[a] = g[b] => a = b
      BY <2>1
    <3>3. \A u \in up : \E a \in Levels(s) : g[a] = u
      OBVIOUS
    <3> HIDE DEF g, up
    <3> QED BY <3>1, <3>2, <3>3, Fun_IsBij
  <2> HIDE DEF g, up
  <2>3. ExistsBijection(Levels(s), up)
    BY <2>2 DEF ExistsBijection
  <2> QED BY <1>2, <2>3, FS_Bijection
<1>4. Levels(t) = IF f.at \in Commanding THEN up \cup {1} ELSE up
  <2>1. \A i \in 1..Len(t) : i = 1 \/ (i - 1 \in 1..Len(s) /\ i = (i - 1) + 1 /\ t[i] = s[i-1])
    BY <1>1
  <2>2. \A i \in Levels(s) : i \in 1..Len(s) /\ i + 1 \in 1..Len(t) /\ t[i+1].at = s[i].at
    BY <1>1 DEF Levels
  <2>3. 1 \in 1..Len(t)
    BY <1>1
  <2> HIDE DEF t
  <2>4. ASSUME NEW i \in Levels(t) PROVE i \in up \/ (i = 1 /\ f.at \in Commanding)
    <3>1. i \in 1..Len(t) /\ t[i].at \in Commanding
      BY DEF Levels
    <3>2. CASE i = 1
      BY <1>1, <3>1, <3>2
    <3>3. CASE i - 1 \in 1..Len(s) /\ i = (i - 1) + 1 /\ t[i] = s[i-1]
      BY <3>1, <3>3 DEF Levels
    <3> QED BY <2>1, <3>1, <3>2, <3>3
  <2>5. \A i \in up : i \in Levels(t)
    BY <2>2 DEF Levels
  <2>6. f.at \in Commanding => 1 \in Levels(t)
    BY <1>1, <2>3 DEF Levels
  <2> QED BY <2>4, <2>5, <2>6
<1>5. 1 \notin up
  BY <1>1 DEF Levels
<1> HIDE DEF t, up
<1>6. Cardinality(Levels(t)) = Cardinality(Levels(s)) + (IF f.at \in Commanding THEN 1 ELSE 0)
  <2>1. CASE f.at \in Commanding
    <3>1. Cardinality(up \cup {1}) = Cardinality(up) + 1
      BY <1>3, <1>5, FS_AddElement
    <3> QED BY <1>3, <1>4, <2>1, <3>1
  <2>2. CASE f.at \notin Commanding
    BY <1>2, <1>3, <1>4, <2>2
  <2> QED BY <2>1, <2>2
<1> QED BY <1>2, <1>6 DEF t

LEMMA PushMarks ==
    ASSUME NEW f, NEW s, IsSeq(s)
    PROVE  Marks(<<f>> \o s) = IF f.at \in Waiting THEN Marks(s) \cup {f} ELSE Marks(s)
<1> DEFINE t == <<f>> \o s
<1>1. /\ Len(s) \in Nat /\ Len(t) = Len(s) + 1 /\ t[1] = f
      /\ \A i \in 1..Len(s) : t[i+1] = s[i]
  BY InFront
<1>2. \A i \in 1..Len(t) : i = 1 \/ (i - 1 \in 1..Len(s) /\ t[i] = s[i-1])
  BY <1>1
<1>3. \A i \in 1..Len(s) : i + 1 \in 1..Len(t)
  BY <1>1
<1>4. 1 \in 1..Len(t)
  BY <1>1
<1> HIDE DEF t
<1>5. \A m \in Marks(t) : m \in Marks(s) \/ (m = f /\ f.at \in Waiting)
  BY <1>1, <1>2 DEF Marks
<1>6. \A m \in Marks(s) : m \in Marks(t)
  BY <1>1, <1>3 DEF Marks
<1>7. f.at \in Waiting => f \in Marks(t)
  BY <1>1, <1>4 DEF Marks
<1> QED BY <1>5, <1>6, <1>7 DEF t

LEMMA PushFrame ==
    ASSUME NEW f, NEW s, Frames(s), "at" \in DOMAIN f
    PROVE  Frames(<<f>> \o s)
<1>1. /\ IsSeq(<<f>> \o s) /\ Len(s) \in Nat /\ Len(<<f>> \o s) = Len(s) + 1 /\ (<<f>> \o s)[1] = f
      /\ \A i \in 1..Len(s) : (<<f>> \o s)[i+1] = s[i]
  BY InFront DEF Frames
<1>2. \A i \in 1..Len(<<f>> \o s) : i = 1 \/ (i - 1 \in 1..Len(s) /\ (<<f>> \o s)[i] = s[i-1])
  BY <1>1
<1> QED BY <1>1, <1>2 DEF Frames

LEMMA PushBottom ==
    ASSUME NEW f, NEW s, IsSeq(s)
    PROVE  Bottom(<<f>> \o s) <=> (Bottom(s) /\ (f.at \in Waiting => s = <<>>))
<1> DEFINE t == <<f>> \o s
<1>1. /\ Len(s) \in Nat /\ Len(t) = Len(s) + 1 /\ t[1] = f
      /\ \A i \in 1..Len(s) : t[i+1] = s[i]
  BY InFront
<1>2. \A i \in 1..Len(t) : i = 1 \/ (i - 1 \in 1..Len(s) /\ t[i] = s[i-1] /\ (i - 1 = Len(s) => i = Len(t)))
  BY <1>1
<1>3. \A i \in 1..Len(s) : i + 1 \in 1..Len(t) /\ (i + 1 = Len(t) => i = Len(s))
  BY <1>1
<1>4. 1 \in 1..Len(t) /\ (1 = Len(t) <=> Len(s) = 0)
  BY <1>1
<1>5. Len(s) = 0 <=> s = <<>>
  BY DEF IsSeq
<1> HIDE DEF t
<1>6. Bottom(t) => Bottom(s)
  BY <1>1, <1>3 DEF Bottom
<1>7. Bottom(t) => (f.at \in Waiting => s = <<>>)
  BY <1>1, <1>4, <1>5 DEF Bottom
<1>8. Bottom(s) /\ (f.at \in Waiting => s = <<>>) => Bottom(t)
  BY <1>1, <1>2, <1>4, <1>5 DEF Bottom
<1> QED BY <1>6, <1>7, <1>8 DEF t

LEMMA PushQuiet ==
    ASSUME NEW f, NEW s, IsSeq(s)
    PROVE  /\ Quiet(s) /\ Talk(f) => Quiet(<<f>> \o s)
           /\ Quiet(s) /\ (\A m \in Marks(s) : m.at # "eof") /\ f.at # "eof" => Quiet(<<f>> \o s)
           /\ Quiet(<<f>> \o s) => Quiet(s)
           /\ Quiet(<<f>> \o s) /\ (\E m \in Marks(s) : m.at = "eof") => f.at \in Waiting \/ Talk(f)
<1> DEFINE t == <<f>> \o s
<1>1. /\ Len(s) \in Nat /\ Len(t) = Len(s) + 1 /\ t[1] = f
      /\ \A i \in 1..Len(s) : t[i+1] = s[i]
  BY InFront
<1>2. \A i \in 1..Len(t) : i = 1 \/ (i - 1 \in 1..Len(s) /\ t[i] = s[i-1])
  BY <1>1
<1>3. \A i \in 1..Len(s) : i + 1 \in 1..Len(t)
  BY <1>1
<1>4. 1 \in 1..Len(t)
  BY <1>1
<1>5. Marks(t) = IF f.at \in Waiting THEN Marks(s) \cup {f} ELSE Marks(s)
  BY PushMarks
<1>6. Talk(f) => f.at \notin Waiting
  BY DEF Talk, Waiting
<1> HIDE DEF t
<1>7. Quiet(s) /\ Talk(f) => Quiet(t)
  BY <1>1, <1>2, <1>5, <1>6 DEF Quiet
<1>8. Quiet(s) /\ (\A m \in Marks(s) : m.at # "eof") /\ f.at # "eof" => Quiet(t)
  BY <1>5 DEF Quiet
<1>9. Quiet(t) => Quiet(s)
  BY <1>1, <1>3, <1>5 DEF Quiet
<1>10. Quiet(t) /\ (\E m \in Marks(s) : m.at = "eof") => f.at \in Waiting \/ Talk(f)
  BY <1>1, <1>4, <1>5 DEF Quiet
<1> QED BY <1>7, <1>8, <1>9, <1>10 DEF t

\* What a step of the running function does to the stack.
Moves ==
    \/ stack' = stack /\ command_level' = command_level
    \/ Top.at \in Commanding /\ stack' = Below /\ command_level' = command_level - 1
    \/ Top.at \notin Commanding /\ stack' = Below /\ command_level' = command_level
    \/ /\ Top.at \in Commanding /\ Below # <<>> /\ Head(Below).at = "lines"
       /\ stack' = Tail(Below) /\ command_level' = command_level - 1
    \/ \E g :
         /\ "at" \in DOMAIN g /\ g.at \notin Waiting /\ Top.at \notin Waiting
         /\ g.at \in Commanding <=> Top.at \in Commanding
         /\ Talk(Top) => Talk(g)
         /\ \/ stack' = <<g>> \o Below /\ command_level' = command_level
            \/ \E f : /\ "at" \in DOMAIN f /\ f.at \notin Commanding /\ Talk(f)
                      /\ stack' = <<f>> \o (<<g>> \o Below) /\ command_level' = command_level
            \/ \E f : /\ "at" \in DOMAIN f /\ f.at \in Commanding /\ ~Talk(Top) /\ ~(command_level > Limit)
                      /\ stack' = <<f>> \o (<<g>> \o Below) /\ command_level' = command_level + 1

StackInv ==
    /\ Frames(stack) /\ Bottom(stack) /\ Quiet(stack)
    /\ command_level = Cardinality(Levels(stack)) /\ command_level <= Limit + 1

LEMMA Disjoint ==
    /\ \A f : f.at \in Waiting => f.at \notin Commanding
    /\ \A f : Talk(f) => f.at \notin Waiting /\ f.at \notin Commanding
    /\ \A f : f.at = "lines" => f.at \notin Waiting /\ f.at \notin Commanding
BY DEF Waiting, Commanding, Talk

LEMMA TopAndBelow ==
    ASSUME Frames(stack), stack # <<>>
    PROVE  /\ stack = <<Top>> \o Below /\ Frames(Below) /\ IsSeq(Below) /\ IsSeq(stack)
           /\ "at" \in DOMAIN Top
<1>1. stack = <<Top>> \o Below /\ IsSeq(Below) /\ IsSeq(stack)
  BY HeadAndTail DEF Frames, Top, Below
<1>2. /\ Len(Below) \in Nat /\ Len(stack) = Len(Below) + 1 /\ stack[1] = Top
      /\ \A i \in 1..Len(Below) : stack[i+1] = Below[i]
  BY <1>1, InFront
<1>3. 1 \in 1..Len(stack) /\ \A i \in 1..Len(Below) : i + 1 \in 1..Len(stack)
  BY <1>2
<1>4. "at" \in DOMAIN Top /\ \A i \in 1..Len(Below) : "at" \in DOMAIN Below[i]
  BY <1>2, <1>3 DEF Frames
<1> QED BY <1>1, <1>4 DEF Frames

\* The steps of the stack keep its invariant, and the frame of the main loop under it.
LEMMA MovesKeep ==
    ASSUME StackInv, stack # <<>>, Moves, Limit \in Nat
    PROVE  /\ StackInv'
           /\ Top.at \notin Waiting => Marks(stack)' = Marks(stack)
           /\ Top.at \in Waiting => Below = <<>>
<1>1. /\ stack = <<Top>> \o Below /\ Frames(Below) /\ IsSeq(Below) /\ IsSeq(stack)
      /\ "at" \in DOMAIN Top
  BY TopAndBelow DEF StackInv
<1>2. /\ Cardinality(Levels(Below)) \in Nat
      /\ command_level = Cardinality(Levels(Below)) + (IF Top.at \in Commanding THEN 1 ELSE 0)
      /\ command_level <= Limit + 1
  BY <1>1, PushLevels DEF StackInv
<1>3. Marks(stack) = IF Top.at \in Waiting THEN Marks(Below) \cup {Top} ELSE Marks(Below)
  BY <1>1, PushMarks
<1>4. Bottom(Below) /\ (Top.at \in Waiting => Below = <<>>)
  BY <1>1, PushBottom DEF StackInv
<1>5. Quiet(Below) /\ ((\E m \in Marks(Below) : m.at = "eof") => Top.at \in Waiting \/ Talk(Top))
  BY <1>1, PushQuiet DEF StackInv
<1> SUFFICES /\ Frames(stack') /\ Bottom(stack') /\ Quiet(stack')
             /\ command_level' = Cardinality(Levels(stack')) /\ command_level' <= Limit + 1
             /\ Top.at \notin Waiting => Marks(stack') = Marks(Below)
  BY <1>3, <1>4 DEF StackInv, Frames, Bottom, Quiet, Levels, Marks, Talk, IsSeq
<1>6. CASE stack' = stack /\ command_level' = command_level
  BY <1>3, <1>6 DEF StackInv
<1>7. CASE Top.at \in Commanding /\ stack' = Below /\ command_level' = command_level - 1
  BY <1>1, <1>2, <1>4, <1>5, <1>7
<1>8. CASE Top.at \notin Commanding /\ stack' = Below /\ command_level' = command_level
  BY <1>1, <1>2, <1>4, <1>5, <1>8
<1>9. CASE /\ Top.at \in Commanding /\ Below # <<>> /\ Head(Below).at = "lines"
           /\ stack' = Tail(Below) /\ command_level' = command_level - 1
  <2> DEFINE h == Head(Below)
             s == Tail(Below)
  <2>1. Below = <<h>> \o s /\ IsSeq(s) /\ h.at \notin Waiting /\ h.at \notin Commanding
    BY <1>1, <1>9, HeadAndTail, Disjoint
  <2>2. /\ Len(s) \in Nat /\ Len(Below) = Len(s) + 1
        /\ \A i \in 1..Len(s) : Below[i+1] = s[i] /\ i + 1 \in 1..Len(Below)
    <3> HIDE DEF h, s
    <3>1. /\ Len(s) \in Nat /\ Len(Below) = Len(s) + 1
          /\ \A i \in 1..Len(s) : Below[i+1] = s[i]
      BY <2>1, InFront
    <3> QED BY <3>1
  <2> HIDE DEF h, s
  <2>3. Frames(s)
    BY <1>1, <2>1, <2>2 DEF Frames
  <2>4. Bottom(s) /\ Quiet(s) /\ Marks(s) = Marks(Below)
    BY <1>4, <1>5, <2>1, PushBottom, PushQuiet, PushMarks
  <2>5. /\ Cardinality(Levels(s)) \in Nat
        /\ Cardinality(Levels(Below)) = Cardinality(Levels(s))
    BY <2>1, PushLevels
  <2> QED BY <1>2, <1>9, <2>3, <2>4, <2>5 DEF s
<1>10. ASSUME NEW g, "at" \in DOMAIN g, g.at \notin Waiting, Top.at \notin Waiting,
              g.at \in Commanding <=> Top.at \in Commanding,
              Talk(Top) => Talk(g),
              \/ stack' = <<g>> \o Below /\ command_level' = command_level
              \/ \E f : /\ "at" \in DOMAIN f /\ f.at \notin Commanding /\ Talk(f)
                        /\ stack' = <<f>> \o (<<g>> \o Below) /\ command_level' = command_level
              \/ \E f : /\ "at" \in DOMAIN f /\ f.at \in Commanding /\ ~Talk(Top) /\ ~(command_level > Limit)
                        /\ stack' = <<f>> \o (<<g>> \o Below) /\ command_level' = command_level + 1
       PROVE  /\ Frames(stack') /\ Bottom(stack') /\ Quiet(stack')
              /\ command_level' = Cardinality(Levels(stack')) /\ command_level' <= Limit + 1
              /\ Top.at \notin Waiting => Marks(stack') = Marks(Below)
  <2> DEFINE s == <<g>> \o Below
  <2>1. Frames(s) /\ IsSeq(s)
    BY <1>1, <1>10, PushFrame DEF Frames
  <2>2. Bottom(s) /\ Marks(s) = Marks(Below)
    BY <1>1, <1>4, <1>10, PushBottom, PushMarks
  <2>3. /\ Cardinality(Levels(s)) = command_level
        /\ command_level \in Nat
    BY <1>1, <1>2, <1>10, PushLevels
  <2>4. g.at # "eof"
    BY <1>10 DEF Waiting
  <2>5. Quiet(s)
    <3>1. CASE \E m \in Marks(Below) : m.at = "eof"
      BY <1>1, <1>5, <1>10, <3>1, PushQuiet
    <3>2. CASE \A m \in Marks(Below) : m.at # "eof"
      BY <1>1, <1>5, <2>4, <3>2, PushQuiet
    <3> QED BY <3>1, <3>2
  <2>6. CASE stack' = s /\ command_level' = command_level
    BY <1>2, <2>1, <2>2, <2>3, <2>5, <2>6
  <2>7. ASSUME NEW f, "at" \in DOMAIN f, f.at \notin Commanding, Talk(f),
               stack' = <<f>> \o s, command_level' = command_level
        PROVE  /\ Frames(stack') /\ Bottom(stack') /\ Quiet(stack')
               /\ command_level' = Cardinality(Levels(stack')) /\ command_level' <= Limit + 1
               /\ Marks(stack') = Marks(Below)
    <3> HIDE DEF s
    <3>1. f.at \notin Waiting
      BY <2>7, Disjoint
    <3>2. Frames(stack') /\ Bottom(stack') /\ Quiet(stack') /\ Marks(stack') = Marks(Below)
      BY <2>1, <2>2, <2>5, <2>7, <3>1, PushFrame, PushBottom, PushQuiet, PushMarks
    <3>3. Cardinality(Levels(stack')) = Cardinality(Levels(s))
      BY <2>1, <2>3, <2>7, PushLevels
    <3> QED BY <1>2, <2>3, <2>7, <3>2, <3>3
  <2>8. ASSUME NEW f, "at" \in DOMAIN f, f.at \in Commanding, ~Talk(Top), ~(command_level > Limit),
               stack' = <<f>> \o s, command_level' = command_level + 1
        PROVE  /\ Frames(stack') /\ Bottom(stack') /\ Quiet(stack')
               /\ command_level' = Cardinality(Levels(stack')) /\ command_level' <= Limit + 1
               /\ Marks(stack') = Marks(Below)
    <3> HIDE DEF s
    <3>1. f.at \notin Waiting /\ f.at # "eof"
      BY <2>8 DEF Waiting, Commanding
    <3>2. Frames(stack') /\ Bottom(stack') /\ Marks(stack') = Marks(Below)
      BY <2>1, <2>2, <2>8, <3>1, PushFrame, PushBottom, PushMarks
    <3>3. \A m \in Marks(s) : m.at # "eof"
      BY <1>5, <1>10, <2>2, <2>8
    <3>4. Quiet(stack')
      BY <2>1, <2>5, <2>8, <3>1, <3>3, PushQuiet
    <3>5. Cardinality(Levels(stack')) = Cardinality(Levels(s)) + 1
      BY <2>1, <2>8, PushLevels
    <3> QED BY <2>3, <2>8, <3>2, <3>4, <3>5
  <2> HIDE DEF s
  <2> QED BY <1>10, <2>6, <2>7, <2>8 DEF s
<1> QED BY <1>6, <1>7, <1>8, <1>9, <1>10 DEF Moves

-----------------------------------------------------------------------------
(* What each step does to the stack                                        *)

\* The running function goes on: with nothing more, with a text, or with a command.
LEMMA MovesOn ==
    ASSUME NEW g, "at" \in DOMAIN g, g.at \notin Waiting, Top.at \notin Waiting,
           g.at \in Commanding <=> Top.at \in Commanding, Talk(Top) => Talk(g),
           \/ Goto(<<g>> \o Below)
           \/ \E f : /\ "at" \in DOMAIN f /\ f.at \notin Commanding /\ Talk(f)
                     /\ Goto(<<f>> \o (<<g>> \o Below))
           \/ \E tab, cmd : ~Talk(Top) /\ Enter(tab, cmd, <<g>> \o Below)
    PROVE  Moves
<1>1. CASE Goto(<<g>> \o Below)
  BY <1>1 DEF Goto, Moves
<1>2. CASE \E f : /\ "at" \in DOMAIN f /\ f.at \notin Commanding /\ Talk(f)
                  /\ Goto(<<f>> \o (<<g>> \o Below))
  BY <1>2 DEF Goto, Moves
<1>3. ASSUME NEW tab, NEW cmd, ~Talk(Top), Enter(tab, cmd, <<g>> \o Below)
      PROVE  Moves
  <2>1. CASE command_level > Limit
    BY <1>3, <2>1 DEF Enter, Moves
  <2>2. CASE ~(command_level > Limit)
    <3> DEFINE f == [at |-> "command", tab |-> tab, cmd |-> cmd]
    <3>1. stack' = <<f>> \o (<<g>> \o Below) /\ command_level' = command_level + 1
      BY <1>3, <2>2 DEF Enter
    <3>2. "at" \in DOMAIN f /\ f.at \in Commanding
      BY DEF Commanding
    <3> HIDE DEF f
    <3> QED BY <1>3, <2>2, <3>1, <3>2 DEF Moves
  <2> QED BY <2>1, <2>2
<1> QED BY <1>1, <1>2, <1>3

LEMMA TalkGoesOn ==
    ASSUME Talk(Top), Top.at = "lines", Top.rest # <<>>, "at" \in DOMAIN Top
    PROVE  Talk([Top EXCEPT !.rest = Tail(@)]) /\ Head(Top.rest).op = "text"
<1> DEFINE g == [Top EXCEPT !.rest = Tail(@)]
           r == Top.rest
           s == Tail(r)
<1>1. "rest" \in DOMAIN Top /\ IsSeq(r) /\ \A i \in 1..Len(r) : r[i].op = "text"
  BY DEF Talk
<1>2. r = <<Head(r)>> \o s /\ IsSeq(s)
  BY <1>1, HeadAndTail
<1>3. g.at = "lines" /\ "rest" \in DOMAIN g /\ g.rest = s
  BY <1>1
<1> HIDE DEF r, s
<1>4. /\ Len(s) \in Nat /\ Len(r) = Len(s) + 1 /\ r[1] = Head(r)
      /\ \A i \in 1..Len(s) : r[i+1] = s[i]
  BY <1>2, InFront
<1>5. 1 \in 1..Len(r) /\ \A i \in 1..Len(s) : i + 1 \in 1..Len(r)
  BY <1>4
<1>6. Head(r).op = "text" /\ \A i \in 1..Len(s) : s[i].op = "text"
  BY <1>1, <1>4, <1>5
<1> HIDE DEF g
<1>7. Talk(g)
  BY <1>2, <1>3, <1>6 DEF Talk
<1> QED BY <1>6, <1>7 DEF g, r

LEMMA plugin_emit_Moves ==
    ASSUME Frames(stack), stack # <<>>, plugin_emit
    PROVE  Moves
<1> DEFINE next == CASE Top.at = "command" -> "run" [] Top.at = "say" -> "take" [] Top.at = "printed" -> "send"
           g == [Top EXCEPT !.at = CASE @ = "command" -> "run" [] @ = "say" -> "take" [] @ = "printed" -> "send"]
<1>1. "at" \in DOMAIN Top /\ Top.at \in {"command", "say", "printed"}
  BY TopAndBelow DEF plugin_emit
<1>2. "at" \in DOMAIN g /\ g.at = next
  BY <1>1
<1>3. /\ g.at \notin Waiting /\ Top.at \notin Waiting /\ (g.at \in Commanding <=> Top.at \in Commanding)
      /\ Talk(Top) => Talk(g)
  <2> HIDE DEF g
  <2>1. Top.at = "command" => g.at = "run"
    BY <1>1, <1>2
  <2>2. Top.at = "say" => g.at = "take"
    BY <1>1, <1>2
  <2>3. Top.at = "printed" => g.at = "send"
    BY <1>1, <1>2
  <2> QED BY <1>1, <2>1, <2>2, <2>3 DEF Waiting, Commanding, Talk
<1>4. \/ Crash("say")
      \/ Goto(<<g>> \o Below)
      \/ Top.at = "command" /\ Leave
      \/ Top.at = "say" /\ Return
  BY <1>1 DEF plugin_emit
<1>5. CASE Crash("say")
  BY <1>5 DEF Crash, Moves
<1>6. CASE Goto(<<g>> \o Below)
  <2> HIDE DEF g
  <2> QED BY <1>2, <1>3, <1>6, MovesOn
<1>7. CASE Top.at = "command" /\ Leave
  BY <1>7 DEF Leave, Moves, Commanding
<1>8. CASE Top.at = "say" /\ Return
  BY <1>8 DEF Return, Moves, Commanding
<1> QED BY <1>4, <1>5, <1>6, <1>7, <1>8

LEMMA handle_multiline_Moves ==
    ASSUME Frames(stack), stack # <<>>, handle_multiline
    PROVE  Moves
<1> DEFINE g == [Top EXCEPT !.rest = Tail(@)]
           f == [at |-> "say", tab |-> Top.tab, text |-> Head(Top.rest).text, first |-> TRUE]
<1>1. "at" \in DOMAIN Top /\ Top.at = "lines" /\ IsSeq(Below)
  BY TopAndBelow DEF handle_multiline
<1>2. "at" \in DOMAIN g /\ g.at = "lines"
  BY <1>1
<1>3. "at" \in DOMAIN f /\ f.at \notin Commanding /\ Talk(f)
  BY DEF Commanding, Talk
<1>4. \/ Top.rest = <<>> /\ Return
      \/ Crash("lines")
      \/ Top.rest # <<>> /\ Head(Top.rest).op = "text" /\ Goto(<<f>> \o (<<g>> \o Below))
      \/ Top.rest # <<>> /\ Head(Top.rest).op # "text" /\ Enter(Top.tab, Head(Top.rest), <<g>> \o Below)
  BY DEF handle_multiline
<1>5. Top.rest # <<>> /\ Talk(Top) => Talk(g) /\ Head(Top.rest).op = "text"
  BY <1>1, TalkGoesOn
<1>6. g.at \notin Waiting /\ Top.at \notin Waiting /\ (g.at \in Commanding <=> Top.at \in Commanding)
  BY <1>1, <1>2, Disjoint
<1> HIDE DEF g, f
<1>7. CASE Top.rest = <<>> /\ Return
  BY <1>1, <1>7 DEF Return, Moves, Commanding
<1>8. CASE Crash("lines")
  BY <1>8 DEF Crash, Moves
<1>9. CASE Top.rest # <<>> /\ Head(Top.rest).op = "text" /\ Goto(<<f>> \o (<<g>> \o Below))
  BY <1>2, <1>3, <1>5, <1>6, <1>9, MovesOn
<1>10. CASE Top.rest # <<>> /\ Head(Top.rest).op # "text" /\ Enter(Top.tab, Head(Top.rest), <<g>> \o Below)
  BY <1>2, <1>5, <1>6, <1>10, MovesOn
<1> QED BY <1>4, <1>7, <1>8, <1>9, <1>10

LEMMA handle_say_Moves ==
    ASSUME Frames(stack), stack # <<>>, handle_say \/ p_message
    PROVE  Moves
<1>1. "at" \in DOMAIN Top /\ IsSeq(Below)
  BY TopAndBelow
<1>2. CASE handle_say
  <2> DEFINE g == [Top EXCEPT !.at = "printed"]
  <2>1. Top.at = "take" /\ (Return \/ Goto(<<g>> \o Below))
    BY <1>2 DEF handle_say
  <2>2. /\ "at" \in DOMAIN g /\ g.at \notin Waiting /\ Top.at \notin Waiting
        /\ (g.at \in Commanding <=> Top.at \in Commanding) /\ (Talk(Top) => Talk(g))
    BY <1>1, <2>1 DEF Waiting, Commanding, Talk
  <2>3. CASE Return
    BY <2>1, <2>3 DEF Return, Moves, Commanding
  <2>4. CASE Goto(<<g>> \o Below)
    <3> HIDE DEF g
    <3> QED BY <2>2, <2>4, MovesOn
  <2> QED BY <2>1, <2>3, <2>4
<1>3. CASE p_message
  <2> DEFINE g == [at |-> "say", tab |-> Top.tab, text |-> Rest(Top.text), first |-> FALSE]
  <2>1. Top.at = "send" /\ (Crash("message") \/ Return \/ Goto(<<g>> \o Below))
    BY <1>3 DEF p_message
  <2>2. /\ "at" \in DOMAIN g /\ g.at \notin Waiting /\ Top.at \notin Waiting
        /\ (g.at \in Commanding <=> Top.at \in Commanding) /\ (Talk(Top) => Talk(g))
    BY <2>1 DEF Waiting, Commanding, Talk
  <2>3. CASE Return
    BY <2>1, <2>3 DEF Return, Moves, Commanding
  <2>4. CASE Goto(<<g>> \o Below)
    <3> HIDE DEF g
    <3> QED BY <2>2, <2>4, MovesOn
  <2>5. CASE Crash("message")
    BY <2>5 DEF Crash, Moves
  <2> QED BY <2>1, <2>3, <2>4, <2>5
<1> QED BY <1>2, <1>3

LEMMA handle_command_Moves ==
    ASSUME Frames(stack), stack # <<>>, handle_command
    PROVE  Moves
<1> DEFINE t == Top.tab
           u == [at |-> "usercmds", tab |-> Top.tab, cmd |-> Top.cmd, i |-> 1]
           a == [at |-> "all", tab |-> Head(sess_list), body |-> Top.cmd.body, called |-> FALSE]
           f == [at |-> "say", tab |-> t, text |-> Top.cmd.text, first |-> TRUE]
           r == [at |-> "return"]
<1>1. "at" \in DOMAIN Top /\ IsSeq(Below) /\ Top.at = "run"
  BY TopAndBelow DEF handle_command
<1>2. /\ Top.at \in Commanding /\ Top.at \notin Waiting /\ ~Talk(Top)
      /\ "at" \in DOMAIN u /\ u.at \in Commanding /\ u.at \notin Waiting
      /\ "at" \in DOMAIN a /\ a.at \in Commanding /\ a.at \notin Waiting
      /\ "at" \in DOMAIN r /\ r.at \in Commanding /\ r.at \notin Waiting
      /\ "at" \in DOMAIN f /\ f.at \notin Commanding /\ Talk(f)
  BY <1>1 DEF Commanding, Waiting, Talk
<1>3. \/ Leave
      \/ Goto(<<u>> \o Below)
      \/ Goto(<<f, r>> \o Below)
      \/ Goto(<<a>> \o Below)
      \/ /\ stack' = IF Below # <<>> /\ Head(Below).at = "lines" THEN Tail(Below) ELSE Below
         /\ command_level' = command_level - 1
  BY DEF handle_command, Internal
<1> HIDE DEF u, a, f, r
<1>4. <<f, r>> \o Below = <<f>> \o (<<r>> \o Below)
  BY <1>1, PairSeq
<1>5. CASE Leave
  BY <1>2, <1>5 DEF Leave, Moves
<1>6. CASE Goto(<<u>> \o Below)
  BY <1>2, <1>6, MovesOn
<1>7. CASE Goto(<<f, r>> \o Below)
  BY <1>2, <1>4, <1>7, MovesOn
<1>8. CASE Goto(<<a>> \o Below)
  BY <1>2, <1>8, MovesOn
<1>9. CASE /\ stack' = IF Below # <<>> /\ Head(Below).at = "lines" THEN Tail(Below) ELSE Below
           /\ command_level' = command_level - 1
  BY <1>2, <1>9 DEF Moves
<1> QED BY <1>3, <1>5, <1>6, <1>7, <1>8, <1>9

LEMMA user_command_Moves ==
    ASSUME Frames(stack), stack # <<>>, user_command
    PROVE  Moves
<1> DEFINE j == Min(Named(Top.cmd, Top.i))
           g == [Top EXCEPT !.i = j + 1]
<1>1. "at" \in DOMAIN Top /\ IsSeq(Below) /\ Top.at = "usercmds"
  BY TopAndBelow DEF user_command
<1>2. "at" \in DOMAIN g /\ g.at = "usercmds"
  BY <1>1
<1>3. \/ Leave
      \/ Crash("usercmds")
      \/ Goto(<<g>> \o Below)
      \/ Enter(Top.tab, CommandList[j].body, <<g>> \o Below)
  BY DEF user_command
<1> HIDE DEF g, j
<1>4. /\ g.at \notin Waiting /\ Top.at \notin Waiting /\ ~Talk(Top)
      /\ g.at \in Commanding /\ Top.at \in Commanding
  BY <1>1, <1>2 DEF Waiting, Commanding, Talk
<1>5. CASE Leave
  BY <1>4, <1>5 DEF Leave, Moves
<1>6. CASE Crash("usercmds")
  BY <1>6 DEF Crash, Moves
<1>7. CASE Goto(<<g>> \o Below)
  BY <1>2, <1>4, <1>7, MovesOn
<1>8. CASE Enter(Top.tab, CommandList[j].body, <<g>> \o Below)
  BY <1>2, <1>4, <1>8, MovesOn
<1> QED BY <1>3, <1>5, <1>6, <1>7, <1>8

LEMMA cmd_allchannels_Moves ==
    ASSUME Frames(stack), stack # <<>>, cmd_allchannels
    PROVE  Moves
<1> DEFINE i == Position(Top.tab)
           g == [Top EXCEPT !.called = TRUE]
           h == [Top EXCEPT !.tab = sess_list[i + 1], !.called = FALSE]
<1>1. "at" \in DOMAIN Top /\ IsSeq(Below) /\ Top.at = "all"
  BY TopAndBelow DEF cmd_allchannels
<1>2. /\ "at" \in DOMAIN g /\ g.at = "all"
      /\ "at" \in DOMAIN h /\ h.at = "all"
  BY <1>1
<1>3. \/ Enter(Top.tab, Top.body, <<g>> \o Below)
      \/ Goto(<<g>> \o Below)
      \/ Crash("all")
      \/ Leave
      \/ Goto(<<h>> \o Below)
  BY DEF cmd_allchannels
<1> HIDE DEF g, h
<1>4. /\ g.at \notin Waiting /\ h.at \notin Waiting /\ Top.at \notin Waiting /\ ~Talk(Top)
      /\ g.at \in Commanding /\ h.at \in Commanding /\ Top.at \in Commanding
  BY <1>1, <1>2 DEF Waiting, Commanding, Talk
<1>5. CASE Leave
  BY <1>4, <1>5 DEF Leave, Moves
<1>6. CASE Crash("all")
  BY <1>6 DEF Crash, Moves
<1>7. CASE Goto(<<g>> \o Below)
  BY <1>2, <1>4, <1>7, MovesOn
<1>8. CASE Enter(Top.tab, Top.body, <<g>> \o Below)
  BY <1>2, <1>4, <1>8, MovesOn
<1>9. CASE Goto(<<h>> \o Below)
  BY <1>2, <1>4, <1>9, MovesOn
<1> QED BY <1>3, <1>5, <1>6, <1>7, <1>8, <1>9

\* Every step of the running function is one of those moves.
LEMMA StepMoves ==
    ASSUME StackInv, Step
    PROVE  Moves /\ stack # <<>>
<1>1. Frames(stack) /\ stack # <<>>
  BY DEF StackInv, Step, Running
<1>2. CASE Done
  BY <1>1, <1>2 DEF Done, Leave, Moves, Commanding
<1>3. CASE exec_done
  BY <1>1, <1>3 DEF exec_done, Crash, Return, Moves, Commanding
<1>4. CASE timer_done
  BY <1>1, <1>4 DEF timer_done, Crash, Return, Moves, Commanding
<1> QED BY <1>1, <1>2, <1>3, <1>4, plugin_emit_Moves, handle_multiline_Moves, handle_say_Moves,
           handle_command_Moves, user_command_Moves, cmd_allchannels_Moves DEF Step

-----------------------------------------------------------------------------
(* What a child writes, cut into lines                                     *)

\* g is the table from which Split(text) is read.
Table(text, g) ==
    g = [i \in 0..Len(text) |->
            IF i = 0 THEN [lines |-> <<>>, open |-> <<>>]
            ELSE IF text[i] = Newline THEN [lines |-> Ended(g[i-1]), open |-> <<>>]
            ELSE [lines |-> g[i-1].lines, open |-> Append(g[i-1].open, text[i])]]

\* A recursive definition on the positions of a text has a solution.
LEMMA TableExists ==
    ASSUME NEW text, Len(text) \in Nat
    PROVE  \E g : Table(text, g)
<1> DEFINE Upto(n, g) ==
              g = [i \in 0..n |-> IF i = 0 THEN [lines |-> <<>>, open |-> <<>>]
                    ELSE IF text[i] = Newline THEN [lines |-> Ended(g[i-1]), open |-> <<>>]
                    ELSE [lines |-> g[i-1].lines, open |-> Append(g[i-1].open, text[i])]]
           T == {n \in Nat : \E g : Upto(n, g)}
<1>1. 0 \in T
  <2>1. Upto(0, [i \in 0..0 |-> [lines |-> <<>>, open |-> <<>>]])
    OBVIOUS
  <2> QED BY <2>1
<1>2. ASSUME NEW n \in Nat, n \in T PROVE n + 1 \in T
  <2>1. PICK g : Upto(n, g)
    BY <1>2
  <2> DEFINE h == [i \in 0..(n+1) |->
                     IF i <= n THEN g[i]
                     ELSE IF text[i] = Newline THEN [lines |-> Ended(g[i-1]), open |-> <<>>]
                     ELSE [lines |-> g[i-1].lines, open |-> Append(g[i-1].open, text[i])]]
  <2>2. \A i \in 0..n :
          g[i] = IF i = 0 THEN [lines |-> <<>>, open |-> <<>>]
                 ELSE IF text[i] = Newline THEN [lines |-> Ended(g[i-1]), open |-> <<>>]
                 ELSE [lines |-> g[i-1].lines, open |-> Append(g[i-1].open, text[i])]
    BY <2>1
  <2>3. ASSUME NEW i \in 0..(n+1)
        PROVE  h[i] = IF i = 0 THEN [lines |-> <<>>, open |-> <<>>]
                      ELSE IF text[i] = Newline THEN [lines |-> Ended(h[i-1]), open |-> <<>>]
                      ELSE [lines |-> h[i-1].lines, open |-> Append(h[i-1].open, text[i])]
    <3>1. i # 0 => i - 1 \in 0..(n+1) /\ i - 1 <= n /\ h[i-1] = g[i-1]
      OBVIOUS
    <3>2. CASE i <= n
      <4>1. h[i] = g[i] /\ i \in 0..n
        BY <3>2
      <4> HIDE DEF h
      <4> QED BY <2>2, <3>1, <4>1
    <3>3. CASE ~(i <= n)
      <4>1. h[i] = IF text[i] = Newline THEN [lines |-> Ended(g[i-1]), open |-> <<>>]
                   ELSE [lines |-> g[i-1].lines, open |-> Append(g[i-1].open, text[i])]
        BY <3>3
      <4>2. i # 0
        BY <3>3
      <4> HIDE DEF h
      <4> QED BY <3>1, <4>1, <4>2
    <3> QED BY <3>2, <3>3
  <2>4. Upto(n+1, h)
    <3>1. h = [i \in 0..(n+1) |-> h[i]]
      OBVIOUS
    <3> HIDE DEF h
    <3> QED BY <2>3, <3>1
  <2>5. \E f : Upto(n+1, f)
    <3> HIDE DEF h, Upto
    <3> QED BY <2>4
  <2> HIDE DEF Upto
  <2> QED BY <2>5
<1> HIDE DEF T
<1>3. Len(text) \in T
  BY <1>1, <1>2, NatInduct
<1> QED BY <1>3 DEF T, Table

\* g computes Split(text) step by step.
Computes(text, g) ==
    /\ g[0] = [lines |-> <<>>, open |-> <<>>]
    /\ \A i \in 1..Len(text) :
          g[i] = IF text[i] = Newline THEN [lines |-> Ended(g[i-1]), open |-> <<>>]
                 ELSE [lines |-> g[i-1].lines, open |-> Append(g[i-1].open, text[i])]

LEMMA SplitTable ==
    ASSUME NEW text, Len(text) \in Nat
    PROVE  \E g : Split(text) = g[Len(text)] /\ Computes(text, g)
<1> DEFINE g == CHOOSE g : Table(text, g)
<1>1. Table(text, g)
  BY TableExists
<1>2. Split(text) = g[Len(text)]
  BY DEF Split, Table
<1> HIDE DEF g
<1>3. \A i \in 0..Len(text) :
        g[i] = IF i = 0 THEN [lines |-> <<>>, open |-> <<>>]
               ELSE IF text[i] = Newline THEN [lines |-> Ended(g[i-1]), open |-> <<>>]
               ELSE [lines |-> g[i-1].lines, open |-> Append(g[i-1].open, text[i])]
  BY <1>1 DEF Table
<1>4. g[0] = [lines |-> <<>>, open |-> <<>>]
  <2>1. 0 \in 0..Len(text)
    OBVIOUS
  <2> QED BY <1>3, <2>1
<1>5. ASSUME NEW i \in 1..Len(text)
      PROVE g[i] = IF text[i] = Newline THEN [lines |-> Ended(g[i-1]), open |-> <<>>]
                   ELSE [lines |-> g[i-1].lines, open |-> Append(g[i-1].open, text[i])]
  <2>1. i \in 0..Len(text) /\ i # 0
    OBVIOUS
  <2> QED BY <1>3, <2>1
<1> QED BY <1>2, <1>4, <1>5 DEF Computes

LEMMA SplitEmpty == Split(<<>>) = [lines |-> <<>>, open |-> <<>>]
<1>1. Len(<<>>) = 0 /\ Len(<<>>) \in Nat
  OBVIOUS
<1>2. PICK g : Split(<<>>) = g[Len(<<>>)] /\ Computes(<<>>, g)
  BY <1>1, SplitTable
<1> QED BY <1>1, <1>2 DEF Computes

\* Two texts that begin alike are split alike as far as they do.
LEMMA SameBeginning ==
    ASSUME NEW a, NEW b, NEW g, NEW h, NEW m \in Nat,
           Len(a) \in Nat, Len(b) \in Nat, m <= Len(a), m <= Len(b),
           \A i \in 1..m : a[i] = b[i], Computes(a, g), Computes(b, h)
    PROVE  g[m] = h[m]
<1> DEFINE T == {n \in Nat : n <= m => g[n] = h[n]}
<1>1. 0 \in T
  BY DEF Computes
<1>2. ASSUME NEW n \in Nat, n \in T PROVE n + 1 \in T
  <2>1. SUFFICES ASSUME n + 1 <= m PROVE g[n+1] = h[n+1]
    OBVIOUS
  <2>2. /\ n + 1 \in 1..m /\ n + 1 \in 1..Len(a) /\ n + 1 \in 1..Len(b)
        /\ (n + 1) - 1 = n /\ g[n] = h[n]
    BY <1>2, <2>1
  <2> HIDE DEF T
  <2>3. /\ g[n+1] = IF a[n+1] = Newline THEN [lines |-> Ended(g[n]), open |-> <<>>]
                    ELSE [lines |-> g[n].lines, open |-> Append(g[n].open, a[n+1])]
        /\ h[n+1] = IF b[n+1] = Newline THEN [lines |-> Ended(h[n]), open |-> <<>>]
                    ELSE [lines |-> h[n].lines, open |-> Append(h[n].open, b[n+1])]
    BY <2>2 DEF Computes
  <2> QED BY <2>2, <2>3
<1> HIDE DEF T
<1>3. m \in T
  BY <1>1, <1>2, NatInduct
<1> QED BY <1>3 DEF T

\* One character more.
LEMMA SplitNext ==
    ASSUME NEW S, NEW text \in Seq(S), NEW c \in S
    PROVE  Split(Append(text, c)) =
              IF c = Newline THEN [lines |-> Ended(Split(text)), open |-> <<>>]
              ELSE [lines |-> Split(text).lines, open |-> Append(Split(text).open, c)]
<1> DEFINE b == Append(text, c)
           n == Len(text)
<1>1. /\ n \in Nat /\ Len(b) = n + 1 /\ Len(b) \in Nat /\ b[n+1] = c
      /\ \A i \in 1..n : text[i] = b[i]
  OBVIOUS
<1>2. PICK g : Split(text) = g[n] /\ Computes(text, g)
  BY <1>1, SplitTable
<1> HIDE DEF b
<1>3. PICK h : Split(b) = h[Len(b)] /\ Computes(b, h)
  BY <1>1, SplitTable
<1>4. n + 1 \in 1..Len(b) /\ n <= Len(b) /\ n <= n /\ (n + 1) - 1 = n
  BY <1>1
<1> HIDE DEF n
<1>5. g[n] = h[n]
  BY <1>1, <1>2, <1>3, <1>4, SameBeginning DEF n
<1>6. h[n+1] = IF b[n+1] = Newline THEN [lines |-> Ended(h[n]), open |-> <<>>]
               ELSE [lines |-> h[n].lines, open |-> Append(h[n].open, b[n+1])]
  BY <1>3, <1>4 DEF Computes
<1> QED BY <1>1, <1>2, <1>3, <1>5, <1>6 DEF b

\* A text is empty, or has a last character.
LEMMA LastOne ==
    ASSUME NEW S, NEW text \in Seq(S), NEW n \in Nat, Len(text) = n + 1
    PROVE  \E a \in Seq(S), c \in S : text = Append(a, c) /\ Len(a) = n
<1> DEFINE a == SubSeq(text, 1, n)
           c == text[n+1]
<1>1. n + 1 \in 1..Len(text) /\ 1 \in 1..(Len(text)+1) /\ n \in 0..Len(text)
  OBVIOUS
<1>2. a \in Seq(S) /\ Len(a) = n /\ c \in S /\ \A i \in 1..n : a[i] = text[i]
  BY <1>1, SubSeqProperties
<1> HIDE DEF a, c
<1>3. Append(a, c) \in Seq(S) /\ Len(Append(a, c)) = n + 1
  BY <1>2
<1>4. ASSUME NEW i \in 1..(n+1) PROVE Append(a, c)[i] = text[i]
  <2>1. CASE i = n + 1
    BY <1>2, <2>1 DEF c
  <2>2. CASE i # n + 1
    BY <1>2, <2>2
  <2> QED BY <2>1, <2>2
<1>5. text = Append(a, c)
  BY <1>3, <1>4, SeqEqual
<1> QED BY <1>2, <1>5

LEMMA SplitType ==
    ASSUME NEW S, NEW text \in Seq(S)
    PROVE  /\ Split(text) = [lines |-> Split(text).lines, open |-> Split(text).open]
           /\ Split(text).lines \in Seq(Seq(S)) /\ Split(text).open \in Seq(S)
           /\ \A i \in 1..Len(Split(text).open) : Split(text).open[i] # Newline
<1> DEFINE P(s) == /\ s = [lines |-> s.lines, open |-> s.open]
                   /\ s.lines \in Seq(Seq(S)) /\ s.open \in Seq(S)
                   /\ \A i \in 1..Len(s.open) : s.open[i] # Newline
           T == {n \in Nat : \A t \in Seq(S) : Len(t) = n => P(Split(t))}
<1>1. 0 \in T
  <2>1. \A t \in Seq(S) : Len(t) = 0 => t = <<>>
    OBVIOUS
  <2>2. P([lines |-> <<>>, open |-> <<>>])
    OBVIOUS
  <2> HIDE DEF P
  <2> QED BY <2>1, <2>2, SplitEmpty
<1>2. ASSUME NEW n \in Nat, n \in T PROVE n + 1 \in T
  <2>1. SUFFICES ASSUME NEW t \in Seq(S), Len(t) = n + 1 PROVE P(Split(t))
    OBVIOUS
  <2>2. PICK a \in Seq(S), c \in S : t = Append(a, c) /\ Len(a) = n
    BY <2>1, LastOne
  <2> DEFINE s == Split(a)
  <2>3. P(s)
    BY <1>2, <2>2
  <2>4. Split(t) = IF c = Newline THEN [lines |-> Ended(s), open |-> <<>>]
                   ELSE [lines |-> s.lines, open |-> Append(s.open, c)]
    BY <2>2, SplitNext
  <2> HIDE DEF s
  <2>5. CASE c = Newline
    <3>1. Ended(s) \in Seq(Seq(S))
      BY <2>3 DEF Ended
    <3> QED BY <2>4, <2>5, <3>1
  <2>6. CASE c # Newline
    <3> DEFINE o == Append(s.open, c)
    <3>1. o \in Seq(S) /\ Len(o) = Len(s.open) + 1 /\ Len(s.open) \in Nat
      BY <2>3
    <3>2. \A i \in 1..Len(o) : o[i] # Newline
      BY <2>3, <2>6
    <3> HIDE DEF o
    <3>3. Split(t) = [lines |-> s.lines, open |-> o]
      BY <2>4, <2>6 DEF o
    <3> QED BY <2>3, <3>1, <3>2, <3>3
  <2> QED BY <2>5, <2>6
<1> HIDE DEF T
<1>3. Len(text) \in T
  BY <1>1, <1>2, NatInduct
<1> QED BY <1>3 DEF T

\* A text without an end of line is a line that is open.
LEMMA SplitPlain ==
    ASSUME NEW S, NEW text \in Seq(S), \A i \in 1..Len(text) : text[i] # Newline
    PROVE  Split(text) = [lines |-> <<>>, open |-> text]
<1> DEFINE Plain(t) == \A i \in 1..Len(t) : t[i] # Newline
           T == {n \in Nat : \A t \in Seq(S) : Len(t) = n /\ Plain(t) => Split(t) = [lines |-> <<>>, open |-> t]}
<1>1. 0 \in T
  <2>1. \A t \in Seq(S) : Len(t) = 0 => t = <<>>
    OBVIOUS
  <2> QED BY <2>1, SplitEmpty
<1>2. ASSUME NEW n \in Nat, n \in T PROVE n + 1 \in T
  <2>1. SUFFICES ASSUME NEW t \in Seq(S), Len(t) = n + 1, Plain(t)
                 PROVE  Split(t) = [lines |-> <<>>, open |-> t]
    OBVIOUS
  <2>2. PICK a \in Seq(S), c \in S : t = Append(a, c) /\ Len(a) = n
    BY <2>1, LastOne
  <2>3. n + 1 \in 1..Len(t) /\ t[n+1] = c /\ \A i \in 1..n : i \in 1..Len(t) /\ t[i] = a[i]
    BY <2>1, <2>2
  <2>4. Plain(a) /\ c # Newline
    BY <2>1, <2>2, <2>3
  <2>5. Split(a) = [lines |-> <<>>, open |-> a]
    BY <1>2, <2>2, <2>4
  <2> QED BY <2>2, <2>4, <2>5, SplitNext
<1> HIDE DEF T
<1>3. Len(text) \in T
  BY <1>1, <1>2, NatInduct
<1> QED BY <1>3 DEF T

LEMMA ConcatAppend ==
    ASSUME NEW S, NEW a \in Seq(S), NEW u \in Seq(S), NEW c \in S
    PROVE  a \o Append(u, c) = Append(a \o u, c) /\ a \o u \in Seq(S)
<1>1. <<c>> \in Seq(S) /\ a \o u \in Seq(S)
  OBVIOUS
<1>2. Append(u, c) = u \o <<c>> /\ Append(a \o u, c) = (a \o u) \o <<c>>
  BY <1>1, AppendIsConcat
<1>3. (a \o u) \o <<c>> = a \o (u \o <<c>>)
  BY <1>1, ConcatAssociative
<1> QED BY <1>1, <1>2, <1>3

\* What is read later goes on where the text before it was left open.
LEMMA SplitOn ==
    ASSUME NEW S, NEW a \in Seq(S), NEW b \in Seq(S)
    PROVE  /\ Split(a \o b).lines = Split(a).lines \o Split(Split(a).open \o b).lines
           /\ Split(a \o b).open = Split(Split(a).open \o b).open
<1> DEFINE La == Split(a).lines
           Oa == Split(a).open
           P(t) == /\ Split(a \o t).lines = La \o Split(Oa \o t).lines
                   /\ Split(a \o t).open = Split(Oa \o t).open
           T == {n \in Nat : \A t \in Seq(S) : Len(t) = n => P(t)}
<1>0. /\ La \in Seq(Seq(S)) /\ Oa \in Seq(S)
      /\ \A i \in 1..Len(Oa) : Oa[i] # Newline
  BY SplitType
<1> HIDE DEF La, Oa
<1>1. 0 \in T
  <2>1. \A t \in Seq(S) : Len(t) = 0 => t = <<>>
    OBVIOUS
  <2>2. a \o <<>> = a /\ Oa \o <<>> = Oa /\ La \o <<>> = La
    BY <1>0
  <2>3. Split(Oa) = [lines |-> <<>>, open |-> Oa]
    BY <1>0, SplitPlain
  <2>4. P(<<>>)
    <3>1. Split(a \o <<>>).lines = La /\ Split(a \o <<>>).open = Oa
      BY <2>2 DEF La, Oa
    <3>2. Split(Oa \o <<>>).lines = <<>> /\ Split(Oa \o <<>>).open = Oa
      BY <2>2, <2>3
    <3> QED BY <2>2, <3>1, <3>2
  <2> QED BY <2>1, <2>4
<1>2. ASSUME NEW n \in Nat, n \in T PROVE n + 1 \in T
  <2>1. SUFFICES ASSUME NEW t \in Seq(S), Len(t) = n + 1 PROVE P(t)
    OBVIOUS
  <2>2. PICK u \in Seq(S), c \in S : t = Append(u, c) /\ Len(u) = n
    BY <2>1, LastOne
  <2>3. P(u)
    BY <1>2, <2>2
  <2>4. /\ a \o t = Append(a \o u, c) /\ a \o u \in Seq(S)
        /\ Oa \o t = Append(Oa \o u, c) /\ Oa \o u \in Seq(S)
    <3> HIDE DEF P
    <3>1. a \o Append(u, c) = Append(a \o u, c) /\ a \o u \in Seq(S)
      BY ConcatAppend
    <3>2. Oa \o Append(u, c) = Append(Oa \o u, c) /\ Oa \o u \in Seq(S)
      BY <1>0, ConcatAppend
    <3> QED BY <2>2, <3>1, <3>2
  <2> DEFINE s == Split(a \o u)
             r == Split(Oa \o u)
  <2>5. /\ Split(a \o t) = IF c = Newline THEN [lines |-> Ended(s), open |-> <<>>]
                           ELSE [lines |-> s.lines, open |-> Append(s.open, c)]
        /\ Split(Oa \o t) = IF c = Newline THEN [lines |-> Ended(r), open |-> <<>>]
                            ELSE [lines |-> r.lines, open |-> Append(r.open, c)]
    BY <2>4, SplitNext
  <2>6. s.lines = La \o r.lines /\ s.open = r.open
    BY <2>3
  <2>7. r.lines \in Seq(Seq(S)) /\ r.open \in Seq(S)
    BY <2>4, SplitType
  <2> HIDE DEF s, r
  <2>8. Ended(s) = La \o Ended(r)
    <3>1. La \o Append(r.lines, r.open) = Append(La \o r.lines, r.open)
      <4> DEFINE L == r.lines
                 o == r.open
                 U == Seq(S)
      <4>1. La \in Seq(U) /\ L \in Seq(U) /\ o \in U
        BY <1>0, <2>7
      <4> HIDE DEF L, o, U, P
      <4>2. La \o Append(L, o) = Append(La \o L, o)
        BY <4>1, ConcatAppend
      <4> QED BY <4>2 DEF L, o
    <3> QED BY <2>6, <3>1 DEF Ended
  <2>9. /\ Split(a \o t).lines = La \o Split(Oa \o t).lines
        /\ Split(a \o t).open = Split(Oa \o t).open
    BY <2>5, <2>6, <2>8
  <2> QED BY <2>9
<1> HIDE DEF T
<1>3. Len(b) \in T
  BY <1>1, <1>2, NatInduct
<1> QED BY <1>3 DEF T, La, Oa

\* A bounded set of numbers has a greatest.
LEMMA Greatest ==
    ASSUME NEW n \in Nat, NEW T, T \subseteq 0..n, T # {}
    PROVE  Max(T) \in T /\ \A y \in T : Max(T) >= y
<1> DEFINE U == {n - x : x \in T}
<1>1. U \subseteq Nat /\ U # {}
  <2>1. \A x \in T : n - x \in Nat
    OBVIOUS
  <2>2. PICK x \in T : TRUE
    OBVIOUS
  <2>3. n - x \in U
    OBVIOUS
  <2> QED BY <2>1, <2>3
<1> HIDE DEF U
<1>2. PICK u \in U : \A y \in U : ~(y < u)
  BY <1>1, NatMin
<1>3. PICK x \in T : u = n - x
  BY DEF U
<1>4. \A y \in T : n - y \in U
  BY DEF U
<1>5. \A y \in T : x >= y
  <2> TAKE y \in T
  <2>1. ~(n - y < n - x) /\ x \in 0..n /\ y \in 0..n
    BY <1>2, <1>3, <1>4
  <2> QED BY <2>1
<1> QED BY <1>5 DEF Max

\* Up to its last end of a line, a text is lines; after it there is what is open.
LEMMA SplitComplete ==
    ASSUME NEW S, NEW buf \in Seq(S)
    PROVE  /\ Complete(buf) \in Seq(S)
           /\ LinesOf(Complete(buf)) = Split(buf).lines
           /\ SubSeq(buf, Len(Complete(buf)) + 1, Len(buf)) = Split(buf).open
<1> DEFINE T == {0} \union {i \in DOMAIN buf : buf[i] = Newline}
           k == Max(T)
           n == Len(buf)
           C == SubSeq(buf, 1, k)
           R == SubSeq(buf, k + 1, n)
<1>1. n \in Nat /\ T \subseteq 0..n /\ T # {} /\ DOMAIN buf = 1..n
  OBVIOUS
<1>2. k \in T /\ \A y \in T : k >= y
  <2> HIDE DEF T
  <2> QED BY <1>1, Greatest
<1>3. k \in 0..n /\ (k = 0 \/ (k \in 1..n /\ buf[k] = Newline))
  BY <1>1, <1>2
<1>4. \A i \in 1..n : i > k => buf[i] # Newline
  <2> TAKE i \in 1..n
  <2>1. SUFFICES ASSUME i > k, buf[i] = Newline PROVE FALSE
    OBVIOUS
  <2>2. i \in T
    BY <1>1, <2>1
  <2> HIDE DEF T, k
  <2> QED BY <1>2, <1>3, <2>1, <2>2
<1>5. Complete(buf) = C
  BY DEF Complete
<1> HIDE DEF T, k
<1>6. /\ C \in Seq(S) /\ Len(C) = k /\ \A i \in 1..k : C[i] = buf[i]
      /\ R \in Seq(S) /\ Len(R) = n - k /\ \A i \in 1..(n - k) : R[i] = buf[k + i]
  <2>1. /\ C \in Seq(S) /\ Len(C) = k /\ \A i \in 1..k : C[i] = buf[i]
    BY <1>1, <1>3
  <2>2. R \in Seq(S) /\ Len(R) = n - k /\ \A i \in 1..(n - k) : R[i] = buf[k + i]
    <3> DEFINE m == k + 1
    <3>1. /\ m \in 1..(n+1) /\ n \in (m-1)..Len(buf) /\ n - m + 1 = n - k
          /\ \A i \in 1..(n - k) : m + i - 1 = k + i
      BY <1>1, <1>3
    <3>2. m <= n \/ n - k = 0
      <4>1. k \in 0..n
        BY <1>3
      <4> HIDE DEF n
      <4> QED BY <1>1, <4>1
    <3>3. m \in 1..Len(buf)+1
      BY <3>1
    <3> HIDE DEF m
    <3>4. /\ SubSeq(buf, m, n) \in Seq(S)
          /\ Len(SubSeq(buf, m, n)) = IF m <= n THEN n - m + 1 ELSE 0
          /\ \A i \in 1 .. n-m+1 : SubSeq(buf, m, n)[i] = buf[m+i-1]
      BY <3>1, <3>3, SubSeqProperties
    <3>5. ~(m <= n) => n - k = 0
      BY <3>2
    <3> QED BY <1>1, <1>3, <3>1, <3>4, <3>5 DEF m
  <2> QED BY <2>1, <2>2
<1>7. buf = C \o R
  <2>1. 1 \in 1..(k+1) /\ k \in 1-1..n /\ n \in k..Len(buf)
    BY <1>1, <1>3
  <2> DEFINE D == C \o R
  <2>2. /\ D \in Seq(S) /\ Len(D) = n
        /\ \A i \in 1..n : D[i] = IF i <= k THEN C[i] ELSE R[i - k]
    <3> HIDE DEF C, R, n
    <3>1. /\ D \in Seq(S) /\ Len(D) = Len(C) + Len(R)
          /\ \A i \in 1..(Len(C) + Len(R)) : D[i] = IF i <= Len(C) THEN C[i] ELSE R[i - Len(C)]
      BY <1>6, ConcatProperties
    <3>2. Len(C) + Len(R) = n /\ Len(C) = k
      BY <1>1, <1>3, <1>6
    <3> HIDE DEF D
    <3> QED BY <3>1, <3>2
  <2>3. \A i \in 1..n : D[i] = buf[i]
    <3> TAKE i \in 1..n
    <3>1. D[i] = IF i <= k THEN C[i] ELSE R[i - k]
      <4> HIDE DEF D, C, R
      <4> QED BY <2>2
    <3>2. CASE i <= k
      <4>1. i \in 1..k
        BY <1>3, <3>2
      <4> HIDE DEF D, C, R
      <4> QED BY <1>6, <3>1, <3>2, <4>1
    <3>3. CASE ~(i <= k)
      <4>1. i - k \in 1..(n - k) /\ k + (i - k) = i
        BY <1>1, <1>3, <3>3
      <4> HIDE DEF D, C, R
      <4> QED BY <1>6, <3>1, <3>3, <4>1
    <3> QED BY <3>2, <3>3
  <2> HIDE DEF D, C, R
  <2> QED BY <2>2, <2>3, SeqEqual DEF D, n
<1> HIDE DEF C, R
<1>8. \A i \in 1..Len(R) : R[i] # Newline
  <2> TAKE i \in 1..Len(R)
  <2>1. k + i \in 1..n /\ k + i > k /\ R[i] = buf[k + i]
    BY <1>1, <1>3, <1>6
  <2> QED BY <1>4, <2>1
<1>9. Split(C).open = <<>>
  <2>1. CASE k = 0
    <3>1. C = <<>>
      BY <1>6, <2>1
    <3> QED BY <3>1, SplitEmpty
  <2>2. CASE k # 0
    <3>1. k - 1 \in Nat /\ Len(C) = (k - 1) + 1 /\ C[k] = Newline
      BY <1>3, <1>6, <2>2
    <3>2. PICK a \in Seq(S), c \in S : C = Append(a, c) /\ Len(a) = k - 1
      BY <1>6, <3>1, LastOne
    <3>3. c = Newline
      BY <1>3, <3>1, <3>2
    <3> QED BY <3>2, <3>3, SplitNext
  <2> QED BY <2>1, <2>2
<1>10. Split(R).lines = <<>> /\ Split(R).open = R
  BY <1>6, <1>8, SplitPlain
<1>11. <<>> \o R = R
  BY <1>6, ConcatEmptySeq
<1>12. /\ Split(buf).lines = Split(C).lines \o Split(R).lines
       /\ Split(buf).open = Split(R).open
  <2>1. /\ Split(C \o R).lines = Split(C).lines \o Split(Split(C).open \o R).lines
        /\ Split(C \o R).open = Split(Split(C).open \o R).open
    BY <1>6, SplitOn
  <2> QED BY <1>7, <1>9, <1>11, <2>1
<1>13. Split(C).lines \in Seq(Seq(S))
  BY <1>6, SplitType
<1>14. Split(buf).lines = Split(C).lines
  BY <1>10, <1>12, <1>13, ConcatEmptySeq
<1>15. LinesOf(C) = Split(C).lines
  BY <1>9 DEF LinesOf, Ended
<1>16. SubSeq(buf, Len(C) + 1, Len(buf)) = R
  BY <1>6 DEF R, n
<1> QED BY <1>5, <1>6, <1>10, <1>12, <1>14, <1>15, <1>16

\* What exec_data makes of a read: its lines, and what it keeps of the next.
LEMMA ReadMore ==
    ASSUME NEW S, NEW read \in Seq(S), NEW more \in Seq(S)
    PROVE  /\ LinesOf(Complete(Split(read).open \o more)) \in Seq(Seq(S))
           /\ Split(read \o more).lines = Split(read).lines \o LinesOf(Complete(Split(read).open \o more))
           /\ Split(read \o more).open = SubSeq(Split(read).open \o more,
                                                Len(Complete(Split(read).open \o more)) + 1,
                                                Len(Split(read).open \o more))
<1> DEFINE buf == Split(read).open \o more
<1>1. Split(read).open \in Seq(S)
  BY SplitType
<1>2. buf \in Seq(S)
  BY <1>1, ConcatProperties
<1>3. Split(read \o more).lines = Split(read).lines \o Split(buf).lines /\ Split(read \o more).open = Split(buf).open
  BY SplitOn
<1> HIDE DEF buf
<1>4. /\ LinesOf(Complete(buf)) = Split(buf).lines
      /\ SubSeq(buf, Len(Complete(buf)) + 1, Len(buf)) = Split(buf).open
  BY <1>2, SplitComplete
<1>5. Split(buf).lines \in Seq(Seq(S))
  BY <1>2, SplitType
<1>6. /\ LinesOf(Complete(buf)) \in Seq(Seq(S))
      /\ Split(read \o more).lines = Split(read).lines \o LinesOf(Complete(buf))
      /\ Split(read \o more).open = SubSeq(buf, Len(Complete(buf)) + 1, Len(buf))
  BY <1>3, <1>4, <1>5
<1> QED BY <1>6 DEF buf

\* What it makes of the end: the line that was never ended.
LEMMA ReadEnd ==
    ASSUME NEW S, NEW read \in Seq(S)
    PROVE  /\ LinesOf(Split(read).open) \in Seq(Seq(S))
           /\ LinesOf(read) = Split(read).lines \o LinesOf(Split(read).open)
<1> DEFINE L == Split(read).lines
           o == Split(read).open
           U == Seq(S)
<1>1. L \in Seq(U) /\ o \in U /\ \A i \in 1..Len(o) : o[i] # Newline
  BY SplitType
<1>2. LinesOf(read) = IF o = <<>> THEN L ELSE Append(L, o)
  BY DEF LinesOf, Ended
<1> HIDE DEF L, o
<1>3. Split(o) = [lines |-> <<>>, open |-> o]
  BY <1>1, SplitPlain
<1>4. LinesOf(o) = IF o = <<>> THEN <<>> ELSE <<o>>
  BY <1>3 DEF LinesOf, Ended
<1> HIDE DEF U
<1>5. LinesOf(o) \in Seq(U)
  BY <1>1, <1>4
<1>6. LinesOf(read) = L \o LinesOf(o)
  BY <1>1, <1>2, <1>4, ConcatEmptySeq, AppendIsConcat
<1> QED BY <1>5, <1>6 DEF L, o, U

LEMMA PrefixConcat ==
    ASSUME NEW U, NEW a \in Seq(U), NEW b \in Seq(U)
    PROVE  IsPrefix(a, a \o b)
<1>1. /\ a \o b \in Seq(U) /\ Len(a \o b) = Len(a) + Len(b)
      /\ \A i \in 1..Len(a) : (a \o b)[i] = a[i]
  BY ConcatProperties
<1> DEFINE c == a \o b
<1>2. Len(a) \in Nat /\ Len(a) <= Len(c) /\ c \in Seq(U)
  BY <1>1
<1>3. /\ SubSeq(a, 1, Len(a)) \in Seq(U) /\ Len(SubSeq(a, 1, Len(a))) = Len(a)
      /\ \A i \in 1..Len(a) : SubSeq(a, 1, Len(a))[i] = a[i]
  OBVIOUS
<1> HIDE DEF c
<1>4. /\ SubSeq(c, 1, Len(a)) \in Seq(U) /\ Len(SubSeq(c, 1, Len(a))) = Len(a)
      /\ \A i \in 1..Len(a) : SubSeq(c, 1, Len(a))[i] = c[i]
  BY <1>2
<1>5. \A i \in 1..Len(a) : c[i] = a[i]
  BY <1>1 DEF c
<1>6. SubSeq(a, 1, Len(a)) = SubSeq(c, 1, Len(a))
  BY <1>3, <1>4, <1>5, SeqEqual
<1> QED BY <1>2, <1>6 DEF IsPrefix, c

\* The lines that were read begin those that were written.
LEMMA ReadIsPrefix ==
    ASSUME NEW S, NEW read \in Seq(S), NEW rest \in Seq(S)
    PROVE  IsPrefix(Split(read).lines, LinesOf(read \o rest))
<1> DEFINE L == Split(read).lines
           o == Split(read).open
           M == Split(o \o rest).lines
           p == Split(o \o rest).open
           U == Seq(S)
<1>1. L \in Seq(U) /\ o \in U
  BY SplitType
<1>2. o \o rest \in Seq(S)
  BY <1>1
<1>3. M \in Seq(U) /\ p \in U
  <2> HIDE DEF o
  <2> QED BY <1>2, SplitType
<1>4. Split(read \o rest).lines = L \o M /\ Split(read \o rest).open = p
  BY SplitOn
<1> HIDE DEF L, o, M, p, U
<1>5. LinesOf(read \o rest) = IF p = <<>> THEN L \o M ELSE Append(L \o M, p)
  BY <1>4 DEF LinesOf, Ended
<1>6. CASE p = <<>>
  BY <1>1, <1>3, <1>5, <1>6, PrefixConcat DEF L
<1>7. CASE p # <<>>
  <2>1. Append(L \o M, p) = L \o Append(M, p) /\ Append(M, p) \in Seq(U)
    <3>1. L \o Append(M, p) = Append(L \o M, p)
      BY <1>1, <1>3, ConcatAppend
    <3>2. Append(M, p) \in Seq(U)
      BY <1>3
    <3> QED BY <3>1, <3>2
  <2> QED BY <1>1, <1>5, <1>7, <2>1, PrefixConcat DEF L
<1> QED BY <1>6, <1>7

-----------------------------------------------------------------------------
(* The children of /exec                                                   *)

Chars == ToSet(Output)
ChildRec == [alive : BOOLEAN, stopped : BOOLEAN, watched : BOOLEAN, out : Seq(Chars), pipe : Seq(Chars),
             wrote : Seq(Chars), shown : Seq(Seq(Chars)), eof : BOOLEAN]

\* What was shown of a child's output is the beginning of its lines.
Whole(c) ==
    /\ IsPrefix(c.shown, LinesOf(c.wrote))
    /\ c.eof = TRUE => c.shown = LinesOf(c.wrote)
\* It is the lines of what was read, and the rest of that is kept in linebuf.
Reading(c, linebuf) ==
    \E read \in Seq(Chars) :
       c.wrote = read \o c.pipe /\ c.shown = Split(read).lines /\ linebuf = Split(read).open

\* The windows and their children, and the suspended ends of their output.
Owners(open, ex, ch) ==
    /\ ex = [t \in ToSet(Tabs) |-> ex[t]] /\ open \subseteq ToSet(Tabs) /\ ch \in Seq(ChildRec)
    /\ \A t \in ToSet(Tabs) :
          /\ "pid" \in DOMAIN ex[t] /\ "linebuf" \in DOMAIN ex[t]
          /\ ex[t].pid \in 0..Len(ch) /\ ex[t].linebuf \in Seq(Chars)
          /\ ex[t].pid = 0 <=> ex[t] = NoChild
          /\ ex[t].pid # 0 => t \in open /\ ch[ex[t].pid].watched = TRUE
    /\ \A t, u \in ToSet(Tabs) : ex[t].pid = ex[u].pid /\ ex[t].pid # 0 => t = u
Owned(open, ex, ch, ends) ==
    \A p \in 1..Len(ch) :
       /\ ch[p].watched = TRUE => \E t \in open : ex[t].pid = p
       /\ ch[p].alive = TRUE => ch[p].watched = TRUE
       /\ ch[p].eof = TRUE /\ ch[p].watched = TRUE => \E m \in ends : m.pid = p
Ending(ex, ch, ends) ==
    \A m \in ends :
       /\ m.pid \in 1..Len(ch) /\ ch[m.pid].alive = FALSE
       /\ m.tab \in ToSet(Tabs) => ex[m.tab].pid \in {0, m.pid}
Lines(ex, ch) ==
    /\ \A p \in 1..Len(ch) : Whole(ch[p])
    /\ \A t \in ToSet(Tabs) :
          ex[t].pid # 0 /\ ch[ex[t].pid].eof = FALSE => Reading(ch[ex[t].pid], ex[t].linebuf)
Children(open, ex, ch, ends) ==
    Owners(open, ex, ch) /\ Owned(open, ex, ch, ends) /\ Ending(ex, ch, ends) /\ Lines(ex, ch)

\* ch2 is ch with the child p replaced by c.
Replaced(ch, p, c, ch2) ==
    /\ ch2 \in Seq(ChildRec) /\ Len(ch2) = Len(ch) /\ ch2[p] = c
    /\ \A q \in 1..Len(ch) : q # p => ch2[q] = ch[q]

LEMMA ReplaceChild ==
    ASSUME NEW ch \in Seq(ChildRec), NEW p \in 1..Len(ch), NEW c \in ChildRec
    PROVE  Replaced(ch, p, c, [ch EXCEPT ![p] = c])
BY DEF Replaced

\* A window lets go of a child that is dead, or dies with it.
LEMMA DropChild ==
    ASSUME NEW open, NEW ex, NEW ch, NEW ends, Children(open, ex, ch, ends),
           NEW t \in open, NEW p, p = ex[t].pid, ex[t] # NoChild,
           NEW c, c.watched = FALSE, c.alive = FALSE, c.wrote = ch[p].wrote, c.shown = ch[p].shown, c.eof = ch[p].eof,
           NEW ch2, Replaced(ch, p, c, ch2),
           NEW ex2, ex2 = [ex EXCEPT ![t] = NoChild],
           NEW open2, open2 = open \/ open2 = open \ {t},
           NEW ends2, ends2 \subseteq ends, \A m \in ends : m \in ends2 \/ m.pid = p
    PROVE  Children(open2, ex2, ch2, ends2)
<1>1. /\ t \in ToSet(Tabs) /\ p \in 1..Len(ch) /\ p # 0 /\ DOMAIN ex = ToSet(Tabs)
  BY DEF Children, Owners
<1>2. ex2[t] = NoChild /\ \A u \in ToSet(Tabs) : u # t => ex2[u] = ex[u]
  BY <1>1
<1>3. NoChild.pid = 0 /\ NoChild.linebuf = <<>> /\ "pid" \in DOMAIN NoChild /\ "linebuf" \in DOMAIN NoChild
  BY DEF NoChild
<1>4. /\ ch2 \in Seq(ChildRec) /\ Len(ch2) = Len(ch) /\ Len(ch) \in Nat /\ ch2[p] = c
      /\ \A q \in 1..Len(ch) : q # p => ch2[q] = ch[q]
  BY DEF Replaced, Children, Owners
<1>5. \A u \in ToSet(Tabs) : u # t /\ ex[u].pid # 0 => ex[u].pid # p /\ ex[u].pid \in 1..Len(ch)
                                /\ ch2[ex[u].pid] = ch[ex[u].pid]
  <2> TAKE u \in ToSet(Tabs)
  <2>1. SUFFICES ASSUME u # t, ex[u].pid # 0 PROVE ex[u].pid # p /\ ex[u].pid \in 1..Len(ch)
    BY <1>4
  <2> QED BY <1>1, <1>4, <2>1 DEF Children, Owners
<1>6. Owners(open2, ex2, ch2)
  <2>1. ex2 = [u \in ToSet(Tabs) |-> ex2[u]] /\ open2 \subseteq ToSet(Tabs) /\ ch2 \in Seq(ChildRec)
    BY <1>1, <1>4 DEF Children, Owners
  <2>2. ASSUME NEW u \in ToSet(Tabs)
        PROVE  /\ "pid" \in DOMAIN ex2[u] /\ "linebuf" \in DOMAIN ex2[u]
               /\ ex2[u].pid \in 0..Len(ch2) /\ ex2[u].linebuf \in Seq(Chars)
               /\ ex2[u].pid = 0 <=> ex2[u] = NoChild
               /\ ex2[u].pid # 0 => u \in open2 /\ ch2[ex2[u].pid].watched = TRUE
    <3>1. CASE u = t
      <4>1. 0 \in 0..Len(ch2) /\ <<>> \in Seq(Chars)
        BY <1>4
      <4>2. ex2[u] = NoChild
        BY <1>2, <3>1
      <4> QED BY <1>3, <4>1, <4>2
    <3>2. CASE u # t
      BY <1>2, <1>4, <1>5, <3>2 DEF Children, Owners
    <3> QED BY <3>1, <3>2
  <2>3. \A u, v \in ToSet(Tabs) : ex2[u].pid = ex2[v].pid /\ ex2[u].pid # 0 => u = v
    BY <1>2, <1>3 DEF Children, Owners
  <2> QED BY <2>1, <2>2, <2>3 DEF Owners
<1>7. Owned(open2, ex2, ch2, ends2)
  <2> SUFFICES ASSUME NEW q \in 1..Len(ch)
               PROVE  /\ ch2[q].watched = TRUE => \E u \in open2 : ex2[u].pid = q
                      /\ ch2[q].alive = TRUE => ch2[q].watched = TRUE
                      /\ ch2[q].eof = TRUE /\ ch2[q].watched = TRUE => \E m \in ends2 : m.pid = q
    BY <1>4 DEF Owned
  <2>1. CASE q = p
    BY <1>4, <2>1
  <2>2. CASE q # p
    <3>1. ch2[q] = ch[q]
      BY <1>4, <2>2
    <3>2. ASSUME ch2[q].watched = TRUE PROVE \E u \in open2 : ex2[u].pid = q
      <4>1. PICK u \in open : ex[u].pid = q
        BY <3>1, <3>2 DEF Children, Owned
      <4>2. u # t /\ u \in open2 /\ u \in ToSet(Tabs)
        BY <2>2, <4>1 DEF Children, Owners
      <4> QED BY <1>2, <4>1, <4>2
    <3>3. ch2[q].alive = TRUE => ch2[q].watched = TRUE
      BY <3>1 DEF Children, Owned
    <3>4. ch2[q].eof = TRUE /\ ch2[q].watched = TRUE => \E m \in ends2 : m.pid = q
      BY <2>2, <3>1 DEF Children, Owned
    <3> QED BY <3>2, <3>3, <3>4
  <2> QED BY <2>1, <2>2
<1>8. Ending(ex2, ch2, ends2)
  <2> SUFFICES ASSUME NEW m \in ends2
               PROVE  /\ m.pid \in 1..Len(ch2) /\ ch2[m.pid].alive = FALSE
                      /\ m.tab \in ToSet(Tabs) => ex2[m.tab].pid \in {0, m.pid}
    BY DEF Ending
  <2>1. /\ m.pid \in 1..Len(ch) /\ ch[m.pid].alive = FALSE
        /\ m.tab \in ToSet(Tabs) => ex[m.tab].pid \in {0, m.pid}
    BY DEF Children, Ending
  <2>2. ch2[m.pid].alive = FALSE
    BY <1>4, <2>1
  <2> QED BY <1>2, <1>3, <1>4, <2>1, <2>2
<1>9. Lines(ex2, ch2)
  <2>1. Whole(c)
    BY <1>1 DEF Children, Lines, Whole
  <2>2. \A q \in 1..Len(ch2) : Whole(ch2[q])
    BY <1>4, <2>1 DEF Children, Lines
  <2>3. \A u \in ToSet(Tabs) :
          ex2[u].pid # 0 /\ ch2[ex2[u].pid].eof = FALSE => Reading(ch2[ex2[u].pid], ex2[u].linebuf)
    BY <1>2, <1>3, <1>5 DEF Children, Lines
  <2> QED BY <2>2, <2>3 DEF Lines
<1> QED BY <1>6, <1>7, <1>8, <1>9 DEF Children

\* A window without a child is closed.
LEMMA DropNone ==
    ASSUME NEW open, NEW ex, NEW ch, NEW ends, Children(open, ex, ch, ends),
           NEW t \in open, ex[t] = NoChild
    PROVE  /\ [ex EXCEPT ![t] = NoChild] = ex
           /\ Children(open \ {t}, ex, ch, ends)
<1>1. t \in ToSet(Tabs) /\ DOMAIN ex = ToSet(Tabs) /\ ex[t].pid = 0
  BY DEF Children, Owners
<1> DEFINE ex2 == [ex EXCEPT ![t] = NoChild]
<1>2. ex2 = ex
  <2>1. ex = [u \in ToSet(Tabs) |-> ex[u]] /\ ex2 = [u \in ToSet(Tabs) |-> ex2[u]]
    BY DEF Children, Owners
  <2>2. \A u \in ToSet(Tabs) : ex2[u] = ex[u]
    BY <1>1
  <2> HIDE DEF ex2
  <2> QED BY <2>1, <2>2
<1>3. Owners(open \ {t}, ex, ch)
  BY <1>1 DEF Children, Owners
<1>4. Owned(open \ {t}, ex, ch, ends)
  <2> SUFFICES ASSUME NEW q \in 1..Len(ch), ch[q].watched = TRUE
               PROVE  \E u \in open \ {t} : ex[u].pid = q
    BY DEF Children, Owned
  <2>1. PICK u \in open : ex[u].pid = q
    BY DEF Children, Owned
  <2>2. u # t
    BY <1>1, <2>1
  <2> QED BY <2>1, <2>2
<1> QED BY <1>2, <1>3, <1>4 DEF Children

\* With the child p the ends2 are suspended, ends before.
Suspends(ex, p, c, ends, ends2) ==
    /\ ends \subseteq ends2
    /\ \A m \in ends2 : m \in ends \/ (/\ m.pid = p /\ c.alive = FALSE
                                       /\ m.tab \in ToSet(Tabs) => ex[m.tab].pid \in {0, p})
    /\ c.eof = TRUE /\ c.watched = TRUE => \E m \in ends2 : m.pid = p

\* A child goes on: it is signalled, ends, writes, or is read.
LEMMA UpdateChild ==
    ASSUME NEW open, NEW ex, NEW ch, NEW ends, Children(open, ex, ch, ends),
           NEW p \in 1..Len(ch), NEW c, NEW ch2, Replaced(ch, p, c, ch2),
           c.watched = ch[p].watched, c.alive = TRUE => ch[p].alive = TRUE, Whole(c),
           NEW ex2, ex2 = [t \in ToSet(Tabs) |-> ex2[t]],
           \A t \in ToSet(Tabs) :
              /\ "pid" \in DOMAIN ex2[t] /\ "linebuf" \in DOMAIN ex2[t]
              /\ ex2[t].pid = ex[t].pid /\ ex2[t].linebuf \in Seq(Chars)
              /\ ex[t].pid # p => ex2[t] = ex[t]
              /\ ex[t].pid = p /\ c.eof = FALSE => Reading(c, ex2[t].linebuf),
           NEW ends2, Suspends(ex, p, c, ends, ends2),
           ch[p].alive = FALSE => c.alive = FALSE
    PROVE  Children(open, ex2, ch2, ends2)
<1>1. /\ ch2 \in Seq(ChildRec) /\ Len(ch2) = Len(ch) /\ Len(ch) \in Nat /\ ch2[p] = c
      /\ \A q \in 1..Len(ch) : q # p => ch2[q] = ch[q]
  BY DEF Replaced, Children, Owners
<1>2. p # 0
  BY <1>1
<1>3. \A t \in ToSet(Tabs) : /\ ex[t].pid \in 0..Len(ch)
                             /\ ex[t].pid = 0 <=> ex[t] = NoChild
  BY DEF Children, Owners
<1>4. Owners(open, ex2, ch2)
  <2>1. ASSUME NEW t \in ToSet(Tabs)
        PROVE  /\ "pid" \in DOMAIN ex2[t] /\ "linebuf" \in DOMAIN ex2[t]
               /\ ex2[t].pid \in 0..Len(ch2) /\ ex2[t].linebuf \in Seq(Chars)
               /\ ex2[t].pid = 0 <=> ex2[t] = NoChild
               /\ ex2[t].pid # 0 => t \in open /\ ch2[ex2[t].pid].watched = TRUE
    <3>1. ex2[t].pid = ex[t].pid /\ ex2[t].pid \in 0..Len(ch2)
      BY <1>1, <1>3
    <3>2. ex2[t].pid = 0 <=> ex2[t] = NoChild
      <4>1. CASE ex[t].pid = p
        BY <1>2, <3>1, <4>1 DEF NoChild
      <4>2. CASE ex[t].pid # p
        BY <1>3, <4>2
      <4> QED BY <4>1, <4>2
    <3>3. ex2[t].pid # 0 => t \in open /\ ch2[ex2[t].pid].watched = TRUE
      <4>1. SUFFICES ASSUME ex[t].pid # 0
                     PROVE  t \in open /\ ch2[ex[t].pid].watched = TRUE
        BY <3>1
      <4>2. t \in open /\ ch[ex[t].pid].watched = TRUE /\ ex[t].pid \in 1..Len(ch)
        BY <1>1, <1>3, <4>1 DEF Children, Owners
      <4> QED BY <1>1, <4>2
    <3> QED BY <3>1, <3>2, <3>3
  <2>2. \A t, u \in ToSet(Tabs) : ex2[t].pid = ex2[u].pid /\ ex2[t].pid # 0 => t = u
    BY DEF Children, Owners
  <2> QED BY <1>1, <2>1, <2>2 DEF Owners, Children
<1>5. Owned(open, ex2, ch2, ends2)
  <2> SUFFICES ASSUME NEW q \in 1..Len(ch)
               PROVE  /\ ch2[q].watched = TRUE => \E u \in open : ex2[u].pid = q
                      /\ ch2[q].alive = TRUE => ch2[q].watched = TRUE
                      /\ ch2[q].eof = TRUE /\ ch2[q].watched = TRUE => \E m \in ends2 : m.pid = q
    BY <1>1 DEF Owned
  <2>1. ch2[q].watched = ch[q].watched /\ (ch2[q].alive = TRUE => ch[q].alive = TRUE)
    BY <1>1
  <2>2. ch2[q].watched = TRUE => \E u \in open : ex2[u].pid = q
    BY <2>1 DEF Children, Owned, Owners
  <2>3. ch2[q].alive = TRUE => ch2[q].watched = TRUE
    BY <2>1 DEF Children, Owned
  <2>4. ch2[q].eof = TRUE /\ ch2[q].watched = TRUE => \E m \in ends2 : m.pid = q
    BY <1>1 DEF Children, Owned, Suspends
  <2> QED BY <2>2, <2>3, <2>4
<1>6. Ending(ex2, ch2, ends2)
  <2> SUFFICES ASSUME NEW m \in ends2
               PROVE  /\ m.pid \in 1..Len(ch2) /\ ch2[m.pid].alive = FALSE
                      /\ m.tab \in ToSet(Tabs) => ex2[m.tab].pid \in {0, m.pid}
    BY DEF Ending
  <2>1. CASE m \in ends
    <3>1. /\ m.pid \in 1..Len(ch) /\ ch[m.pid].alive = FALSE
          /\ m.tab \in ToSet(Tabs) => ex[m.tab].pid \in {0, m.pid}
      BY <2>1 DEF Children, Ending
    <3>2. ch2[m.pid].alive = FALSE
      BY <1>1, <3>1
    <3> QED BY <1>1, <3>1, <3>2
  <2>2. CASE m \notin ends
    BY <1>1, <2>2 DEF Suspends
  <2> QED BY <2>1, <2>2
<1>7. Lines(ex2, ch2)
  <2>1. \A q \in 1..Len(ch2) : Whole(ch2[q])
    BY <1>1 DEF Children, Lines
  <2>2. ASSUME NEW t \in ToSet(Tabs), ex2[t].pid # 0, ch2[ex2[t].pid].eof = FALSE
        PROVE  Reading(ch2[ex2[t].pid], ex2[t].linebuf)
    <3>1. ex[t].pid # 0 /\ ex2[t].pid = ex[t].pid /\ ex[t].pid \in 1..Len(ch)
      BY <1>1, <1>3, <2>2
    <3>2. CASE ex[t].pid = p
      BY <1>1, <2>2, <3>1, <3>2
    <3>3. CASE ex[t].pid # p
      BY <1>1, <2>2, <3>1, <3>3 DEF Children, Lines
    <3> QED BY <3>2, <3>3
  <2> QED BY <2>1, <2>2 DEF Lines
<1> QED BY <1>4, <1>5, <1>6, <1>7 DEF Children

\* Nothing of the window's changes with a child that is signalled, ends, or writes.
LEMMA SignalChild ==
    ASSUME NEW open, NEW ex, NEW ch, NEW ends, Children(open, ex, ch, ends),
           NEW p \in 1..Len(ch), NEW c, NEW ch2, Replaced(ch, p, c, ch2),
           c.watched = ch[p].watched, c.alive = TRUE => ch[p].alive = TRUE,
           ch[p].alive = FALSE => c.alive = FALSE, Whole(c), c.eof = ch[p].eof,
           c.eof = FALSE => \A linebuf : Reading(ch[p], linebuf) => Reading(c, linebuf)
    PROVE  Children(open, ex, ch2, ends)
<1>1. ASSUME NEW t \in ToSet(Tabs)
      PROVE  /\ "pid" \in DOMAIN ex[t] /\ "linebuf" \in DOMAIN ex[t]
             /\ ex[t].linebuf \in Seq(Chars)
             /\ ex[t].pid = p /\ c.eof = FALSE => Reading(c, ex[t].linebuf)
  <2>1. "pid" \in DOMAIN ex[t] /\ "linebuf" \in DOMAIN ex[t] /\ ex[t].linebuf \in Seq(Chars)
    BY DEF Children, Owners
  <2>2. p # 0
    BY DEF Children, Owners
  <2>3. ex[t].pid = p /\ c.eof = FALSE => Reading(c, ex[t].linebuf)
    BY <2>2 DEF Children, Lines
  <2> QED BY <2>1, <2>3
<1>2. ex = [t \in ToSet(Tabs) |-> ex[t]]
  BY DEF Children, Owners
<1>3. Suspends(ex, p, c, ends, ends)
  BY DEF Children, Owned, Suspends
<1> QED BY <1>1, <1>2, <1>3, UpdateChild

\* A window gets a new child.
LEMMA StartChild ==
    ASSUME NEW open, NEW ex, NEW ch, Children(open, ex, ch, {}),
           NEW t \in open, ex[t] = NoChild,
           NEW r, r.pid = Len(ch) + 1, r.linebuf = <<>>, "pid" \in DOMAIN r, "linebuf" \in DOMAIN r,
           NEW c \in ChildRec, c.watched = TRUE, c.pipe = <<>>, c.wrote = <<>>, c.shown = <<>>, c.eof = FALSE,
           NEW ex2, ex2 = [ex EXCEPT ![t] = r], NEW ch2, ch2 = Append(ch, c)
    PROVE  Children(open, ex2, ch2, {})
<1> DEFINE n == Len(ch)
<1>1. /\ t \in ToSet(Tabs) /\ ch \in Seq(ChildRec) /\ n \in Nat /\ ex = [u \in ToSet(Tabs) |-> ex[u]]
      /\ open \subseteq ToSet(Tabs)
  BY DEF Children, Owners
<1>2. /\ ch2 \in Seq(ChildRec) /\ Len(ch2) = n + 1 /\ ch2[n+1] = c
      /\ \A q \in 1..n : ch2[q] = ch[q]
  BY <1>1, AppendProperties
<1>3. /\ ex2 = [u \in ToSet(Tabs) |-> ex2[u]]
      /\ ex2[t] = r /\ \A u \in ToSet(Tabs) : u # t => ex2[u] = ex[u]
  BY <1>1
<1>4. <<>> \in Seq(Chars)
  OBVIOUS
<1>5. \A u \in ToSet(Tabs) : /\ ex[u].pid \in 0..n
                             /\ "pid" \in DOMAIN ex[u] /\ "linebuf" \in DOMAIN ex[u]
                             /\ ex[u].linebuf \in Seq(Chars) /\ (ex[u].pid = 0 <=> ex[u] = NoChild)
                             /\ ex[u].pid # 0 => u \in open /\ ch[ex[u].pid].watched = TRUE
  BY DEF Children, Owners
<1> HIDE DEF n
<1>6. n + 1 # 0 /\ \A q \in 0..n : q # n + 1 /\ q \in 0..(n+1) /\ (q # 0 => q \in 1..n)
  BY <1>1
<1>7. \A q \in 1..(n+1) : q = n + 1 \/ q \in 1..n
  BY <1>1
<1>8. Owners(open, ex2, ch2)
  <2>1. ASSUME NEW u \in ToSet(Tabs)
        PROVE  /\ "pid" \in DOMAIN ex2[u] /\ "linebuf" \in DOMAIN ex2[u]
               /\ ex2[u].pid \in 0..Len(ch2) /\ ex2[u].linebuf \in Seq(Chars)
               /\ ex2[u].pid = 0 <=> ex2[u] = NoChild
               /\ ex2[u].pid # 0 => u \in open /\ ch2[ex2[u].pid].watched = TRUE
    <3>1. CASE u = t
      <4>1. ex2[u] = r /\ r.pid = n + 1 /\ n + 1 \in 0..Len(ch2)
        BY <1>1, <1>2, <1>3, <3>1 DEF n
      <4>2. r # NoChild
        BY <1>6, <4>1 DEF NoChild
      <4>3. ch2[ex2[u].pid].watched = TRUE
        BY <1>2, <4>1
      <4>4. ex2[u].linebuf \in Seq(Chars)
        BY <1>4, <4>1
      <4> QED BY <1>6, <3>1, <4>1, <4>2, <4>3, <4>4
    <3>2. CASE u # t
      <4>1. ex2[u] = ex[u]
        BY <1>3, <3>2
      <4>2. ex[u].pid \in 0..Len(ch2)
        BY <1>2, <1>5, <1>6
      <4>3. ex[u].pid # 0 => u \in open /\ ch2[ex[u].pid].watched = TRUE
        BY <1>2, <1>5, <1>6
      <4> QED BY <1>5, <4>1, <4>2, <4>3
    <3> QED BY <3>1, <3>2
  <2>2. ASSUME NEW u \in ToSet(Tabs), NEW v \in ToSet(Tabs), ex2[u].pid = ex2[v].pid, ex2[u].pid # 0
        PROVE  u = v
    <3>1. \A w \in ToSet(Tabs) : w # t => ex2[w].pid # n + 1 /\ ex2[w] = ex[w]
      BY <1>3, <1>5, <1>6
    <3>2. ex2[t].pid = n + 1
      BY <1>3 DEF n
    <3>3. CASE u = t \/ v = t
      BY <2>2, <3>1, <3>2, <3>3
    <3>4. CASE u # t /\ v # t
      BY <2>2, <3>1, <3>4 DEF Children, Owners
    <3> QED BY <3>3, <3>4
  <2> QED BY <1>1, <1>2, <1>3, <2>1, <2>2 DEF Owners
<1>9. Owned(open, ex2, ch2, {})
  <2> SUFFICES ASSUME NEW q \in 1..(n+1)
               PROVE  /\ ch2[q].watched = TRUE => \E u \in open : ex2[u].pid = q
                      /\ ch2[q].alive = TRUE => ch2[q].watched = TRUE
                      /\ ch2[q].eof = TRUE /\ ch2[q].watched = TRUE => \E m \in {} : m.pid = q
    BY <1>2 DEF Owned
  <2>1. CASE q = n + 1
    BY <1>2, <1>3, <2>1 DEF n
  <2>2. CASE q \in 1..n
    <3>1. ch2[q] = ch[q] /\ q \in 1..Len(ch) /\ q # 0
      BY <1>1, <1>2, <2>2 DEF n
    <3>2. ASSUME ch2[q].watched = TRUE PROVE \E u \in open : ex2[u].pid = q
      <4>1. PICK u \in open : ex[u].pid = q
        BY <3>1, <3>2 DEF Children, Owned
      <4>2. ex[t].pid = 0
        BY <1>1, <1>5
      <4>3. u # t /\ u \in ToSet(Tabs)
        BY <1>1, <3>1, <4>1, <4>2
      <4> QED BY <1>3, <4>1, <4>3
    <3> QED BY <3>1, <3>2 DEF Children, Owned
  <2> QED BY <1>7, <2>1, <2>2
<1>10. Ending(ex2, ch2, {})
  BY DEF Ending
<1>11. Lines(ex2, ch2)
  <2>1. LinesOf(<<>>) = <<>>
    BY SplitEmpty DEF LinesOf, Ended
  <2>2. IsPrefix(<<>>, <<>>)
    BY DEF IsPrefix
  <2>3. Whole(c)
    BY <2>1, <2>2 DEF Whole
  <2>4. Reading(c, <<>>)
    <3>1. <<>> \in Seq(Chars) /\ <<>> \o <<>> = <<>>
      OBVIOUS
    <3>2. c.wrote = <<>> \o c.pipe /\ c.shown = Split(<<>>).lines /\ <<>> = Split(<<>>).open
      BY <3>1, SplitEmpty
    <3> QED BY <3>1, <3>2 DEF Reading
  <2>5. \A q \in 1..Len(ch2) : Whole(ch2[q])
    BY <1>2, <1>7, <2>3 DEF Children, Lines, n
  <2>6. ASSUME NEW u \in ToSet(Tabs), ex2[u].pid # 0, ch2[ex2[u].pid].eof = FALSE
        PROVE  Reading(ch2[ex2[u].pid], ex2[u].linebuf)
    <3>1. CASE u = t
      BY <1>2, <1>3, <2>4, <3>1 DEF n
    <3>2. CASE u # t
      <4>1. ex2[u] = ex[u] /\ ex[u].pid \in 1..n /\ ch2[ex[u].pid] = ch[ex[u].pid]
        BY <1>2, <1>3, <1>5, <1>6, <2>6, <3>2
      <4> QED BY <2>6, <4>1 DEF Children, Lines
    <3> QED BY <3>1, <3>2
  <2> QED BY <2>5, <2>6 DEF Lines
<1> QED BY <1>8, <1>9, <1>10, <1>11 DEF Children

-----------------------------------------------------------------------------
(* What each step does to the windows and to the children                  *)

WindowsOK == sess_list \in Seq(ToSet(Tabs)) /\ IsInjective(sess_list)

LEMMA PositionOf ==
    ASSUME WindowsOK, NEW x \in Open
    PROVE  Position(x) \in 1..Len(sess_list) /\ sess_list[Position(x)] = x
<1>1. \E i \in DOMAIN sess_list : sess_list[i] = x
  BY DEF Open, ToSet
<1>2. Position(x) \in DOMAIN sess_list /\ sess_list[Position(x)] = x
  BY <1>1 DEF Position
<1> QED BY <1>2 DEF WindowsOK

LEMMA OpenType == WindowsOK => Open \subseteq ToSet(Tabs)
BY DEF WindowsOK, Open, ToSet

LEMMA SessionFree ==
    ASSUME WindowsOK, NEW x \in Open, session_free(x),
           NEW ends, Children(Open, exec, child, ends)
    PROVE  WindowsOK' /\ Open' = Open \ {x} /\ Children(Open', exec', child', ends)
<1> DEFINE i == Position(x)
           q == RemoveAt(sess_list, i)
           n == Len(sess_list)
           U == ToSet(Tabs)
<1>1. i \in 1..n /\ sess_list[i] = x /\ sess_list \in Seq(U) /\ DOMAIN sess_list = 1..n /\ n \in Nat
  BY PositionOf DEF WindowsOK
<1>2. \A a, b \in 1..n : sess_list[a] = sess_list[b] => a = b
  BY <1>1 DEF WindowsOK, IsInjective
<1> HIDE DEF i
<1>3. /\ q \in Seq(U) /\ Len(q) = n - 1
      /\ \A j \in 1..(i-1) : q[j] = sess_list[j]
      /\ \A j \in i..(n-1) : q[j] = sess_list[j+1]
  <2> HIDE DEF U
  <2> QED BY <1>1, RemoveAtProps
<1> HIDE DEF q
<1>4. \A j \in 1..Len(q) : \E k \in 1..n : k # i /\ q[j] = sess_list[k] /\ k = IF j < i THEN j ELSE j + 1
  <2> TAKE j \in 1..Len(q)
  <2>1. CASE j < i
    BY <1>1, <1>3, <2>1
  <2>2. CASE ~(j < i)
    <3>1. j \in i..(n-1) /\ j + 1 \in 1..n /\ j + 1 # i
      BY <1>1, <1>3, <2>2
    <3> QED BY <1>3, <2>2, <3>1
  <2> QED BY <2>1, <2>2
<1>5. \A k \in 1..n : k # i => \E j \in 1..Len(q) : q[j] = sess_list[k]
  <2> TAKE k \in 1..n
  <2>1. CASE k < i
    BY <1>1, <1>3, <2>1
  <2>2. CASE k > i
    <3>1. k - 1 \in i..(n-1) /\ k - 1 \in 1..Len(q) /\ (k - 1) + 1 = k
      BY <1>1, <1>3, <2>2
    <3> QED BY <1>3, <3>1
  <2> QED BY <1>1, <2>1, <2>2
<1>6. sess_list' = q
  BY DEF session_free, q, i
<1>7. DOMAIN q = 1..Len(q)
  BY <1>3
<1>8. IsInjective(q)
  <2>1. ASSUME NEW a \in 1..Len(q), NEW b \in 1..Len(q), q[a] = q[b] PROVE a = b
    <3>1. PICK k \in 1..n : q[a] = sess_list[k] /\ k = IF a < i THEN a ELSE a + 1
      BY <1>4
    <3>2. PICK l \in 1..n : q[b] = sess_list[l] /\ l = IF b < i THEN b ELSE b + 1
      BY <1>4
    <3>3. k = l
      BY <1>2, <2>1, <3>1, <3>2
    <3>4. a \in Int /\ b \in Int /\ i \in Int
      BY <1>1, <1>3
    <3> QED BY <3>1, <3>2, <3>3, <3>4
  <2> QED BY <1>7, <2>1 DEF IsInjective
<1>9. WindowsOK'
  BY <1>3, <1>6, <1>8 DEF WindowsOK
<1>10. Open' = Open \ {x}
  <2>1. Open' = {q[j] : j \in 1..Len(q)} /\ Open = {sess_list[k] : k \in 1..n}
    BY <1>1, <1>6, <1>7 DEF Open, ToSet
  <2>2. \A j \in 1..Len(q) : q[j] \in Open /\ q[j] # x
    BY <1>1, <1>2, <1>4, <2>1
  <2>3. \A k \in 1..n : sess_list[k] # x => k # i
    BY <1>1
  <2>4. \A k \in 1..n : sess_list[k] # x => sess_list[k] \in Open'
    BY <1>5, <2>1, <2>3
  <2> QED BY <2>1, <2>2, <2>4
<1>11. Children(Open', exec', child', ends)
  <2>1. exec' = [exec EXCEPT ![x] = NoChild]
    BY DEF session_free, exec_notify_kill
  <2>2. CASE exec[x] = NoChild
    <3>1. child' = child
      BY <2>2 DEF session_free, exec_notify_kill
    <3>2. exec' = exec /\ Children(Open \ {x}, exec, child, ends)
      BY <2>1, <2>2, DropNone
    <3> QED BY <1>10, <3>1, <3>2
  <2>3. CASE exec[x] # NoChild
    <3> DEFINE p == exec[x].pid
               c == [child[p] EXCEPT !.alive = FALSE, !.watched = FALSE]
    <3>1. child' = [child EXCEPT ![p] = c]
      BY <2>3 DEF session_free, exec_notify_kill
    <3>2. child \in Seq(ChildRec) /\ p \in 1..Len(child)
      BY <2>3, OpenType DEF Children, Owners
    <3>3. child[p] \in ChildRec
      BY <3>2
    <3>4. /\ c \in ChildRec /\ c.watched = FALSE /\ c.alive = FALSE /\ c.wrote = child[p].wrote
          /\ c.shown = child[p].shown /\ c.eof = child[p].eof
      BY <3>3 DEF ChildRec
    <3> HIDE DEF c
    <3>5. Replaced(child, p, c, child')
      BY <3>1, <3>2, <3>4, ReplaceChild
    <3> QED BY <1>10, <2>1, <2>3, <3>4, <3>5, DropChild
  <2> QED BY <2>2, <2>3
<1> QED BY <1>9, <1>10, <1>11

\* A child that is done is taken off its window, if there is no end of its output suspended.
LEMMA CheckProcess ==
    ASSUME NEW t \in Open, Children(Open, exec, child, {})
    PROVE  Children(Open, exec_check_process(t).rec, exec_check_process(t).child, {})
<1>1. CASE exec[t] # NoChild /\ ~child[exec[t].pid].alive
  <2> DEFINE p == exec[t].pid
             c == [child[p] EXCEPT !.watched = FALSE]
             ch2 == [child EXCEPT ![p] = c]
             ex2 == [exec EXCEPT ![t] = NoChild]
  <2>1. exec_check_process(t).rec = ex2 /\ exec_check_process(t).child = ch2
    BY <1>1 DEF exec_check_process, Watch
  <2>2. child \in Seq(ChildRec) /\ p \in 1..Len(child)
    BY <1>1 DEF Children, Owners
  <2>3. child[p] \in ChildRec
    BY <2>2
  <2>4. /\ c \in ChildRec /\ c.watched = FALSE /\ c.alive = child[p].alive /\ c.wrote = child[p].wrote
        /\ c.shown = child[p].shown /\ c.eof = child[p].eof
    BY <2>3 DEF ChildRec
  <2>5. c.alive = FALSE
    BY <1>1, <2>3, <2>4 DEF ChildRec
  <2> HIDE DEF c
  <2>6. Replaced(child, p, c, ch2)
    BY <2>2, <2>4, ReplaceChild
  <2> HIDE DEF ch2
  <2>7. \A m \in {} : m \in {} \/ m.pid = p
    OBVIOUS
  <2>8. t \in Open /\ p = exec[t].pid /\ exec[t] # NoChild
    BY <1>1
  <2>9. Children(Open, ex2, ch2, {})
    <3> DEFINE E == {}
    <3>1. Children(Open, exec, child, E) /\ E \subseteq E /\ \A m \in E : m \in E \/ m.pid = p
      OBVIOUS
    <3> HIDE DEF p, E
    <3>2. Children(Open, ex2, ch2, E)
      BY <2>4, <2>5, <2>6, <2>8, <3>1, DropChild
    <3> QED BY <3>2 DEF E
  <2> QED BY <2>1, <2>9
<1>2. CASE ~(exec[t] # NoChild /\ ~child[exec[t].pid].alive)
  BY <1>2 DEF exec_check_process
<1> QED BY <1>1, <1>2

LEMMA cmd_exec_Children ==
    ASSUME NEW t \in Open, NEW cmd, Children(Open, exec, child, {}), cmd_exec(t, cmd)
    PROVE  Children(Open, exec', child', {})
<1> DEFINE ex == exec_check_process(t).rec
           ch == exec_check_process(t).child
           r == [pid |-> Len(child) + 1, tochannel |-> cmd.tochannel, linebuf |-> <<>>]
           c == [alive |-> TRUE, stopped |-> FALSE, watched |-> TRUE, out |-> Output,
                 pipe |-> <<>>, wrote |-> <<>>, shown |-> <<>>, eof |-> FALSE]
<1>1. Children(Open, ex, ch, {})
  BY CheckProcess
<1>2. Len(ch) = Len(child)
  BY DEF exec_check_process, Watch, Children, Owners
<1>3. \/ exec' = ex /\ child' = ch
      \/ ex[t] = NoChild /\ exec' = [ex EXCEPT ![t] = r] /\ child' = Append(ch, c)
  BY DEF cmd_exec
<1>4. c \in ChildRec /\ c.watched = TRUE /\ c.pipe = <<>> /\ c.wrote = <<>> /\ c.shown = <<>> /\ c.eof = FALSE
  <2>1. Output \in Seq(Chars)
    BY OutputAssumption DEF Chars
  <2> QED BY <2>1 DEF ChildRec
<1>5. r.pid = Len(ch) + 1 /\ r.linebuf = <<>> /\ "pid" \in DOMAIN r /\ "linebuf" \in DOMAIN r
  BY <1>2
<1> HIDE DEF ex, ch, r, c
<1>6. CASE exec' = ex /\ child' = ch
  BY <1>1, <1>6
<1>7. CASE ex[t] = NoChild /\ exec' = [ex EXCEPT ![t] = r] /\ child' = Append(ch, c)
  BY <1>1, <1>4, <1>5, <1>7, StartChild
<1> QED BY <1>3, <1>6, <1>7

LEMMA cmd_execk_Children ==
    ASSUME NEW t \in Open, NEW cmd, cmd.op \in {"execs", "execc", "execk"},
           Children(Open, exec, child, {}), cmd_execk(t, cmd)
    PROVE  Children(Open, exec', child', {})
<1> DEFINE ex == exec_check_process(t).rec
           ch == exec_check_process(t).child
           p == ex[t].pid
<1>1. Children(Open, ex, ch, {})
  BY CheckProcess
<1>2. CASE ex[t] = NoChild
  BY <1>1, <1>2 DEF cmd_execk
<1>3. CASE ex[t] # NoChild
  <2> DEFINE c == CASE cmd.op = "execs" -> [ch[p] EXCEPT !.stopped = TRUE]
                    [] cmd.op = "execc" -> [ch[p] EXCEPT !.stopped = FALSE]
                    [] cmd.op = "execk" -> [ch[p] EXCEPT !.alive = FALSE]
  <2>1. exec' = ex /\ child' = [ch EXCEPT ![p] = c]
    BY <1>3 DEF cmd_execk
  <2> HIDE DEF ex, ch
  <2>2. ch \in Seq(ChildRec) /\ p \in 1..Len(ch)
    BY <1>1, <1>3 DEF Children, Owners
  <2>3. ch[p] \in ChildRec
    BY <2>2
  <2>4. /\ c \in ChildRec /\ c.watched = ch[p].watched /\ c.pipe = ch[p].pipe /\ c.wrote = ch[p].wrote
        /\ c.shown = ch[p].shown /\ c.eof = ch[p].eof /\ (c.alive = ch[p].alive \/ c.alive = FALSE)
    BY <2>3 DEF ChildRec
  <2> HIDE DEF c
  <2>5. Replaced(ch, p, c, child')
    BY <2>1, <2>2, <2>4, ReplaceChild
  <2>6. Whole(ch[p])
    BY <1>1, <2>2 DEF Children, Lines
  <2>7. Whole(c) /\ \A linebuf : Reading(ch[p], linebuf) => Reading(c, linebuf)
    BY <2>4, <2>6 DEF Whole, Reading
  <2>8. Children(Open, ex, child', {})
    BY <1>1, <2>2, <2>4, <2>5, <2>7, SignalChild
  <2> QED BY <2>1, <2>8
<1> QED BY <1>2, <1>3

LEMMA ChildEnds_Children ==
    ASSUME NEW ends, Children(Open, exec, child, ends), NEW p \in DOMAIN child, ChildEnds(p)
    PROVE  Children(Open, exec', child', ends)
<1> DEFINE c == [child[p] EXCEPT !.alive = FALSE]
<1>1. exec' = exec /\ child' = [child EXCEPT ![p] = c]
  BY DEF ChildEnds
<1>2. child \in Seq(ChildRec) /\ p \in 1..Len(child)
  BY DEF Children, Owners
<1>3. child[p] \in ChildRec
  BY <1>2
<1>4. /\ c \in ChildRec /\ c.watched = child[p].watched /\ c.pipe = child[p].pipe /\ c.wrote = child[p].wrote
      /\ c.shown = child[p].shown /\ c.eof = child[p].eof /\ c.alive = FALSE
  BY <1>3 DEF ChildRec
<1> HIDE DEF c
<1>5. Replaced(child, p, c, child')
  BY <1>1, <1>2, <1>4, ReplaceChild
<1>6. Whole(child[p])
  BY <1>2 DEF Children, Lines
<1>7. Whole(c) /\ \A linebuf : Reading(child[p], linebuf) => Reading(c, linebuf)
  BY <1>4, <1>6 DEF Whole, Reading
<1>8. Children(Open, exec, child', ends)
  BY <1>2, <1>4, <1>5, <1>7, SignalChild
<1> QED BY <1>1, <1>8

LEMMA Associative ==
    ASSUME NEW S, NEW a \in Seq(S), NEW b \in Seq(S), NEW c \in Seq(S), NEW d, d = b \o c
    PROVE  a \o d = (a \o b) \o c /\ a \o b \in Seq(S)
BY ConcatAssociative, ConcatProperties

LEMMA CutSeq ==
    ASSUME NEW S, NEW s \in Seq(S), NEW n \in 0..Len(s)
    PROVE  /\ SubSeq(s, 1, n) \in Seq(S) /\ SubSeq(s, n + 1, Len(s)) \in Seq(S)
           /\ s = SubSeq(s, 1, n) \o SubSeq(s, n + 1, Len(s))
<1> DEFINE a == SubSeq(s, 1, n)
           m == n + 1
           b == SubSeq(s, m, Len(s))
           l == Len(s)
<1>1. l \in Nat /\ n \in Nat /\ n <= l /\ m \in Int /\ m = n + 1
  OBVIOUS
<1>2. a \in Seq(S) /\ Len(a) = n /\ \A i \in 1..n : a[i] = s[i]
  OBVIOUS
<1>3. \A i \in m..l : s[i] \in S
  OBVIOUS
<1> HIDE DEF m, a
<1>4. b \in Seq(S) /\ Len(b) = (IF m <= l THEN l - m + 1 ELSE 0) /\ \A i \in 1..(l - m + 1) : b[i] = s[m+i-1]
  BY <1>1, <1>3, SubSeqProperties
<1> HIDE DEF b, l
<1>5. Len(b) = l - n /\ \A i \in 1..(l - n) : b[i] = s[n + i]
  <2>1. l - m + 1 = l - n /\ \A i \in 1..(l - n) : m + i - 1 = n + i
    BY <1>1
  <2>2. ~(m <= l) => l - n = 0
    BY <1>1
  <2> QED BY <1>4, <2>1, <2>2
<1> DEFINE d == a \o b
<1>6. /\ d \in Seq(S) /\ Len(d) = Len(a) + Len(b)
      /\ \A i \in 1..(Len(a) + Len(b)) : d[i] = IF i <= Len(a) THEN a[i] ELSE b[i - Len(a)]
  BY <1>2, <1>4, ConcatProperties
<1> HIDE DEF d
<1>7. Len(d) = l
  BY <1>1, <1>2, <1>5, <1>6
<1>8. ASSUME NEW i \in 1..l PROVE s[i] = d[i]
  <2>1. CASE i <= n
    <3>1. i \in 1..n /\ i \in 1..(Len(a) + Len(b))
      BY <1>1, <1>2, <1>5, <2>1
    <3> QED BY <1>2, <1>6, <2>1, <3>1
  <2>2. CASE ~(i <= n)
    <3>1. i - n \in 1..(l - n) /\ n + (i - n) = i /\ i \in 1..(Len(a) + Len(b))
      BY <1>1, <1>2, <1>5, <2>2
    <3> QED BY <1>2, <1>5, <1>6, <2>2, <3>1
  <2> QED BY <2>1, <2>2
<1>9. s = d
  BY <1>6, <1>7, <1>8, SeqEqual DEF l
<1> QED BY <1>2, <1>4, <1>9 DEF d, a, b, l, m

\* A child writes: what it wrote still begins with the lines that were read.
LEMMA ChildWrites_Children ==
    ASSUME NEW ends, Children(Open, exec, child, ends), NEW p \in DOMAIN child, ChildWrites(p)
    PROVE  Children(Open, exec', child', ends)
<1>1. child \in Seq(ChildRec) /\ p \in 1..Len(child) /\ child[p] \in ChildRec
  BY DEF Children, Owners
<1>2. PICK n \in 1..Len(child[p].out) :
        child' = [child EXCEPT ![p].out = SubSeq(@, n + 1, Len(@)),
                               ![p].pipe = @ \o SubSeq(child[p].out, 1, n),
                               ![p].wrote = @ \o SubSeq(child[p].out, 1, n)]
  BY DEF ChildWrites
<1> DEFINE out == child[p].out
           text == SubSeq(out, 1, n)
           c == [child[p] EXCEPT !.out = SubSeq(@, n + 1, Len(@)), !.pipe = @ \o text, !.wrote = @ \o text]
<1>3. exec' = exec /\ child' = [child EXCEPT ![p] = c]
  BY <1>1, <1>2 DEF ChildWrites
<1>4. out \in Seq(Chars) /\ child[p].pipe \in Seq(Chars) /\ child[p].wrote \in Seq(Chars) /\ n \in 0..Len(out)
  BY <1>1 DEF ChildRec
<1>5. text \in Seq(Chars) /\ SubSeq(out, n + 1, Len(out)) \in Seq(Chars)
  <2> HIDE DEF out
  <2> QED BY <1>4, CutSeq
<1> HIDE DEF text
<1>6. child[p].pipe \o text \in Seq(Chars) /\ child[p].wrote \o text \in Seq(Chars)
  BY <1>4, <1>5, ConcatProperties
<1>7. /\ c \in ChildRec /\ c.watched = child[p].watched /\ c.alive = child[p].alive /\ c.eof = child[p].eof
      /\ c.shown = child[p].shown /\ c.pipe = child[p].pipe \o text /\ c.wrote = child[p].wrote \o text
  BY <1>1, <1>5, <1>6 DEF ChildRec
<1> HIDE DEF c
<1>8. Replaced(child, p, c, child')
  BY <1>1, <1>3, <1>7, ReplaceChild
<1>9. child[p].alive = TRUE /\ child[p].watched = TRUE
  BY <1>1 DEF ChildWrites, ChildRec
<1>10. child[p].eof = FALSE
  <2>1. child[p].eof # TRUE
    BY <1>1, <1>9 DEF Children, Owned, Ending
  <2> QED BY <1>1, <2>1 DEF ChildRec
<1>11. \A linebuf : Reading(child[p], linebuf) => Reading(c, linebuf)
  <2> TAKE linebuf
  <2>1. SUFFICES ASSUME NEW read \in Seq(Chars), child[p].wrote = read \o child[p].pipe,
                        child[p].shown = Split(read).lines, linebuf = Split(read).open
                 PROVE  Reading(c, linebuf)
    BY DEF Reading
  <2>2. c.wrote = read \o c.pipe
    <3>1. read \o (child[p].pipe \o text) = (read \o child[p].pipe) \o text
      <4> DEFINE s == child[p].pipe
      <4>1. s \in Seq(Chars)
        BY <1>4
      <4> HIDE DEF s, out
      <4>2. read \o (s \o text) = (read \o s) \o text
        BY <1>5, <4>1, Associative
      <4> QED BY <4>2 DEF s
    <3> QED BY <1>7, <2>1, <3>1
  <2> QED BY <1>7, <2>1, <2>2 DEF Reading
<1>12. Whole(c)
  <2>1. PICK t \in Open : exec[t].pid = p
    BY <1>1, <1>9 DEF Children, Owned
  <2>2. Reading(child[p], exec[t].linebuf)
    <3>1. t \in ToSet(Tabs) /\ p # 0
      BY <1>1, <2>1 DEF Children, Owners
    <3> QED BY <1>10, <2>1, <3>1 DEF Children, Lines
  <2>3. Reading(c, exec[t].linebuf)
    BY <1>11, <2>2
  <2>4. PICK read \in Seq(Chars) : c.wrote = read \o c.pipe /\ c.shown = Split(read).lines
    BY <2>3 DEF Reading
  <2>5. c.pipe \in Seq(Chars)
    BY <1>6, <1>7
  <2>6. IsPrefix(c.shown, LinesOf(c.wrote))
    BY <2>4, <2>5, ReadIsPrefix
  <2> QED BY <1>7, <1>10, <2>6 DEF Whole
<1>13. Children(Open, exec, child', ends)
  BY <1>1, <1>7, <1>8, <1>11, <1>12, SignalChild
<1> QED BY <1>3, <1>13

\* The window of a child that may be read, and what was read of it.
LEMMA ReadingChild ==
    ASSUME Children(Open, exec, child, {}), NEW t \in Open, exec[t] # NoChild
    PROVE  /\ t \in ToSet(Tabs) /\ exec[t].pid \in 1..Len(child) /\ child[exec[t].pid] \in ChildRec
           /\ child[exec[t].pid].eof = FALSE /\ child[exec[t].pid].watched = TRUE
           /\ Reading(child[exec[t].pid], exec[t].linebuf)
           /\ \A u \in ToSet(Tabs) : exec[u].pid = exec[t].pid <=> u = t
<1> DEFINE p == exec[t].pid
<1>1. t \in ToSet(Tabs) /\ p \in 1..Len(child) /\ p # 0 /\ child[p] \in ChildRec /\ child[p].watched = TRUE
  BY DEF Children, Owners
<1>2. child[p].eof # TRUE
  BY <1>1 DEF Children, Owned
<1>3. child[p].eof = FALSE
  BY <1>1, <1>2 DEF ChildRec
<1>4. Reading(child[p], exec[t].linebuf)
  BY <1>1, <1>3 DEF Children, Lines
<1>5. \A u \in ToSet(Tabs) : exec[u].pid = p <=> u = t
  BY <1>1 DEF Children, Owners
<1> QED BY <1>1, <1>3, <1>4, <1>5

LEMMA exec_data_Children ==
    ASSUME Children(Open, exec, child, {}), NEW t \in Open, exec_data(t)
    PROVE  /\ Children(Open, exec', child', {})
           /\ \E lines \in Seq(Seq(Chars)) :
                stack' \in {<<>>, <<[at |-> "lines", tab |-> t, rest |-> Typed(lines)]>>}
<1> DEFINE p == exec[t].pid
           was == child[p]
           n == Min({MaxRead, Len(was.pipe)})
           new == SubSeq(was.pipe, 1, n)
           rest == SubSeq(was.pipe, n + 1, Len(was.pipe))
           buf == exec[t].linebuf \o new
           lines == LinesOf(Complete(buf))
           keep == SubSeq(buf, Len(Complete(buf)) + 1, Len(buf))
           r == [exec[t] EXCEPT !.linebuf = keep]
           c == [was EXCEPT !.pipe = rest, !.shown = @ \o lines]
<1>1. exec[t] # NoChild
  BY DEF exec_data
<1>2. /\ t \in ToSet(Tabs) /\ p \in 1..Len(child) /\ was \in ChildRec
      /\ was.eof = FALSE /\ was.watched = TRUE /\ Reading(was, exec[t].linebuf)
      /\ \A u \in ToSet(Tabs) : exec[u].pid = p <=> u = t
  BY <1>1, ReadingChild
<1>3. /\ exec = [u \in ToSet(Tabs) |-> exec[u]] /\ child \in Seq(ChildRec)
      /\ "pid" \in DOMAIN exec[t] /\ "linebuf" \in DOMAIN exec[t]
      /\ \A u \in ToSet(Tabs) : /\ "pid" \in DOMAIN exec[u] /\ "linebuf" \in DOMAIN exec[u]
                                /\ exec[u].linebuf \in Seq(Chars)
  BY <1>2 DEF Children, Owners
<1>4. exec' = [exec EXCEPT ![t] = r] /\ child' = [child EXCEPT ![p] = c]
  BY <1>2, <1>3 DEF exec_data
<1>0. stack' \in {<<>>, <<[at |-> "lines", tab |-> t, rest |-> Typed(lines)]>>}
  BY DEF exec_data
<1>5. was.pipe \in Seq(Chars) /\ was.wrote \in Seq(Chars) /\ was.shown \in Seq(Seq(Chars))
  BY <1>2 DEF ChildRec
<1>6. n \in 0..Len(was.pipe)
  <2> DEFINE l == Len(was.pipe)
  <2>1. l \in Nat /\ MaxRead \in Nat
    BY <1>5, SizesAssumption
  <2> HIDE DEF l
  <2>2. Min({MaxRead, l}) \in {MaxRead, l} /\ Min({MaxRead, l}) <= l
    BY <2>1 DEF Min
  <2> QED BY <2>1, <2>2 DEF l
<1> HIDE DEF n, was
<1>7. new \in Seq(Chars) /\ rest \in Seq(Chars) /\ was.pipe = new \o rest
  BY <1>5, <1>6, CutSeq
<1> HIDE DEF new, rest, buf, lines, keep
<1>8. PICK read \in Seq(Chars) : /\ was.wrote = read \o was.pipe /\ was.shown = Split(read).lines
                                 /\ exec[t].linebuf = Split(read).open
  BY <1>2 DEF Reading
<1>9. buf = Split(read).open \o new
  BY <1>8 DEF buf
<1>10. /\ lines \in Seq(Seq(Chars))
       /\ Split(read \o new).lines = was.shown \o lines
       /\ Split(read \o new).open = keep
  <2>1. /\ LinesOf(Complete(buf)) \in Seq(Seq(Chars))
        /\ Split(read \o new).lines = Split(read).lines \o LinesOf(Complete(buf))
        /\ Split(read \o new).open = SubSeq(buf, Len(Complete(buf)) + 1, Len(buf))
    <3> HIDE DEF r, c, p
    <3> QED BY <1>7, <1>9, ReadMore
  <2> QED BY <1>8, <2>1 DEF lines, keep
<1>11. read \o new \in Seq(Chars) /\ was.wrote = (read \o new) \o rest
  <2> HIDE DEF r, c, p
  <2>1. read \o was.pipe = (read \o new) \o rest /\ read \o new \in Seq(Chars)
    BY <1>7, Associative
  <2> QED BY <1>8, <2>1
<1>12. was.shown \o lines \in Seq(Seq(Chars))
  <2> DEFINE U == Seq(Chars)
  <2>1. was.shown \in Seq(U) /\ lines \in Seq(U)
    BY <1>5, <1>10
  <2> HIDE DEF U
  <2> QED BY <2>1, ConcatProperties DEF U
<1>13. keep \in Seq(Chars)
  BY <1>10, <1>11, SplitType
<1>14. /\ c \in ChildRec /\ c.watched = was.watched /\ c.alive = was.alive /\ c.eof = FALSE
       /\ c.shown = was.shown \o lines /\ c.pipe = rest /\ c.wrote = was.wrote
  BY <1>2, <1>7, <1>12 DEF ChildRec
<1>15. /\ "pid" \in DOMAIN r /\ "linebuf" \in DOMAIN r /\ r.pid = p /\ r.linebuf = keep
  BY <1>3
<1> HIDE DEF c, r
<1>16. Reading(c, keep)
  BY <1>10, <1>11, <1>14 DEF Reading
<1>17. Whole(c)
  <2>1. IsPrefix(c.shown, LinesOf(c.wrote))
    BY <1>7, <1>10, <1>11, <1>14, ReadIsPrefix
  <2> QED BY <1>14, <2>1 DEF Whole
<1>18. Replaced(child, p, c, child')
  BY <1>2, <1>3, <1>4, <1>14, ReplaceChild
<1>19. exec' = [u \in ToSet(Tabs) |-> exec'[u]] /\ exec'[t] = r /\ \A u \in ToSet(Tabs) : u # t => exec'[u] = exec[u]
  BY <1>2, <1>3, <1>4
<1>20. ASSUME NEW u \in ToSet(Tabs)
       PROVE  /\ "pid" \in DOMAIN exec'[u] /\ "linebuf" \in DOMAIN exec'[u]
              /\ exec'[u].pid = exec[u].pid /\ exec'[u].linebuf \in Seq(Chars)
              /\ exec[u].pid # p => exec'[u] = exec[u]
              /\ exec[u].pid = p /\ c.eof = FALSE => Reading(c, exec'[u].linebuf)
  <2>1. CASE u = t
    BY <1>13, <1>15, <1>16, <1>19, <2>1
  <2>2. CASE u # t
    BY <1>2, <1>3, <1>19, <2>2
  <2> QED BY <2>1, <2>2
<1> DEFINE E == {}
<1>21. Children(Open, exec, child, E) /\ Suspends(exec, p, c, E, E)
  BY <1>14 DEF Suspends
<1>22. /\ c.watched = child[p].watched /\ (c.alive = TRUE => child[p].alive = TRUE)
       /\ (child[p].alive = FALSE => c.alive = FALSE) /\ c.eof = FALSE
  BY <1>14 DEF was
<1> HIDE DEF E, p
<1>23. Children(Open, exec', child', E)
  BY <1>2, <1>17, <1>18, <1>19, <1>20, <1>21, <1>22, UpdateChild
<1> QED BY <1>0, <1>10, <1>23 DEF E

LEMMA exec_eof_Children ==
    ASSUME Children(Open, exec, child, {}), NEW t \in Open, exec_eof(t),
           NEW m, m = [at |-> "eof", tab |-> t, pid |-> exec[t].pid]
    PROVE  /\ Children(Open, exec', child', {m})
           /\ LinesOf(exec[t].linebuf) \in Seq(Seq(Chars))
<1> DEFINE p == exec[t].pid
           was == child[p]
           lines == LinesOf(exec[t].linebuf)
           c == [was EXCEPT !.shown = @ \o lines, !.eof = TRUE]
<1>1. exec[t] # NoChild /\ was.pipe = <<>> /\ ~was.alive
  BY DEF exec_eof
<1>2. /\ t \in ToSet(Tabs) /\ p \in 1..Len(child) /\ was \in ChildRec
      /\ was.eof = FALSE /\ was.watched = TRUE /\ Reading(was, exec[t].linebuf)
      /\ \A u \in ToSet(Tabs) : exec[u].pid = p <=> u = t
  BY <1>1, ReadingChild
<1>3. /\ exec = [u \in ToSet(Tabs) |-> exec[u]] /\ child \in Seq(ChildRec)
      /\ \A u \in ToSet(Tabs) : /\ "pid" \in DOMAIN exec[u] /\ "linebuf" \in DOMAIN exec[u]
                                /\ exec[u].linebuf \in Seq(Chars)
  BY <1>2 DEF Children, Owners
<1>4. exec' = exec /\ child' = [child EXCEPT ![p] = c]
  BY <1>2, <1>3 DEF exec_eof
<1>5. was.shown \in Seq(Seq(Chars)) /\ was.alive = FALSE
  BY <1>1, <1>2 DEF ChildRec
<1> HIDE DEF was, lines
<1>6. PICK read \in Seq(Chars) : /\ was.wrote = read \o was.pipe /\ was.shown = Split(read).lines
                                 /\ exec[t].linebuf = Split(read).open
  BY <1>2 DEF Reading
<1>7. was.wrote = read
  BY <1>1, <1>6, ConcatEmptySeq
<1>8. lines \in Seq(Seq(Chars)) /\ LinesOf(read) = was.shown \o lines
  <2> HIDE DEF p, c
  <2> QED BY <1>6, ReadEnd DEF lines
<1>9. was.shown \o lines \in Seq(Seq(Chars)) /\ IsPrefix(was.shown \o lines, was.shown \o lines)
  <2> DEFINE U == Seq(Chars)
             x == was.shown \o lines
  <2>1. was.shown \in Seq(U) /\ lines \in Seq(U)
    BY <1>5, <1>8
  <2> HIDE DEF U
  <2>2. x \in Seq(U) /\ <<>> \in Seq(U)
    BY <2>1, ConcatProperties
  <2> HIDE DEF x
  <2>3. IsPrefix(x, x \o <<>>) /\ x \o <<>> = x
    BY <2>2, PrefixConcat, ConcatEmptySeq
  <2> QED BY <2>2, <2>3 DEF U, x
<1>10. /\ c \in ChildRec /\ c.watched = TRUE /\ c.alive = FALSE /\ c.eof = TRUE
       /\ c.shown = was.shown \o lines /\ c.wrote = was.wrote
  BY <1>2, <1>5, <1>9 DEF ChildRec
<1> HIDE DEF c
<1>11. Whole(c)
  BY <1>7, <1>8, <1>9, <1>10 DEF Whole
<1>12. Replaced(child, p, c, child')
  BY <1>2, <1>3, <1>4, <1>10, ReplaceChild
<1> DEFINE E == {}
           F == {m}
<1>13. Children(Open, exec, child, E) /\ Suspends(exec, p, c, E, F)
  BY <1>10 DEF Suspends
<1>14. c.watched = child[p].watched /\ (child[p].alive = FALSE => c.alive = FALSE)
  BY <1>2, <1>10 DEF was
<1>15. /\ exec' = [u \in ToSet(Tabs) |-> exec'[u]]
       /\ \A u \in ToSet(Tabs) :
             /\ "pid" \in DOMAIN exec'[u] /\ "linebuf" \in DOMAIN exec'[u]
             /\ exec'[u].pid = exec[u].pid /\ exec'[u].linebuf \in Seq(Chars)
             /\ exec[u].pid # p => exec'[u] = exec[u]
             /\ exec[u].pid = p /\ c.eof = FALSE => Reading(c, exec'[u].linebuf)
  BY <1>3, <1>4, <1>10
<1> HIDE DEF E, F, p
<1>16. Children(Open, exec', child', F)
  <2>1. Children(Open, exec, child, E) /\ p \in 1..Len(child) /\ Replaced(child, p, c, child')
    BY <1>2, <1>12, <1>13
  <2>2. /\ c.watched = child[p].watched /\ (c.alive = TRUE => child[p].alive = TRUE) /\ Whole(c)
        /\ child[p].alive = FALSE => c.alive = FALSE
    BY <1>10, <1>11, <1>14
  <2> QED BY <1>13, <1>15, <2>1, <2>2, UpdateChild
<1> QED BY <1>8, <1>16 DEF F, lines

Ends(s) == {m \in Marks(s) : m.at = "eof"}

LEMMA exec_done_Children ==
    ASSUME StackInv, stack # <<>>, exec_done, WindowsOK, Children(Open, exec, child, Ends(stack))
    PROVE  Children(Open', exec', child', Ends(stack')) /\ WindowsOK'
<1>1. Top.at = "eof" /\ sess_list' = sess_list
  BY DEF exec_done, windows
<1>2. stack = <<Top>> \o Below /\ IsSeq(Below) /\ (Top.at \in Waiting => Below = <<>>)
  <2>1. stack = <<Top>> \o Below /\ IsSeq(Below)
    BY TopAndBelow DEF StackInv
  <2>2. Bottom(stack)
    BY DEF StackInv
  <2> QED BY <2>1, <2>2, PushBottom
<1>3. Below = <<>> /\ Marks(Below) = {} /\ Marks(stack) = {Top}
  <2>1. Below = <<>> /\ Top.at \in Waiting
    BY <1>1, <1>2 DEF Waiting
  <2>2. Marks(<<>>) = {}
    BY NoneSeq DEF Marks
  <2> QED BY <1>2, <2>1, <2>2, PushMarks
<1>4. Open' = Open /\ WindowsOK'
  BY <1>1 DEF Open, WindowsOK
<1>5. CASE exec[Top.tab] = NoChild \/ Top.tab \notin Open
  BY <1>4, <1>5 DEF exec_done, Crash, children
<1>6. CASE ~(exec[Top.tab] = NoChild \/ Top.tab \notin Open)
  <2> DEFINE t == Top.tab
             p == exec[t].pid
             c == [child[p] EXCEPT !.watched = FALSE]
             E == Ends(stack)
             F == Ends(stack')
  <2>1. E = {Top} /\ F = {}
    BY <1>1, <1>3, <1>6 DEF Ends, exec_done, Return
  <2>2. t \in Open /\ exec[t] # NoChild /\ p \in 1..Len(child) /\ p # 0 /\ child \in Seq(ChildRec) /\ t \in ToSet(Tabs)
    BY <1>6 DEF Children, Owners
  <2>3. Top.pid = p /\ child[p].alive = FALSE
    BY <2>1, <2>2 DEF Children, Ending
  <2>4. child[p] \in ChildRec
    BY <2>2
  <2>5. exec' = [exec EXCEPT ![t] = NoChild] /\ child' = [child EXCEPT ![p] = c]
    BY <1>6, <2>2, <2>3 DEF exec_done, Watch
  <2>6. /\ c \in ChildRec /\ c.watched = FALSE /\ c.alive = FALSE /\ c.wrote = child[p].wrote
        /\ c.shown = child[p].shown /\ c.eof = child[p].eof
    BY <2>3, <2>4 DEF ChildRec
  <2>7. F \subseteq E /\ \A m \in E : m \in F \/ m.pid = p
    BY <2>1, <2>3
  <2>0. p = exec[t].pid
    OBVIOUS
  <2> HIDE DEF c, E, F, p, t
  <2>8. Replaced(child, p, c, child')
    BY <2>2, <2>5, <2>6, ReplaceChild
  <2>9. Children(Open, exec, child, E)
    BY DEF E
  <2>10. Children(Open, exec', child', F)
    <3>1. Children(Open, exec, child, E) /\ t \in Open /\ p = exec[t].pid /\ exec[t] # NoChild
      BY <2>0, <2>2, <2>9
    <3>2. c.watched = FALSE /\ c.alive = FALSE /\ c.wrote = child[p].wrote /\ c.shown = child[p].shown /\ c.eof = child[p].eof
      BY <2>6
    <3>3. Replaced(child, p, c, child') /\ exec' = [exec EXCEPT ![t] = NoChild]
      BY <2>5, <2>8
    <3>4. Open = Open \/ Open = Open \ {t}
      OBVIOUS
    <3>5. F \subseteq E /\ \A m \in E : m \in F \/ m.pid = p
      BY <2>7
    <3> QED BY <3>1, <3>2, <3>3, <3>4, <3>5, DropChild
  <2> QED BY <1>4, <2>10 DEF F
<1> QED BY <1>5, <1>6

LEMMA plugin_emit_Children ==
    ASSUME plugin_emit, WindowsOK, NEW ends, Children(Open, exec, child, ends)
    PROVE  Children(Open', exec', child', ends) /\ WindowsOK'
<1>1. \/ UNCHANGED <<sess_list, exec, child>>
      \/ \E x \in Open : session_free(x)
  BY DEF plugin_emit, windows, children
<1>2. CASE UNCHANGED <<sess_list, exec, child>>
  BY <1>2 DEF Open, WindowsOK
<1>3. ASSUME NEW x \in Open, session_free(x)
      PROVE  Children(Open', exec', child', ends) /\ WindowsOK'
  BY <1>3, SessionFree
<1> QED BY <1>1, <1>2, <1>3

LEMMA handle_command_Children ==
    ASSUME StackInv, stack # <<>>, handle_command, WindowsOK, Children(Open, exec, child, Ends(stack))
    PROVE  Children(Open', exec', child', Ends(stack)) /\ WindowsOK'
<1> DEFINE t == Top.tab
           cmd == Top.cmd
<1>1. Top.at = "run" /\ ~Talk(Top) /\ Top.at \notin Waiting
  BY DEF handle_command, Talk, Waiting
<1>2. Ends(stack) = {}
  <2>1. stack = <<Top>> \o Below /\ IsSeq(Below) /\ Quiet(stack)
    BY TopAndBelow DEF StackInv
  <2>2. Marks(stack) = Marks(Below)
    BY <1>1, <2>1, PushMarks
  <2>3. ~\E m \in Marks(Below) : m.at = "eof"
    BY <1>1, <2>1, PushQuiet
  <2> QED BY <2>2, <2>3 DEF Ends
<1>3. \/ UNCHANGED <<sess_list, exec, child>>
      \/ t \in Open /\ session_free(t)
      \/ t \in Open /\ cmd_exec(t, cmd) /\ UNCHANGED windows
      \/ /\ t \in Open /\ cmd_execk(t, cmd) /\ UNCHANGED windows
         /\ cmd.op \in {"execs", "execc", "execk"}
  <2>1. CASE t \notin Open
    BY <2>1 DEF handle_command, windows, children
  <2>2. CASE t \in Open /\ UNCHANGED <<windows, children>>
    BY <2>2 DEF windows, children
  <2>3. CASE t \in Open /\ Internal(cmd, t)
    <3>1. CASE cmd.op = "close"
      BY <2>3, <3>1 DEF Internal
    <3>2. CASE cmd.op = "exec"
      BY <2>3, <3>2 DEF Internal
    <3>3. CASE cmd.op \in {"execs", "execc", "execk"}
      BY <2>3, <3>3 DEF Internal
    <3>4. CASE cmd.op \notin {"close", "exec", "execs", "execc", "execk"}
      BY <2>3, <3>4 DEF Internal, windows, children
    <3> QED BY <3>1, <3>2, <3>3, <3>4
  <2> QED BY <2>1, <2>2, <2>3 DEF handle_command
<1> HIDE DEF t, cmd
<1>4. CASE UNCHANGED <<sess_list, exec, child>>
  BY <1>4 DEF Open, WindowsOK
<1>5. CASE t \in Open /\ session_free(t)
  BY <1>5, SessionFree
<1>6. Children(Open, exec, child, {})
  BY <1>2
<1>7. ASSUME UNCHANGED windows PROVE Open' = Open /\ WindowsOK'
  BY <1>7 DEF windows, Open, WindowsOK
<1>8. CASE t \in Open /\ cmd_exec(t, cmd) /\ UNCHANGED windows
  <2>1. Children(Open, exec', child', {})
    BY <1>6, <1>8, cmd_exec_Children
  <2> QED BY <1>2, <1>7, <1>8, <2>1
<1>9. CASE /\ t \in Open /\ cmd_execk(t, cmd) /\ UNCHANGED windows
           /\ cmd.op \in {"execs", "execc", "execk"}
  <2>1. Children(Open, exec', child', {})
    BY <1>6, <1>9, cmd_execk_Children
  <2> QED BY <1>2, <1>7, <1>9, <2>1
<1> QED BY <1>3, <1>4, <1>5, <1>8, <1>9

ChildInv == WindowsOK /\ Children(Open, exec, child, Ends(stack))

LEMMA TimerMarks ==
    ASSUME StackInv, stack # <<>>, Top.at \in Waiting
    PROVE  Below = <<>> /\ Marks(Below) = {} /\ Marks(stack) = {Top} /\ stack = <<Top>>
<1>1. stack = <<Top>> \o Below /\ IsSeq(Below) /\ Bottom(stack)
  BY TopAndBelow DEF StackInv
<1>2. Below = <<>>
  BY <1>1, PushBottom
<1>3. Marks(<<>>) = {}
  BY NoneSeq DEF Marks
<1>4. <<Top>> \o <<>> = <<Top>>
  BY SingleSeq
<1> QED BY <1>1, <1>2, <1>3, <1>4, PushMarks

\* Every step of the running function.
LEMMA Step_Inv ==
    ASSUME StackInv, ChildInv, Step
    PROVE  StackInv' /\ ChildInv'
<1>1. Moves /\ stack # <<>>
  BY StepMoves
<1>2. StackInv' /\ (Top.at \notin Waiting => Marks(stack)' = Marks(stack))
  BY <1>1, SizesAssumption, MovesKeep
<1>3. Top.at \notin Waiting => Ends(stack') = Ends(stack)
  BY <1>2 DEF Ends, Marks
<1>4. CASE exec_done
  BY <1>1, <1>2, <1>4, exec_done_Children DEF ChildInv, Open, Ends, Marks
<1>5. CASE timer_done
  <2>1. Top.at = "timer" /\ UNCHANGED <<sess_list, exec, child>> /\ stack' \in {stack, Below}
    BY <1>5 DEF timer_done, windows, children, Crash, Return
  <2>2. Top.at \in Waiting
    BY <2>1 DEF Waiting
  <2>3. Marks(Below) = {} /\ Marks(stack) = {Top}
    BY <1>1, <2>2, TimerMarks
  <2>4. Ends(stack) = {} /\ Ends(stack') = {}
    BY <2>1, <2>3 DEF Ends
  <2>5. Children(Open, exec, child, {}) /\ Open' = Open /\ WindowsOK'
    BY <2>1, <2>4 DEF ChildInv, Open, WindowsOK
  <2>6. ChildInv' = (WindowsOK' /\ Children(Open', exec', child', Ends(stack')))
    BY DEF ChildInv, Ends, Marks
  <2> QED BY <1>2, <2>1, <2>4, <2>5, <2>6
<1>6. ASSUME Top.at \notin Waiting,
             Children(Open', exec', child', Ends(stack)) /\ WindowsOK'
      PROVE  ChildInv'
  <2>1. ChildInv' = (WindowsOK' /\ Children(Open', exec', child', Ends(stack')))
    BY DEF ChildInv, Ends, Marks
  <2> QED BY <1>3, <1>6, <2>1
<1>7. CASE plugin_emit
  <2>1. Top.at \notin Waiting
    BY <1>7 DEF plugin_emit, Waiting
  <2> QED BY <1>2, <1>6, <1>7, <2>1, plugin_emit_Children DEF ChildInv
<1>8. CASE handle_command
  <2>1. Top.at \notin Waiting
    BY <1>8 DEF handle_command, Waiting
  <2> QED BY <1>1, <1>2, <1>6, <1>8, <2>1, handle_command_Children DEF ChildInv
<1>9. CASE handle_multiline \/ handle_say \/ p_message \/ user_command \/ cmd_allchannels \/ Done
  <2>1. Top.at \notin Waiting /\ UNCHANGED <<sess_list, exec, child>>
    BY <1>9 DEF handle_multiline, handle_say, p_message, user_command, cmd_allchannels, Done, Waiting,
                windows, children
  <2>2. Open' = Open /\ WindowsOK'
    BY <2>1 DEF ChildInv, Open, WindowsOK
  <2> QED BY <1>2, <1>6, <2>1, <2>2 DEF ChildInv
<1> QED BY <1>4, <1>5, <1>7, <1>8, <1>9 DEF Step

-----------------------------------------------------------------------------
(* The main loop, and the children                                         *)

LEMMA EmptyStack ==
    /\ Frames(<<>>) /\ Bottom(<<>>) /\ Quiet(<<>>) /\ Levels(<<>>) = {} /\ Marks(<<>>) = {}
    /\ Cardinality(Levels(<<>>)) = 0
<1>1. IsSeq(<<>>) /\ 1..Len(<<>>) = {}
  BY NoneSeq
<1>2. Levels(<<>>) = {} /\ Marks(<<>>) = {}
  BY <1>1 DEF Levels, Marks
<1> QED BY <1>1, <1>2, FS_EmptySet DEF Frames, Bottom, Quiet

\* A frame that is no command's goes on the empty stack, or on the end of a child's output.
LEMMA LoopFrame ==
    ASSUME NEW f, "at" \in DOMAIN f, f.at \notin Commanding
    PROVE  /\ Frames(<<f>>) /\ Bottom(<<f>>) /\ Cardinality(Levels(<<f>>)) = 0
           /\ Marks(<<f>>) = IF f.at \in Waiting THEN {f} ELSE {}
           /\ f.at \in Waiting \/ Talk(f) \/ f.at # "eof" => Quiet(<<f>>)
<1>1. <<f>> = <<f>> \o <<>>
  BY SingleSeq
<1>2. Frames(<<f>>) /\ Bottom(<<f>>) /\ Cardinality(Levels(<<f>>)) = 0
  <2>1. Frames(<<f>> \o <<>>)
    BY EmptyStack, PushFrame
  <2>2. Bottom(<<f>> \o <<>>)
    BY EmptyStack, NoneSeq, PushBottom
  <2>3. Cardinality(Levels(<<f>> \o <<>>)) = 0
    <3>1. Cardinality(Levels(<<f>> \o <<>>)) = Cardinality(Levels(<<>>)) + (IF f.at \in Commanding THEN 1 ELSE 0)
      BY NoneSeq, PushLevels
    <3>2. Cardinality(Levels(<<>>)) = 0
      BY EmptyStack
    <3> QED BY <3>1, <3>2
  <2> QED BY <1>1, <2>1, <2>2, <2>3
<1>3. Marks(<<f>>) = IF f.at \in Waiting THEN {f} ELSE {}
  BY <1>1, EmptyStack, NoneSeq, PushMarks
<1>4. Quiet(<<f>>)
  <2>1. CASE f.at \in Waiting
    <3>1. 1..Len(<<f>>) = {1} /\ <<f>>[1] = f
      OBVIOUS
    <3> QED BY <2>1, <3>1 DEF Quiet
  <2>2. CASE f.at \notin Waiting
    BY <1>3, <2>2 DEF Quiet
  <2> QED BY <2>1, <2>2
<1> QED BY <1>2, <1>3, <1>4

LEMMA TypedTalk ==
    ASSUME NEW S, NEW lines \in Seq(Seq(S)), NEW t
    PROVE  Talk([at |-> "lines", tab |-> t, rest |-> Typed(lines)]) /\ Len(Typed(lines)) = Len(lines)
<1> DEFINE r == Typed(lines)
           T == {r[i] : i \in 1..Len(lines)}
           n == Len(lines)
<1>1. n \in Nat /\ r = [i \in 1..n |-> [op |-> "text", text |-> lines[i]]]
  BY DEF Typed
<1>2. r \in [1..n -> T]
  BY <1>1
<1>3. r \in Seq(T) /\ Len(r) = n
  <2> HIDE DEF n, r, T
  <2> QED BY <1>1, <1>2
<1>6. Len(Typed(lines)) = Len(lines)
  BY <1>3
<1>4. \A i \in 1..Len(r) : r[i].op = "text"
  <2> HIDE DEF n
  <2> QED BY <1>1, <1>3
<1> HIDE DEF r, T
<1>5. IsSeq(r)
  BY <1>3 DEF IsSeq
<1> QED BY <1>4, <1>5, <1>6 DEF Talk, r

\* What the main loop finds when it is running.
LEMMA IdleStack ==
    ASSUME StackInv, Idle
    PROVE  stack = <<>> /\ command_level = 0 /\ Marks(stack) = {} /\ Ends(stack) = {}
<1>1. stack = <<>>
  BY DEF Idle
<1> QED BY <1>1, EmptyStack DEF StackInv, Ends

\* The stack that is entered with one frame, which no command is.
LEMMA Enters_Inv ==
    ASSUME StackInv, Idle, command_level' = command_level,
           NEW f, "at" \in DOMAIN f, f.at \notin Commanding, stack' = <<f>>
    PROVE  StackInv' /\ Marks(stack') = IF f.at \in Waiting THEN {f} ELSE {}
<1>1. /\ Frames(stack') /\ Bottom(stack') /\ Quiet(stack') /\ Cardinality(Levels(stack')) = 0
      /\ Marks(stack') = IF f.at \in Waiting THEN {f} ELSE {}
  BY LoopFrame DEF Waiting
<1>2. command_level' = 0 /\ command_level' <= Limit + 1
  BY IdleStack, SizesAssumption
<1>3. StackInv' = ( /\ Frames(stack') /\ Bottom(stack') /\ Quiet(stack')
                    /\ command_level' = Cardinality(Levels(stack')) /\ command_level' <= Limit + 1 )
  BY DEF StackInv, Frames, Bottom, Quiet, Levels, Marks
<1> QED BY <1>1, <1>2, <1>3

LEMMA ChildInvNext ==
    ChildInv' = (WindowsOK' /\ Children(Open', exec', child', Ends(stack')))
BY DEF ChildInv, Ends, Marks

LEMMA Type_Inv ==
    ASSUME StackInv, ChildInv, Type
    PROVE  StackInv' /\ ChildInv' /\ Marks(stack') = {}
<1>1. Idle /\ command_level' = command_level /\ UNCHANGED <<sess_list, exec, child>>
  BY DEF Type, windows, children
<1>2. PICK t : stack' = <<[at |-> "lines", tab |-> t, rest |-> Head(left.script)]>>
  BY DEF Type
<1>3. StackInv' /\ Marks(stack') = {}
  <2> DEFINE f == [at |-> "lines", tab |-> t, rest |-> Head(left.script)]
  <2>1. "at" \in DOMAIN f /\ f.at \notin Commanding /\ f.at \notin Waiting /\ stack' = <<f>>
    BY <1>2 DEF Commanding, Waiting
  <2> HIDE DEF f
  <2> QED BY <1>1, <2>1, Enters_Inv
<1>4. Ends(stack) = {} /\ Ends(stack') = {}
  BY <1>1, <1>3, IdleStack DEF Ends
<1>5. Open' = Open /\ WindowsOK'
  BY <1>1 DEF ChildInv, Open, WindowsOK
<1> QED BY <1>1, <1>3, <1>4, <1>5, ChildInvNext DEF ChildInv

LEMMA exec_data_Inv ==
    ASSUME StackInv, ChildInv, NEW t \in Open, exec_data(t)
    PROVE  StackInv' /\ ChildInv' /\ Marks(stack') = {}
<1>1. Idle /\ command_level' = command_level /\ UNCHANGED sess_list
  BY DEF exec_data, windows
<1>2. Children(Open, exec, child, {}) /\ Ends(stack) = {}
  BY <1>1, IdleStack DEF ChildInv
<1>3. PICK lines \in Seq(Seq(Chars)) :
        stack' \in {<<>>, <<[at |-> "lines", tab |-> t, rest |-> Typed(lines)]>>}
  BY <1>2, exec_data_Children
<1>4. StackInv' /\ Marks(stack') = {}
  <2>1. CASE stack' = <<>>
    <3>1. command_level' = 0
      BY <1>1, IdleStack
    <3>2. StackInv' = ( /\ Frames(stack') /\ Bottom(stack') /\ Quiet(stack')
                        /\ command_level' = Cardinality(Levels(stack')) /\ command_level' <= Limit + 1 )
      BY DEF StackInv, Frames, Bottom, Quiet, Levels, Marks
    <3> QED BY <2>1, <3>1, <3>2, EmptyStack, SizesAssumption
  <2>2. CASE stack' = <<[at |-> "lines", tab |-> t, rest |-> Typed(lines)]>>
    <3> DEFINE f == [at |-> "lines", tab |-> t, rest |-> Typed(lines)]
    <3>1. "at" \in DOMAIN f /\ f.at \notin Commanding /\ f.at \notin Waiting /\ stack' = <<f>>
      BY <2>2 DEF Commanding, Waiting
    <3> HIDE DEF f
    <3> QED BY <1>1, <3>1, Enters_Inv
  <2> QED BY <1>3, <2>1, <2>2
<1>5. Ends(stack') = {}
  BY <1>4 DEF Ends
<1>6. Open' = Open /\ WindowsOK'
  BY <1>1 DEF ChildInv, Open, WindowsOK
<1>7. Children(Open, exec', child', {})
  BY <1>2, exec_data_Children
<1> QED BY <1>4, <1>5, <1>6, <1>7, ChildInvNext

LEMMA exec_eof_Inv ==
    ASSUME StackInv, ChildInv, NEW t \in Open, exec_eof(t)
    PROVE  /\ StackInv' /\ ChildInv'
           /\ Marks(stack') = {[at |-> "eof", tab |-> t, pid |-> exec[t].pid]}
<1> DEFINE m == [at |-> "eof", tab |-> t, pid |-> exec[t].pid]
           lines == LinesOf(exec[t].linebuf)
           f == [at |-> "lines", tab |-> t, rest |-> Typed(lines)]
<1>1. Idle /\ command_level' = command_level /\ UNCHANGED sess_list
  BY DEF exec_eof, windows
<1>2. Children(Open, exec, child, {}) /\ Ends(stack) = {}
  BY <1>1, IdleStack DEF ChildInv
<1>3. Children(Open, exec', child', {m}) /\ lines \in Seq(Seq(Chars))
  <2>1. m = [at |-> "eof", tab |-> t, pid |-> exec[t].pid]
    OBVIOUS
  <2> HIDE DEF m
  <2> QED BY <1>2, <2>1, exec_eof_Children
<1>4. stack' = <<f>> \o <<m>> \/ stack' = <<>> \o <<m>>
  BY DEF exec_eof
<1>5. "at" \in DOMAIN m /\ m.at = "eof" /\ m.at \in Waiting /\ m.at \notin Commanding
  BY DEF Waiting, Commanding
<1>6. Talk(f) /\ "at" \in DOMAIN f /\ f.at \notin Commanding /\ f.at \notin Waiting
  BY <1>3, TypedTalk DEF Commanding, Waiting
<1>7. /\ Frames(<<m>>) /\ Bottom(<<m>>) /\ Cardinality(Levels(<<m>>)) = 0 /\ Marks(<<m>>) = {m}
      /\ Quiet(<<m>>)
  <2> HIDE DEF m
  <2> QED BY <1>5, LoopFrame
<1>8. <<>> \o <<m>> = <<m>>
  OBVIOUS
<1> HIDE DEF m, f, lines
<1>9. /\ Frames(stack') /\ Bottom(stack') /\ Quiet(stack')
      /\ Cardinality(Levels(stack')) = 0 /\ Marks(stack') = {m}
  <2>1. CASE stack' = <<m>>
    BY <1>7, <2>1
  <2>2. CASE stack' = <<f>> \o <<m>>
    <3>1. IsSeq(<<m>>)
      BY <1>7 DEF Frames
    <3>2. Frames(<<f>> \o <<m>>)
      BY <1>6, <1>7, PushFrame
    <3>3. Bottom(<<f>> \o <<m>>)
      BY <1>6, <1>7, <3>1, PushBottom
    <3>4. Cardinality(Levels(<<f>> \o <<m>>)) = 0
      BY <1>6, <1>7, <3>1, PushLevels
    <3>5. Marks(<<f>> \o <<m>>) = {m}
      BY <1>6, <1>7, <3>1, PushMarks
    <3>6. Quiet(<<f>> \o <<m>>)
      BY <1>6, <1>7, <3>1, PushQuiet
    <3> QED BY <2>2, <3>2, <3>3, <3>4, <3>5, <3>6
  <2> QED BY <1>4, <1>8, <2>1, <2>2
<1>10. command_level' = 0 /\ command_level' <= Limit + 1
  BY <1>1, IdleStack, SizesAssumption
<1>11. StackInv' = ( /\ Frames(stack') /\ Bottom(stack') /\ Quiet(stack')
                     /\ command_level' = Cardinality(Levels(stack')) /\ command_level' <= Limit + 1 )
  BY DEF StackInv, Frames, Bottom, Quiet, Levels, Marks
<1>12. Ends(stack') = {m}
  BY <1>5, <1>9 DEF Ends
<1>13. Open' = Open /\ WindowsOK'
  BY <1>1 DEF ChildInv, Open, WindowsOK
<1> QED BY <1>3, <1>9, <1>10, <1>11, <1>12, <1>13, ChildInvNext DEF m

LEMMA timeout_cb_Inv ==
    ASSUME StackInv, ChildInv, NEW i, timeout_cb(i)
    PROVE  StackInv' /\ ChildInv'
           /\ \/ Marks(stack') = {} /\ timers[i].tab \notin Open
              \/ Marks(stack') = {[at |-> "timer", id |-> timers[i].id]} /\ timers[i].tab \in Open
<1> DEFINE m == [at |-> "timer", id |-> timers[i].id]
           f == [at |-> "command", tab |-> timers[i].tab, cmd |-> timers[i].cmd]
<1>1. Idle /\ UNCHANGED <<sess_list, exec, child>>
  BY DEF timeout_cb, windows, children
<1>2. /\ stack = <<>> /\ command_level = 0 /\ Marks(stack) = {} /\ Ends(stack) = {}
  BY <1>1, IdleStack
<1>3. Limit \in Nat /\ ~(0 > Limit)
  BY SizesAssumption
<1>4. CASE timers[i].tab \notin Open
  <2>1. stack' = stack /\ command_level' = command_level
    BY <1>4 DEF timeout_cb, depth
  <2>2. StackInv'
    BY <2>1 DEF StackInv, Frames, Bottom, Quiet, Levels, Marks
  <2>3. Open' = Open /\ WindowsOK'
    BY <1>1 DEF ChildInv, Open, WindowsOK
  <2> QED BY <1>1, <1>2, <1>4, <2>1, <2>2, <2>3, ChildInvNext DEF ChildInv
<1>5. CASE timers[i].tab \in Open
  <2>1. stack' = <<f>> \o <<m>> /\ command_level' = command_level + 1
    BY <1>2, <1>3, <1>5 DEF timeout_cb, Enter
  <2>2. "at" \in DOMAIN m /\ m.at = "timer" /\ m.at \in Waiting /\ m.at \notin Commanding
    BY DEF Waiting, Commanding
  <2>3. "at" \in DOMAIN f /\ f.at \in Commanding /\ f.at \notin Waiting /\ f.at # "eof"
    BY DEF Waiting, Commanding
  <2>4. m = [at |-> "timer", id |-> timers[i].id]
    OBVIOUS
  <2> HIDE DEF m, f
  <2>5. /\ Frames(<<m>>) /\ Bottom(<<m>>) /\ Cardinality(Levels(<<m>>)) = 0 /\ Marks(<<m>>) = {m}
        /\ Quiet(<<m>>)
    BY <2>2, LoopFrame
  <2>6. IsSeq(<<m>>)
    BY <2>5 DEF Frames
  <2>7. /\ Frames(stack') /\ Bottom(stack') /\ Cardinality(Levels(stack')) = 1 /\ Marks(stack') = {m}
    <3>1. Frames(<<f>> \o <<m>>)
      BY <2>3, <2>5, PushFrame
    <3>2. Bottom(<<f>> \o <<m>>)
      BY <2>3, <2>5, <2>6, PushBottom
    <3>3. Cardinality(Levels(<<f>> \o <<m>>)) = 1
      BY <2>3, <2>5, <2>6, PushLevels
    <3>4. Marks(<<f>> \o <<m>>) = {m}
      BY <2>3, <2>5, <2>6, PushMarks
    <3> QED BY <2>1, <3>1, <3>2, <3>3, <3>4
  <2>8. Quiet(stack')
    BY <2>2, <2>7 DEF Quiet
  <2>9. command_level' = 1 /\ command_level' <= Limit + 1
    BY <1>2, <1>3, <2>1
  <2>10. StackInv' = ( /\ Frames(stack') /\ Bottom(stack') /\ Quiet(stack')
                       /\ command_level' = Cardinality(Levels(stack')) /\ command_level' <= Limit + 1 )
    BY DEF StackInv, Frames, Bottom, Quiet, Levels, Marks
  <2>11. Ends(stack') = {}
    BY <2>2, <2>7 DEF Ends
  <2>12. Open' = Open /\ WindowsOK'
    BY <1>1 DEF ChildInv, Open, WindowsOK
  <2> QED BY <1>1, <1>2, <1>5, <2>4, <2>7, <2>8, <2>9, <2>10, <2>11, <2>12, ChildInvNext DEF ChildInv
<1> QED BY <1>4, <1>5

LEMMA Child_Inv ==
    ASSUME StackInv, ChildInv, Child
    PROVE  StackInv' /\ ChildInv'
<1>1. PICK p \in DOMAIN child : ChildWrites(p) \/ ChildEnds(p)
  BY DEF Child
<1>2. UNCHANGED <<sess_list, stack, command_level>>
  BY <1>1 DEF ChildWrites, ChildEnds, windows, depth
<1>3. StackInv' /\ Open' = Open /\ WindowsOK' /\ Ends(stack') = Ends(stack)
  BY <1>2 DEF StackInv, Frames, Bottom, Quiet, Levels, Marks, ChildInv, Open, WindowsOK
<1>4. Children(Open, exec', child', Ends(stack))
  BY <1>1, ChildWrites_Children, ChildEnds_Children DEF ChildInv
<1> QED BY <1>3, <1>4, ChildInvNext

LEMMA Stutter_Inv ==
    ASSUME StackInv, ChildInv, UNCHANGED vars
    PROVE  StackInv' /\ ChildInv'
BY ChildInvNext DEF vars, windows, depth, children, StackInv, Frames, Bottom, Quiet, Levels, Marks,
   ChildInv, Open, WindowsOK

LEMMA Init_Inv == Init => StackInv /\ ChildInv
<1> SUFFICES ASSUME Init PROVE StackInv /\ ChildInv
  OBVIOUS
<1>1. stack = <<>> /\ command_level = 0 /\ child = <<>> /\ sess_list = Tabs
      /\ exec = [t \in ToSet(Tabs) |-> NoChild]
  BY DEF Init
<1>2. StackInv
  BY <1>1, EmptyStack, SizesAssumption DEF StackInv
<1>3. WindowsOK /\ Open = ToSet(Tabs) /\ Ends(stack) = {}
  BY <1>1, TabsAssumption, EmptyStack DEF WindowsOK, Open, Ends
<1>4. 1..Len(child) = {} /\ child \in Seq(ChildRec) /\ Len(child) = 0
  BY <1>1
<1>5. NoChild.pid = 0 /\ "pid" \in DOMAIN NoChild /\ "linebuf" \in DOMAIN NoChild /\ NoChild.linebuf \in Seq(Chars)
  BY DEF NoChild
<1>6. Children(Open, exec, child, Ends(stack))
  <2>1. Owners(Open, exec, child)
    BY <1>1, <1>3, <1>4, <1>5 DEF Owners
  <2>2. Owned(Open, exec, child, Ends(stack)) /\ Ending(exec, child, Ends(stack))
    BY <1>3, <1>4 DEF Owned, Ending
  <2>3. Lines(exec, child)
    BY <1>1, <1>4, <1>5 DEF Lines
  <2> QED BY <2>1, <2>2, <2>3 DEF Children
<1> QED BY <1>2, <1>3, <1>6 DEF ChildInv

\* The stack and the children, whatever steps the program takes.
THEOREM StackAndChildren == Spec => [](StackInv /\ ChildInv)
<1>1. StackInv /\ ChildInv /\ [Next]_vars => StackInv' /\ ChildInv'
  <2> SUFFICES ASSUME StackInv, ChildInv, [Next]_vars PROVE StackInv' /\ ChildInv'
    OBVIOUS
  <2>1. CASE Step
    BY <2>1, Step_Inv
  <2>2. CASE MainLoop
    BY <2>2, Type_Inv, exec_data_Inv, exec_eof_Inv, timeout_cb_Inv DEF MainLoop
  <2>3. CASE Child
    BY <2>3, Child_Inv
  <2>4. CASE UNCHANGED vars
    BY <2>4, Stutter_Inv
  <2> QED BY <2>1, <2>2, <2>3, <2>4 DEF Next
<1> QED BY <1>1, Init_Inv, PTL DEF Spec

\* However commands call commands or close the windows of those that wait for them,
\* command_level counts the handle_command that are running (outbound.cpp:4131).
THEOREM LevelIsKept == Spec => []LevelKept
<1>1. StackInv => LevelKept
  <2> SUFFICES ASSUME StackInv PROVE LevelKept
    OBVIOUS
  <2>1. DOMAIN stack = 1..Len(stack)
    BY DEF StackInv, Frames, IsSeq
  <2> QED BY <2>1 DEF LevelKept, StackInv, Levels, Commanding
<1> QED BY <1>1, StackAndChildren, PTL

\* The children of /exec are watched as long as, and no longer than, an open window has them,
\* whatever ends first: the child, its output or its window.
THEOREM ChildrenAreOwned == Spec => []ChildrenOwned
<1>1. ChildInv => ChildrenOwned
  <2> SUFFICES ASSUME ChildInv, NEW p \in DOMAIN child
               PROVE  /\ child[p].watched <=> \E t \in Open : exec[t].pid = p
                      /\ child[p].alive => child[p].watched
    BY DEF ChildrenOwned
  <2>1. child \in Seq(ChildRec) /\ p \in 1..Len(child) /\ child[p] \in ChildRec /\ p # 0
    BY DEF ChildInv, Children, Owners
  <2>2. child[p].watched \in BOOLEAN /\ child[p].alive \in BOOLEAN
    BY <2>1 DEF ChildRec
  <2>3. /\ child[p].watched = TRUE => \E t \in Open : exec[t].pid = p
        /\ child[p].alive = TRUE => child[p].watched = TRUE
    BY <2>1 DEF ChildInv, Children, Owned
  <2>4. (\E t \in Open : exec[t].pid = p) => child[p].watched = TRUE
    BY <2>1 DEF ChildInv, Children, Owners
  <2> QED BY <2>2, <2>3, <2>4
<1> QED BY <1>1, StackAndChildren, PTL

\* However a child's output is cut into reads, what is shown of it is whole lines, in order and once.
THEOREM LinesAreWhole == Spec => []LinesWhole
<1>1. ChildInv => LinesWhole
  <2> SUFFICES ASSUME ChildInv, NEW p \in DOMAIN child
               PROVE  /\ IsPrefix(child[p].shown, LinesOf(child[p].wrote))
                      /\ child[p].eof => child[p].shown = LinesOf(child[p].wrote)
    BY DEF LinesWhole
  <2>1. p \in 1..Len(child) /\ child[p] \in ChildRec
    BY DEF ChildInv, Children, Owners
  <2>2. Whole(child[p]) /\ child[p].eof \in BOOLEAN
    BY <2>1 DEF ChildInv, Children, Lines, ChildRec
  <2> QED BY <2>2 DEF Whole
<1> QED BY <1>1, StackAndChildren, PTL

-----------------------------------------------------------------------------
(* Texts, and the messages they are cut into                               *)

\* The characters that are typed, called for, or written by a child.
Letters == Chars \cup UNION {ToSet(c.text) : c \in {c \in Cmds : c.op \in {"say", "text"}}}
Words == Seq(Letters)

LEMMA TextOfCommand ==
    ASSUME NEW c \in Cmds, c.op \in {"say", "text"}
    PROVE  c.text \in Words
<1>1. c.text \in Seq(ToSet(c.text)) /\ ToSet(c.text) \subseteq Letters
  BY CmdsAssumption DEF Letters
<1> QED BY <1>1 DEF Words

\* g is the table from which Size(text) is read.
Sizes(text, g) ==
    g = [i \in 0..Len(text) |-> IF i = 0 THEN 0 ELSE g[i-1] + (IF text[i] \in Wide THEN 2 ELSE 1)]

LEMMA SizesExist ==
    ASSUME NEW text, Len(text) \in Nat
    PROVE  \E g : Sizes(text, g)
<1> DEFINE Upto(n, g) ==
              g = [i \in 0..n |-> IF i = 0 THEN 0 ELSE g[i-1] + (IF text[i] \in Wide THEN 2 ELSE 1)]
           T == {n \in Nat : \E g : Upto(n, g)}
<1>1. 0 \in T
  <2>1. Upto(0, [i \in 0..0 |-> 0])
    OBVIOUS
  <2> QED BY <2>1
<1>2. ASSUME NEW n \in Nat, n \in T PROVE n + 1 \in T
  <2>1. PICK g : Upto(n, g)
    BY <1>2
  <2> DEFINE h == [i \in 0..(n+1) |->
                     IF i <= n THEN g[i] ELSE g[i-1] + (IF text[i] \in Wide THEN 2 ELSE 1)]
  <2>2. \A i \in 0..n : g[i] = IF i = 0 THEN 0 ELSE g[i-1] + (IF text[i] \in Wide THEN 2 ELSE 1)
    BY <2>1
  <2>3. ASSUME NEW i \in 0..(n+1)
        PROVE  h[i] = IF i = 0 THEN 0 ELSE h[i-1] + (IF text[i] \in Wide THEN 2 ELSE 1)
    <3>1. i # 0 => i - 1 \in 0..(n+1) /\ i - 1 <= n /\ h[i-1] = g[i-1]
      OBVIOUS
    <3>2. CASE i <= n
      <4>1. h[i] = g[i] /\ i \in 0..n
        BY <3>2
      <4> HIDE DEF h
      <4> QED BY <2>2, <3>1, <4>1
    <3>3. CASE ~(i <= n)
      <4>1. h[i] = g[i-1] + (IF text[i] \in Wide THEN 2 ELSE 1) /\ i # 0
        BY <3>3
      <4> HIDE DEF h
      <4> QED BY <3>1, <4>1
    <3> QED BY <3>2, <3>3
  <2>4. Upto(n+1, h)
    <3>1. h = [i \in 0..(n+1) |-> h[i]]
      OBVIOUS
    <3> HIDE DEF h
    <3> QED BY <2>3, <3>1
  <2>5. \E f : Upto(n+1, f)
    <3> HIDE DEF h, Upto
    <3> QED BY <2>4
  <2> HIDE DEF Upto
  <2> QED BY <2>5
<1> HIDE DEF T
<1>3. Len(text) \in T
  BY <1>1, <1>2, NatInduct
<1> QED BY <1>3 DEF T, Sizes

\* The size of a text is a number, and that of no text none.
LEMMA SizeIsNat ==
    ASSUME NEW text, Len(text) \in Nat
    PROVE  Size(text) \in Nat /\ (Len(text) = 0 => Size(text) = 0)
<1> DEFINE g == CHOOSE g : Sizes(text, g)
           T == {n \in Nat : n <= Len(text) => g[n] \in Nat}
<1>1. Sizes(text, g)
  BY SizesExist
<1>2. Size(text) = g[Len(text)]
  BY DEF Size, Sizes
<1> HIDE DEF g
<1>3. \A i \in 0..Len(text) : g[i] = IF i = 0 THEN 0 ELSE g[i-1] + (IF text[i] \in Wide THEN 2 ELSE 1)
  BY <1>1 DEF Sizes
<1>4. g[0] = 0
  <2>1. 0 \in 0..Len(text)
    OBVIOUS
  <2> QED BY <1>3, <2>1
<1>5. 0 \in T
  BY <1>4
<1>6. ASSUME NEW n \in Nat, n \in T PROVE n + 1 \in T
  <2>1. SUFFICES ASSUME n + 1 <= Len(text) PROVE g[n+1] \in Nat
    OBVIOUS
  <2>2. n + 1 \in 0..Len(text) /\ n + 1 # 0 /\ (n + 1) - 1 = n /\ g[n] \in Nat
    BY <1>6, <2>1
  <2>3. g[n+1] = g[n] + (IF text[n+1] \in Wide THEN 2 ELSE 1)
    BY <1>3, <2>2
  <2> QED BY <2>2, <2>3
<1> HIDE DEF T
<1>7. Len(text) \in T
  BY <1>5, <1>6, NatInduct
<1>8. g[Len(text)] \in Nat
  BY <1>7 DEF T
<1> QED BY <1>2, <1>4, <1>8

\* A part of a text goes into the next message, and that much fits.
LEMMA CutFits ==
    ASSUME NEW S, NEW text \in Seq(S)
    PROVE  /\ Cut(text) \in 0..Len(text)
           /\ Size(SubSeq(text, 1, Cut(text))) <= MaxText
<1> DEFINE n == Len(text)
           Fits(m) == /\ Size(SubSeq(text, 1, m)) < MaxText
                      /\ Size(SubSeq(text, 1, m + 1)) >= MaxText
           T == {m \in Nat : m <= n /\ Size(SubSeq(text, 1, m)) >= MaxText}
<1>1. n \in Nat /\ SubSeq(text, 1, n) = text /\ SubSeq(text, 1, 0) = <<>> /\ Len(<<>>) = 0
  OBVIOUS
<1>2. Size(SubSeq(text, 1, n)) = Size(text) /\ n \in 0..n
  <2>1. n \in 0..n
    BY <1>1
  <2>2. SubSeq(text, 1, n) = text
    BY <1>1
  <2> HIDE DEF n
  <2> QED BY <2>1, <2>2, Zenon
<1>3. \A m \in 0..n : Size(SubSeq(text, 1, m)) \in Nat
  <2>1. \A m \in 0..n : Len(SubSeq(text, 1, m)) \in Nat
    BY SubSeqProperties
  <2> HIDE DEF n
  <2> QED BY <2>1, SizeIsNat
<1>4. MaxText \in Nat /\ MaxText > 2
  BY SizesAssumption
<1>5. Size(SubSeq(text, 1, 0)) = 0
  BY <1>1, SizeIsNat
<1>6. CASE Size(text) <= MaxText
  <2>1. Cut(text) = n
    BY <1>6 DEF Cut
  <2> HIDE DEF n
  <2>3. Cut(text) \in 0..n /\ Size(SubSeq(text, 1, Cut(text))) <= MaxText
    BY <1>6, <1>2, <2>1
  <2> QED BY <2>3 DEF n
<1>7. CASE ~(Size(text) <= MaxText)
  <2>1. n \in T
    <3>1. Size(text) \in Nat
      BY <1>1, SizeIsNat
    <3> HIDE DEF n
    <3>2. Size(SubSeq(text, 1, n)) = Size(text) /\ Size(text) >= MaxText
      BY <1>4, <1>7, <1>2, <3>1
    <3> QED BY <1>1, <3>2
  <2>2. PICK x \in T : \A y \in T : ~(y < x)
    <3>1. T \subseteq Nat /\ T # {}
      BY <2>1
    <3> HIDE DEF T
    <3> QED BY <3>1, NatMin
  <2>3. x \in Nat /\ x <= n /\ Size(SubSeq(text, 1, x)) >= MaxText
    OBVIOUS
  <2>4. x # 0
    BY <1>4, <1>5, <2>3
  <2>5. x - 1 \in 0..n /\ (x - 1) + 1 = x /\ x - 1 < x
    BY <1>1, <2>3, <2>4
  <2>6. x - 1 \notin T
    BY <2>2, <2>5
  <2>7. Size(SubSeq(text, 1, x - 1)) < MaxText
    <3>1. Size(SubSeq(text, 1, x - 1)) \in Nat
      BY <1>3, <2>5
    <3>2. ~(Size(SubSeq(text, 1, x - 1)) >= MaxText)
      BY <2>5, <2>6
    <3> QED BY <1>4, <3>1, <3>2
  <2>8. Fits(x - 1)
    BY <2>3, <2>5, <2>7
  <2>9. Cut(text) = CHOOSE m \in 0..n : Fits(m)
    BY <1>7 DEF Cut
  <2> HIDE DEF Fits
  <2>10. Cut(text) \in 0..n /\ Fits(Cut(text))
    BY <2>5, <2>8, <2>9
  <2>11. Size(SubSeq(text, 1, Cut(text))) < MaxText
    BY <2>10 DEF Fits
  <2>12. Size(SubSeq(text, 1, Cut(text))) \in Nat
    BY <1>3, <2>10
  <2> QED BY <1>4, <2>10, <2>11, <2>12
<1> QED BY <1>6, <1>7

\* What is sent of a text and what is left of it are the text.
LEMMA RestFollows ==
    ASSUME NEW S, NEW text \in Seq(S)
    PROVE  /\ SubSeq(text, 1, Cut(text)) \in Seq(S) /\ Rest(text) \in Seq(S)
           /\ SubSeq(text, 1, Cut(text)) \o Rest(text) = text
<1> DEFINE n == Len(text)
           k == Cut(text)
           a == SubSeq(text, 1, k)
           b == SubSeq(text, k + 1, n)
<1>1. n \in Nat /\ k \in 0..n
  BY CutFits
<1>2. Rest(text) = b
  BY DEF Rest
<1> HIDE DEF k
<1>3. /\ a \in Seq(S) /\ Len(a) = k /\ \A i \in 1..k : a[i] = text[i]
      /\ b \in Seq(S) /\ Len(b) = n - k /\ \A i \in 1..(n - k) : b[i] = text[k + i]
  BY <1>1, SubSeqProperties
<1> HIDE DEF a, b
<1>4. /\ a \o b \in Seq(S) /\ Len(a \o b) = n
      /\ \A i \in 1..n : (a \o b)[i] = IF i <= k THEN a[i] ELSE b[i - k]
  <2>1. Len(a) + Len(b) = n
    BY <1>1, <1>3
  <2> QED BY <1>3, <2>1, ConcatProperties
<1>5. \A i \in 1..n : (a \o b)[i] = text[i]
  <2> TAKE i \in 1..n
  <2>1. CASE i <= k
    BY <1>1, <1>3, <1>4, <2>1
  <2>2. CASE ~(i <= k)
    <3>1. i - k \in 1..(n - k) /\ k + (i - k) = i
      BY <1>1, <2>2
    <3>2. b[i - k] = text[k + (i - k)]
      BY <1>3, <3>1
    <3> QED BY <1>4, <2>2, <3>1, <3>2
  <2> QED BY <2>1, <2>2
<1>6. a \o b = text
  BY <1>4, <1>5, SeqEqual
<1> QED BY <1>2, <1>3, <1>6 DEF a, k

-----------------------------------------------------------------------------
(* What the frames hold, and the timers                                    *)

\* The frames of handle_say.
Saying == {"say", "take", "printed", "send"}

Says(f) == {"tab", "text", "first"} \subseteq DOMAIN f /\ f.text \in Words /\ f.first \in BOOLEAN
\* What may be typed: a text, or a command.
Spoken(line) == line \in Cmds \/ (line.op = "text" /\ line.text \in Words)

LEMMA SpokenText ==
    ASSUME NEW line, Spoken(line), line.op = "text"
    PROVE  line.text \in Words
BY TextOfCommand DEF Spoken

\* What the frames on the stack hold of commands and texts.
Holds(f) ==
    /\ f.at \in {"command", "run", "usercmds"} => "cmd" \in DOMAIN f /\ f.cmd \in Cmds
    /\ f.at = "usercmds" => "i" \in DOMAIN f /\ f.i \in Nat \ {0}
    /\ f.at = "all" => "body" \in DOMAIN f /\ f.body \in Cmds
    /\ f.at = "lines" => /\ "rest" \in DOMAIN f /\ IsSeq(f.rest)
                         /\ \A i \in 1..Len(f.rest) : Spoken(f.rest[i])
    /\ f.at \in Saying => Says(f)
Held(s) == \A i \in 1..Len(s) : Holds(s[i])

LEMMA PushHeld ==
    ASSUME NEW f, NEW s, IsSeq(s)
    PROVE  Held(<<f>> \o s) <=> Holds(f) /\ Held(s)
<1> DEFINE t == <<f>> \o s
<1>1. /\ Len(s) \in Nat /\ Len(t) = Len(s) + 1 /\ t[1] = f
      /\ \A i \in 1..Len(s) : t[i+1] = s[i]
  BY InFront
<1>2. \A i \in 1..Len(t) : i = 1 \/ (i - 1 \in 1..Len(s) /\ t[i] = s[i-1])
  BY <1>1
<1>3. \A i \in 1..Len(s) : i + 1 \in 1..Len(t)
  BY <1>1
<1>4. 1 \in 1..Len(t)
  BY <1>1
<1> HIDE DEF t
<1>5. Held(t) => Holds(f) /\ Held(s)
  BY <1>1, <1>3, <1>4 DEF Held
<1>6. Holds(f) /\ Held(s) => Held(t)
  BY <1>1, <1>2 DEF Held
<1> QED BY <1>5, <1>6 DEF t

LEMMA HeldTop ==
    ASSUME Frames(stack), Held(stack), stack # <<>>
    PROVE  /\ Holds(Top) /\ Held(Below) /\ IsSeq(Below) /\ "at" \in DOMAIN Top
           /\ Below # <<>> => Held(Tail(Below))
<1>1. stack = <<Top>> \o Below /\ IsSeq(Below) /\ "at" \in DOMAIN Top
  BY TopAndBelow
<1>2. Holds(Top) /\ Held(Below)
  BY <1>1, PushHeld
<1>3. ASSUME Below # <<>> PROVE Held(Tail(Below))
  <2>1. Below = <<Head(Below)>> \o Tail(Below) /\ IsSeq(Tail(Below))
    BY <1>1, <1>3, HeadAndTail
  <2> QED BY <1>2, <2>1, PushHeld
<1> QED BY <1>1, <1>2, <1>3

\* What is entered or returned to holds commands if the frames do.
LEMMA HeldOn ==
    ASSUME Frames(stack), Held(stack), stack # <<>>,
           NEW g, Holds(g),
           \/ Goto(<<g>> \o Below)
           \/ \E f : Holds(f) /\ Goto(<<f>> \o (<<g>> \o Below))
           \/ \E tab : \E cmd \in Cmds : Enter(tab, cmd, <<g>> \o Below)
    PROVE  Held(stack')
<1>1. Held(Below) /\ IsSeq(Below)
  BY HeldTop
<1>2. Held(<<g>> \o Below) /\ IsSeq(<<g>> \o Below)
  BY <1>1, PushHeld, InFront
<1>3. \A f : Holds(f) => Held(<<f>> \o (<<g>> \o Below))
  BY <1>2, PushHeld
<1>4. CASE \E tab : \E cmd \in Cmds : Enter(tab, cmd, <<g>> \o Below)
  <2>0. PICK tab : \E cmd \in Cmds : Enter(tab, cmd, <<g>> \o Below)
    BY <1>4
  <2>1. PICK cmd \in Cmds : Enter(tab, cmd, <<g>> \o Below)
    BY <2>0
  <2> DEFINE f == [at |-> "command", tab |-> tab, cmd |-> cmd]
  <2>2. Holds(f)
    <3>1. f.at = "command" /\ "cmd" \in DOMAIN f /\ f.cmd \in Cmds
      OBVIOUS
    <3> HIDE DEF f
    <3> QED BY <3>1 DEF Holds, Saying
  <2>3. stack' = <<f>> \o (<<g>> \o Below) \/ stack' = <<g>> \o Below
    BY <2>1 DEF Enter
  <2> HIDE DEF f
  <2> QED BY <1>2, <1>3, <2>2, <2>3
<1>5. CASE \E f : Holds(f) /\ Goto(<<f>> \o (<<g>> \o Below))
  BY <1>3, <1>5 DEF Goto
<1>6. CASE Goto(<<g>> \o Below)
  BY <1>2, <1>6 DEF Goto
<1> QED BY <1>4, <1>5, <1>6

LEMMA HeldBack ==
    ASSUME Frames(stack), Held(stack), stack # <<>>,
           Leave \/ Return \/ UNCHANGED stack
    PROVE  Held(stack')
BY HeldTop DEF Leave, Return, Held

LEMMA plugin_emit_Held ==
    ASSUME Frames(stack), Held(stack), stack # <<>>, plugin_emit
    PROVE  Held(stack')
<1> DEFINE g == [Top EXCEPT !.at = CASE @ = "command" -> "run" [] @ = "say" -> "take" [] @ = "printed" -> "send"]
<1>1. "at" \in DOMAIN Top /\ Top.at \in {"command", "say", "printed"} /\ Holds(Top)
  BY HeldTop DEF plugin_emit
<1>2. Holds(g)
  <2>1. CASE Top.at = "command"
    <3>1. g.at = "run" /\ "cmd" \in DOMAIN g /\ g.cmd = Top.cmd /\ Top.cmd \in Cmds
      BY <1>1, <2>1 DEF Holds
    <3> HIDE DEF g
    <3> QED BY <3>1 DEF Holds, Saying
  <2>2. CASE Top.at \in {"say", "printed"}
    <3>1. Says(Top)
      BY <1>1, <2>2 DEF Holds, Saying
    <3>2. g.at \in {"take", "send"} /\ Says(g)
      BY <1>1, <2>2, <3>1 DEF Says
    <3> HIDE DEF g
    <3> QED BY <3>2 DEF Holds
  <2> QED BY <1>1, <2>1, <2>2
<1>4. \/ Crash("say") \/ Leave \/ Return
      \/ Goto(<<g>> \o Below)
  BY <1>1 DEF plugin_emit
<1> HIDE DEF g
<1>5. Crash("say") => UNCHANGED stack
  BY DEF Crash
<1> QED BY <1>2, <1>4, <1>5, HeldOn, HeldBack

LEMMA handle_multiline_Held ==
    ASSUME Frames(stack), Held(stack), stack # <<>>, handle_multiline
    PROVE  Held(stack')
<1> DEFINE g == [Top EXCEPT !.rest = Tail(@)]
           f == [at |-> "say", tab |-> Top.tab, text |-> Head(Top.rest).text, first |-> TRUE]
           r == Top.rest
<1>1. "at" \in DOMAIN Top /\ Top.at = "lines" /\ Holds(Top)
  BY HeldTop DEF handle_multiline
<1>2. /\ "rest" \in DOMAIN Top /\ IsSeq(r)
      /\ \A i \in 1..Len(r) : Spoken(r[i])
  BY <1>1 DEF Holds
<1>3. ASSUME r # <<>>
      PROVE  Holds(g) /\ Spoken(Head(r))
  <2> DEFINE s == Tail(r)
  <2>1. r = <<Head(r)>> \o s /\ IsSeq(s)
    BY <1>2, <1>3, HeadAndTail
  <2>2. g.at = "lines" /\ "rest" \in DOMAIN g /\ g.rest = s
    BY <1>1, <1>2
  <2> HIDE DEF r, s
  <2>3. /\ Len(s) \in Nat /\ Len(r) = Len(s) + 1 /\ r[1] = Head(r)
        /\ \A i \in 1..Len(s) : r[i+1] = s[i]
    BY <2>1, InFront
  <2>4. 1 \in 1..Len(r) /\ \A i \in 1..Len(s) : i + 1 \in 1..Len(r)
    BY <2>3
  <2>5. \A i \in 1..Len(s) : Spoken(s[i])
    BY <1>2, <2>3, <2>4
  <2> HIDE DEF g
  <2>6. Holds(g)
    BY <2>1, <2>2, <2>5 DEF Holds, Saying
  <2> QED BY <1>2, <2>3, <2>4, <2>6
<1>4. ASSUME Spoken(Head(r)), Head(r).op = "text"
      PROVE  Holds(f)
  <2>1. Head(r).text \in Words
    BY <1>4, SpokenText
  <2>2. f.at = "say" /\ Says(f)
    BY <2>1 DEF Says
  <2> HIDE DEF f
  <2> QED BY <2>2 DEF Holds
<1>5. \/ Return
      \/ Crash("lines")
      \/ r # <<>> /\ Head(r).op = "text" /\ Goto(<<f>> \o (<<g>> \o Below))
      \/ r # <<>> /\ Head(r).op # "text" /\ Enter(Top.tab, Head(r), <<g>> \o Below)
  BY DEF handle_multiline
<1> HIDE DEF g, f, r
<1>6. Crash("lines") => UNCHANGED stack
  BY DEF Crash
<1>7. CASE r # <<>> /\ Head(r).op = "text" /\ Goto(<<f>> \o (<<g>> \o Below))
  BY <1>3, <1>4, <1>7, HeldOn
<1>8. CASE r # <<>> /\ Head(r).op # "text" /\ Enter(Top.tab, Head(r), <<g>> \o Below)
  <2>1. Head(r) \in Cmds
    BY <1>3, <1>8 DEF Spoken
  <2> QED BY <1>3, <1>8, <2>1, HeldOn
<1> QED BY <1>5, <1>6, <1>7, <1>8, HeldBack

LEMMA handle_say_Held ==
    ASSUME Frames(stack), Held(stack), stack # <<>>, handle_say \/ p_message
    PROVE  Held(stack')
<1> DEFINE g == [Top EXCEPT !.at = "printed"]
           h == [at |-> "say", tab |-> Top.tab, text |-> Rest(Top.text), first |-> FALSE]
<1>1. "at" \in DOMAIN Top /\ Says(Top)
  BY HeldTop DEF handle_say, p_message, Holds, Saying
<1>2. g.at = "printed" /\ h.at = "say" /\ Says(g) /\ Says(h)
  <2>1. Rest(Top.text) \in Words
    BY <1>1, RestFollows DEF Says, Words
  <2> QED BY <1>1, <2>1 DEF Says
<1>3. \/ Return \/ Crash("message")
      \/ Goto(<<g>> \o Below)
      \/ Goto(<<h>> \o Below)
  BY DEF handle_say, p_message
<1> HIDE DEF g, h
<1>4. Holds(g) /\ Holds(h)
  BY <1>2 DEF Holds
<1>5. Crash("message") => UNCHANGED stack
  BY DEF Crash
<1> QED BY <1>3, <1>4, <1>5, HeldOn, HeldBack

LEMMA handle_command_Held ==
    ASSUME Frames(stack), Held(stack), stack # <<>>, handle_command
    PROVE  Held(stack')
<1> DEFINE t == Top.tab
           u == [at |-> "usercmds", tab |-> Top.tab, cmd |-> Top.cmd, i |-> 1]
           a == [at |-> "all", tab |-> Head(sess_list), body |-> Top.cmd.body, called |-> FALSE]
           f == [at |-> "say", tab |-> t, text |-> Top.cmd.text, first |-> TRUE]
           r == [at |-> "return"]
<1>1. IsSeq(Below) /\ Top.cmd \in Cmds /\ Held(Below) /\ (Below # <<>> => Held(Tail(Below)))
  BY HeldTop DEF handle_command, Holds
<1>2. Holds(u) /\ Holds(r)
  BY <1>1 DEF Holds, Saying
<1>3. Top.cmd.op = "allchan" => Holds(a)
  BY <1>1, CmdsAssumption DEF Holds, Saying
<1>9. Top.cmd.op = "say" => Holds(f)
  <2> SUFFICES ASSUME Top.cmd.op = "say" PROVE Holds(f)
    OBVIOUS
  <2>1. Top.cmd.text \in Words
    BY <1>1, TextOfCommand
  <2>2. f.at = "say" /\ Says(f)
    BY <2>1 DEF Says
  <2> HIDE DEF f
  <2> QED BY <2>2 DEF Holds
<1>4. \/ Leave
      \/ Goto(<<u>> \o Below)
      \/ Top.cmd.op = "say" /\ Goto(<<f, r>> \o Below)
      \/ Top.cmd.op = "allchan" /\ Goto(<<a>> \o Below)
      \/ stack' = IF Below # <<>> /\ Head(Below).at = "lines" THEN Tail(Below) ELSE Below
  BY DEF handle_command, Internal
<1> HIDE DEF u, a, f, r
<1>5. <<f, r>> \o Below = <<f>> \o (<<r>> \o Below)
  BY <1>1, PairSeq
<1>6. CASE Top.cmd.op = "say" /\ Goto(<<f, r>> \o Below)
  BY <1>2, <1>5, <1>6, <1>9, HeldOn
<1>7. CASE Goto(<<u>> \o Below) \/ (Top.cmd.op = "allchan" /\ Goto(<<a>> \o Below))
  BY <1>2, <1>3, <1>7, HeldOn
<1>8. CASE stack' = IF Below # <<>> /\ Head(Below).at = "lines" THEN Tail(Below) ELSE Below
  BY <1>1, <1>8
<1> QED BY <1>4, <1>6, <1>7, <1>8, HeldBack

\* The least of a set of numbers is in it.
LEMMA LeastOf ==
    ASSUME NEW T, T \subseteq Nat, T # {}
    PROVE  Min(T) \in T
<1>1. PICK x \in T : \A y \in T : ~(y < x)
  BY NatMin
<1>2. \A y \in T : x <= y
  BY <1>1
<1> QED BY <1>2 DEF Min

LEMMA user_command_Held ==
    ASSUME Frames(stack), Held(stack), stack # <<>>, user_command
    PROVE  Held(stack')
<1> DEFINE more == Named(Top.cmd, Top.i)
           j == Min(more)
           g == [Top EXCEPT !.i = j + 1]
<1>1. "at" \in DOMAIN Top /\ Top.at = "usercmds" /\ Holds(Top)
  BY HeldTop DEF user_command
<1>2. /\ "cmd" \in DOMAIN Top /\ Top.cmd \in Cmds /\ "i" \in DOMAIN Top /\ Top.i \in Nat \ {0}
  BY <1>1 DEF Holds
<1>3. \/ Leave
      \/ Crash("usercmds")
      \/ more # {} /\ Goto(<<g>> \o Below)
      \/ more # {} /\ Enter(Top.tab, CommandList[j].body, <<g>> \o Below)
  BY DEF user_command
<1>4. ASSUME more # {}
      PROVE  Holds(g) /\ CommandList[j].body \in Cmds
  <2>1. more \subseteq Nat /\ more \subseteq Top.i..Len(CommandList)
    BY <1>2 DEF Named
  <2>2. j \in Top.i..Len(CommandList)
    <3> HIDE DEF more
    <3> QED BY <1>4, <2>1, LeastOf
  <2>3. j \in 1..Len(CommandList) /\ j + 1 \in Nat \ {0} /\ Len(CommandList) \in Nat
    BY <1>2, <2>2, CmdsAssumption
  <2>4. CommandList[j].body \in Cmds
    BY <2>3, CmdsAssumption
  <2>5. g.at = "usercmds" /\ "cmd" \in DOMAIN g /\ g.cmd = Top.cmd /\ "i" \in DOMAIN g /\ g.i = j + 1
    BY <1>1, <1>2
  <2> HIDE DEF g, j
  <2>6. Holds(g)
    BY <1>2, <2>3, <2>5 DEF Holds, Saying
  <2> QED BY <2>4, <2>6
<1> HIDE DEF g, j, more
<1>5. Crash("usercmds") => UNCHANGED stack
  BY DEF Crash
<1> QED BY <1>3, <1>4, <1>5, HeldOn, HeldBack

LEMMA cmd_allchannels_Held ==
    ASSUME Frames(stack), Held(stack), stack # <<>>, cmd_allchannels
    PROVE  Held(stack')
<1> DEFINE i == Position(Top.tab)
           g == [Top EXCEPT !.called = TRUE]
           h == [Top EXCEPT !.tab = sess_list[i + 1], !.called = FALSE]
<1>1. "at" \in DOMAIN Top /\ Top.at = "all" /\ Holds(Top)
  BY HeldTop DEF cmd_allchannels
<1>2. /\ "body" \in DOMAIN Top /\ Top.body \in Cmds
  BY <1>1 DEF Holds
<1>3. /\ g.at = "all" /\ "body" \in DOMAIN g /\ g.body = Top.body
      /\ h.at = "all" /\ "body" \in DOMAIN h /\ h.body = Top.body
  BY <1>1, <1>2
<1>4. \/ Enter(Top.tab, Top.body, <<g>> \o Below)
      \/ Goto(<<g>> \o Below)
      \/ Crash("all")
      \/ Leave
      \/ Goto(<<h>> \o Below)
  BY DEF cmd_allchannels
<1> HIDE DEF g, h
<1>5. Holds(g) /\ Holds(h)
  BY <1>2, <1>3 DEF Holds, Saying
<1>6. Crash("all") => UNCHANGED stack
  BY DEF Crash
<1> QED BY <1>2, <1>4, <1>5, <1>6, HeldOn, HeldBack

LEMMA StepHeld ==
    ASSUME StackInv, Held(stack), Step
    PROVE  Held(stack')
<1>1. Frames(stack) /\ stack # <<>>
  BY DEF StackInv, Step, Running
<1>2. CASE Done \/ exec_done \/ timer_done
  <2>1. Leave \/ Return \/ UNCHANGED stack
    BY <1>2 DEF Done, exec_done, timer_done, Crash
  <2> QED BY <1>1, <2>1, HeldBack
<1> QED BY <1>1, <1>2, plugin_emit_Held, handle_multiline_Held, handle_say_Held,
           handle_command_Held, user_command_Held, cmd_allchannels_Held DEF Step

\* What is known of a timer, and of how often it ran.
Fire == [asked : Nat, runs : Nat, cut : BOOLEAN]
Elems(q) == {q[i] : i \in 1..Len(q)}
Distinct(q) == \A i, j \in 1..Len(q) : q[i].id = q[j].id => i = j
RunsNow(marks, id) == \E m \in marks : m.at = "timer" /\ m.id = id
Sound(x) ==
    /\ "id" \in DOMAIN x /\ "repeat" \in DOMAIN x /\ "forever" \in DOMAIN x /\ "cmd" \in DOMAIN x
    /\ x.repeat \in Int /\ x.cmd \in Cmds
\* As long as it is listed, it has as many runs left as it is to be repeated, one less while
\* its command runs.
Counted(x, f, marks) ==
    \/ x.forever = TRUE /\ f.asked = 0
    \/ /\ x.forever = FALSE /\ x.repeat # 0 /\ f.asked > 0
       /\ f.asked - f.runs = Meant(x.repeat) - (IF RunsNow(marks, x.id) THEN 1 ELSE 0)
Ticking(T, frd, marks) ==
    /\ frd \in Seq(Fire)
    /\ \A x \in T : x.id \in 1..Len(frd) /\ Sound(x) /\ Counted(x, frd[x.id], marks)
    /\ \A id \in 1..Len(frd) :
          /\ frd[id].asked > 0 => frd[id].runs <= frd[id].asked
          /\ (\A x \in T : x.id # id) /\ frd[id].cut = FALSE =>
                frd[id].asked > 0 /\ frd[id].runs = frd[id].asked
    /\ \A m \in marks : m.at = "timer" => m.id \in 1..Len(frd)
TimerList(tms, hk) == IsSeq(tms) /\ Distinct(tms) /\ hk = {x.id : x \in Elems(tms)}

\* Without the timer at i, the list is the others.
LEMMA RemoveTimer ==
    ASSUME NEW tms, IsSeq(tms), Distinct(tms), NEW i \in 1..Len(tms)
    PROVE  /\ IsSeq(RemoveAt(tms, i)) /\ Distinct(RemoveAt(tms, i))
           /\ Elems(RemoveAt(tms, i)) = Elems(tms) \ {tms[i]}
           /\ \A x \in Elems(tms) : x # tms[i] => x.id # tms[i].id
<1> DEFINE r == RemoveAt(tms, i)
           n == Len(tms)
<1>1. PICK S : tms \in Seq(S)
  BY DEF IsSeq
<1>2. /\ r \in Seq(S) /\ Len(r) = n - 1 /\ n \in Nat
      /\ \A j \in 1..(i-1) : r[j] = tms[j]
      /\ \A j \in i..(n-1) : r[j] = tms[j+1]
  <2>1. /\ RemoveAt(tms, i) \in Seq(S) /\ Len(RemoveAt(tms, i)) = Len(tms) - 1
        /\ \A j \in 1..(i-1) : RemoveAt(tms, i)[j] = tms[j]
        /\ \A j \in i..(Len(tms)-1) : RemoveAt(tms, i)[j] = tms[j+1]
    BY <1>1, RemoveAtProps
  <2>2. Len(tms) \in Nat
    BY <1>1
  <2> QED BY <2>1, <2>2
<1> DEFINE o(j) == IF j < i THEN j ELSE j + 1
<1>3. \A j \in 1..(n-1) : o(j) \in 1..n /\ o(j) # i /\ r[j] = tms[o(j)]
  <2> TAKE j \in 1..(n-1)
  <2>1. CASE j < i
    <3>1. j \in 1..(i-1)
      BY <2>1
    <3> HIDE DEF r
    <3> QED BY <1>2, <2>1, <3>1
  <2>2. CASE ~(j < i)
    <3>1. j \in i..(n-1)
      BY <1>2, <2>2
    <3> HIDE DEF r
    <3> QED BY <1>2, <2>2, <3>1
  <2> QED BY <2>1, <2>2
<1>4. \A j, k \in 1..(n-1) : o(j) = o(k) => j = k
  <2> TAKE j, k \in 1..(n-1)
  <2>1. j \in Int /\ k \in Int /\ i \in Int
    BY <1>2
  <2> HIDE DEF r, n
  <2> QED BY <2>1
<1>5. ASSUME NEW k \in 1..n, k # i PROVE \E j \in 1..(n-1) : k = o(j)
  <2>1. CASE k < i
    <3>1. k \in 1..(n-1) /\ k = o(k)
      BY <1>2, <2>1
    <3> QED BY <3>1
  <2>2. CASE ~(k < i)
    <3>1. k - 1 \in 1..(n-1) /\ k = o(k - 1)
      BY <1>2, <1>5, <2>2
    <3> HIDE DEF o
    <3> QED BY <3>1
  <2> QED BY <2>1, <2>2
<1> HIDE DEF r, n, o
<1>6. Distinct(r)
  <2> SUFFICES ASSUME NEW j \in 1..(n-1), NEW k \in 1..(n-1), r[j].id = r[k].id PROVE j = k
    BY <1>2 DEF Distinct
  <2>1. tms[o(j)].id = tms[o(k)].id /\ o(j) \in 1..Len(tms) /\ o(k) \in 1..Len(tms)
    BY <1>3 DEF n
  <2> QED BY <1>4, <2>1 DEF Distinct
<1>7. ASSUME NEW x \in Elems(tms), x # tms[i] PROVE x \in Elems(r) /\ x.id # tms[i].id
  <2>1. PICK k \in 1..n : x = tms[k]
    BY DEF Elems, n
  <2>2. k # i
    BY <1>7, <2>1
  <2>3. PICK j \in 1..(n-1) : k = o(j)
    BY <1>5, <2>2
  <2>4. x = r[j] /\ j \in 1..Len(r)
    BY <1>2, <1>3, <2>1, <2>3
  <2> QED BY <2>1, <2>2, <2>4 DEF Elems, Distinct, n
<1>8. ASSUME NEW x \in Elems(r) PROVE x \in Elems(tms) /\ x # tms[i]
  <2>1. PICK j \in 1..(n-1) : x = r[j]
    BY <1>2 DEF Elems
  <2>2. o(j) \in 1..Len(tms) /\ o(j) # i /\ x = tms[o(j)]
    BY <1>3, <2>1 DEF n
  <2>3. tms[o(j)].id # tms[i].id
    BY <2>2 DEF Distinct
  <2> QED BY <2>2, <2>3 DEF Elems
<1>9. IsSeq(r)
  BY <1>2 DEF IsSeq
<1> QED BY <1>6, <1>7, <1>8, <1>9 DEF r

LEMMA PlaceOf ==
    ASSUME TimerList(timers, hooked), NEW id \in Listed
    PROVE  /\ Place(id) \in 1..Len(timers) /\ timers[Place(id)].id = id
           /\ timers[Place(id)] \in Elems(timers) /\ DOMAIN timers = 1..Len(timers)
<1>1. DOMAIN timers = 1..Len(timers)
  BY DEF TimerList, IsSeq
<1>2. \E i \in DOMAIN timers : timers[i].id = id
  BY DEF Listed
<1>3. Place(id) \in DOMAIN timers /\ timers[Place(id)].id = id
  BY <1>2 DEF Place
<1> QED BY <1>1, <1>3 DEF Elems

LEMMA ListedIs ==
    ASSUME TimerList(timers, hooked)
    PROVE  Listed = {x.id : x \in Elems(timers)} /\ hooked = Listed
<1>1. DOMAIN timers = 1..Len(timers)
  BY DEF TimerList, IsSeq
<1> QED BY <1>1 DEF Listed, Elems, TimerList

\* A timer is taken off the list.
LEMMA DelTimer ==
    ASSUME TimerList(timers, hooked), NEW id \in Listed, timer_del(id)
    PROVE  /\ TimerList(timers', hooked')
           /\ \E x \in Elems(timers) : /\ x.id = id /\ Elems(timers') = Elems(timers) \ {x}
                                       /\ \A y \in Elems(timers') : y.id # id
<1> DEFINE i == Place(id)
<1>1. i \in 1..Len(timers) /\ timers[i].id = id /\ timers[i] \in Elems(timers)
  BY PlaceOf
<1>2. timers' = RemoveAt(timers, i) /\ hooked' = hooked \ {id}
  BY DEF timer_del
<1> HIDE DEF i
<1>3. /\ IsSeq(timers') /\ Distinct(timers')
      /\ Elems(timers') = Elems(timers) \ {timers[i]}
      /\ \A x \in Elems(timers) : x # timers[i] => x.id # timers[i].id
  BY <1>1, <1>2, RemoveTimer DEF TimerList
<1>4. \A y \in Elems(timers') : y.id # id
  BY <1>1, <1>3
<1>5. hooked' = {x.id : x \in Elems(timers')}
  BY <1>1, <1>2, <1>3, <1>4 DEF TimerList
<1> QED BY <1>1, <1>3, <1>4, <1>5 DEF TimerList

\* A sequence with one of its elements replaced.
Put(S, q, i, g, r) ==
    r \in Seq(S) /\ Len(r) = Len(q) /\ r[i] = g /\ \A k \in 1..Len(q) : k # i => r[k] = q[k]
LEMMA PutAt ==
    ASSUME NEW S, NEW q \in Seq(S), NEW i \in 1..Len(q), NEW g \in S
    PROVE  Put(S, q, i, g, [q EXCEPT ![i] = g])
BY DEF Put

LEMMA FireFields ==
    ASSUME NEW frd \in Seq(Fire), NEW id \in 1..Len(frd)
    PROVE  /\ frd[id] \in Fire /\ frd[id].asked \in Nat /\ frd[id].runs \in Nat /\ frd[id].cut \in BOOLEAN
<1>1. frd[id] \in Fire
  OBVIOUS
<1> QED BY <1>1 DEF Fire

LEMMA MeantIs ==
    \A r \in Int : /\ Meant(r) \in Nat
                   /\ r # 0 => Meant(r) >= 1
                   /\ r = 0 => Meant(r) = 0
                   /\ r <= 1 /\ r # 0 => Meant(r) = 1
                   /\ ~(r <= 1) => Meant(r) = r /\ Meant(r - 1) = r - 1
BY DEF Meant

\* /timer lists one more timer.
LEMMA AddTimer ==
    ASSUME TimerList(timers, hooked), NEW marks, Ticking(Elems(timers), fired, marks),
           NEW t, NEW cmd \in Cmds, cmd.op = "timer", timer_add(t, cmd)
    PROVE  TimerList(timers', hooked') /\ Ticking(Elems(timers'), fired', marks)
<1> DEFINE id == Len(fired) + 1
           x == [id |-> id, ref |-> IF cmd.ref = 0 THEN NextRef ELSE cmd.ref,
                 repeat |-> cmd.repeat, forever |-> cmd.repeat = 0, tab |-> t, cmd |-> cmd.body]
           f == [asked |-> Meant(cmd.repeat), runs |-> 0, cut |-> FALSE]
           T == Elems(timers)
<1>1. timers' = Append(timers, x) /\ hooked' = hooked \cup {id} /\ fired' = Append(fired, f)
  BY DEF timer_add
<1>2. cmd.body \in Cmds /\ cmd.repeat \in Int
  BY CmdsAssumption
<1>3. /\ x.id = id /\ x.repeat = cmd.repeat /\ x.cmd = cmd.body /\ x.forever = (cmd.repeat = 0)
      /\ "id" \in DOMAIN x /\ "repeat" \in DOMAIN x /\ "forever" \in DOMAIN x /\ "cmd" \in DOMAIN x
  OBVIOUS
<1>4. f \in Fire /\ f.asked = Meant(cmd.repeat) /\ f.runs = 0 /\ f.cut = FALSE
  BY <1>2, MeantIs DEF Fire
<1>5. fired \in Seq(Fire) /\ Len(fired) \in Nat
  BY DEF Ticking
<1> HIDE DEF x, f
<1>6. /\ fired' \in Seq(Fire) /\ Len(fired') = id /\ fired'[id] = f
      /\ \A k \in 1..Len(fired) : k \in 1..id /\ fired'[k] = fired[k]
      /\ \A k \in 1..id : k = id \/ k \in 1..Len(fired)
  BY <1>1, <1>4, <1>5
<1>7. \A y \in T : y.id \in 1..Len(fired) /\ y.id # id
  BY <1>5 DEF Ticking
<1>8. PICK S : timers \in Seq(S)
  BY DEF TimerList, IsSeq
<1> DEFINE n == Len(timers)
           R == S \cup {x}
<1>9. /\ timers' \in Seq(R) /\ n \in Nat /\ Len(timers') = n + 1 /\ timers'[n + 1] = x
      /\ \A i \in 1..n : timers'[i] = timers[i]
  <2>1. timers \in Seq(R) /\ x \in R
    BY <1>8
  <2> HIDE DEF R
  <2> QED BY <1>1, <2>1
<1>10. (\A i \in 1..(n + 1) : i = n + 1 \/ i \in 1..n) /\ n + 1 \in 1..(n + 1) /\ \A i \in 1..n : i \in 1..(n + 1)
  BY <1>9
<1>11. Elems(timers') = T \cup {x}
  <2> HIDE DEF R, id
  <2>1. \A y \in Elems(timers') : y \in T \/ y = x
    BY <1>9, <1>10 DEF Elems
  <2>2. \A y \in T : y \in Elems(timers')
    BY <1>9, <1>10 DEF Elems
  <2>3. x \in Elems(timers')
    BY <1>9, <1>10 DEF Elems
  <2> QED BY <2>1, <2>2, <2>3
<1>12. Distinct(timers')
  <2> SUFFICES ASSUME NEW i \in 1..(n + 1), NEW j \in 1..(n + 1), timers'[i].id = timers'[j].id PROVE i = j
    BY <1>9 DEF Distinct
  <2>1. \A k \in 1..n : timers'[k] = timers[k] /\ timers'[k].id # id
    BY <1>7, <1>9 DEF Elems
  <2>2. timers'[n + 1].id = id
    BY <1>3, <1>9
  <2> HIDE DEF id, n, R
  <2>3. CASE i \in 1..n /\ j \in 1..n
    BY <2>1, <2>3 DEF TimerList, Distinct, n
  <2>4. CASE ~(i \in 1..n /\ j \in 1..n)
    BY <1>10, <2>1, <2>2, <2>4
  <2> QED BY <2>3, <2>4
<1>13. TimerList(timers', hooked')
  <2>1. IsSeq(timers')
    BY <1>9 DEF IsSeq
  <2>2. hooked' = {y.id : y \in Elems(timers')}
    BY <1>1, <1>3, <1>11 DEF TimerList
  <2> QED BY <1>12, <2>1, <2>2 DEF TimerList
<1>14. ~RunsNow(marks, id)
  <2>1. \A m \in marks : m.at = "timer" => m.id \in 1..Len(fired)
    BY DEF Ticking
  <2>2. id \notin 1..Len(fired)
    BY <1>5
  <2> QED BY <2>1, <2>2 DEF RunsNow
<1>15. Sound(x) /\ Counted(x, f, marks)
  <2>1. Sound(x)
    BY <1>2, <1>3 DEF Sound
  <2>2. CASE cmd.repeat = 0
    <3>1. x.forever = TRUE /\ f.asked = 0
      BY <1>2, <1>3, <1>4, <2>2, MeantIs
    <3> QED BY <2>1, <3>1 DEF Counted
  <2>3. CASE cmd.repeat # 0
    <3>1. /\ x.forever = FALSE /\ x.repeat # 0 /\ f.asked > 0 /\ f.asked = Meant(x.repeat) /\ Meant(x.repeat) \in Nat
          /\ ~RunsNow(marks, x.id)
      <4>1. Meant(cmd.repeat) \in Nat /\ Meant(cmd.repeat) >= 1
        BY <1>2, <2>3, MeantIs
      <4>2. Meant(cmd.repeat) > 0
        BY <4>1
      <4>3. x.forever = FALSE
        BY <1>3, <2>3
      <4> QED BY <1>3, <1>4, <1>14, <2>3, <4>1, <4>2, <4>3
    <3>2. f.asked - f.runs = Meant(x.repeat) - 0
      BY <1>4, <3>1
    <3> QED BY <2>1, <3>1, <3>2 DEF Counted
  <2> QED BY <2>2, <2>3
<1> HIDE DEF id, T
<1>16. Ticking(T \cup {x}, fired', marks)
  <2>1. Ticking(T, fired, marks)
    BY DEF T
  <2>2. ASSUME NEW y \in T \cup {x}
        PROVE  y.id \in 1..Len(fired') /\ Sound(y) /\ Counted(y, fired'[y.id], marks)
    <3>1. CASE y = x
      <4>1. id \in 1..Len(fired')
        BY <1>5, <1>6 DEF id
      <4> QED BY <1>3, <1>6, <1>15, <3>1, <4>1
    <3>2. CASE y \in T
      <4>1. y.id \in 1..Len(fired) /\ Sound(y) /\ Counted(y, fired[y.id], marks)
        BY <2>1, <3>2 DEF Ticking
      <4> QED BY <1>6, <4>1
    <3> QED BY <3>1, <3>2
  <2>3. ASSUME NEW k \in 1..Len(fired')
        PROVE  /\ fired'[k].asked > 0 => fired'[k].runs <= fired'[k].asked
               /\ (\A y \in T \cup {x} : y.id # k) /\ fired'[k].cut = FALSE =>
                     fired'[k].asked > 0 /\ fired'[k].runs = fired'[k].asked
    <3>1. CASE k = id
      <4>1. x.id = k
        BY <1>3, <3>1
      <4>2. f.asked > 0 => f.runs <= f.asked
        BY <1>2, <1>4, MeantIs
      <4> QED BY <1>6, <3>1, <4>1, <4>2
    <3>2. CASE k \in 1..Len(fired)
      <4>1. fired'[k] = fired[k]
        BY <1>6, <3>2
      <4>2. /\ fired[k].asked > 0 => fired[k].runs <= fired[k].asked
            /\ (\A y \in T : y.id # k) /\ fired[k].cut = FALSE => fired[k].asked > 0 /\ fired[k].runs = fired[k].asked
        BY <2>1, <3>2 DEF Ticking
      <4> QED BY <4>1, <4>2
    <3> QED BY <1>6, <3>1, <3>2
  <2>4. \A m \in marks : m.at = "timer" => m.id \in 1..Len(fired')
    BY <1>6, <2>1 DEF Ticking
  <2> QED BY <1>6, <2>2, <2>3, <2>4 DEF Ticking
<1> QED BY <1>11, <1>13, <1>16

\* One that is taken off before its time is marked as cut short.
LEMMA CutTimer ==
    ASSUME TimerList(timers, hooked), NEW marks, Ticking(Elems(timers), fired, marks),
           NEW id \in Listed, timer_del(id), fired' = [fired EXCEPT ![id].cut = TRUE]
    PROVE  TimerList(timers', hooked') /\ Ticking(Elems(timers'), fired', marks)
<1> DEFINE T == Elems(timers)
           U == Elems(timers')
<1>1. TimerList(timers', hooked')
  BY DelTimer
<1>2. PICK x \in T : /\ x.id = id /\ U = T \ {x} /\ \A y \in U : y.id # id
  BY DelTimer
<1>3. fired \in Seq(Fire) /\ id \in 1..Len(fired) /\ fired[id] \in Fire
  BY <1>2 DEF Ticking
<1>4. /\ fired' \in Seq(Fire) /\ Len(fired') = Len(fired)
      /\ \A k \in 1..Len(fired) : k # id => fired'[k] = fired[k]
      /\ fired'[id].asked = fired[id].asked /\ fired'[id].runs = fired[id].runs /\ fired'[id].cut = TRUE
  <2> DEFINE g == [fired[id] EXCEPT !.cut = TRUE]
  <2>1. g \in Fire /\ g.asked = fired[id].asked /\ g.runs = fired[id].runs /\ g.cut = TRUE
    BY <1>3 DEF Fire
  <2>2. fired' = [fired EXCEPT ![id] = g]
    BY <1>3
  <2> HIDE DEF g
  <2>3. /\ fired' \in Seq(Fire) /\ Len(fired') = Len(fired) /\ fired'[id] = g
        /\ \A k \in 1..Len(fired) : k # id => fired'[k] = fired[k]
    <3>1. Put(Fire, fired, id, g, [fired EXCEPT ![id] = g])
      BY <1>3, <2>1, PutAt
    <3>2. Put(Fire, fired, id, g, fired')
      BY <2>2, <3>1
    <3> QED BY <3>2 DEF Put
  <2> QED BY <2>1, <2>3
<1>5. Ticking(T, fired, marks)
  OBVIOUS
<1> HIDE DEF T, U
<1>6. ASSUME NEW y \in U
      PROVE  y.id \in 1..Len(fired') /\ Sound(y) /\ Counted(y, fired'[y.id], marks)
  <2>1. y \in T /\ y.id # id
    BY <1>2
  <2>2. y.id \in 1..Len(fired) /\ Sound(y) /\ Counted(y, fired[y.id], marks)
    BY <1>5, <2>1 DEF Ticking
  <2> QED BY <1>4, <2>1, <2>2
<1>7. ASSUME NEW k \in 1..Len(fired')
      PROVE  /\ fired'[k].asked > 0 => fired'[k].runs <= fired'[k].asked
             /\ (\A y \in U : y.id # k) /\ fired'[k].cut = FALSE =>
                   fired'[k].asked > 0 /\ fired'[k].runs = fired'[k].asked
  <2>1. /\ fired[k].asked > 0 => fired[k].runs <= fired[k].asked
        /\ (\A y \in T : y.id # k) /\ fired[k].cut = FALSE => fired[k].asked > 0 /\ fired[k].runs = fired[k].asked
    BY <1>4, <1>5 DEF Ticking
  <2>2. CASE k = id
    BY <1>4, <2>1, <2>2
  <2>3. CASE k # id
    <3>1. (\A y \in U : y.id # k) => \A y \in T : y.id # k
      BY <1>2, <2>3
    <3> QED BY <1>4, <2>1, <2>3, <3>1
  <2> QED BY <2>2, <2>3
<1>8. \A m \in marks : m.at = "timer" => m.id \in 1..Len(fired')
  BY <1>4, <1>5 DEF Ticking
<1>9. Ticking(U, fired', marks)
  BY <1>4, <1>6, <1>7, <1>8 DEF Ticking
<1> QED BY <1>1, <1>9 DEF U

LEMMA timer_cb_Ticks ==
    ASSUME TimerList(timers, hooked), NEW marks, Ticking(Elems(timers), fired, marks),
           NEW t, NEW cmd \in Cmds, timer_cb(t, cmd)
    PROVE  TimerList(timers', hooked') /\ Ticking(Elems(timers'), fired', marks)
<1>1. CASE cmd.op = "timer"
  BY <1>1, AddTimer DEF timer_cb
<1>2. CASE UNCHANGED ticking
  BY <1>2 DEF ticking
<1>3. CASE cmd.op = "untimer" /\ ~UNCHANGED ticking
  <2> DEFINE found == {i \in DOMAIN timers : timers[i].ref = cmd.ref}
             k == Min(found)
  <2>1. timer_del_ref(cmd.ref)
    BY <1>3 DEF timer_cb
  <2>2. found # {} /\ timer_del(timers[k].id) /\ fired' = [fired EXCEPT ![timers[k].id].cut = TRUE]
    BY <1>3, <2>1 DEF timer_del_ref
  <2>3. DOMAIN timers = 1..Len(timers)
    BY DEF TimerList, IsSeq
  <2>4. k \in found
    <3>1. found \subseteq Nat
      BY <2>3
    <3> HIDE DEF found
    <3> QED BY <2>2, <3>1, LeastOf
  <2>5. timers[k].id \in Listed
    BY <2>4 DEF Listed
  <2> HIDE DEF k, found
  <2> QED BY <2>2, <2>5, CutTimer
<1> QED BY <1>1, <1>2, <1>3 DEF timer_cb

LEMMA OneOfEach ==
    ASSUME NEW tms, IsSeq(tms), Distinct(tms), NEW x \in Elems(tms), NEW y \in Elems(tms), x.id = y.id
    PROVE  x = y
BY DEF Elems, Distinct

\* The command of a timer begins.
LEMMA FireTimer ==
    ASSUME NEW T, Ticking(T, fired, {}), NEW x \in T, \A y \in T : y.id = x.id => y = x,
           fired' = [fired EXCEPT ![x.id].runs = @ + 1],
           NEW m, m.at = "timer", m.id = x.id
    PROVE  Ticking(T, fired', {m})
<1> DEFINE id == x.id
           f == fired[id]
           g == [f EXCEPT !.runs = f.runs + 1]
<1>1. fired \in Seq(Fire) /\ id \in 1..Len(fired) /\ Sound(x) /\ Counted(x, f, {})
  BY DEF Ticking
<1>2. f \in Fire /\ f.asked \in Nat /\ f.runs \in Nat
  BY <1>1, FireFields
<1>3. /\ g \in Fire /\ g.asked = f.asked /\ g.runs = f.runs + 1 /\ g.cut = f.cut
  BY <1>2 DEF Fire
<1>4. fired' = [fired EXCEPT ![id] = g]
  BY <1>1
<1>0. f = fired[id] /\ m.id = id /\ x.id = id
  OBVIOUS
<1> HIDE DEF g, f, id
<1>5. Put(Fire, fired, id, g, fired')
  <2>1. Put(Fire, fired, id, g, [fired EXCEPT ![id] = g])
    BY <1>1, <1>3, PutAt
  <2> QED BY <1>4, <2>1
<1>6. /\ fired' \in Seq(Fire) /\ Len(fired') = Len(fired) /\ fired'[id] = g
      /\ \A k \in 1..Len(fired) : k # id => fired'[k] = fired[k]
  BY <1>5 DEF Put
<1>7. \A k : RunsNow({m}, k) <=> k = id
  BY <1>0 DEF RunsNow
<1>8. \A k : ~RunsNow({}, k)
  BY DEF RunsNow
<1>9. Counted(x, g, {m}) /\ (g.asked > 0 => g.runs <= g.asked)
  <2>1. CASE x.forever = TRUE /\ f.asked = 0
    BY <1>3, <2>1 DEF Counted
  <2>2. CASE /\ x.forever = FALSE /\ x.repeat # 0 /\ f.asked > 0
             /\ f.asked - f.runs = Meant(x.repeat) - (IF RunsNow({}, x.id) THEN 1 ELSE 0)
    <3>1. Meant(x.repeat) \in Nat /\ Meant(x.repeat) >= 1
      BY <1>1, <2>2, MeantIs DEF Sound
    <3>2. f.asked - f.runs = Meant(x.repeat)
      BY <1>8, <2>2, <3>1
    <3>3. g.asked - g.runs = Meant(x.repeat) - 1 /\ g.runs <= g.asked
      BY <1>2, <1>3, <3>1, <3>2
    <3> QED BY <1>0, <1>3, <1>7, <2>2, <3>3 DEF Counted
  <2> QED BY <1>1, <2>1, <2>2 DEF Counted
<1>10. ASSUME NEW y \in T
       PROVE  y.id \in 1..Len(fired') /\ Sound(y) /\ Counted(y, fired'[y.id], {m})
  <2>1. y.id \in 1..Len(fired) /\ Sound(y) /\ Counted(y, fired[y.id], {})
    BY DEF Ticking
  <2>2. CASE y.id = id
    <3>1. y = x
      BY <1>0, <2>2
    <3> QED BY <1>0, <1>6, <1>9, <2>1, <3>1
  <2>3. CASE y.id # id
    <3>1. fired'[y.id] = fired[y.id] /\ ~RunsNow({m}, y.id) /\ ~RunsNow({}, y.id)
      BY <1>6, <1>7, <1>8, <2>1, <2>3
    <3> QED BY <1>6, <2>1, <3>1 DEF Counted
  <2> QED BY <2>2, <2>3
<1>11. ASSUME NEW k \in 1..Len(fired')
       PROVE  /\ fired'[k].asked > 0 => fired'[k].runs <= fired'[k].asked
              /\ (\A y \in T : y.id # k) /\ fired'[k].cut = FALSE =>
                    fired'[k].asked > 0 /\ fired'[k].runs = fired'[k].asked
  <2>1. CASE k = id
    BY <1>0, <1>6, <1>9, <2>1
  <2>2. CASE k # id
    BY <1>6, <2>2 DEF Ticking
  <2> QED BY <2>1, <2>2
<1>12. m.id \in 1..Len(fired')
  BY <1>0, <1>1, <1>6
<1> QED BY <1>6, <1>10, <1>11, <1>12 DEF Ticking

\* It has ended, and no other timer's is running.
LEMMA OthersRest ==
    ASSUME NEW m, m.at = "timer", NEW k, k # m.id
    PROVE  ~RunsNow({m}, k) /\ ~RunsNow({}, k)
BY DEF RunsNow

LEMMA EndForever ==
    ASSUME NEW T, NEW m, m.at = "timer", Ticking(T, fired, {m}),
           NEW x \in T, \A y \in T : y.id = x.id => y = x, x.id = m.id, x.forever = TRUE
    PROVE  Ticking(T, fired, {})
<1>1. ASSUME NEW y \in T PROVE Counted(y, fired[y.id], {})
  <2>1. Counted(y, fired[y.id], {m})
    BY DEF Ticking
  <2>2. CASE y.id = m.id
    BY <2>1, <2>2 DEF Counted
  <2>3. CASE y.id # m.id
    BY <2>1, <2>3, OthersRest DEF Counted
  <2> QED BY <2>2, <2>3
<1> QED BY <1>1 DEF Ticking

LEMMA EndSpent ==
    ASSUME NEW T, NEW m, m.at = "timer", Ticking(T, fired, {m}),
           NEW x \in T, x.id = m.id, x.forever # TRUE, Spent(x),
           NEW U, U = T \ {x}, \A y \in U : y.id # x.id
    PROVE  Ticking(U, fired, {})
<1> DEFINE f == fired[x.id]
<1>1. fired \in Seq(Fire) /\ x.id \in 1..Len(fired) /\ Sound(x) /\ Counted(x, f, {m})
  BY DEF Ticking
<1>2. f.asked \in Nat /\ f.runs \in Nat
  BY <1>1, FireFields
<1>3. f.asked > 0 /\ f.runs = f.asked
  <2>1. RunsNow({m}, x.id)
    BY DEF RunsNow
  <2>2. /\ x.repeat # 0 /\ f.asked > 0 /\ f.asked - f.runs = Meant(x.repeat) - 1
    BY <1>1, <2>1 DEF Counted
  <2>3. Meant(x.repeat) = 1
    BY <1>1, <2>2, MeantIs DEF Sound, Spent
  <2> HIDE DEF f
  <2> QED BY <1>2, <2>2, <2>3
<1> HIDE DEF f
<1>4. ASSUME NEW y \in U
      PROVE  y.id \in 1..Len(fired) /\ Sound(y) /\ Counted(y, fired[y.id], {})
  <2>1. y \in T /\ y.id # m.id
    OBVIOUS
  <2>2. y.id \in 1..Len(fired) /\ Sound(y) /\ Counted(y, fired[y.id], {m})
    BY <2>1 DEF Ticking
  <2> QED BY <2>1, <2>2, OthersRest DEF Counted
<1>5. ASSUME NEW k \in 1..Len(fired)
      PROVE  /\ fired[k].asked > 0 => fired[k].runs <= fired[k].asked
             /\ (\A y \in U : y.id # k) /\ fired[k].cut = FALSE => fired[k].asked > 0 /\ fired[k].runs = fired[k].asked
  <2>1. fired[k].asked > 0 => fired[k].runs <= fired[k].asked
    BY DEF Ticking
  <2>2. CASE k = x.id
    BY <1>3, <2>1, <2>2 DEF f
  <2>3. CASE k # x.id
    <3>1. (\A y \in U : y.id # k) => \A y \in T : y.id # k
      BY <2>3
    <3> QED BY <2>1, <3>1 DEF Ticking
  <2> QED BY <2>2, <2>3
<1> QED BY <1>1, <1>4, <1>5 DEF Ticking

\* A timer that is one run nearer its end.
CountedDown(x, z) == Sound(z) /\ z.id = x.id /\ z.repeat = x.repeat - 1 /\ z.forever = x.forever
LEMMA EndCounted ==
    ASSUME NEW T, NEW m, m.at = "timer", Ticking(T, fired, {m}),
           NEW x \in T, x.id = m.id, x.forever # TRUE, ~Spent(x),
           \A y \in T : y.id = x.id => y = x,
           NEW z, CountedDown(x, z)
    PROVE  Ticking((T \ {x}) \cup {z}, fired, {})
<1> DEFINE f == fired[x.id]
           U == (T \ {x}) \cup {z}
<1>0. Sound(z) /\ z.id = x.id /\ z.repeat = x.repeat - 1 /\ z.forever = x.forever
  BY DEF CountedDown
<1>1. fired \in Seq(Fire) /\ x.id \in 1..Len(fired) /\ Sound(x) /\ Counted(x, f, {m})
  BY DEF Ticking
<1>2. f.asked \in Nat /\ f.runs \in Nat
  BY <1>1, FireFields
<1>3. Counted(z, f, {})
  <2>1. RunsNow({m}, x.id) /\ ~RunsNow({}, z.id)
    BY <1>0 DEF RunsNow
  <2>2. /\ x.forever = FALSE /\ x.repeat # 0 /\ f.asked > 0 /\ f.asked - f.runs = Meant(x.repeat) - 1
    BY <1>1, <2>1 DEF Counted
  <2>3. x.repeat \in Int /\ ~(x.repeat <= 1)
    BY <1>1 DEF Sound, Spent
  <2>4. Meant(x.repeat) = x.repeat /\ Meant(z.repeat) = x.repeat - 1 /\ z.repeat # 0
    BY <1>0, <2>3, MeantIs
  <2>5. f.asked - f.runs = Meant(z.repeat) - 0
    BY <1>2, <2>2, <2>3, <2>4
  <2> HIDE DEF f
  <2> QED BY <1>0, <2>1, <2>2, <2>4, <2>5 DEF Counted
<1>4. ASSUME NEW y \in U
      PROVE  y.id \in 1..Len(fired) /\ Sound(y) /\ Counted(y, fired[y.id], {})
  <2>1. CASE y = z
    BY <1>0, <1>1, <1>3, <2>1 DEF f
  <2>2. CASE y \in T /\ y # x
    <3>1. y.id # m.id
      BY <2>2
    <3>2. y.id \in 1..Len(fired) /\ Sound(y) /\ Counted(y, fired[y.id], {m})
      BY <2>2 DEF Ticking
    <3> QED BY <3>1, <3>2, OthersRest DEF Counted
  <2> QED BY <2>1, <2>2
<1>5. ASSUME NEW k \in 1..Len(fired)
      PROVE  /\ fired[k].asked > 0 => fired[k].runs <= fired[k].asked
             /\ (\A y \in U : y.id # k) /\ fired[k].cut = FALSE => fired[k].asked > 0 /\ fired[k].runs = fired[k].asked
  <2>1. fired[k].asked > 0 => fired[k].runs <= fired[k].asked
    BY DEF Ticking
  <2>2. (\A y \in U : y.id # k) => \A y \in T : y.id # k
    BY <1>0
  <2> QED BY <2>1, <2>2 DEF Ticking
<1> QED BY <1>1, <1>4, <1>5 DEF Ticking

\* The timers whose command is running.
Fires(s) == {m \in Marks(s) : m.at = "timer"}
Scripted(l) == "script" \in DOMAIN l /\ l.script \in Seq(Seq(Cmds))
TimerInv ==
    /\ Held(stack) /\ Scripted(left)
    /\ TimerList(timers, hooked) /\ Ticking(Elems(timers), fired, Fires(stack))

LEMMA TimerInvNext ==
    TimerInv' = ( /\ Held(stack') /\ Scripted(left')
                  /\ TimerList(timers', hooked') /\ Ticking(Elems(timers'), fired', Fires(stack')) )
BY DEF TimerInv, Held, Holds, Says, Spoken, Scripted, TimerList, Distinct, Elems, Ticking, Sound, Counted, RunsNow, Fires, Marks

LEMMA timer_done_Ticks ==
    ASSUME StackInv, TimerInv, stack # <<>>, timer_done
    PROVE  TimerList(timers', hooked') /\ Ticking(Elems(timers'), fired', Fires(stack'))
<1> DEFINE i == Place(Top.id)
           x == timers[i]
           T == Elems(timers)
<1>1. Top.at = "timer" /\ Top.at \in Waiting
  BY DEF timer_done, Waiting
<1>2. Below = <<>> /\ Marks(Below) = {} /\ Marks(stack) = {Top}
  BY <1>1, TimerMarks
<1>3. Fires(stack) = {Top} /\ Fires(Below) = {}
  BY <1>1, <1>2 DEF Fires
<1>4. TimerList(timers, hooked) /\ Ticking(T, fired, {Top})
  BY <1>3 DEF TimerInv
<1>5. CASE Top.id \notin Listed
  <2>1. UNCHANGED <<stack, timers, hooked, fired>>
    BY <1>5 DEF timer_done, Crash, ticking
  <2> QED BY <1>3, <1>4, <2>1
<1>6. CASE Top.id \in Listed
  <2>1. i \in 1..Len(timers) /\ x.id = Top.id /\ x \in T /\ DOMAIN timers = 1..Len(timers)
    BY <1>4, <1>6, PlaceOf
  <2>2. \A y \in T : y.id = x.id => y = x
    BY <1>4, <2>1, OneOfEach DEF TimerList
  <2>3. Fires(stack') = {}
    BY <1>3, <1>6 DEF timer_done, Return
  <2>4. \/ x.forever /\ UNCHANGED <<timers, hooked, fired>>
        \/ ~x.forever /\ Spent(x) /\ timer_del(Top.id) /\ UNCHANGED fired
        \/ ~x.forever /\ ~Spent(x) /\ timers' = [timers EXCEPT ![i].repeat = @ - 1] /\ UNCHANGED <<hooked, fired>>
    BY <1>6 DEF timer_done, ticking
  <2>5. Sound(x) /\ x.forever \in BOOLEAN
    BY <1>4, <2>1 DEF Ticking, Counted
  <2> HIDE DEF i, x, T
  <2>6. CASE x.forever /\ UNCHANGED <<timers, hooked, fired>>
    <3>1. x.forever = TRUE
      BY <2>5, <2>6
    <3>2. Ticking(T, fired, {})
      BY <1>1, <1>4, <2>1, <2>2, <3>1, EndForever
    <3> QED BY <1>4, <2>3, <2>6, <3>2 DEF T
  <2>7. CASE ~x.forever /\ Spent(x) /\ timer_del(Top.id) /\ UNCHANGED fired
    <3>1. x.forever # TRUE
      BY <2>5, <2>7
    <3>2. TimerList(timers', hooked')
      BY <1>4, <1>6, <2>7, DelTimer
    <3>3. PICK z \in T : /\ z.id = Top.id /\ Elems(timers') = T \ {z}
                         /\ \A y \in Elems(timers') : y.id # Top.id
      BY <1>4, <1>6, <2>7, DelTimer DEF T
    <3>4. z = x
      BY <2>1, <2>2, <3>3
    <3>5. Elems(timers') = T \ {x} /\ \A y \in Elems(timers') : y.id # x.id
      BY <2>1, <3>3, <3>4
    <3>6. Ticking(Elems(timers'), fired, {})
      BY <1>1, <1>4, <2>1, <2>7, <3>1, <3>5, EndSpent
    <3> QED BY <2>3, <2>7, <3>2, <3>6
  <2>8. CASE ~x.forever /\ ~Spent(x) /\ timers' = [timers EXCEPT ![i].repeat = @ - 1] /\ UNCHANGED <<hooked, fired>>
    <3> DEFINE z == [x EXCEPT !.repeat = x.repeat - 1]
               n == Len(timers)
    <3>1. x.forever # TRUE
      BY <2>5, <2>8
    <3>2. z.id = x.id /\ z.repeat = x.repeat - 1 /\ z.forever = x.forever /\ Sound(z)
      BY <2>5 DEF Sound
    <3>3. timers' = [timers EXCEPT ![i] = z]
      BY <2>1, <2>8 DEF x
    <3>4. PICK S : timers \in Seq(S)
      BY <1>4 DEF TimerList, IsSeq
    <3> DEFINE R == S \cup {z}
    <3> HIDE DEF z
    <3>5. timers \in Seq(R) /\ z \in R
      BY <3>4
    <3> HIDE DEF R
    <3>6. Put(R, timers, i, z, [timers EXCEPT ![i] = z])
      BY <2>1, <3>5, PutAt
    <3>7. /\ timers' \in Seq(R) /\ Len(timers') = n /\ timers'[i] = z /\ i \in 1..n
          /\ \A k \in 1..n : k # i => timers'[k] = timers[k]
      BY <2>1, <3>3, <3>6 DEF Put
    <3>8. \A k \in 1..n : timers'[k].id = timers[k].id
      BY <3>2, <3>7 DEF x
    <3>9. Distinct(timers')
      BY <1>4, <3>7, <3>8 DEF Distinct, TimerList
    <3>10. Elems(timers') = (T \ {x}) \cup {z}
      <4>1. ASSUME NEW y \in Elems(timers') PROVE y \in (T \ {x}) \cup {z}
        <5>1. PICK k \in 1..n : y = timers'[k]
          BY <3>7 DEF Elems
        <5>2. CASE k = i
          BY <3>7, <5>1, <5>2
        <5>3. CASE k # i
          <6>1. y = timers[k] /\ y \in T
            BY <3>7, <5>1, <5>3 DEF Elems, T
          <6>2. timers[k].id # timers[i].id
            BY <1>4, <3>7, <5>3 DEF Distinct, TimerList
          <6> QED BY <6>1, <6>2 DEF x
        <5> QED BY <5>2, <5>3
      <4>2. ASSUME NEW y \in T, y # x PROVE y \in Elems(timers')
        <5>1. PICK k \in 1..n : y = timers[k]
          BY DEF Elems, T
        <5>2. k # i /\ y = timers'[k]
          BY <3>7, <4>2, <5>1 DEF x
        <5> QED BY <3>7, <5>2 DEF Elems
      <4>3. z \in Elems(timers')
        BY <3>7 DEF Elems
      <4> QED BY <4>1, <4>2, <4>3
    <3>11. TimerList(timers', hooked')
      <4>1. {y.id : y \in Elems(timers')} = {y.id : y \in T}
        BY <2>1, <3>2, <3>10
      <4>2. IsSeq(timers')
        BY <3>7 DEF IsSeq
      <4> QED BY <1>4, <2>8, <3>9, <4>1, <4>2 DEF TimerList, T
    <3>12. Ticking(Elems(timers'), fired, {})
      <4>1. Top.at = "timer" /\ Ticking(T, fired, {Top}) /\ x \in T /\ x.id = Top.id /\ ~Spent(x)
        BY <1>1, <1>4, <2>1, <2>8
      <4>2. CountedDown(x, z)
        BY <3>2 DEF CountedDown
      <4>3. Ticking((T \ {x}) \cup {z}, fired, {})
        BY <2>2, <3>1, <4>1, <4>2, EndCounted
      <4> QED BY <3>10, <4>3
    <3> QED BY <2>3, <2>8, <3>11, <3>12
  <2> QED BY <2>4, <2>6, <2>7, <2>8
<1> QED BY <1>5, <1>6

LEMMA timeout_cb_Ticks ==
    ASSUME StackInv, ChildInv, TimerInv, NEW i \in DOMAIN timers, timeout_cb(i)
    PROVE  TimerInv'
<1> DEFINE x == timers[i]
           T == Elems(timers)
           m == [at |-> "timer", id |-> x.id]
           f == [at |-> "command", tab |-> x.tab, cmd |-> x.cmd]
<1>1. Idle /\ stack = <<>> /\ Marks(stack) = {} /\ command_level = 0
  BY IdleStack DEF timeout_cb
<1>2. Fires(stack) = {}
  BY <1>1 DEF Fires
<1>3. TimerList(timers, hooked) /\ Ticking(T, fired, {}) /\ Scripted(left)
  BY <1>2 DEF TimerInv
<1>4. DOMAIN timers = 1..Len(timers)
  BY <1>3 DEF TimerList, IsSeq
<1>5. x \in T /\ x.id \in Listed
  BY <1>4 DEF Elems, Listed
<1>6. Sound(x)
  BY <1>3, <1>5 DEF Ticking
<1>7. CASE x.tab \notin Open
  <2>1. timer_del(x.id) /\ fired' = [fired EXCEPT ![x.id].cut = TRUE] /\ stack' = stack /\ left' = left
    BY <1>7 DEF timeout_cb, depth
  <2> HIDE DEF x, T
  <2>2. TimerList(timers', hooked') /\ Ticking(Elems(timers'), fired', {})
    BY <1>3, <1>5, <2>1, CutTimer DEF T
  <2>3. Held(stack')
    BY <2>1 DEF TimerInv
  <2> QED BY <1>2, <1>3, <2>1, <2>2, <2>3, TimerInvNext
<1>8. CASE x.tab \in Open
  <2>1. /\ fired' = [fired EXCEPT ![x.id].runs = @ + 1] /\ UNCHANGED <<timers, hooked>>
        /\ left' = [left EXCEPT !.fires = @ - 1]
    BY <1>8 DEF timeout_cb
  <2>2. stack' = <<f>> \o <<m>>
    BY <1>1, <1>8, SizesAssumption DEF timeout_cb, Enter
  <2>3. Marks(stack') = {m}
    <3>1. \/ Marks(stack') = {} /\ timers[i].tab \notin Open
          \/ Marks(stack') = {[at |-> "timer", id |-> timers[i].id]} /\ timers[i].tab \in Open
      BY timeout_cb_Inv
    <3> QED BY <1>8, <3>1
  <2>4. m.at = "timer" /\ m.id = x.id
    OBVIOUS
  <2>5. f.at = "command" /\ "cmd" \in DOMAIN f /\ f.cmd \in Cmds
    BY <1>6 DEF Sound
  <2> HIDE DEF x, m, f
  <2>6. Fires(stack') = {m}
    BY <2>3, <2>4 DEF Fires
  <2>7. \A y \in T : y.id = x.id => y = x
    BY <1>3, <1>5, OneOfEach DEF TimerList
  <2> HIDE DEF T
  <2>8. Ticking(T, fired', {m})
    BY <1>3, <1>5, <2>1, <2>4, <2>7, FireTimer
  <2>9. Held(stack')
    <3>1. Holds(f) /\ Holds(m)
      BY <2>4, <2>5 DEF Holds, Saying
    <3>2. Held(<<>>)
      BY NoneSeq DEF Held
    <3>3. Held(<<m>> \o <<>>) /\ IsSeq(<<m>> \o <<>>)
      BY <3>1, <3>2, NoneSeq, PushHeld, InFront
    <3>4. <<m>> = <<m>> \o <<>>
      BY SingleSeq
    <3>5. Held(<<m>>) /\ IsSeq(<<m>>)
      BY <3>3, <3>4
    <3> QED BY <2>2, <3>1, <3>5, PushHeld
  <2>10. Scripted(left')
    BY <1>3, <2>1 DEF Scripted
  <2>11. TimerList(timers', hooked') /\ Ticking(Elems(timers'), fired', {m})
    BY <1>3, <2>1, <2>8 DEF T
  <2> QED BY <2>6, <2>9, <2>10, <2>11, TimerInvNext
<1> QED BY <1>7, <1>8

LEMMA plugin_emit_Ticks ==
    ASSUME StackInv, TimerInv, stack # <<>>, plugin_emit
    PROVE  /\ TimerList(timers', hooked') /\ Ticking(Elems(timers'), fired', Fires(stack))
           /\ Scripted(left')
<1>1. TimerList(timers, hooked) /\ Ticking(Elems(timers), fired, Fires(stack)) /\ Scripted(left) /\ Held(stack)
  BY DEF TimerInv
<1>2. Holds(Top)
  BY <1>1, HeldTop DEF StackInv
<1>3. \/ UNCHANGED ticking
      \/ Top.at = "command" /\ timer_cb(Top.tab, Top.cmd)
  BY DEF plugin_emit, ticking
<1>4. left' = left \/ left' = [left EXCEPT !.hooks = @ - 1, !.acted = TRUE]
  BY DEF plugin_emit
<1>5. Scripted(left')
  BY <1>1, <1>4 DEF Scripted
<1>6. CASE UNCHANGED ticking
  BY <1>1, <1>5, <1>6 DEF ticking
<1>7. CASE Top.at = "command" /\ timer_cb(Top.tab, Top.cmd)
  <2>1. Top.cmd \in Cmds
    BY <1>2, <1>7 DEF Holds
  <2> QED BY <1>1, <1>5, <1>7, <2>1, timer_cb_Ticks
<1> QED BY <1>3, <1>6, <1>7

LEMMA Step_Ticks ==
    ASSUME StackInv, ChildInv, TimerInv, Step
    PROVE  TimerInv'
<1>1. Moves /\ stack # <<>>
  BY StepMoves
<1>2. Top.at \notin Waiting => Fires(stack') = Fires(stack)
  BY <1>1, SizesAssumption, MovesKeep DEF Fires, Marks
<1>3. Held(stack')
  BY StepHeld DEF TimerInv
<1>4. /\ TimerList(timers, hooked) /\ Ticking(Elems(timers), fired, Fires(stack)) /\ Scripted(left)
  BY DEF TimerInv
<1>5. CASE timer_done
  <2>1. Scripted(left')
    BY <1>4, <1>5 DEF timer_done
  <2> QED BY <1>1, <1>3, <1>5, <2>1, timer_done_Ticks, TimerInvNext
<1>6. CASE plugin_emit
  <2>1. Top.at \notin Waiting
    BY <1>6 DEF plugin_emit, Waiting
  <2> QED BY <1>1, <1>2, <1>3, <1>6, <2>1, plugin_emit_Ticks, TimerInvNext
<1>7. CASE exec_done
  <2>1. Top.at = "eof" /\ Top.at \in Waiting /\ UNCHANGED <<timers, hooked, fired, left>>
    BY <1>7 DEF exec_done, ticking, Waiting
  <2>2. Marks(Below) = {} /\ Marks(stack) = {Top}
    BY <1>1, <2>1, TimerMarks
  <2>3. stack' = stack \/ stack' = Below
    BY <1>7 DEF exec_done, Crash, Return
  <2>4. Fires(stack) = {} /\ Fires(stack') = {}
    BY <2>1, <2>2, <2>3 DEF Fires
  <2> QED BY <1>3, <1>4, <2>1, <2>4, TimerInvNext
<1>8. CASE handle_multiline \/ handle_say \/ p_message \/ handle_command \/ user_command \/ cmd_allchannels \/ Done
  <2>1. Top.at \notin Waiting /\ UNCHANGED <<timers, hooked, fired, left>>
    BY <1>8 DEF handle_multiline, handle_say, p_message, handle_command, user_command, cmd_allchannels, Done,
                Waiting, ticking
  <2> QED BY <1>2, <1>3, <1>4, <2>1, TimerInvNext
<1> QED BY <1>5, <1>6, <1>7, <1>8 DEF Step

\* One frame on the empty stack, that holds what it should.
LEMMA HeldOne ==
    ASSUME NEW f, Holds(f)
    PROVE  Held(<<f>>) /\ IsSeq(<<f>>)
<1>1. Held(<<>>)
  BY NoneSeq DEF Held
<1>2. Held(<<f>> \o <<>>) /\ IsSeq(<<f>> \o <<>>)
  BY <1>1, NoneSeq, PushHeld, InFront
<1> QED BY <1>2, SingleSeq

LEMMA TypedHolds ==
    ASSUME NEW lines \in Seq(Seq(Chars)), NEW t
    PROVE  Holds([at |-> "lines", tab |-> t, rest |-> Typed(lines)])
<1> DEFINE f == [at |-> "lines", tab |-> t, rest |-> Typed(lines)]
<1>1. f.at = "lines" /\ f.rest = Typed(lines)
  OBVIOUS
<1>2. Talk(f)
  BY TypedTalk
<1>4. \A i \in 1..Len(Typed(lines)) : Spoken(Typed(lines)[i])
  <2>1. Len(Typed(lines)) = Len(lines) /\ \A i \in 1..Len(lines) : lines[i] \in Words
    <3>1. \A i \in 1..Len(lines) : lines[i] \in Seq(Chars)
      OBVIOUS
    <3>2. Seq(Chars) \subseteq Words
      <4>1. Chars \subseteq Letters
        BY DEF Letters
      <4> HIDE DEF Letters
      <4> QED BY <4>1 DEF Words
    <3>3. Len(Typed(lines)) = Len(lines)
      BY TypedTalk
    <3> QED BY <3>1, <3>2, <3>3
  <2>2. \A i \in 1..Len(lines) : Typed(lines)[i].op = "text" /\ Typed(lines)[i].text = lines[i]
    BY DEF Typed
  <2> HIDE DEF f
  <2> QED BY <2>1, <2>2 DEF Spoken
<1> HIDE DEF f
<1>3. Holds(f)
  BY <1>1, <1>2, <1>4 DEF Talk, Holds, Saying
<1> QED BY <1>3 DEF f

LEMMA MainLoop_Ticks ==
    ASSUME StackInv, ChildInv, TimerInv, MainLoop
    PROVE  TimerInv'
<1>1. TimerList(timers, hooked) /\ Ticking(Elems(timers), fired, Fires(stack)) /\ Scripted(left)
  BY DEF TimerInv
<1>2. CASE \E i \in DOMAIN timers : timeout_cb(i)
  BY <1>2, timeout_cb_Ticks
<1>3. CASE Type
  <2>1. Idle /\ UNCHANGED <<timers, hooked, fired>> /\ left.script # <<>> /\ left' = [left EXCEPT !.script = Tail(@)]
    BY <1>3 DEF Type, ticking
  <2>2. PICK t : stack' = <<[at |-> "lines", tab |-> t, rest |-> Head(left.script)]>>
    BY <1>3 DEF Type
  <2> DEFINE s == left.script
             f == [at |-> "lines", tab |-> t, rest |-> Head(s)]
  <2>3. s \in Seq(Seq(Cmds)) /\ s # <<>>
    BY <1>1, <2>1 DEF Scripted
  <2> DEFINE L == Seq(Cmds)
  <2>4. Head(s) \in L /\ Tail(s) \in Seq(L)
    <3> HIDE DEF s, L
    <3>1. s \in Seq(L)
      BY <2>3 DEF L
    <3> QED BY <2>3, <3>1
  <2>5. Scripted(left')
    BY <1>1, <2>1, <2>4 DEF Scripted
  <2>6. Holds(f)
    <3>1. f.at = "lines" /\ "rest" \in DOMAIN f /\ f.rest = Head(s)
      OBVIOUS
    <3>2. IsSeq(Head(s)) /\ \A i \in 1..Len(Head(s)) : Head(s)[i] \in Cmds
      BY <2>4 DEF IsSeq
    <3> HIDE DEF f, s
    <3> QED BY <3>1, <3>2 DEF Holds, Saying, Spoken
  <2>7. Held(stack')
    <3>1. stack' = <<f>>
      BY <2>2
    <3> HIDE DEF f
    <3> QED BY <2>6, <3>1, HeldOne
  <2>8. Fires(stack) = {} /\ Fires(stack') = {}
    BY <1>3, <2>1, IdleStack, Type_Inv DEF Fires
  <2> QED BY <1>1, <2>1, <2>5, <2>7, <2>8, TimerInvNext
<1>4. ASSUME NEW t \in Open, exec_data(t) PROVE TimerInv'
  <2>1. Idle /\ UNCHANGED <<timers, hooked, fired, left>>
    BY <1>4 DEF exec_data, ticking
  <2>2. Children(Open, exec, child, {})
    BY <2>1, IdleStack DEF ChildInv
  <2>3. PICK lines \in Seq(Seq(Chars)) :
          stack' \in {<<>>, <<[at |-> "lines", tab |-> t, rest |-> Typed(lines)]>>}
    BY <1>4, <2>2, exec_data_Children
  <2>4. Held(stack')
    <3>1. Held(<<>>)
      BY NoneSeq DEF Held
    <3> DEFINE f == [at |-> "lines", tab |-> t, rest |-> Typed(lines)]
    <3>2. Holds(f)
      BY TypedHolds
    <3>3. stack' \in {<<>>, <<f>>}
      BY <2>3
    <3> HIDE DEF f
    <3> QED BY <3>1, <3>2, <3>3, HeldOne
  <2>5. Fires(stack) = {} /\ Fires(stack') = {}
    BY <1>4, <2>1, IdleStack, exec_data_Inv DEF Fires
  <2> QED BY <1>1, <2>1, <2>4, <2>5, TimerInvNext
<1>5. ASSUME NEW t \in Open, exec_eof(t) PROVE TimerInv'
  <2> DEFINE lines == LinesOf(exec[t].linebuf)
             f == [at |-> "lines", tab |-> t, rest |-> Typed(lines)]
             m == [at |-> "eof", tab |-> t, pid |-> exec[t].pid]
  <2>1. Idle /\ UNCHANGED <<timers, hooked, fired, left>>
    BY <1>5 DEF exec_eof, ticking
  <2>2. Children(Open, exec, child, {})
    BY <2>1, IdleStack DEF ChildInv
  <2>3. lines \in Seq(Seq(Chars))
    BY <1>5, <2>2, exec_eof_Children
  <2>4. stack' = <<f>> \o <<m>> \/ stack' = <<>> \o <<m>>
    BY <1>5 DEF exec_eof
  <2>5. Holds(f)
    BY <2>3, TypedHolds
  <2>6. Holds(m)
    <3>1. m.at = "eof"
      OBVIOUS
    <3> HIDE DEF m
    <3> QED BY <3>1 DEF Holds, Saying
  <2>7. <<>> \o <<m>> = <<m>>
    OBVIOUS
  <2>8. Marks(stack') = {m} /\ m.at = "eof"
    BY <1>5, exec_eof_Inv
  <2> HIDE DEF f, m, lines
  <2>9. Held(stack')
    BY <2>4, <2>5, <2>6, <2>7, HeldOne, PushHeld
  <2>10. Fires(stack) = {} /\ Fires(stack') = {}
    BY <2>1, <2>8, IdleStack DEF Fires
  <2> QED BY <1>1, <2>1, <2>9, <2>10, TimerInvNext
<1> QED BY <1>2, <1>3, <1>4, <1>5 DEF MainLoop

\* What the frames hold, and how often every timer has still to run.
LEMMA TimersHold == Spec => []TimerInv
<1>1. Init => TimerInv
  <2> SUFFICES ASSUME Init PROVE TimerInv
    OBVIOUS
  <2>1. stack = <<>> /\ timers = <<>> /\ hooked = {} /\ fired = <<>> /\ left \in Scripts
    BY DEF Init
  <2>2. Held(<<>>) /\ IsSeq(<<>>) /\ 1..Len(<<>>) = {}
    BY NoneSeq DEF Held
  <2>3. Scripted(left)
    BY <2>1, CmdsAssumption DEF Scripted
  <2>4. Elems(<<>>) = {} /\ Fires(<<>>) = {} /\ Distinct(<<>>)
    BY <2>2, EmptyStack DEF Elems, Fires, Distinct
  <2>5. <<>> \in Seq(Fire)
    OBVIOUS
  <2>6. Ticking({}, <<>>, {})
    BY <2>2, <2>5 DEF Ticking
  <2> QED BY <2>1, <2>2, <2>3, <2>4, <2>6 DEF TimerInv, TimerList
<1>2. StackInv /\ ChildInv /\ TimerInv /\ [Next]_vars => TimerInv'
  <2> SUFFICES ASSUME StackInv, ChildInv, TimerInv, [Next]_vars PROVE TimerInv'
    OBVIOUS
  <2>1. CASE Step
    BY <2>1, Step_Ticks
  <2>2. CASE MainLoop
    BY <2>2, MainLoop_Ticks
  <2>3. CASE Child \/ UNCHANGED vars
    <3>1. UNCHANGED <<stack, timers, hooked, fired, left>>
      BY <2>3 DEF Child, ChildWrites, ChildEnds, vars, depth, ticking
    <3> QED BY <3>1, TimerInvNext DEF TimerInv
  <2> QED BY <2>1, <2>2, <2>3 DEF Next
<1> QED BY <1>1, <1>2, StackAndChildren, PTL DEF Spec

\* A timer runs its command as often as it was asked to, and none fires that is not listed,
\* whatever the commands do to the windows and to the timers (plugin-timer.cpp).
THEOREM TimersAreExact == Spec => []TimersExact
<1>1. StackInv /\ TimerInv => TimersExact
  <2> SUFFICES ASSUME StackInv, TimerInv PROVE TimersExact
    OBVIOUS
  <2>1. TimerList(timers, hooked) /\ Ticking(Elems(timers), fired, Fires(stack))
    BY DEF TimerInv
  <2>2. Listed = {x.id : x \in Elems(timers)} /\ hooked = Listed
    BY <2>1, ListedIs
  <2>3. DOMAIN stack = 1..Len(stack) /\ DOMAIN fired = 1..Len(fired)
    BY <2>1 DEF StackInv, Frames, IsSeq, Ticking
  <2>4. ASSUME NEW id \in DOMAIN fired
        PROVE  LET f == fired[id]
                   running == \E i \in DOMAIN stack : stack[i].at = "timer" /\ stack[i].id = id
               IN /\ f.asked > 0 => f.runs <= f.asked
                  /\ id \notin Listed /\ ~f.cut => f.asked > 0 /\ f.runs = f.asked
                  /\ id \in Listed /\ f.asked > 0 /\ ~running => f.runs < f.asked
    <3> DEFINE f == fired[id]
               running == \E i \in DOMAIN stack : stack[i].at = "timer" /\ stack[i].id = id
    <3>1. id \in 1..Len(fired) /\ f.asked \in Nat /\ f.runs \in Nat /\ f.cut \in BOOLEAN
      BY <2>1, <2>3, FireFields DEF Ticking
    <3>2. f.asked > 0 => f.runs <= f.asked
      BY <2>1, <3>1 DEF Ticking
    <3>3. id \notin Listed /\ ~f.cut => f.asked > 0 /\ f.runs = f.asked
      <4>1. id \notin Listed => \A x \in Elems(timers) : x.id # id
        BY <2>2
      <4>2. ~f.cut => f.cut = FALSE
        BY <3>1
      <4> QED BY <2>1, <3>1, <4>1, <4>2 DEF Ticking
    <3>4. ASSUME id \in Listed, f.asked > 0, ~running PROVE f.runs < f.asked
      <4>1. PICK x \in Elems(timers) : x.id = id
        BY <2>2, <3>4
      <4>2. Sound(x) /\ Counted(x, f, Fires(stack))
        BY <2>1, <4>1 DEF Ticking
      <4>3. ~RunsNow(Fires(stack), id)
        BY <2>3, <3>4 DEF RunsNow, Fires, Marks
      <4>4. x.repeat # 0 /\ f.asked - f.runs = Meant(x.repeat) - 0 /\ x.repeat \in Int
        BY <3>4, <4>1, <4>2, <4>3 DEF Counted, Sound
      <4>5. Meant(x.repeat) \in Nat /\ Meant(x.repeat) >= 1
        BY <4>4, MeantIs
      <4> HIDE DEF f
      <4> QED BY <3>1, <4>4, <4>5
    <3> QED BY <3>2, <3>3, <3>4
  <2> QED BY <2>2, <2>4 DEF TimersExact
<1> QED BY <1>1, StackAndChildren, TimersHold, PTL

-----------------------------------------------------------------------------
(* What is said                                                            *)

\* g is the table from which Joined(messages) is read.
Joins(messages, g) ==
    g = [i \in 0..Len(messages) |-> IF i = 0 THEN <<>> ELSE g[i-1] \o messages[i]]

LEMMA JoinsExist ==
    ASSUME NEW messages, Len(messages) \in Nat
    PROVE  \E g : Joins(messages, g)
<1> DEFINE Upto(n, g) == g = [i \in 0..n |-> IF i = 0 THEN <<>> ELSE g[i-1] \o messages[i]]
           T == {n \in Nat : \E g : Upto(n, g)}
<1>1. 0 \in T
  <2>1. Upto(0, [i \in 0..0 |-> <<>>])
    OBVIOUS
  <2> QED BY <2>1
<1>2. ASSUME NEW n \in Nat, n \in T PROVE n + 1 \in T
  <2>1. PICK g : Upto(n, g)
    BY <1>2
  <2> DEFINE h == [i \in 0..(n+1) |-> IF i <= n THEN g[i] ELSE g[i-1] \o messages[i]]
  <2>2. \A i \in 0..n : g[i] = IF i = 0 THEN <<>> ELSE g[i-1] \o messages[i]
    BY <2>1
  <2>3. ASSUME NEW i \in 0..(n+1)
        PROVE  h[i] = IF i = 0 THEN <<>> ELSE h[i-1] \o messages[i]
    <3>1. i # 0 => i - 1 \in 0..(n+1) /\ i - 1 <= n /\ h[i-1] = g[i-1]
      OBVIOUS
    <3>2. CASE i <= n
      <4>1. h[i] = g[i] /\ i \in 0..n
        BY <3>2
      <4> HIDE DEF h
      <4> QED BY <2>2, <3>1, <4>1
    <3>3. CASE ~(i <= n)
      <4>1. h[i] = IF i <= n THEN g[i] ELSE g[i-1] \o messages[i]
        OBVIOUS
      <4>2. i # 0
        BY <3>3
      <4> HIDE DEF h
      <4> QED BY <3>1, <3>3, <4>1, <4>2
    <3> QED BY <3>2, <3>3
  <2>4. Upto(n+1, h)
    <3>1. h = [i \in 0..(n+1) |-> h[i]]
      OBVIOUS
    <3> HIDE DEF h
    <3> QED BY <2>3, <3>1
  <2>5. \E f : Upto(n+1, f)
    <3> HIDE DEF h, Upto
    <3> QED BY <2>4
  <2> HIDE DEF Upto
  <2> QED BY <2>5
<1> HIDE DEF T
<1>3. Len(messages) \in T
  BY <1>1, <1>2, NatInduct
<1> QED BY <1>3 DEF T, Joins

LEMMA JoinedTable ==
    ASSUME NEW messages, Len(messages) \in Nat
    PROVE  \E g : /\ Joined(messages) = g[Len(messages)]
                  /\ \A i \in 0..Len(messages) : g[i] = IF i = 0 THEN <<>> ELSE g[i-1] \o messages[i]
<1> DEFINE g == CHOOSE g : Joins(messages, g)
<1>1. Joins(messages, g)
  BY JoinsExist
<1>2. Joined(messages) = g[Len(messages)]
  BY DEF Joined, Joins
<1> HIDE DEF g
<1>3. \A i \in 0..Len(messages) : g[i] = IF i = 0 THEN <<>> ELSE g[i-1] \o messages[i]
  BY <1>1 DEF Joins
<1> QED BY <1>2, <1>3

LEMMA JoinedNone == Joined(<<>>) = <<>>
<1>1. Len(<<>>) = 0
  OBVIOUS
<1>2. PICK g : /\ Joined(<<>>) = g[Len(<<>>)]
               /\ \A i \in 0..Len(<<>>) : g[i] = IF i = 0 THEN <<>> ELSE g[i-1] \o <<>>[i]
  BY <1>1, JoinedTable
<1>3. 0 \in 0..Len(<<>>)
  BY <1>1
<1> QED BY <1>1, <1>2, <1>3

\* Messages put together are a text, and one message more continues it.
LEMMA JoinedOn ==
    ASSUME NEW S, NEW messages \in Seq(Seq(S)), NEW m \in Seq(S)
    PROVE  /\ Joined(messages) \in Seq(S)
           /\ Joined(Append(messages, m)) = Joined(messages) \o m
<1> DEFINE n == Len(messages)
           all == Append(messages, m)
<1>1. /\ n \in Nat /\ Len(all) = n + 1 /\ all[n+1] = m
      /\ \A i \in 1..n : all[i] = messages[i] /\ messages[i] \in Seq(S)
  OBVIOUS
<1>2. PICK g : /\ Joined(messages) = g[n]
               /\ \A i \in 0..n : g[i] = IF i = 0 THEN <<>> ELSE g[i-1] \o messages[i]
  BY <1>1, JoinedTable
<1>3. PICK h : /\ Joined(all) = h[n+1]
               /\ \A i \in 0..(n+1) : h[i] = IF i = 0 THEN <<>> ELSE h[i-1] \o all[i]
  <2>1. Len(all) \in Nat
    BY <1>1
  <2> HIDE DEF all
  <2>2. \E h : /\ Joined(all) = h[Len(all)]
              /\ \A i \in 0..Len(all) : h[i] = IF i = 0 THEN <<>> ELSE h[i-1] \o all[i]
    BY <2>1, JoinedTable
  <2>3. Len(all) = n + 1
    BY <1>1
  <2> HIDE DEF n
  <2> QED BY <2>2, <2>3
<1> HIDE DEF all, n
<1> DEFINE T == {i \in Nat : i <= n => h[i] = g[i] /\ g[i] \in Seq(S)}
<1>4. 0 \in T
  <2>0. 0 \in 0..n /\ 0 \in 0..(n+1)
    BY <1>1
  <2>1. g[0] = <<>> /\ h[0] = <<>>
    BY <1>2, <1>3, <2>0
  <2>2. <<>> \in Seq(S)
    OBVIOUS
  <2> QED BY <2>1, <2>2
<1>5. ASSUME NEW i \in Nat, i \in T PROVE i + 1 \in T
  <2> SUFFICES ASSUME i + 1 <= n PROVE h[i+1] = g[i+1] /\ g[i+1] \in Seq(S)
    OBVIOUS
  <2>1. i + 1 \in 1..n /\ i + 1 \in 0..n /\ i + 1 \in 0..(n+1) /\ i + 1 # 0 /\ (i + 1) - 1 = i /\ i <= n
    BY <1>1
  <2>2. h[i+1] = h[i] \o messages[i+1] /\ g[i+1] = g[i] \o messages[i+1]
    BY <1>1, <1>2, <1>3, <2>1
  <2>3. h[i] = g[i] /\ g[i] \in Seq(S) /\ messages[i+1] \in Seq(S)
    BY <1>1, <1>5, <2>1
  <2> QED BY <2>2, <2>3, ConcatProperties
<1> HIDE DEF T
<1>6. n \in T
  BY <1>1, <1>4, <1>5, NatInduct
<1>7. h[n] = g[n] /\ g[n] \in Seq(S)
  BY <1>1, <1>6 DEF T
<1>8. h[n+1] = h[n] \o m
  <2>1. n + 1 \in 0..(n+1) /\ n + 1 # 0 /\ (n + 1) - 1 = n
    BY <1>1
  <2> QED BY <1>1, <1>3, <2>1
<1>9. Joined(messages) \in Seq(S) /\ Joined(all) = Joined(messages) \o m
  BY <1>2, <1>3, <1>7, <1>8
<1> QED BY <1>9 DEF all

\* A text that handle_say took on, and has not sent all of.
OnTheWay(f) == f.at \in {"printed", "send"} \/ (f.at \in {"say", "take"} /\ f.first = FALSE)
Silent(s) == \A i \in 1..Len(s) : s[i].at \notin Saying
\* No text is on the way, and if one is about to be, it is that of the running function.
Resting(s) == IsSeq(s) /\ (s # <<>> => ~OnTheWay(Head(s)) /\ Silent(Tail(s)))
Due(s, t) == IF s # <<>> /\ OnTheWay(Head(s)) /\ Head(s).tab = t THEN Head(s).text ELSE <<>>

\* What was sent fits; and it is, with what is still due, what was taken on.
Fit(out) == \A t \in ToSet(Tabs) : out[t] \in Seq(Words) /\ \A i \in 1..Len(out[t]) : Size(out[t][i]) <= MaxText
Balanced(s, out, taken) == \A t \in ToSet(Tabs) : Joined(out[t]) \o Due(s, t) = taken[t]
SayInv ==
    /\ "acted" \in DOMAIN left /\ left.acted \in BOOLEAN
    /\ DOMAIN sent = ToSet(Tabs) /\ DOMAIN owed = ToSet(Tabs) /\ Fit(sent)
    /\ stack # <<>> => Silent(Below)
    /\ left.acted = FALSE =>
         /\ stack # <<>> /\ OnTheWay(Top) => Top.tab \in Open /\ connected = TRUE
         /\ Balanced(stack, sent, owed)
\* The parts of it that most steps leave alone.
SayRest == /\ DOMAIN sent = ToSet(Tabs) /\ DOMAIN owed = ToSet(Tabs) /\ Fit(sent)
           /\ "acted" \in DOMAIN left /\ left.acted \in BOOLEAN

LEMMA SayInvNext ==
    SayInv' = ( /\ "acted" \in DOMAIN left' /\ left'.acted \in BOOLEAN
                /\ DOMAIN sent' = ToSet(Tabs) /\ DOMAIN owed' = ToSet(Tabs) /\ Fit(sent')
                /\ stack' # <<>> => Silent(Tail(stack'))
                /\ left'.acted = FALSE =>
                     /\ stack' # <<>> /\ OnTheWay(Head(stack')) => Head(stack').tab \in ToSet(sess_list') /\ connected' = TRUE
                     /\ Balanced(stack', sent', owed') )
BY DEF SayInv, Fit, Silent, Below, Top, Open, OnTheWay, Balanced, Due

LEMMA PushSilent ==
    ASSUME NEW f, NEW s, IsSeq(s)
    PROVE  Silent(<<f>> \o s) <=> f.at \notin Saying /\ Silent(s)
<1> DEFINE t == <<f>> \o s
<1>1. /\ Len(s) \in Nat /\ Len(t) = Len(s) + 1 /\ t[1] = f
      /\ \A i \in 1..Len(s) : t[i+1] = s[i]
  BY InFront
<1>2. \A i \in 1..Len(t) : i = 1 \/ (i - 1 \in 1..Len(s) /\ t[i] = s[i-1])
  BY <1>1
<1>3. \A i \in 1..Len(s) : i + 1 \in 1..Len(t)
  BY <1>1
<1>4. 1 \in 1..Len(t)
  BY <1>1
<1> HIDE DEF t
<1>5. Silent(t) => f.at \notin Saying /\ Silent(s)
  BY <1>1, <1>3, <1>4 DEF Silent
<1>6. f.at \notin Saying /\ Silent(s) => Silent(t)
  BY <1>1, <1>2 DEF Silent
<1> QED BY <1>5, <1>6 DEF t

\* A frame that says nothing yet, on silent ones.
LEMMA PushResting ==
    ASSUME NEW f, NEW s, IsSeq(s), Silent(s), ~OnTheWay(f)
    PROVE  Resting(<<f>> \o s)
BY InFront DEF Resting

LEMMA SilentRests ==
    ASSUME NEW s, IsSeq(s), Silent(s)
    PROVE  Resting(s) /\ (s # <<>> => Silent(Tail(s)) /\ IsSeq(Tail(s)) /\ Resting(Tail(s)))
<1>1. ASSUME NEW r, IsSeq(r), Silent(r) PROVE Resting(r) /\ (r # <<>> => Silent(Tail(r)) /\ IsSeq(Tail(r)))
  <2>1. CASE r = <<>>
    BY <1>1, <2>1 DEF Resting
  <2>2. CASE r # <<>>
    <3>1. r = <<Head(r)>> \o Tail(r) /\ IsSeq(Tail(r))
      BY <1>1, <2>2, HeadAndTail
    <3>2. Head(r).at \notin Saying /\ Silent(Tail(r))
      BY <1>1, <3>1, PushSilent
    <3>3. ~OnTheWay(Head(r))
      BY <3>2 DEF OnTheWay, Saying
    <3> QED BY <1>1, <2>2, <3>1, <3>2, <3>3 DEF Resting
  <2> QED BY <2>1, <2>2
<1> QED BY <1>1

\* What is entered or returned to says nothing yet.
LEMMA RestsOn ==
    ASSUME Frames(stack), stack # <<>>, Silent(Below),
           NEW g, ~OnTheWay(g),
           \/ Goto(<<g>> \o Below)
           \/ g.at \notin Saying /\ \E f : ~OnTheWay(f) /\ Goto(<<f>> \o (<<g>> \o Below))
           \/ g.at \notin Saying /\ \E tab : \E cmd : Enter(tab, cmd, <<g>> \o Below)
    PROVE  Resting(stack')
<1>1. IsSeq(Below)
  BY TopAndBelow
<1>2. Resting(<<g>> \o Below) /\ IsSeq(<<g>> \o Below)
  BY <1>1, PushResting, InFront
<1>3. g.at \notin Saying => \A f : ~OnTheWay(f) => Resting(<<f>> \o (<<g>> \o Below))
  BY <1>1, <1>2, PushSilent, PushResting
<1>4. CASE g.at \notin Saying /\ \E tab : \E cmd : Enter(tab, cmd, <<g>> \o Below)
  <2>0. PICK tab : \E cmd : Enter(tab, cmd, <<g>> \o Below)
    BY <1>4
  <2>1. PICK cmd : Enter(tab, cmd, <<g>> \o Below)
    BY <2>0
  <2> DEFINE f == [at |-> "command", tab |-> tab, cmd |-> cmd]
  <2>2. ~OnTheWay(f)
    BY DEF OnTheWay
  <2>3. stack' = <<f>> \o (<<g>> \o Below) \/ stack' = <<g>> \o Below
    BY <2>1 DEF Enter
  <2> HIDE DEF f
  <2> QED BY <1>2, <1>3, <1>4, <2>2, <2>3
<1>5. CASE g.at \notin Saying /\ \E f : ~OnTheWay(f) /\ Goto(<<f>> \o (<<g>> \o Below))
  BY <1>3, <1>5 DEF Goto
<1>6. CASE Goto(<<g>> \o Below)
  BY <1>2, <1>6 DEF Goto
<1> QED BY <1>4, <1>5, <1>6

LEMMA RestsBack ==
    ASSUME Frames(stack), stack # <<>>, Silent(Below),
           Leave \/ Return \/ (UNCHANGED stack /\ ~OnTheWay(Top))
    PROVE  Resting(stack')
<1>1. IsSeq(Below) /\ IsSeq(stack)
  BY TopAndBelow
<1>2. Resting(Below)
  BY <1>1, SilentRests
<1>3. ~OnTheWay(Top) => Resting(stack)
  BY <1>1 DEF Resting, Top, Below
<1>4. stack' = Below \/ (stack' = stack /\ ~OnTheWay(Top))
  BY DEF Leave, Return
<1> QED BY <1>2, <1>3, <1>4

\* Nothing of a text is on the way, before or after a step that sends nothing.
LEMMA RestKeeps ==
    ASSUME SayInv, Resting(stack'), stack # <<>> => ~OnTheWay(Top),
           UNCHANGED talk, "acted" \in DOMAIN left', left'.acted \in {left.acted, TRUE}
    PROVE  SayInv'
<1>1. sent' = sent /\ owed' = owed
  BY DEF talk
<1>2. stack' # <<>> => ~OnTheWay(Head(stack')) /\ Silent(Tail(stack'))
  BY DEF Resting
<1>3. \A t : Due(stack, t) = <<>> /\ Due(stack', t) = <<>>
  BY <1>2 DEF Due, Top
<1>4. left'.acted = FALSE => left.acted = FALSE
  OBVIOUS
<1>5. left.acted = FALSE => Balanced(stack, sent, owed)
  BY DEF SayInv
<1>6. Balanced(stack, sent, owed) => Balanced(stack', sent', owed')
  BY <1>1, <1>3 DEF Balanced
<1>7. left'.acted \in BOOLEAN
  BY DEF SayInv
<1>8. DOMAIN sent = ToSet(Tabs) /\ DOMAIN owed = ToSet(Tabs) /\ Fit(sent)
  BY DEF SayInv
<1> QED BY <1>1, <1>2, <1>4, <1>5, <1>6, <1>7, <1>8, SayInvNext

\* The functions that are not handle_say.
LEMMA plugin_emit_Rests ==
    ASSUME Frames(stack), stack # <<>>, Silent(Below), plugin_emit, Top.at = "command"
    PROVE  Resting(stack') /\ UNCHANGED talk
<1> DEFINE g == [Top EXCEPT !.at = CASE @ = "command" -> "run" [] @ = "say" -> "take" [] @ = "printed" -> "send"]
<1>1. "at" \in DOMAIN Top
  BY TopAndBelow
<1>2. ~OnTheWay(g)
  BY <1>1 DEF OnTheWay
<1>4. Leave \/ Goto(<<g>> \o Below)
  BY DEF plugin_emit
<1>5. UNCHANGED talk
  BY DEF plugin_emit
<1> HIDE DEF g
<1> QED BY <1>2, <1>4, <1>5, RestsOn, RestsBack

LEMMA handle_multiline_Rests ==
    ASSUME Frames(stack), stack # <<>>, Silent(Below), handle_multiline
    PROVE  Resting(stack')
<1> DEFINE g == [Top EXCEPT !.rest = Tail(@)]
           f == [at |-> "say", tab |-> Top.tab, text |-> Head(Top.rest).text, first |-> TRUE]
<1>1. "at" \in DOMAIN Top /\ Top.at = "lines"
  BY TopAndBelow DEF handle_multiline
<1>2. g.at = "lines" /\ ~OnTheWay(f) /\ ~OnTheWay(Top)
  BY <1>1 DEF OnTheWay
<1>3. \/ Return
      \/ Crash("lines")
      \/ Goto(<<f>> \o (<<g>> \o Below))
      \/ \E tab : \E cmd : Enter(tab, cmd, <<g>> \o Below)
  BY DEF handle_multiline
<1> HIDE DEF g, f
<1>4. ~OnTheWay(g) /\ g.at \notin Saying
  BY <1>2 DEF OnTheWay, Saying
<1>5. Crash("lines") => UNCHANGED stack
  BY DEF Crash
<1> QED BY <1>2, <1>3, <1>4, <1>5, RestsOn, RestsBack

LEMMA handle_command_Rests ==
    ASSUME Frames(stack), stack # <<>>, Silent(Below), handle_command
    PROVE  Resting(stack')
<1> DEFINE t == Top.tab
           u == [at |-> "usercmds", tab |-> Top.tab, cmd |-> Top.cmd, i |-> 1]
           a == [at |-> "all", tab |-> Head(sess_list), body |-> Top.cmd.body, called |-> FALSE]
           f == [at |-> "say", tab |-> t, text |-> Top.cmd.text, first |-> TRUE]
           r == [at |-> "return"]
<1>1. IsSeq(Below)
  BY TopAndBelow
<1>2. ~OnTheWay(u) /\ ~OnTheWay(a) /\ ~OnTheWay(f) /\ ~OnTheWay(r) /\ r.at \notin Saying
  BY DEF OnTheWay, Saying
<1>4. \/ Leave
      \/ Goto(<<u>> \o Below)
      \/ Goto(<<f, r>> \o Below)
      \/ Goto(<<a>> \o Below)
      \/ stack' = IF Below # <<>> /\ Head(Below).at = "lines" THEN Tail(Below) ELSE Below
  BY DEF handle_command, Internal
<1> HIDE DEF u, a, f, r
<1>5. <<f, r>> \o Below = <<f>> \o (<<r>> \o Below)
  BY <1>1, PairSeq
<1>6. CASE Goto(<<f, r>> \o Below)
  BY <1>2, <1>5, <1>6, RestsOn
<1>7. CASE Goto(<<u>> \o Below) \/ Goto(<<a>> \o Below)
  BY <1>2, <1>7, RestsOn
<1>8. CASE stack' = IF Below # <<>> /\ Head(Below).at = "lines" THEN Tail(Below) ELSE Below
  BY <1>1, <1>8, SilentRests
<1> QED BY <1>4, <1>6, <1>7, <1>8, RestsBack

LEMMA user_command_Rests ==
    ASSUME Frames(stack), stack # <<>>, Silent(Below), user_command \/ cmd_allchannels
    PROVE  Resting(stack')
<1> DEFINE j == Min(Named(Top.cmd, Top.i))
           u == [Top EXCEPT !.i = j + 1]
           a == [Top EXCEPT !.called = TRUE]
           b == [Top EXCEPT !.tab = sess_list[Position(Top.tab) + 1], !.called = FALSE]
<1>1. "at" \in DOMAIN Top /\ Top.at \in {"usercmds", "all"}
  BY TopAndBelow DEF user_command, cmd_allchannels
<1>2. u.at = Top.at /\ a.at = Top.at /\ b.at = Top.at
  BY <1>1
<1>3. \/ Leave
      \/ Crash("usercmds") \/ Crash("all")
      \/ \E g \in {u, a, b} : Goto(<<g>> \o Below) \/ \E tab : \E cmd : Enter(tab, cmd, <<g>> \o Below)
  BY DEF user_command, cmd_allchannels
<1> HIDE DEF u, a, b
<1>4. ~OnTheWay(Top) /\ \A g \in {u, a, b} : ~OnTheWay(g) /\ g.at \notin Saying
  BY <1>1, <1>2 DEF OnTheWay, Saying
<1>5. Crash("usercmds") \/ Crash("all") => UNCHANGED stack
  BY DEF Crash
<1> QED BY <1>3, <1>4, <1>5, RestsOn, RestsBack

LEMMA Others_Rest ==
    ASSUME StackInv, SayInv, Step, Top.at \notin Saying
    PROVE  SayInv'
<1>1. Frames(stack) /\ stack # <<>> /\ Silent(Below)
  BY DEF StackInv, Step, Running, SayInv
<1>2. ~OnTheWay(Top)
  BY DEF OnTheWay, Saying
<1>3. "acted" \in DOMAIN left
  BY DEF SayInv
<1>4. CASE Done \/ exec_done \/ timer_done
  <2>1. Leave \/ Return \/ UNCHANGED stack
    BY <1>4 DEF Done, exec_done, timer_done, Crash
  <2>2. UNCHANGED talk /\ left' = left
    BY <1>4 DEF Done, exec_done, timer_done
  <2> QED BY <1>1, <1>2, <1>3, <2>1, <2>2, RestsBack, RestKeeps
<1>5. CASE handle_multiline \/ handle_command \/ user_command \/ cmd_allchannels
  <2>1. UNCHANGED talk /\ left' = left
    BY <1>5 DEF handle_multiline, handle_command, user_command, cmd_allchannels
  <2>2. Resting(stack')
    BY <1>1, <1>5, handle_multiline_Rests, handle_command_Rests, user_command_Rests
  <2> QED BY <1>2, <1>3, <2>1, <2>2, RestKeeps
<1>6. CASE plugin_emit
  <2>1. Top.at = "command"
    BY <1>6 DEF plugin_emit, Saying
  <2>2. left' = left \/ left' = [left EXCEPT !.hooks = @ - 1, !.acted = TRUE]
    BY <1>6 DEF plugin_emit
  <2>3. "acted" \in DOMAIN left' /\ left'.acted \in {left.acted, TRUE}
    BY <1>3, <2>2
  <2> QED BY <1>1, <1>2, <1>6, <2>1, <2>3, plugin_emit_Rests, RestKeeps
<1>7. ~handle_say /\ ~p_message
  BY DEF handle_say, p_message, Saying
<1> QED BY <1>4, <1>5, <1>6, <1>7 DEF Step

-----------------------------------------------------------------------------
(* handle_say                                                              *)

LEMMA NothingMore ==
    ASSUME NEW w \in Words
    PROVE  w \o <<>> = w
BY ConcatEmptySeq DEF Words

LEMMA WordsFollow ==
    ASSUME NEW a \in Words, NEW b \in Words, NEW c \in Words
    PROVE  a \o (b \o c) = (a \o b) \o c
BY ConcatAssociative DEF Words

\* What the messages to a window say is a text.
LEMMA JoinedWords ==
    ASSUME NEW q \in Seq(Words)
    PROVE  Joined(q) \in Words /\ \A w \in Words : Joined(Append(q, w)) = Joined(q) \o w
BY JoinedOn DEF Words

\* The windows and the bounds are as they were, or a plugin has acted.
LEMMA SayStays ==
    ASSUME SayInv, UNCHANGED <<stack, sent, owed, left, sess_list, connected>>
    PROVE  SayInv'
BY SayInvNext DEF SayInv, Below, Top, Open

\* The plugins are shown a text, or what is printed.
LEMMA plugin_emit_Says ==
    ASSUME StackInv, Held(stack), SayInv, stack # <<>>, plugin_emit, Top.at \in {"say", "printed"}
    PROVE  SayInv'
<1> DEFINE g == [Top EXCEPT !.at = CASE @ = "command" -> "run" [] @ = "say" -> "take" [] @ = "printed" -> "send"]
<1>1. /\ Frames(stack) /\ IsSeq(Below) /\ "at" \in DOMAIN Top /\ Says(Top) /\ Silent(Below)
  BY HeldTop DEF StackInv, SayInv, Holds, Saying
<1>2. /\ g.at = (IF Top.at = "say" THEN "take" ELSE "send")
      /\ g.tab = Top.tab /\ g.text = Top.text /\ g.first = Top.first
  BY <1>1 DEF Says
<1>3. sent' = sent /\ owed' = owed
  BY DEF plugin_emit, talk
<1>4. \/ UNCHANGED <<stack, left, sess_list, connected>>
      \/ stack' = <<g>> \o Below /\ UNCHANGED <<left, sess_list, connected>>
      \/ stack' \in {Below, <<g>> \o Below} /\ left' = [left EXCEPT !.hooks = @ - 1, !.acted = TRUE]
  BY DEF plugin_emit, Crash, Goto, Return, windows
<1> HIDE DEF g
<1>5. OnTheWay(g) <=> OnTheWay(Top)
  BY <1>2 DEF OnTheWay
<1>6. Silent(Below) /\ (Below # <<>> => Silent(Tail(Below)))
  BY <1>1, SilentRests
<1>7. /\ <<g>> \o Below # <<>> /\ Head(<<g>> \o Below) = g /\ Tail(<<g>> \o Below) = Below
  BY <1>1, InFront
<1>8. CASE UNCHANGED <<stack, left, sess_list, connected>>
  BY <1>3, <1>8, SayStays
<1>9. CASE stack' = <<g>> \o Below /\ UNCHANGED <<left, sess_list, connected>>
  <2>1. \A t : Due(stack', t) = Due(stack, t)
    BY <1>2, <1>5, <1>7, <1>9 DEF Due, Top
  <2>2. Balanced(stack, sent, owed) => Balanced(stack', sent', owed')
    BY <1>3, <2>1 DEF Balanced
  <2>3. left.acted = FALSE =>
          /\ stack' # <<>> /\ OnTheWay(Head(stack')) => Head(stack').tab \in ToSet(sess_list') /\ connected' = TRUE
          /\ Balanced(stack', sent', owed')
    BY <1>2, <1>5, <1>7, <1>9, <2>2 DEF SayInv, Open
  <2>4. SayRest /\ stack' # <<>> /\ Tail(stack') = Below
    BY <1>7, <1>9 DEF SayInv, SayRest
  <2> QED BY <1>1, <1>3, <1>9, <2>3, <2>4, SayInvNext DEF SayRest
<1>10. CASE stack' \in {Below, <<g>> \o Below} /\ left' = [left EXCEPT !.hooks = @ - 1, !.acted = TRUE]
  <2>1. stack' # <<>> => Silent(Tail(stack'))
    BY <1>6, <1>7, <1>10
  <2>2. "acted" \in DOMAIN left' /\ left'.acted = TRUE
    BY <1>10 DEF SayInv
  <2> QED BY <1>3, <2>1, <2>2, SayInvNext DEF SayInv
<1> QED BY <1>4, <1>8, <1>9, <1>10

\* What a text taken on makes of what is owed.
LEMMA TakenOn ==
    ASSUME SayInv, stack # <<>>, left.acted = FALSE, Top.at = "take", Says(Top),
           Top.tab \in ToSet(Tabs),
           owed' = IF Top.first THEN [owed EXCEPT ![Top.tab] = @ \o Top.text] ELSE owed
    PROVE  \A t \in ToSet(Tabs) : Joined(sent[t]) \o (IF t = Top.tab THEN Top.text ELSE <<>>) = owed'[t]
<1> TAKE t \in ToSet(Tabs)
<1>1. Joined(sent[t]) \o Due(stack, t) = owed[t] /\ DOMAIN owed = ToSet(Tabs)
  BY DEF SayInv, Balanced
<1>2. Joined(sent[t]) \in Words /\ Top.text \in Words /\ Top.first \in BOOLEAN
  BY JoinedWords DEF SayInv, Fit, Says
<1>3. Joined(sent[t]) \o <<>> = Joined(sent[t])
  BY <1>2, NothingMore
<1>4. CASE Top.first = FALSE
  <2>1. Due(stack, t) = IF t = Top.tab THEN Top.text ELSE <<>>
    BY <1>4 DEF Due, OnTheWay, Top
  <2> QED BY <1>1, <1>4, <2>1
<1>5. CASE Top.first = TRUE
  <2>1. Due(stack, t) = <<>>
    BY <1>5 DEF Due, OnTheWay, Top
  <2>2. Joined(sent[t]) = owed[t]
    BY <1>1, <1>3, <2>1
  <2>3. owed'[t] = IF t = Top.tab THEN owed[t] \o Top.text ELSE owed[t]
    BY <1>1, <1>5
  <2> QED BY <1>3, <2>2, <2>3
<1> QED BY <1>2, <1>4, <1>5

LEMMA handle_say_Says ==
    ASSUME StackInv, WindowsOK, Held(stack), SayInv, stack # <<>>, handle_say
    PROVE  SayInv'
<1> DEFINE g == [Top EXCEPT !.at = "printed"]
<1>1. /\ Frames(stack) /\ IsSeq(Below) /\ "at" \in DOMAIN Top /\ Says(Top) /\ Silent(Below) /\ Top.at = "take"
  BY HeldTop DEF StackInv, SayInv, Holds, Saying, handle_say
<1>2. UNCHANGED <<sess_list, connected, left>> /\ Top.first \in BOOLEAN /\ "acted" \in DOMAIN left
      /\ left.acted \in BOOLEAN
  BY <1>1 DEF handle_say, windows, Says, SayInv
<1>3. CASE Top.tab \notin Open \/ ~connected
  <2>1. Return /\ UNCHANGED talk
    BY <1>3 DEF handle_say
  <2>2. CASE left.acted = TRUE
    <3>1. stack' # <<>> => Silent(Tail(stack'))
      BY <1>1, <2>1, SilentRests DEF Return
    <3> QED BY <1>2, <2>1, <2>2, <3>1, SayInvNext DEF SayInv, talk
  <2>3. CASE left.acted = FALSE
    <3>1. ~OnTheWay(Top)
      BY <1>3, <2>3 DEF SayInv
    <3> QED BY <1>1, <1>2, <2>1, <3>1, RestsBack, RestKeeps
  <2> QED BY <1>2, <2>2, <2>3
<1>4. CASE ~(Top.tab \notin Open \/ ~connected)
  <2>1. /\ stack' = <<g>> \o Below /\ sent' = sent
        /\ owed' = IF Top.first THEN [owed EXCEPT ![Top.tab] = @ \o Top.text] ELSE owed
    BY <1>4 DEF handle_say, Goto
  <2>2. g.at = "printed" /\ g.tab = Top.tab /\ g.text = Top.text /\ OnTheWay(g)
    BY <1>1 DEF OnTheWay, Says
  <2> HIDE DEF g
  <2>3. stack' # <<>> /\ Head(stack') = g /\ Tail(stack') = Below
    BY <1>1, <2>1, InFront
  <2>4. Top.tab \in ToSet(Tabs)
    BY <1>4, OpenType
  <2>5. DOMAIN owed' = ToSet(Tabs)
    BY <1>2, <2>1 DEF SayInv
  <2>6. \A t : Due(stack', t) = IF t = Top.tab THEN Top.text ELSE <<>>
    BY <2>2, <2>3 DEF Due
  <2>7. ASSUME left.acted = FALSE PROVE Balanced(stack', sent', owed')
    <3>1. \A t \in ToSet(Tabs) : Joined(sent[t]) \o (IF t = Top.tab THEN Top.text ELSE <<>>) = owed'[t]
      BY <1>1, <2>1, <2>4, <2>7, TakenOn
    <3> QED BY <2>1, <2>6, <3>1 DEF Balanced
  <2>8. Head(stack').tab \in ToSet(sess_list') /\ connected' = TRUE
    <3>1. Top.tab \in ToSet(sess_list)
      BY <1>4 DEF Open
    <3>2. connected = TRUE
      BY <1>4
    <3> QED BY <1>2, <2>2, <2>3, <3>1, <3>2
  <2>9. SayRest
    BY DEF SayInv, SayRest
  <2> QED BY <1>1, <1>2, <2>1, <2>3, <2>5, <2>7, <2>8, <2>9, SayInvNext DEF SayRest
<1> QED BY <1>3, <1>4

LEMMA p_message_Says ==
    ASSUME StackInv, WindowsOK, Held(stack), SayInv, stack # <<>>, p_message
    PROVE  SayInv'
<1> DEFINE h == [at |-> "say", tab |-> Top.tab, text |-> Rest(Top.text), first |-> FALSE]
           part == SubSeq(Top.text, 1, Cut(Top.text))
           t0 == Top.tab
<1>1. /\ Frames(stack) /\ IsSeq(Below) /\ Says(Top) /\ Silent(Below) /\ Top.at = "send" /\ OnTheWay(Top)
  BY HeldTop DEF StackInv, SayInv, Holds, Saying, p_message, OnTheWay
<1>2. UNCHANGED <<sess_list, connected, left>>
  BY DEF p_message, windows
<1>3. /\ part \in Words /\ Rest(Top.text) \in Words /\ part \o Rest(Top.text) = Top.text
      /\ Size(part) <= MaxText
  BY <1>1, RestFollows, CutFits DEF Says, Words
<1>4. CASE t0 \notin Open
  BY <1>2, <1>4, SayStays DEF p_message, Crash, talk
<1>5. CASE t0 \in Open
  <2>1. /\ sent' = [sent EXCEPT ![t0] = Append(@, part)] /\ owed' = owed
        /\ IF Rest(Top.text) = <<>> THEN stack' = Below ELSE stack' = <<h>> \o Below
    BY <1>5 DEF p_message, Goto, Return
  <2>2. h.at = "say" /\ h.tab = t0 /\ h.text = Rest(Top.text) /\ OnTheWay(h)
    BY DEF OnTheWay
  <2> HIDE DEF h, part
  <2>3. t0 \in ToSet(Tabs)
    BY <1>5, OpenType
  <2>4. /\ DOMAIN sent' = ToSet(Tabs)
        /\ \A t \in ToSet(Tabs) : sent'[t] = IF t = t0 THEN Append(sent[t], part) ELSE sent[t]
    BY <2>1, <2>3 DEF SayInv
  <2> HIDE DEF t0
  <2>5. Fit(sent')
    <3>1. ASSUME NEW q \in Seq(Words), \A i \in 1..Len(q) : Size(q[i]) <= MaxText
          PROVE  Append(q, part) \in Seq(Words) /\ \A i \in 1..Len(Append(q, part)) : Size(Append(q, part)[i]) <= MaxText
      <4> DEFINE r == Append(q, part)
      <4>1. r \in Seq(Words) /\ Len(r) = Len(q) + 1 /\ r[Len(q) + 1] = part /\ Len(q) \in Nat
            /\ \A i \in 1..Len(q) : r[i] = q[i]
        BY <1>3
      <4> HIDE DEF r
      <4>2. ASSUME NEW i \in 1..Len(r) PROVE Size(r[i]) <= MaxText
        <5>1. i \in 1..Len(q) \/ i = Len(q) + 1
          BY <4>1
        <5> QED BY <1>3, <3>1, <4>1, <5>1
      <4> QED BY <4>1, <4>2 DEF r
    <3>2. Fit(sent)
      BY DEF SayInv
    <3> QED BY <2>4, <3>1, <3>2 DEF Fit
  <2>6. stack' # <<>> => Silent(Tail(stack'))
    <3>1. CASE stack' = Below
      BY <1>1, <3>1, SilentRests
    <3>2. CASE stack' = <<h>> \o Below
      BY <1>1, <3>2, InFront
    <3> QED BY <2>1, <3>1, <3>2
  <2>7. \A t : Due(stack', t) = IF t = t0 THEN Rest(Top.text) ELSE <<>>
    <3>1. CASE Rest(Top.text) = <<>>
      <4>1. Resting(Below) /\ stack' = Below
        BY <1>1, <2>1, <3>1, SilentRests
      <4> QED BY <3>1, <4>1 DEF Resting, Due
    <3>2. CASE Rest(Top.text) # <<>>
      <4>1. stack' # <<>> /\ Head(stack') = h
        BY <1>1, <2>1, <3>2, InFront
      <4> QED BY <2>2, <4>1 DEF Due
    <3> QED BY <3>1, <3>2
  <2>8. ASSUME left.acted = FALSE PROVE Balanced(stack', sent', owed')
    <3>1. ASSUME NEW t \in ToSet(Tabs) PROVE Joined(sent'[t]) \o Due(stack', t) = owed'[t]
      <4>1. Joined(sent[t]) \o Due(stack, t) = owed[t] /\ sent[t] \in Seq(Words)
        BY <2>8 DEF SayInv, Balanced, Fit
      <4>2. Due(stack, t) = IF t = t0 THEN Top.text ELSE <<>>
        BY <1>1 DEF Due, Top, t0
      <4>3. CASE t # t0
        <5>1. sent'[t] = sent[t] /\ Due(stack', t) = <<>> /\ Due(stack, t) = <<>>
          BY <2>4, <2>7, <4>2, <4>3
        <5> QED BY <2>1, <4>1, <5>1
      <4>4. CASE t = t0
        <5>1. Joined(sent[t]) \in Words /\ Joined(Append(sent[t], part)) = Joined(sent[t]) \o part
          BY <1>3, <4>1, JoinedWords
        <5>2. Joined(sent[t]) \o Top.text = (Joined(sent[t]) \o part) \o Rest(Top.text)
          <6>1. Joined(sent[t]) \o (part \o Rest(Top.text)) = (Joined(sent[t]) \o part) \o Rest(Top.text)
            BY <1>3, <5>1, WordsFollow
          <6> QED BY <1>3, <6>1
        <5>3. sent'[t] = Append(sent[t], part) /\ Due(stack', t) = Rest(Top.text) /\ Due(stack, t) = Top.text
          BY <2>4, <2>7, <4>2, <4>4
        <5>4. owed'[t] = Joined(sent[t]) \o Top.text
          BY <2>1, <4>1, <5>3
        <5> HIDE DEF Top
        <5> QED BY <5>1, <5>2, <5>3, <5>4
      <4> QED BY <4>3, <4>4
    <3> QED BY <3>1 DEF Balanced
  <2>9. left.acted = FALSE /\ stack' # <<>> /\ OnTheWay(Head(stack')) =>
          Head(stack').tab \in ToSet(sess_list') /\ connected' = TRUE
    <3> SUFFICES ASSUME left.acted = FALSE, stack' # <<>>, OnTheWay(Head(stack'))
                 PROVE  Head(stack').tab \in ToSet(sess_list') /\ connected' = TRUE
      OBVIOUS
    <3>1. Top.tab \in ToSet(sess_list) /\ connected = TRUE
      BY <1>1 DEF SayInv, Open
    <3>2. CASE stack' = Below
      BY <1>1, <3>2, SilentRests DEF Resting
    <3>3. CASE stack' = <<h>> \o Below
      <4>1. Head(stack') = h
        BY <1>1, <3>3, InFront
      <4> QED BY <1>2, <2>2, <3>1, <4>1 DEF t0
    <3> QED BY <2>1, <3>2, <3>3
  <2>10. SayRest
    BY DEF SayInv, SayRest
  <2> QED BY <1>2, <2>1, <2>4, <2>5, <2>6, <2>8, <2>9, <2>10, SayInvNext DEF SayRest
<1> QED BY <1>4, <1>5

LEMMA Step_Says ==
    ASSUME StackInv, ChildInv, Held(stack), SayInv, Step
    PROVE  SayInv'
<1>1. stack # <<>> /\ WindowsOK
  BY DEF Step, Running, ChildInv
<1>2. CASE Top.at \notin Saying
  BY <1>2, Others_Rest
<1>3. CASE Top.at \in Saying
  <2>1. plugin_emit \/ handle_say \/ p_message
    BY <1>3 DEF Step, Saying, handle_multiline, handle_command, user_command, cmd_allchannels, Done, exec_done, timer_done
  <2>2. plugin_emit => Top.at \in {"say", "printed"}
    BY <1>3 DEF plugin_emit, Saying
  <2> QED BY <1>1, <2>1, <2>2, plugin_emit_Says, handle_say_Says, p_message_Says
<1> QED BY <1>2, <1>3

\* The main loop says nothing itself.
LEMMA MainLoop_Says ==
    ASSUME StackInv, ChildInv, SayInv, MainLoop
    PROVE  SayInv'
<1>1. Idle /\ stack = <<>> /\ command_level = 0
  <2>1. Idle
    BY DEF MainLoop, Type, exec_data, exec_eof, timeout_cb
  <2> QED BY <2>1, IdleStack
<1>2. UNCHANGED talk /\ "acted" \in DOMAIN left' /\ left'.acted = left.acted
  <2>1. UNCHANGED talk
    BY DEF MainLoop, Type, exec_data, exec_eof, timeout_cb
  <2>2. \/ left' = left
        \/ left' = [left EXCEPT !.script = Tail(@)]
        \/ left' = [left EXCEPT !.fires = @ - 1]
    BY DEF MainLoop, Type, exec_data, exec_eof, timeout_cb
  <2> QED BY <2>1, <2>2 DEF SayInv
<1>3. Silent(<<>>) /\ IsSeq(<<>>)
  BY NoneSeq DEF Silent
<1>4. \A f : f.at \notin Saying => Resting(<<f>>) /\ IsSeq(<<f>>) /\ Silent(<<f>>)
  <2> TAKE f
  <2> SUFFICES ASSUME f.at \notin Saying PROVE Resting(<<f>>) /\ IsSeq(<<f>>) /\ Silent(<<f>>)
    OBVIOUS
  <2>1. Silent(<<f>> \o <<>>) /\ IsSeq(<<f>> \o <<>>)
    BY <1>3, PushSilent, InFront
  <2>2. <<f>> \o <<>> = <<f>>
    BY SingleSeq
  <2> QED BY <2>1, <2>2, SilentRests
<1>5. \A f, g : f.at \notin Saying /\ g.at \notin Saying => Resting(<<f>> \o <<g>>)
  <2> TAKE f, g
  <2> SUFFICES ASSUME f.at \notin Saying, g.at \notin Saying PROVE Resting(<<f>> \o <<g>>)
    OBVIOUS
  <2>1. ~OnTheWay(f)
    BY DEF OnTheWay, Saying
  <2> QED BY <1>4, <2>1, PushResting
<1>6. Resting(<<>>)
  BY <1>3, SilentRests
<1>7. \/ stack' = <<>>
      \/ \E f : f.at \notin Saying /\ stack' = <<f>>
      \/ \E f, g : f.at \notin Saying /\ g.at \notin Saying /\ stack' = <<f>> \o <<g>>
  <2>1. CASE Type
    <3>1. PICK t : stack' = <<[at |-> "lines", tab |-> t, rest |-> Head(left.script)]>>
      BY <2>1 DEF Type
    <3> DEFINE f == [at |-> "lines", tab |-> t, rest |-> Head(left.script)]
    <3>2. f.at \notin Saying /\ stack' = <<f>>
      BY <3>1 DEF Saying
    <3> HIDE DEF f
    <3> QED BY <3>2
  <2>2. ASSUME NEW t \in Open, exec_data(t)
        PROVE  stack' = <<>> \/ \E f : f.at \notin Saying /\ stack' = <<f>>
    <3>1. PICK r : stack' \in {<<>>, <<[at |-> "lines", tab |-> t, rest |-> r]>>}
      BY <2>2 DEF exec_data
    <3> DEFINE f == [at |-> "lines", tab |-> t, rest |-> r]
    <3>2. f.at \notin Saying /\ stack' \in {<<>>, <<f>>}
      BY <3>1 DEF Saying
    <3> HIDE DEF f
    <3> QED BY <3>2
  <2>3. ASSUME NEW t \in Open, exec_eof(t)
        PROVE  \/ \E f : f.at \notin Saying /\ stack' = <<f>>
               \/ \E f, g : f.at \notin Saying /\ g.at \notin Saying /\ stack' = <<f>> \o <<g>>
    <3> DEFINE f == [at |-> "lines", tab |-> t, rest |-> Typed(LinesOf(exec[t].linebuf))]
               g == [at |-> "eof", tab |-> t, pid |-> exec[t].pid]
    <3>1. f.at \notin Saying /\ g.at \notin Saying
      BY DEF Saying
    <3>2. stack' = <<f>> \o <<g>> \/ stack' = <<>> \o <<g>>
      BY <2>3 DEF exec_eof
    <3>3. <<>> \o <<g>> = <<g>>
      OBVIOUS
    <3> HIDE DEF f, g
    <3> QED BY <3>1, <3>2, <3>3
  <2>4. ASSUME NEW i \in DOMAIN timers, timeout_cb(i)
        PROVE  \/ stack' = <<>>
               \/ \E f : f.at \notin Saying /\ stack' = <<f>>
               \/ \E f, g : f.at \notin Saying /\ g.at \notin Saying /\ stack' = <<f>> \o <<g>>
    <3> DEFINE f == [at |-> "command", tab |-> timers[i].tab, cmd |-> timers[i].cmd]
               g == [at |-> "timer", id |-> timers[i].id]
    <3>1. f.at \notin Saying /\ g.at \notin Saying
      BY DEF Saying
    <3>2. stack' = <<f>> \o <<g>> \/ stack' = <<g>> \/ stack' = stack
      BY <2>4 DEF timeout_cb, Enter, depth
    <3> HIDE DEF f, g
    <3> QED BY <1>1, <3>1, <3>2
  <2> QED BY <2>1, <2>2, <2>3, <2>4 DEF MainLoop
<1>8. Resting(stack')
  BY <1>4, <1>5, <1>6, <1>7
<1> QED BY <1>1, <1>2, <1>8, RestKeeps

\* A text that is too long for one message goes out in several, whole and in order, whatever
\* commands and windows it is said from, unless a plugin stepped in (handle_say, outbound.cpp:3984).
THEOREM SaysWhole == Spec => []SayWhole
<1>1. Init => SayInv
  <2> SUFFICES ASSUME Init PROVE SayInv
    OBVIOUS
  <2>1. /\ stack = <<>> /\ left \in Scripts
        /\ sent = [t \in ToSet(Tabs) |-> <<>>] /\ owed = [t \in ToSet(Tabs) |-> <<>>]
    BY DEF Init
  <2>2. "acted" \in DOMAIN left /\ left.acted \in BOOLEAN
    BY <2>1, CmdsAssumption
  <2>3. Fit(sent)
    <3>1. <<>> \in Seq(Words) /\ 1..Len(<<>>) = {}
      BY NoneSeq
    <3> QED BY <2>1, <3>1 DEF Fit
  <2>4. Balanced(stack, sent, owed)
    <3>1. \A t : Due(stack, t) = <<>>
      BY <2>1 DEF Due
    <3>2. <<>> \in Words
      BY DEF Words
    <3>3. <<>> \o <<>> = <<>>
      BY <3>2, NothingMore
    <3> QED BY <2>1, <3>1, <3>3, JoinedNone DEF Balanced
  <2> QED BY <2>1, <2>2, <2>3, <2>4 DEF SayInv
<1>2. StackInv /\ ChildInv /\ TimerInv /\ SayInv /\ [Next]_vars => SayInv'
  <2> SUFFICES ASSUME StackInv, ChildInv, TimerInv, SayInv, [Next]_vars PROVE SayInv'
    OBVIOUS
  <2>1. CASE Step
    BY <2>1, Step_Says DEF TimerInv
  <2>2. CASE MainLoop
    BY <2>2, MainLoop_Says
  <2>3. CASE Child \/ UNCHANGED vars
    <3>1. UNCHANGED <<stack, sent, owed, left, sess_list, connected>>
      BY <2>3 DEF Child, ChildWrites, ChildEnds, vars, depth, talk, windows
    <3> QED BY <3>1, SayStays
  <2> QED BY <2>1, <2>2, <2>3 DEF Next
<1>3. StackInv /\ SayInv => SayWhole
  <2> SUFFICES ASSUME StackInv, SayInv PROVE SayWhole
    OBVIOUS
  <2>1. /\ DOMAIN sent = ToSet(Tabs) /\ Fit(sent) /\ left.acted \in BOOLEAN
        /\ left.acted = FALSE => Balanced(stack, sent, owed)
    BY DEF SayInv
  <2>2. ASSUME NEW t \in DOMAIN sent PROVE \A i \in DOMAIN sent[t] : Size(sent[t][i]) <= MaxText
    <3>1. sent[t] \in Seq(Words) /\ \A i \in 1..Len(sent[t]) : Size(sent[t][i]) <= MaxText
      BY <2>1 DEF Fit
    <3>2. DOMAIN sent[t] = 1..Len(sent[t])
      BY <3>1
    <3> QED BY <3>1, <3>2
  <2>3. ASSUME stack = <<>>, ~left.acted, NEW t \in DOMAIN sent PROVE Joined(sent[t]) = owed[t]
    <3>1. left.acted = FALSE
      BY <2>1, <2>3
    <3>2. Joined(sent[t]) \o Due(stack, t) = owed[t] /\ Due(stack, t) = <<>> /\ Joined(sent[t]) \in Words
      BY <2>1, <2>3, <3>1, JoinedWords DEF Balanced, Due, Fit
    <3> QED BY <3>2, NothingMore
  <2> QED BY <2>2, <2>3 DEF SayWhole
<1> QED BY <1>1, <1>2, <1>3, StackAndChildren, TimersHold, PTL DEF Spec

=============================================================================
