----------------------------- MODULE TextsProofs -----------------------------
(***************************************************************************)
(* Proofs about Texts: where messages are shown, and what the files hold   *)
(* wherever the program ends.                                              *)
(*                                                                         *)
(* TextsInv has one part per property: ShowInv says of a message at work   *)
(* where what is left to print will have it shown, ConfInv what has been   *)
(* written of the new file, IgnInv that ignore.conf is as long as it got   *)
(* with the ignores to be kept, FileOk that a window's count of lines     *)
(* bounds its scrollback file from both sides, SavingInv that the line     *)
(* being written counts as torn until it is ended.                         *)
(***************************************************************************)
EXTENDS Texts, SequenceTheorems, FunctionTheorems, FiniteSetTheorems, WellFoundedInduction, TLAPS

-----------------------------------------------------------------------------
(* Numbers and sequences.                                                  *)

LEMMA NatMin ==
    ASSUME NEW T, T \subseteq Nat, T # {}
    PROVE  \E x \in T : \A y \in T : ~(y < x)
<1> DEFINE R == {ss \in Nat \X Nat : ss[1] < ss[2]}
<1>1. IsWellFoundedOn(R, Nat)
  BY NatLessThanWellFounded DEF OpToRel
<1> HIDE DEF R
<1>2. PICK x \in T : \A y \in T : <<y, x>> \notin R
  BY <1>1, WFMin
<1>3. \A y \in T : y < x => <<y, x>> \in R
  BY DEF R
<1> QED BY <1>2, <1>3

LEMMA NatInduct ==
    ASSUME NEW T, 0 \in T, \A n \in Nat : n \in T => n + 1 \in T
    PROVE  \A n \in Nat : n \in T
<1> SUFFICES ASSUME NEW n \in Nat, n \notin T PROVE FALSE
  OBVIOUS
<1> DEFINE U == Nat \ T
<1>1. PICK x \in U : \A y \in U : ~(y < x)
  <2>1. U \subseteq Nat /\ U # {}
    OBVIOUS
  <2> HIDE DEF U
  <2> QED BY <2>1, NatMin
<1>2. x \in Nat /\ x # 0 /\ x - 1 \in Nat /\ x - 1 < x
  OBVIOUS
<1>3. x - 1 \in T
  BY <1>1, <1>2
<1> QED BY <1>1, <1>2, <1>3

LEMMA Singles ==
    ASSUME NEW a, NEW b
    PROVE  /\ <<a>> \o <<b>> = <<a, b>> /\ <<>> \o <<a>> = <<a>> /\ <<>> \o <<>> = <<>> /\ <<a>> \o <<>> = <<a>>
           /\ Head(<<a>>) = a /\ Tail(<<a>>) = <<>> /\ Head(<<a, b>>) = a /\ Tail(<<a, b>>) = <<b>>
           /\ <<a>> # <<>> /\ <<a, b>> # <<>> /\ Append(<<>>, a) = <<a>> /\ Len(<<a>>) = 1
<1>1. <<a>> \o <<b>> = <<a, b>>
  <2> DEFINE S == {a, b}
  <2>1. <<a>> \in Seq(S) /\ <<b>> \in Seq(S) /\ <<a, b>> \in Seq(S)
    OBVIOUS
  <2>2. /\ <<a>> \o <<b>> \in Seq(S) /\ Len(<<a>> \o <<b>>) = 2
        /\ (<<a>> \o <<b>>)[1] = a /\ (<<a>> \o <<b>>)[2] = b
    BY <2>1
  <2>3. Len(<<a, b>>) = 2 /\ <<a, b>>[1] = a /\ <<a, b>>[2] = b
    OBVIOUS
  <2>4. \A i \in 1..2 : i = 1 \/ i = 2
    OBVIOUS
  <2> QED BY <2>1, <2>2, <2>3, <2>4, SeqEqual
<1>2. <<>> \o <<a>> = <<a>> /\ <<>> \o <<>> = <<>> /\ <<a>> \o <<>> = <<a>>
  OBVIOUS
<1>3. Head(<<a>>) = a /\ Tail(<<a>>) = <<>>
  OBVIOUS
<1>4. Head(<<a, b>>) = a /\ Tail(<<a, b>>) = <<b>>
  OBVIOUS
<1>5. <<a>> # <<>> /\ <<a, b>> # <<>> /\ Append(<<>>, a) = <<a>> /\ Len(<<a>>) = 1
  OBVIOUS
<1> QED BY <1>1, <1>2, <1>3, <1>4, <1>5

\* A sequence that is longer by one holds what it held, and the new one.
LEMMA Longer ==
    ASSUME NEW S, NEW s \in Seq(S), NEW x \in S
    PROVE  /\ Append(s, x) \in Seq(S) /\ Len(s) \in Nat /\ Len(Append(s, x)) = Len(s) + 1
           /\ \A i \in 1..Len(s) : Append(s, x)[i] = s[i]
           /\ Append(s, x)[Len(s) + 1] = x
OBVIOUS

\* What is kept of a list is what is in it and in the set.
LEMMA OnlyKeeps ==
    ASSUME NEW S, NEW list \in Seq(S), NEW K
    PROVE  Only(list, K) \in Seq(S) /\ ToSet(Only(list, K)) = ToSet(list) \cap K
<1> DEFINE n == Len(list)
           Step(prev, i) == IF list[i] \in K THEN Append(prev, list[i]) ELSE prev
           Upto(k, g) == g = [i \in 0..k |-> IF i = 0 THEN <<>>
                                ELSE IF list[i] \in K THEN Append(g[i-1], list[i]) ELSE g[i-1]]
           T == {k \in Nat : \E g : Upto(k, g)}
<1>1. 0 \in T
  <2>1. Upto(0, [i \in 0..0 |-> <<>>])
    OBVIOUS
  <2> QED BY <2>1
<1>2. ASSUME NEW k \in Nat, k \in T PROVE k + 1 \in T
  <2>1. PICK g : Upto(k, g)
    BY <1>2
  <2> DEFINE h == [i \in 0..(k+1) |-> IF i <= k THEN g[i]
                     ELSE IF list[i] \in K THEN Append(g[i-1], list[i]) ELSE g[i-1]]
  <2>2. \A i \in 0..k : g[i] = IF i = 0 THEN <<>>
                               ELSE IF list[i] \in K THEN Append(g[i-1], list[i]) ELSE g[i-1]
    BY <2>1
  <2>3. ASSUME NEW i \in 0..(k+1)
        PROVE  h[i] = IF i = 0 THEN <<>>
                      ELSE IF list[i] \in K THEN Append(h[i-1], list[i]) ELSE h[i-1]
    <3>1. i # 0 => i - 1 \in 0..(k+1) /\ i - 1 <= k /\ h[i-1] = g[i-1]
      OBVIOUS
    <3>2. CASE i <= k
      <4>1. h[i] = g[i] /\ i \in 0..k
        BY <3>2
      <4> HIDE DEF h
      <4> QED BY <2>2, <3>1, <4>1
    <3>3. CASE ~(i <= k)
      <4>1. h[i] = IF list[i] \in K THEN Append(g[i-1], list[i]) ELSE g[i-1]
        BY <3>3
      <4>2. i # 0
        BY <3>3
      <4> HIDE DEF h
      <4> QED BY <3>1, <4>1, <4>2
    <3> QED BY <3>2, <3>3
  <2>4. Upto(k+1, h)
    <3>1. h = [i \in 0..(k+1) |-> h[i]]
      OBVIOUS
    <3> HIDE DEF h
    <3> QED BY <2>3, <3>1
  <2>5. \E f : Upto(k+1, f)
    <3> HIDE DEF h, Upto
    <3> QED BY <2>4
  <2> HIDE DEF Upto
  <2> QED BY <2>5
<1>3. n \in T
  <2>1. n \in Nat
    OBVIOUS
  <2> HIDE DEF T
  <2> QED BY <1>1, <1>2, <2>1, NatInduct
<1> DEFINE g == CHOOSE g : Upto(n, g)
<1>4. Upto(n, g)
  BY <1>3
<1>5. Only(list, K) = g[n]
  BY DEF Only
<1> HIDE DEF g, T
<1>6. g[0] = <<>> /\ \A i \in 1..n : g[i] = Step(g[i-1], i)
  <2>1. \A i \in 0..n : g[i] = IF i = 0 THEN <<>>
                               ELSE IF list[i] \in K THEN Append(g[i-1], list[i]) ELSE g[i-1]
    BY <1>4
  <2>2. n \in Nat /\ 0 \in 0..n /\ \A i \in 1..n : i \in 0..n /\ i # 0
    OBVIOUS
  <2> QED BY <2>1, <2>2
<1> HIDE DEF Upto
<1> DEFINE Kept(i) == {list[j] : j \in 1..i} \cap K
           Fine(i) == g[i] \in Seq(S) /\ ToSet(g[i]) = Kept(i)
           U == {i \in Nat : i <= n => Fine(i)}
<1>7. 0 \in U
  <2>1. <<>> \in Seq(S) /\ ToSet(<<>>) = {} /\ Kept(0) = {}
    BY DEF ToSet
  <2> QED BY <1>6, <2>1
<1>8. ASSUME NEW i \in Nat, i \in U PROVE i + 1 \in U
  <2> SUFFICES ASSUME i + 1 <= n PROVE Fine(i + 1)
    OBVIOUS
  <2>1. /\ n \in Nat /\ i + 1 \in 1..n /\ i \in 0..n /\ (i + 1) - 1 = i /\ list[i+1] \in S
    OBVIOUS
  <2>2. g[i+1] = IF list[i+1] \in K THEN Append(g[i], list[i+1]) ELSE g[i]
    BY <1>6, <2>1
  <2>3. g[i] \in Seq(S) /\ ToSet(g[i]) = Kept(i)
    BY <1>8, <2>1
  <2>4. Kept(i + 1) = Kept(i) \cup ({list[i+1]} \cap K)
    <3>1. 1..(i+1) = (1..i) \cup {i + 1}
      OBVIOUS
    <3> QED BY <3>1
  <2>5. CASE list[i+1] \in K
    <3>1. Append(g[i], list[i+1]) \in Seq(S)
      BY <2>1, <2>3
    <3>2. ToSet(Append(g[i], list[i+1])) = ToSet(g[i]) \cup {list[i+1]}
      <4> DEFINE a == Append(g[i], list[i+1])
      <4>1. /\ Len(g[i]) \in Nat /\ Len(a) = Len(g[i]) + 1
            /\ \A j \in 1..Len(g[i]) : a[j] = g[i][j]
            /\ a[Len(g[i]) + 1] = list[i+1]
        BY <2>1, <2>3
      <4>2. 1..Len(a) = (1..Len(g[i])) \cup {Len(g[i]) + 1}
        BY <4>1
      <4>3. DOMAIN a = 1..Len(a) /\ DOMAIN g[i] = 1..Len(g[i])
        BY <2>3, <3>1
      <4> HIDE DEF a
      <4>4. {a[j] : j \in 1..Len(a)} = {g[i][j] : j \in 1..Len(g[i])} \cup {list[i+1]}
        BY <4>1, <4>2
      <4> QED BY <4>3, <4>4 DEF ToSet, a
    <3> HIDE DEF Kept
    <3> QED BY <2>2, <2>3, <2>4, <2>5, <3>1, <3>2
  <2>6. CASE list[i+1] \notin K
    <3> HIDE DEF Kept
    <3> QED BY <2>2, <2>3, <2>4, <2>6
  <2> QED BY <2>5, <2>6
<1>9. n \in U
  <2>1. n \in Nat
    OBVIOUS
  <2> HIDE DEF U
  <2> QED BY <1>7, <1>8, <2>1, NatInduct
<1>10. Fine(n)
  <2>1. n \in Nat /\ n <= n
    OBVIOUS
  <2> HIDE DEF Fine, n
  <2> QED BY <1>9, <2>1
<1>11. Kept(n) = ToSet(list) \cap K
  <2>1. DOMAIN list = 1..n
    OBVIOUS
  <2> QED BY <2>1 DEF ToSet
<1> QED BY <1>5, <1>10, <1>11

-----------------------------------------------------------------------------
(* The invariant.                                                          *)

Kinds == {"priv", "action", "chan", "notice", "ctcp", None}
Said == [kind : Kinds, nick : Nicks \cup {None}, silent : BOOLEAN, flooding : BOOLEAN,
         dialog : BOOLEAN, where : Seq(Named \cup {Tab})]
Files == Named \cup {None}

WindowsOk ==
    /\ DOMAIN windows \subseteq Named \cup {Tab}
    /\ \A n \in DOMAIN windows : windows[n] \in [fd : Files, written : Nat]
    /\ phase = "up" => {Channel, Tab} \subseteq DOMAIN windows

\* Where the last message may have been shown, and where it will.
Right(l, where) ==
    /\ l.silent => where = <<>>
    /\ ~l.silent /\ ~(l.flooding /\ l.kind = "priv") => Len(where) = 1
    /\ ~l.silent /\ l.dialog /\ l.kind \in {"priv", "action", "notice"} => where = <<l.nick>>
ToShow(w) == [window |-> w, message |-> TRUE]
ToWarn == [window |-> Channel, message |-> FALSE]
ShowInv ==
    /\ last \in Said
    /\ \/ printing = <<>> /\ Right(last, last.where)
       \/ printing = <<ToWarn>> /\ last.where = <<>> /\ Right(last, <<>>)
       \/ \E w \in DOMAIN windows :
             /\ printing = <<ToShow(w)>> \/ printing = <<ToWarn, ToShow(w)>>
             /\ last.where = <<>> /\ Right(last, <<w>>)

ConfInv ==
    /\ DOMAIN prefs = ToSet(Vars) /\ DOMAIN saved = ToSet(Vars)
    /\ conf = Image(saved)
    /\ phase = "config" =>
          /\ newconf \in Seq({Image(prefs)[i] : i \in DOMAIN Vars}) /\ Len(newconf) <= Len(Vars)
          /\ \A i \in 1..Len(newconf) : newconf[i] = Image(prefs)[i]

Ignore ==
    [mask : {m.mask : m \in Maskings} \cup {HostMask[n] : n \in Nicks},
     types : {m.types : m \in Maskings} \cup {{"CTCP"}}]
IgnInv ==
    /\ ignores \in Seq(Ignore) /\ ignoreconf \in Seq(Ignore)
    /\ kept = [whole |-> kept.whole, ignores |-> kept.ignores]
    /\ phase = "writing" =>
          /\ kept.whole = FALSE
          /\ Len(ignoreconf) <= Len(Lasting)
          /\ \A i \in 1..Len(ignoreconf) : ignoreconf[i] = Lasting[i]
    /\ kept.whole => ToSet(ignoreconf) = kept.ignores

Whole(count, gone) == (1..count) \ gone
Keep(max) == IF max > 0 THEN max ELSE 0
Rising(lines, whole) ==
    /\ \A i \in 1..Len(lines) : lines[i] \in whole
    /\ \A i, j \in 1..Len(lines) : i < j => lines[i] < lines[j]
    /\ \A k \in whole, i \in 1..Len(lines) : lines[i] < k => \E j \in 1..Len(lines) : lines[j] = k
Enough(lines, whole, max) ==
    (\A k \in whole : \E j \in 1..Len(lines) : lines[j] = k) \/ (max > 0 => Len(lines) >= Gap(max))
Recent(lines, whole, max) == Rising(lines, whole) /\ Enough(lines, whole, max)
FileOk(f) ==
    IF shrinking.file = f
    THEN /\ Recent(shrinking.rest, Whole(written[f], torn[f]), max_lines) /\ Len(shrinking.rest) <= Keep(max_lines)
         /\ f \in DOMAIN windows => windows[f] = [fd |-> None, written |-> 0]
    ELSE /\ Recent(scroll[f], Whole(written[f], torn[f]), max_lines) /\ Len(scroll[f]) <= Most(max_lines)
         /\ f \in DOMAIN windows =>
               /\ windows[f].fd \in {None, f}
               /\ windows[f].written <= Len(scroll[f])
               /\ Len(scroll[f]) <= Keep(max_lines) + windows[f].written
ScrollTyped ==
    /\ max_lines \in Int
    /\ scroll \in [Named -> Seq(Nat)] /\ written \in [Named -> Nat]
    /\ torn \in [Named -> SUBSET Nat] /\ \A f \in Named : torn[f] \subseteq 1..written[f]
    /\ shrinking \in [file : Files, rest : Seq(Nat)]
ScrollInv == ScrollTyped /\ \A f \in Named \ mixed : FileOk(f)
SavingInv ==
    /\ saving \in {None, "time", "text"}
    /\ saving # None =>
          /\ printing # <<>> /\ shrinking = NoShrink
          /\ LET n == Head(printing).window IN
             /\ n \in DOMAIN windows /\ n \in Named /\ windows[n].fd \in Named
             /\ windows[n].fd = n \/ windows[n].fd \in mixed
             /\ written[windows[n].fd] \in torn[windows[n].fd]

PhaseInv ==
    /\ phase \in {"up", "config", "ignores", "writing", "down"}
    /\ phase # "up" => printing = <<>> /\ shrinking = NoShrink

TextsInv == PhaseInv /\ WindowsOk /\ ShowInv /\ ConfInv /\ IgnInv /\ ScrollInv /\ SavingInv

\* Before the first message nothing is to be shown.
LEMMA NoMessageRight == NoMessage \in Said /\ Right(NoMessage, NoMessage.where)
<1> DEFINE where == <<>>
<1>1. where \in Seq(Named \cup {Tab}) /\ None \in Kinds /\ None \in Nicks \cup {None}
  BY DEF Kinds
<1>2. NoMessage = [kind |-> None, nick |-> None, silent |-> TRUE, flooding |-> FALSE, dialog |-> FALSE, where |-> where]
  BY DEF NoMessage
<1> HIDE DEF where, None
<1>3. NoMessage \in Said
  BY <1>1, <1>2 DEF Said
<1>4. NoMessage.silent = TRUE /\ NoMessage.where = where
  BY <1>2
<1> QED BY <1>3, <1>4 DEF Right, where

LEMMA InitHolds == Init => TextsInv
<1> SUFFICES ASSUME Init PROVE TextsInv
  OBVIOUS
<1>0. PICK s \in Starts :
         /\ phase = "down" /\ windows = <<>> /\ printing = <<>> /\ saving = None /\ shrinking = NoShrink
         /\ saved = s.prefs /\ prefs = saved /\ conf = Image(saved)
         /\ ignores = <<>> /\ ignoreconf = <<>> /\ kept = [whole |-> TRUE, ignores |-> {}]
         /\ last = NoMessage /\ max_lines = s.max_lines
         /\ scroll = [f \in Named |-> [i \in 1..s.lines[f] |-> i]]
         /\ written = s.lines /\ torn = [f \in Named |-> {}]
  BY DEF Init
<1> USE TextsAssumption, VarsAssumption
<1>1. PhaseInv
  BY <1>0 DEF PhaseInv
<1>2. WindowsOk
  <2>1. DOMAIN windows = {} /\ phase = "down"
    BY <1>0
  <2> QED BY <2>1 DEF WindowsOk
<1>3. ShowInv
  <2>1. last = NoMessage /\ printing = <<>>
    BY <1>0
  <2> QED BY <2>1, NoMessageRight DEF ShowInv
<1>4. ConfInv
  <2>1. DOMAIN s.prefs = ToSet(Vars)
    BY StartsAssumption
  <2> QED BY <1>0, <2>1 DEF ConfInv
<1>5. IgnInv
  <2>1. /\ ignores = <<>> /\ ignoreconf = <<>> /\ kept = [whole |-> TRUE, ignores |-> {}] /\ phase = "down"
    BY <1>0
  <2>2. ToSet(<<>>) = {}
    BY DEF ToSet
  <2> QED BY <2>1, <2>2 DEF IgnInv
<1>6. ScrollInv
  <2>1. NoShrink \in [file : Files, rest : Seq(Nat)] /\ \A f \in Named : NoShrink.file # f
    BY DEF NoShrink, Files, Named
  <2>2. s.lines \in [Named -> Nat] /\ s.max_lines \in Int /\ \A f \in Named : s.lines[f] <= Most(s.max_lines)
    BY StartsAssumption
  <2>3. ASSUME NEW f \in Named
        PROVE  /\ scroll[f] \in Seq(Nat) /\ Len(scroll[f]) = s.lines[f]
               /\ \A i \in 1..s.lines[f] : scroll[f][i] = i
    <3>1. scroll[f] = [i \in 1..s.lines[f] |-> i] /\ s.lines[f] \in Nat
      BY <1>0, <2>2
    <3> QED BY <3>1
  <2>4. ScrollTyped
    <3>1. scroll \in [Named -> Seq(Nat)]
      BY <1>0, <2>3
    <3>2. torn \in [Named -> SUBSET Nat] /\ \A f \in Named : torn[f] \subseteq 1..written[f]
      BY <1>0
    <3> QED BY <1>0, <2>1, <2>2, <3>1, <3>2 DEF ScrollTyped
  <2>5. ASSUME NEW f \in Named PROVE FileOk(f)
    <3>1. shrinking.file # f /\ DOMAIN windows = {} /\ written[f] = s.lines[f] /\ torn[f] = {} /\ s.lines[f] \in Nat
      BY <1>0, <2>1, <2>2
    <3>2. Whole(written[f], torn[f]) = 1..s.lines[f]
      BY <3>1 DEF Whole
    <3>3. Recent(scroll[f], 1..s.lines[f], max_lines)
      BY <2>3, <3>1 DEF Recent, Rising, Enough
    <3>4. Len(scroll[f]) <= Most(max_lines)
      BY <1>0, <2>2, <2>3
    <3> QED BY <3>1, <3>2, <3>3, <3>4 DEF FileOk
  <2> QED BY <2>4, <2>5 DEF ScrollInv
<1>7. SavingInv
  BY <1>0 DEF SavingInv
<1> QED BY <1>1, <1>2, <1>3, <1>4, <1>5, <1>6, <1>7 DEF TextsInv

-----------------------------------------------------------------------------
(* The phases and the windows.                                             *)

LEMMA PhaseKept == TextsInv /\ [Next]_vars => PhaseInv'
<1> SUFFICES ASSUME TextsInv, [Next]_vars PROVE PhaseInv'
  OBVIOUS
<1>1. PhaseInv
  BY DEF TextsInv
<1> USE DEF PhaseInv
<1>2. CASE Receive
  BY <1>1, <1>2 DEF Receive, Quiet, storing
<1>3. CASE PrintText
  BY <1>1, <1>3 DEF PrintText
<1>4. CASE Rewrite
  BY <1>1, <1>4 DEF Rewrite
<1>5. CASE flood_autodialog_timeout
  BY <1>1, <1>5 DEF flood_autodialog_timeout, storing
<1>6. CASE User
  BY <1>1, <1>6 DEF User, storing
<1>7. CASE Tick
  BY <1>1, <1>7 DEF Tick, storing
<1>8. CASE xchat_exit
  BY <1>1, <1>8 DEF xchat_exit, storing, Quiet
<1>9. CASE save_config
  BY <1>1, <1>9 DEF save_config, storing
<1>10. CASE ignore_save
  BY <1>1, <1>10 DEF ignore_save, storing
<1>11. CASE Crash
  BY <1>1, <1>11 DEF Crash
<1>12. CASE Start
  BY <1>1, <1>12 DEF Start, storing
<1>13. CASE UNCHANGED vars
  BY <1>1, <1>13 DEF vars, storing
<1> QED BY <1>2, <1>3, <1>4, <1>5, <1>6, <1>7, <1>8, <1>9, <1>10, <1>11, <1>12, <1>13 DEF Next

\* A new window is the size of its file.
LEMMA OpenedType ==
    ASSUME ScrollInv, NEW n \in Named
    PROVE  Opened(n) \in [fd : Files, written : Nat] /\ Opened(n).fd = None /\ Opened(n).written = Len(scroll[n])
  BY DEF ScrollInv, ScrollTyped, Opened, Files

\* What is to be printed next has its window.
LEMMA HeadHasWindow ==
    ASSUME ShowInv, WindowsOk, phase = "up", printing # <<>>
    PROVE  Head(printing).window \in DOMAIN windows
<1>1. \/ printing = <<ToWarn>>
      \/ \E w \in DOMAIN windows : printing = <<ToShow(w)>> \/ printing = <<ToWarn, ToShow(w)>>
  BY DEF ShowInv
<1>2. Channel \in DOMAIN windows
  BY DEF WindowsOk
<1>3. \A a, b : Head(<<a>>) = a /\ Head(<<a, b>>) = a
  BY Singles
<1>4. CASE printing = <<ToWarn>>
  BY <1>2, <1>3, <1>4 DEF ToWarn
<1>5. ASSUME NEW w \in DOMAIN windows, printing = <<ToShow(w)>> \/ printing = <<ToWarn, ToShow(w)>>
      PROVE  Head(printing).window \in DOMAIN windows
  <2>1. Head(printing) = ToShow(w) \/ Head(printing) = ToWarn
    BY <1>3, <1>5
  <2> QED BY <1>2, <2>1 DEF ToShow, ToWarn
<1> QED BY <1>1, <1>4, <1>5

\* Opening, renaming and closing keep the windows' types.
LEMMA OpeningKeeps ==
    ASSUME WindowsOk, phase' = phase, NEW n \in Named, NEW w \in [fd : Files, written : Nat],
           windows' = With(windows, n, w)
    PROVE  WindowsOk'
<1>1. /\ DOMAIN windows' = DOMAIN windows \cup {n}
      /\ \A m \in DOMAIN windows' : windows'[m] = IF m = n THEN w ELSE windows[m]
  BY DEF With
<1>2. n \in Named \cup {Tab}
  OBVIOUS
<1> QED BY <1>1, <1>2 DEF WindowsOk

LEMMA WindowsKept == TextsInv /\ [Next]_vars => WindowsOk'
<1> SUFFICES ASSUME TextsInv, [Next]_vars PROVE WindowsOk'
  OBVIOUS
<1>1. WindowsOk /\ ScrollInv /\ PhaseInv /\ ShowInv
  BY DEF TextsInv
<1> USE TextsAssumption
<1>2. Nicks \subseteq Named /\ Channel \in Named
  BY DEF Named
<1>3. ASSUME windows' = windows, phase' = phase \/ phase' # "up" PROVE WindowsOk'
  BY <1>1, <1>3 DEF WindowsOk
<1>4. ASSUME Quiet, NEW nick \in Nicks, windows' = With(windows, nick, Opened(nick)), phase' = phase PROVE WindowsOk'
  BY <1>1, <1>2, <1>4, OpenedType, OpeningKeeps
<1>5. CASE Receive
  <2>1. phase' = phase /\ Quiet
    BY <1>5 DEF Receive
  <2>2. windows' = windows \/ \E nick \in Nicks : windows' = With(windows, nick, Opened(nick))
    BY <1>5 DEF Receive, inbound_privmsg, inbound_chanmsg, inbound_notice, ctcp_handle, Private, Ignored, memory
  <2> QED BY <1>3, <1>4, <2>1, <2>2
<1>6. CASE PrintText
  <2> DEFINE m == Head(printing).window
  <2>1. phase' = phase
    BY <1>6 DEF PrintText
  <2> SUFFICES ASSUME windows' # windows PROVE WindowsOk'
    BY <1>1, <1>3, <2>1
  <2>2. PICK v \in [fd : Files, written : Nat] : windows' = [windows EXCEPT ![m] = v]
    <3>1. CASE saving = None
      <4>1. m # Tab /\ scrollback_save(m)
        BY <1>6, <3>1 DEF PrintText
      <4>2. windows' = [windows EXCEPT ![m].fd = IF windows[m].fd = None THEN m ELSE windows[m].fd]
        BY <4>1 DEF scrollback_save
      <4>3. m \in DOMAIN windows
        BY <1>1, <1>6, HeadHasWindow DEF PrintText
      <4>4. windows[m] \in [fd : Files, written : Nat] /\ m \in Files
        BY <1>1, <4>1, <4>3 DEF WindowsOk, Files
      <4> HIDE DEF m
      <4> DEFINE v == [windows[m] EXCEPT !.fd = IF windows[m].fd = None THEN m ELSE windows[m].fd]
      <4>5. v \in [fd : Files, written : Nat] /\ windows' = [windows EXCEPT ![m] = v]
        BY <4>2, <4>4
      <4> QED BY <4>5
    <3>2. CASE saving # None
      <4>1. LineSaved(m)
        BY <1>6, <3>2 DEF PrintText
      <4>2. m \in DOMAIN windows /\ windows[m].fd \in Files /\ windows[m].written \in Nat /\ None \in Files
        <5>1. m \in DOMAIN windows
          BY <1>1, <1>6, HeadHasWindow DEF PrintText
        <5> QED BY <1>1, <5>1 DEF WindowsOk, Files
      <4> HIDE DEF m
      <4> DEFINE again == [fd |-> None, written |-> 0]
                 counted == [fd |-> windows[m].fd, written |-> windows[m].written + 1]
      <4>3. windows' = [windows EXCEPT ![m] = again] \/ windows' = [windows EXCEPT ![m] = counted]
        BY <4>1 DEF LineSaved
      <4>4. again \in [fd : Files, written : Nat] /\ counted \in [fd : Files, written : Nat]
        BY <4>2
      <4> QED BY <4>3, <4>4
    <3> QED BY <3>1, <3>2
  <2> HIDE DEF m
  <2>3. /\ DOMAIN windows' = DOMAIN windows
        /\ \A n \in DOMAIN windows : windows'[n] = IF n = m THEN v ELSE windows[n]
    BY <2>2
  <2> QED BY <1>1, <2>1, <2>3 DEF WindowsOk
<1>7. CASE Rewrite
  BY <1>3, <1>7 DEF Rewrite, memory
<1>8. CASE flood_autodialog_timeout
  BY <1>3, <1>8 DEF flood_autodialog_timeout
<1>9. CASE User
  <2>1. phase' = phase /\ Quiet
    BY <1>9 DEF User, Acting
  <2>2. CASE cmd_query
    BY <1>4, <2>1, <2>2 DEF cmd_query
  <2>3. CASE CloseDialog
    BY <1>1, <2>1, <2>3 DEF CloseDialog, Without, WindowsOk
  <2>4. CASE inbound_newnick
    <3>1. PICK nick \in DOMAIN windows \ {Channel, Tab}, new \in Nicks \ DOMAIN windows :
             windows' = Without(With(windows, new, windows[nick]), nick)
      BY <2>4 DEF inbound_newnick
    <3> DEFINE u == With(windows, new, windows[nick])
    <3>2. /\ DOMAIN u = DOMAIN windows \cup {new}
          /\ \A m \in DOMAIN u : u[m] = IF m = new THEN windows[nick] ELSE windows[m]
      BY DEF With
    <3>3. /\ DOMAIN windows' = DOMAIN u \ {nick}
          /\ \A m \in DOMAIN windows' : windows'[m] = u[m]
      <4> HIDE DEF u
      <4>1. windows' = Without(u, nick)
        BY <3>1 DEF u
      <4> QED BY <4>1 DEF Without
    <3>4. windows[nick] \in [fd : Files, written : Nat] /\ new \in Named \cup {Tab}
      BY <1>1, <1>2 DEF WindowsOk
    <3> HIDE DEF u
    <3>5. \A m \in DOMAIN windows' : windows'[m] \in [fd : Files, written : Nat]
      BY <1>1, <3>2, <3>3, <3>4 DEF WindowsOk
    <3>6. DOMAIN windows' \subseteq Named \cup {Tab}
      BY <1>1, <3>2, <3>3, <3>4 DEF WindowsOk
    <3>7. phase' = "up" => {Channel, Tab} \subseteq DOMAIN windows'
      BY <1>1, <2>1, <3>1, <3>2, <3>3 DEF WindowsOk
    <3> QED BY <3>5, <3>6, <3>7 DEF WindowsOk
  <2>5. CASE cmd_set \/ cmd_ignore \/ cmd_unignore
    BY <1>3, <2>1, <2>5 DEF cmd_set, cmd_ignore, cmd_unignore
  <2> QED BY <1>9, <2>2, <2>3, <2>4, <2>5 DEF User
<1>10. CASE Tick
  BY <1>3, <1>10 DEF Tick, memory
<1>11. CASE xchat_exit
  BY <1>3, <1>11 DEF xchat_exit, memory
<1>12. CASE save_config
  BY <1>3, <1>12 DEF save_config, memory
<1>13. CASE ignore_save
  <2>1. CASE windows' = windows
    BY <1>3, <1>13, <2>1 DEF ignore_save
  <2>2. CASE windows' # windows
    <3>1. windows' = <<>> /\ phase' = "down"
      BY <1>13, <2>2 DEF ignore_save
    <3>2. DOMAIN windows' = {}
      BY <3>1
    <3> QED BY <3>1, <3>2 DEF WindowsOk
  <2> QED BY <2>1, <2>2
<1>14. CASE Crash
  BY <1>3, <1>14 DEF Crash, memory
<1>15. CASE Start
  <2>1. windows' = [w \in {Channel, Tab} |-> IF w = Tab THEN [fd |-> None, written |-> 0] ELSE Opened(w)]
    BY <1>15 DEF Start
  <2>2. DOMAIN windows' = {Channel, Tab} /\ windows'[Tab] = [fd |-> None, written |-> 0]
        /\ windows'[Channel] = Opened(Channel)
    BY <2>1
  <2>3. [fd |-> None, written |-> 0] \in [fd : Files, written : Nat]
    BY DEF Files
  <2>4. Opened(Channel) \in [fd : Files, written : Nat]
    BY <1>1, <1>2, OpenedType
  <2> QED BY <1>2, <2>2, <2>3, <2>4 DEF WindowsOk
<1>16. CASE UNCHANGED vars
  BY <1>3, <1>16 DEF vars, memory
<1> QED BY <1>5, <1>6, <1>7, <1>8, <1>9, <1>10, <1>11, <1>12, <1>13, <1>14, <1>15, <1>16 DEF Next

-----------------------------------------------------------------------------
(* Messages are shown.                                                     *)

\* What Heard makes of the history.
LEMMA HeardSaid ==
    ASSUME NEW kind \in Kinds, NEW nick \in Nicks, NEW silent \in BOOLEAN, NEW flooding \in BOOLEAN,
           Heard(kind, nick, silent, flooding)
    PROVE  /\ last' \in Said /\ last'.where = <<>>
           /\ last'.kind = kind /\ last'.nick = nick /\ last'.silent = silent /\ last'.flooding = flooding
           /\ last'.dialog = (nick \in DOMAIN windows)
<1>1. <<>> \in Seq(Named \cup {Tab}) /\ (nick \in DOMAIN windows) \in BOOLEAN /\ nick \in Nicks \cup {None}
  OBVIOUS
<1>2. last' = [kind |-> kind, nick |-> nick, silent |-> silent, flooding |-> flooding,
               dialog |-> nick \in DOMAIN windows, where |-> <<>>]
  BY DEF Heard
<1>3. last' \in Said
  BY <1>1, <1>2 DEF Said
<1>4. last'.where = <<>> /\ last'.kind = kind /\ last'.nick = nick
  BY <1>2
<1>5. last'.silent = silent /\ last'.flooding = flooding
  BY <1>2
<1>6. last'.dialog = (nick \in DOMAIN windows)
  BY <1>2
<1> QED BY <1>3, <1>4, <1>5, <1>6

\* A message has its way to the windows when it is received.
LEMMA ReceiveShows == TextsInv /\ Receive => ShowInv'
<1> SUFFICES ASSUME TextsInv, Receive PROVE ShowInv'
  OBVIOUS
<1>1. WindowsOk /\ {Channel, Tab} \subseteq DOMAIN windows
  BY DEF TextsInv, Receive, Quiet, WindowsOk
<1> USE TextsAssumption
<1>2. WindowsOk' /\ {Channel, Tab} \subseteq DOMAIN windows'
  <2>1. phase' = "up" /\ WindowsOk'
    BY WindowsKept DEF Receive, Quiet, Next
  <2> QED BY <2>1 DEF WindowsOk
<1>3. ASSUME NEW kind \in Kinds, NEW nick \in Nicks, Ignored(kind, nick) PROVE ShowInv'
  <2>1. /\ last' \in Said /\ last'.where = <<>> /\ last'.silent = TRUE
    BY <1>3, HeardSaid DEF Ignored
  <2>2. printing' = <<>>
    BY <1>3 DEF Ignored, Receive, Quiet
  <2> QED BY <2>1, <2>2 DEF ShowInv, Right
<1>4. /\ \A w : Text(w) = <<ToShow(w)>> /\ Len(<<w>>) = 1 /\ <<>> \o Text(w) = Text(w)
      /\ \A w : Warning \o Text(w) = <<ToWarn, ToShow(w)>>
      /\ Warning = <<ToWarn>> /\ Warning \o <<>> = Warning /\ <<>> \o <<>> = <<>>
  BY Singles DEF Text, Warning, ToShow, ToWarn
\* What is printed in one window.
<1>5. ASSUME last' \in Said, last'.where = <<>>,
             NEW w \in DOMAIN windows', printing' = Text(w) \/ printing' = Warning \o Text(w), Right(last', <<w>>)
      PROVE  ShowInv'
  BY <1>4, <1>5 DEF ShowInv
<1>6. CASE inbound_privmsg
  <2>1. PICK nick \in Nicks, kind \in {"priv", "action"} :
           IF ignore_check(ignores, nick, "PRIV") THEN Ignored(kind, nick) ELSE Private(kind, nick)
    BY <1>6 DEF inbound_privmsg
  <2>2. kind \in Kinds
    BY DEF Kinds
  <2>3. CASE Ignored(kind, nick)
    BY <1>3, <2>2, <2>3
  <2>4. CASE Private(kind, nick)
    <3> DEFINE flooding == nick \notin DOMAIN windows /\ prefs["gui_auto_open_dialog"] # 0
    <3>1. CASE /\ printing' = Text(WindowOf(nick)) /\ Heard(kind, nick, FALSE, FALSE) /\ windows' = windows
      <4>1. WindowOf(nick) \in DOMAIN windows /\ (nick \in DOMAIN windows => WindowOf(nick) = nick)
        BY <1>1 DEF WindowOf
      <4>2. /\ last' \in Said /\ last'.where = <<>> /\ last'.nick = nick /\ last'.silent = FALSE /\ last'.flooding = FALSE
            /\ last'.dialog = (nick \in DOMAIN windows)
        BY <2>2, <3>1, HeardSaid
      <4>3. Right(last', <<WindowOf(nick)>>)
        BY <1>4, <4>1, <4>2 DEF Right
      <4> QED BY <1>5, <3>1, <4>1, <4>2, <4>3
    <3>2. CASE /\ nick \notin DOMAIN windows /\ windows' = With(windows, nick, Opened(nick))
               /\ printing' = Text(nick) /\ Heard(kind, nick, FALSE, FALSE)
      <4>1. nick \in DOMAIN windows'
        BY <3>2 DEF With
      <4>2. /\ last' \in Said /\ last'.where = <<>> /\ last'.nick = nick /\ last'.silent = FALSE /\ last'.flooding = FALSE
        BY <2>2, <3>2, HeardSaid
      <4>3. Right(last', <<nick>>)
        BY <1>4, <4>2 DEF Right
      <4> QED BY <1>5, <3>2, <4>1, <4>2, <4>3
    <3>3. CASE /\ nick \notin DOMAIN windows /\ windows' = windows /\ Heard(kind, nick, FALSE, TRUE)
               /\ printing' = Warning \o (IF kind = "action" THEN Text(Tab) ELSE <<>>)
      <4>1. /\ last' \in Said /\ last'.where = <<>> /\ last'.kind = kind /\ last'.flooding = TRUE
            /\ last'.silent = FALSE /\ last'.dialog = FALSE
        <5>1. TRUE \in BOOLEAN /\ FALSE \in BOOLEAN
          OBVIOUS
        <5>2. Heard(kind, nick, FALSE, TRUE)
          BY <3>3
        <5>3. /\ last' \in Said /\ last'.where = <<>> /\ last'.kind = kind /\ last'.flooding = TRUE
              /\ last'.silent = FALSE /\ last'.dialog = (nick \in DOMAIN windows)
          BY <2>2, <5>1, <5>2, HeardSaid
        <5>4. (nick \in DOMAIN windows) = FALSE
          BY <3>3
        <5> QED BY <5>3, <5>4
      <4>2. CASE kind = "action"
        <5>1. printing' = Warning \o Text(Tab) /\ Tab \in DOMAIN windows'
          BY <1>1, <3>3, <4>2
        <5>2. Right(last', <<Tab>>)
          BY <1>4, <4>1 DEF Right
        <5> QED BY <1>5, <4>1, <5>1, <5>2
      <4>3. CASE kind = "priv"
        <5>1. printing' = <<ToWarn>>
          BY <1>4, <3>3, <4>3
        <5>2. Right(last', <<>>)
          BY <4>1, <4>3 DEF Right
        <5> QED BY <4>1, <5>1, <5>2 DEF ShowInv
      <4> QED BY <4>2, <4>3
    <3> QED BY <2>4, <3>1, <3>2, <3>3 DEF Private
  <2> QED BY <2>1, <2>3, <2>4
<1>7. CASE inbound_chanmsg
  <2>1. PICK nick \in Members :
           IF ignore_check(ignores, nick, "CHAN") THEN Ignored("chan", nick)
           ELSE printing' = Text(Channel) /\ Heard("chan", nick, FALSE, FALSE) /\ UNCHANGED memory
    BY <1>7 DEF inbound_chanmsg
  <2>2. "chan" \in Kinds /\ nick \in Nicks
    BY DEF Kinds
  <2>3. CASE Ignored("chan", nick)
    BY <1>3, <2>2, <2>3
  <2>4. CASE printing' = Text(Channel) /\ Heard("chan", nick, FALSE, FALSE) /\ UNCHANGED memory
    <3>1. /\ last' \in Said /\ last'.where = <<>> /\ last'.kind = "chan" /\ last'.silent = FALSE
      BY <2>2, <2>4, HeardSaid
    <3>2. Right(last', <<Channel>>) /\ Channel \in DOMAIN windows'
      BY <1>2, <1>4, <3>1 DEF Right
    <3> QED BY <1>5, <2>4, <3>1, <3>2
  <2> QED BY <2>1, <2>3, <2>4
<1>8. CASE inbound_notice
  <2>1. PICK nick \in Nicks :
           IF ignore_check(ignores, nick, "NOTI") THEN Ignored("notice", nick)
           ELSE printing' = Text(WindowOf(nick)) /\ Heard("notice", nick, FALSE, FALSE) /\ UNCHANGED memory
    BY <1>8 DEF inbound_notice
  <2>2. "notice" \in Kinds
    BY DEF Kinds
  <2>3. CASE Ignored("notice", nick)
    BY <1>3, <2>2, <2>3
  <2>4. CASE printing' = Text(WindowOf(nick)) /\ Heard("notice", nick, FALSE, FALSE) /\ UNCHANGED memory
    <3>1. WindowOf(nick) \in DOMAIN windows /\ (nick \in DOMAIN windows => WindowOf(nick) = nick)
      BY <1>1 DEF WindowOf
    <3>2. /\ last' \in Said /\ last'.where = <<>> /\ last'.nick = nick /\ last'.silent = FALSE /\ last'.flooding = FALSE
          /\ last'.dialog = (nick \in DOMAIN windows)
      BY <2>2, <2>4, HeardSaid
    <3>3. Right(last', <<WindowOf(nick)>>) /\ WindowOf(nick) \in DOMAIN windows'
      BY <1>4, <2>4, <3>1, <3>2 DEF Right, memory
    <3> QED BY <1>5, <2>4, <3>2, <3>3
  <2> QED BY <2>1, <2>3, <2>4
<1>9. CASE ctcp_handle
  <2>0. PICK nick \in Nicks : \E trips, silent :
           /\ trips = ctcp_flood.trips
           /\ silent = ignore_check(IF trips THEN ignore_add(ignores, HostMask[nick], {"CTCP"}) ELSE ignores, nick, "CTCP")
           /\ printing' = (IF trips THEN Warning ELSE <<>>) \o (IF silent THEN <<>> ELSE Text(Channel))
           /\ Heard("ctcp", nick, silent, trips)
    BY <1>9 DEF ctcp_handle
  <2>1. PICK trips, silent :
           /\ trips = ctcp_flood.trips
           /\ silent = ignore_check(IF trips THEN ignore_add(ignores, HostMask[nick], {"CTCP"}) ELSE ignores, nick, "CTCP")
           /\ printing' = (IF trips THEN Warning ELSE <<>>) \o (IF silent THEN <<>> ELSE Text(Channel))
           /\ Heard("ctcp", nick, silent, trips)
    BY <2>0
  <2>2. "ctcp" \in Kinds /\ silent \in BOOLEAN /\ trips \in BOOLEAN
    <3>1. ctcp_flood.trips \in BOOLEAN
      BY DEF ctcp_flood
    <3> QED BY <2>1, <3>1 DEF Kinds, ignore_check
  <2>3. /\ last' \in Said /\ last'.where = <<>> /\ last'.kind = "ctcp" /\ last'.silent = silent
    BY <2>1, <2>2, HeardSaid
  <2>4. CASE silent
    <3>1. printing' = <<>> \/ printing' = <<ToWarn>>
      BY <1>4, <2>1, <2>4
    <3>2. Right(last', <<>>)
      BY <2>3, <2>4 DEF Right
    <3> QED BY <2>3, <3>1, <3>2 DEF ShowInv
  <2>5. CASE ~silent
    <3>1. printing' = Text(Channel) \/ printing' = Warning \o Text(Channel)
      BY <1>4, <2>1, <2>5
    <3>2. Right(last', <<Channel>>) /\ Channel \in DOMAIN windows'
      BY <1>2, <1>4, <2>2, <2>3, <2>5 DEF Right
    <3> QED BY <1>5, <2>3, <3>1, <3>2
  <2> QED BY <2>4, <2>5
<1> QED BY <1>6, <1>7, <1>8, <1>9 DEF Receive

LEMMA PrintShows == TextsInv /\ PrintText => ShowInv'
<1> SUFFICES ASSUME TextsInv, PrintText PROVE ShowInv'
  OBVIOUS
<1> DEFINE line == Head(printing)
<1>1. printing # <<>> /\ (UNCHANGED <<printing, last>> \/ Shown)
  BY DEF PrintText
<1>2. DOMAIN windows' = DOMAIN windows
  BY DEF PrintText, scrollback_save, LineSaved
<1>3. ShowInv /\ last \in Said
  BY DEF TextsInv, ShowInv
<1>6. CASE UNCHANGED <<printing, last>>
  BY <1>2, <1>3, <1>6 DEF ShowInv
<1> SUFFICES ASSUME Shown PROVE ShowInv'
  BY <1>1, <1>6
<1>7. /\ printing' = Tail(printing)
      /\ last' = IF line.message THEN [last EXCEPT !.where = Append(@, line.window)] ELSE last
  BY DEF Shown
<1>4. CASE printing = <<ToWarn>> /\ last.where = <<>> /\ Right(last, <<>>)
  <2>1. line = ToWarn /\ Tail(printing) = <<>>
    BY <1>4, Singles
  <2>2. last' = last /\ printing' = <<>>
    BY <1>7, <2>1 DEF ToWarn
  <2> QED BY <1>3, <1>4, <2>2 DEF ShowInv
<1>5. ASSUME NEW w \in DOMAIN windows,
             printing = <<ToShow(w)>> \/ printing = <<ToWarn, ToShow(w)>>,
             last.where = <<>>, Right(last, <<w>>)
      PROVE  ShowInv'
  <2>1. CASE printing = <<ToShow(w)>>
    <3>1. line = ToShow(w) /\ Tail(printing) = <<>> /\ Append(<<>>, w) = <<w>>
      BY <2>1, Singles
    <3>2. last' = [last EXCEPT !.where = <<w>>] /\ printing' = <<>>
      BY <1>7, <1>5, <3>1 DEF ToShow
    <3>3. w \in Named \cup {Tab}
      BY DEF TextsInv, WindowsOk
    <3>4. last' \in Said /\ last'.where = <<w>>
      <4> DEFINE W == <<w>>
      <4>1. W \in Seq(Named \cup {Tab})
        BY <3>3
      <4>2. last' = [last EXCEPT !.where = W]
        BY <3>2
      <4> HIDE DEF W
      <4>3. last' \in Said /\ last'.where = W
        BY <1>3, <4>1, <4>2 DEF Said
      <4> QED BY <4>3 DEF W
    <3>5. /\ last'.kind = last.kind /\ last'.nick = last.nick /\ last'.silent = last.silent
          /\ last'.flooding = last.flooding /\ last'.dialog = last.dialog
      BY <1>3, <3>2 DEF Said
    <3>6. Right(last', <<w>>)
      BY <1>5, <3>5 DEF Right
    <3> QED BY <3>2, <3>4, <3>6 DEF ShowInv
  <2>2. CASE printing = <<ToWarn, ToShow(w)>>
    <3>1. line = ToWarn /\ Tail(printing) = <<ToShow(w)>>
      BY <2>2, Singles
    <3>2. last' = last /\ printing' = <<ToShow(w)>>
      BY <1>7, <3>1 DEF ToWarn
    <3>3. w \in DOMAIN windows'
      BY <1>2
    <3> QED BY <1>3, <1>5, <3>2, <3>3 DEF ShowInv
  <2> QED BY <1>5, <2>1, <2>2
<1> QED BY <1>1, <1>3, <1>4, <1>5 DEF ShowInv

LEMMA ShowKept == TextsInv /\ [Next]_vars => ShowInv'
<1> SUFFICES ASSUME TextsInv, [Next]_vars PROVE ShowInv'
  OBVIOUS
<1>1. ShowInv /\ PhaseInv
  BY DEF TextsInv
<1>2. ASSUME UNCHANGED <<printing, last>>, windows' = windows \/ printing = <<>> PROVE ShowInv'
  BY <1>1, <1>2 DEF ShowInv
<1>3. CASE Receive
  BY <1>3, ReceiveShows
<1>4. CASE PrintText
  BY <1>4, PrintShows
<1>5. CASE Rewrite
  BY <1>2, <1>5 DEF Rewrite, memory
<1>6. CASE flood_autodialog_timeout
  BY <1>2, <1>6 DEF flood_autodialog_timeout
<1>7. CASE User
  BY <1>2, <1>7 DEF User, Acting, Quiet
<1>8. CASE Tick
  BY <1>2, <1>8 DEF Tick, memory
<1>9. CASE xchat_exit
  BY <1>2, <1>9 DEF xchat_exit, memory
<1>10. CASE save_config
  BY <1>2, <1>10 DEF save_config, memory
<1>11. CASE ignore_save
  <2>1. printing = <<>>
    BY <1>1, <1>11 DEF ignore_save, PhaseInv
  <2> QED BY <1>2, <1>11, <2>1 DEF ignore_save
<1>12. CASE Crash
  <2>1. last' = NoMessage /\ printing' = <<>>
    BY <1>12 DEF Crash
  <2> QED BY <2>1, NoMessageRight DEF ShowInv
<1>13. CASE Start
  <2>1. last' = NoMessage /\ printing' = <<>>
    BY <1>1, <1>13 DEF Start, PhaseInv
  <2> QED BY <2>1, NoMessageRight DEF ShowInv
<1>14. CASE UNCHANGED vars
  BY <1>2, <1>14 DEF vars, memory
<1> QED BY <1>3, <1>4, <1>5, <1>6, <1>7, <1>8, <1>9, <1>10, <1>11, <1>12, <1>13, <1>14 DEF Next

-----------------------------------------------------------------------------
(* The preferences.                                                        *)

\* What is read from the image of the preferences is what they are.
LEMMA ImageRead ==
    ASSUME NEW p, NEW v \in ToSet(Vars)
    PROVE  cfg_get_int(Image(p), v) = cfg_put_int(p[v])
<1> USE VarsAssumption
<1>1. PICK j \in 1..Len(Vars) : Vars[j] = v
  BY DEF ToSet
<1> DEFINE file == Image(p)
           begins == {i \in DOMAIN file : file[i][1] = v \/ <<v, file[i][1]>> \in StartsWith}
           l == Least(begins)
<1>2. /\ DOMAIN file = 1..Len(Vars)
      /\ \A i \in DOMAIN file : file[i][1] = Vars[i] /\ file[i][2] = cfg_put_int(p[Vars[i]])
  BY DEF Image
<1> HIDE DEF file
<1>3. begins \subseteq Nat /\ j \in begins
  BY <1>1, <1>2
<1>4. l \in begins /\ \A y \in begins : l <= y
  <2> HIDE DEF begins
  <2>1. \E x \in begins : \A y \in begins : x <= y
    <3>1. PICK x \in begins : \A y \in begins : ~(y < x)
      BY <1>3, NatMin
    <3>2. \A y \in begins : x <= y
      BY <1>3, <3>1
    <3> QED BY <3>2
  <2> QED BY <2>1 DEF Least
<1>5. file[l][1] = v
  <2>1. SUFFICES ASSUME file[l][1] # v PROVE FALSE
    OBVIOUS
  <2>2. l \in 1..Len(Vars) /\ <<v, Vars[l]>> \in StartsWith /\ l <= j
    BY <1>2, <1>3, <1>4, <2>1
  <2>3. j < l
    BY <1>1, <2>2
  <2> QED BY <2>2, <2>3
<1>6. l \in DOMAIN file /\ file[l][2] = cfg_put_int(p[v])
  BY <1>2, <1>4, <1>5
<1>7. begins # {}
  BY <1>3
<1>8. cfg_get_int(file, v) = IF begins = {} THEN Default(v) ELSE IF file[l][1] = v THEN file[l][2] ELSE 0
  BY DEF cfg_get_int
<1> HIDE DEF begins, l
<1>9. cfg_get_int(file, v) = cfg_put_int(p[v])
  BY <1>5, <1>6, <1>7, <1>8
<1> QED BY <1>9 DEF file

LEMMA ConfKept == TextsInv /\ [Next]_vars => ConfInv'
<1> SUFFICES ASSUME TextsInv, [Next]_vars PROVE ConfInv'
  OBVIOUS
<1>1. ConfInv
  BY DEF TextsInv
<1> USE VarsAssumption
<1>2. ASSUME UNCHANGED <<saved, conf>>, DOMAIN prefs' = DOMAIN prefs, phase' # "config" PROVE ConfInv'
  BY <1>1, <1>2 DEF ConfInv
<1>3. CASE Receive
  <2>1. phase' = "up" /\ UNCHANGED <<saved, conf>>
    BY <1>3 DEF Receive, Quiet, files
  <2>2. DOMAIN prefs' = DOMAIN prefs
    BY <1>3 DEF Receive, inbound_privmsg, inbound_chanmsg, inbound_notice, ctcp_handle, Private, Ignored, memory
  <2> QED BY <1>2, <2>1, <2>2
<1>4. ASSUME UNCHANGED <<saved, conf, newconf, prefs>>, phase' = phase PROVE ConfInv'
  BY <1>1, <1>4 DEF ConfInv, Image
<1>5. CASE PrintText \/ Rewrite
  BY <1>4, <1>5 DEF PrintText, Rewrite, files, memory
<1>6. CASE flood_autodialog_timeout \/ User
  <2>1. phase' = "up" /\ UNCHANGED <<saved, conf>>
    BY <1>6 DEF flood_autodialog_timeout, User, Acting, Quiet, files
  <2>2. DOMAIN prefs' = DOMAIN prefs
    BY <1>6 DEF flood_autodialog_timeout, User, cmd_query, CloseDialog, inbound_newnick, cmd_set, cmd_ignore, cmd_unignore
  <2> QED BY <1>2, <2>1, <2>2
<1>7. CASE Tick
  BY <1>4, <1>7 DEF Tick, files, memory
<1>8. CASE xchat_exit
  <2>1. UNCHANGED <<saved, conf, prefs>>
    BY <1>8 DEF xchat_exit, memory
  <2>2. CASE phase' = "config" /\ newconf' = <<>>
    <3>1. /\ <<>> \in Seq({Image(prefs)[i] : i \in DOMAIN Vars}) /\ Len(<<>>) <= Len(Vars)
          /\ \A i \in 1..Len(<<>>) : <<>>[i] = Image(prefs)[i]
      OBVIOUS
    <3>2. Image(prefs)' = Image(prefs) /\ Image(saved)' = Image(saved)
      BY <2>1 DEF Image
    <3> QED BY <1>1, <2>1, <2>2, <3>1, <3>2 DEF ConfInv
  <2>3. CASE phase' = "ignores"
    BY <1>2, <2>1, <2>3
  <2> QED BY <1>8, <2>2, <2>3 DEF xchat_exit
<1>9. CASE save_config
  <2> DEFINE im == Image(prefs)
             Entries == {im[i] : i \in DOMAIN Vars}
  <2>1. prefs' = prefs /\ phase = "config"
    BY <1>9 DEF save_config, memory
  <2>2. DOMAIN im = 1..Len(Vars) /\ im = [i \in 1..Len(Vars) |-> im[i]] /\ DOMAIN Vars = 1..Len(Vars)
        /\ Len(Vars) \in Nat
    BY DEF Image
  <2>3. /\ newconf \in Seq(Entries) /\ Len(newconf) <= Len(Vars)
        /\ \A i \in 1..Len(newconf) : newconf[i] = im[i]
    BY <1>1, <2>1 DEF ConfInv
  <2>4. Image(prefs)' = im
    BY <2>1 DEF Image
  <2> HIDE DEF im
  <2>5. CASE /\ Len(newconf) < Len(Vars) /\ newconf' = Append(newconf, im[Len(newconf) + 1])
             /\ UNCHANGED <<phase, conf, saved>>
    <3> DEFINE k == Len(newconf) + 1
    <3>1. k \in 1..Len(Vars) /\ im[k] \in Entries
      BY <2>2, <2>3, <2>5
    <3>2. /\ newconf' \in Seq(Entries) /\ Len(newconf') = k
          /\ \A i \in 1..Len(newconf) : newconf'[i] = newconf[i]
          /\ newconf'[k] = im[k]
      <4> HIDE DEF Entries
      <4> QED BY <2>3, <2>5, <3>1, Longer
    <3>3. \A i \in 1..k : newconf'[i] = im[i]
      <4>1. \A i \in 1..k : i = k \/ i \in 1..Len(newconf)
        BY <2>3
      <4> HIDE DEF k
      <4> QED BY <2>3, <3>2, <4>1
    <3>4. Image(saved)' = Image(saved)
      BY <2>5 DEF Image
    <3>5. k <= Len(Vars)
      BY <3>1, <2>2
    <3> HIDE DEF k
    <3>6. /\ DOMAIN prefs' = ToSet(Vars) /\ DOMAIN saved' = ToSet(Vars) /\ conf' = Image(saved)'
      BY <1>1, <2>1, <2>5, <3>4 DEF ConfInv
    <3>7. /\ newconf' \in Seq({Image(prefs)'[i] : i \in DOMAIN Vars}) /\ Len(newconf') <= Len(Vars)
          /\ \A i \in 1..Len(newconf') : newconf'[i] = Image(prefs)'[i]
      BY <2>4, <3>2, <3>3, <3>5
    <3> QED BY <3>6, <3>7 DEF ConfInv
  <2>6. CASE /\ Len(newconf) = Len(Vars) /\ conf' = newconf /\ phase' = "ignores" /\ saved' = prefs
    <3>1. newconf = [i \in 1..Len(Vars) |-> newconf[i]]
      BY <2>3, <2>6
    <3>2. newconf = im
      BY <2>2, <2>3, <2>6, <3>1
    <3>3. Image(saved)' = Image(prefs)
      BY <2>6 DEF Image
    <3> QED BY <1>1, <2>1, <2>6, <3>2, <3>3 DEF ConfInv, im
  <2>7. CASE phase' = "ignores" /\ UNCHANGED <<conf, saved>>
    BY <1>2, <2>1, <2>7
  <2> QED BY <1>9, <2>5, <2>6, <2>7 DEF save_config, im
<1>10. CASE ignore_save
  <2>1. phase' # "config" /\ UNCHANGED <<saved, conf, prefs>>
    BY <1>10 DEF ignore_save
  <2> QED BY <1>2, <2>1
<1>11. CASE Crash
  BY <1>2, <1>11 DEF Crash, memory, files
<1>12. CASE Start
  <2>1. phase' = "up" /\ UNCHANGED <<saved, conf>> /\ DOMAIN prefs' = ToSet(Vars)
    BY <1>12 DEF Start, files, load_config
  <2> QED BY <1>1, <2>1 DEF ConfInv
<1>13. CASE UNCHANGED vars
  BY <1>4, <1>13 DEF vars, memory, files
<1> QED BY <1>3, <1>5, <1>6, <1>7, <1>8, <1>9, <1>10, <1>11, <1>12, <1>13 DEF Next

-----------------------------------------------------------------------------
(* The ignores.                                                            *)

LEMMA IgnoreAdded ==
    ASSUME ignores \in Seq(Ignore), NEW m, NEW t, [mask |-> m, types |-> t] \in Ignore
    PROVE  ignore_add(ignores, m, t) \in Seq(Ignore)
<1> DEFINE ig == [mask |-> m, types |-> t]
           s == [i \in DOMAIN ignores |-> IF ignores[i].mask = m THEN ig ELSE ignores[i]]
<1>1. s \in Seq(Ignore)
  <2>1. ignores \in [1..Len(ignores) -> Ignore] /\ Len(ignores) \in Nat
    OBVIOUS
  <2> HIDE DEF ig
  <2>2. s \in [1..Len(ignores) -> Ignore]
    BY <2>1 DEF ig
  <2> HIDE DEF s
  <2> QED BY <2>1, <2>2
<1>2. <<ig>> \o ignores \in Seq(Ignore)
  <2> HIDE DEF ig
  <2>1. ig \in Ignore
    BY DEF ig
  <2>2. <<ig>> \in Seq(Ignore)
    BY <2>1
  <2> QED BY <2>2, ConcatProperties
<1>3. ignore_add(ignores, m, t) = IF \E i \in DOMAIN ignores : ignores[i].mask = m THEN s ELSE <<ig>> \o ignores
  BY DEF ignore_add
<1> HIDE DEF s, ig
<1> QED BY <1>1, <1>2, <1>3

LEMMA Reversed ==
    ASSUME NEW S, NEW s \in Seq(S)
    PROVE  Reverse(s) \in Seq(S) /\ ToSet(Reverse(s)) = ToSet(s)
<1> DEFINE n == Len(s)
           r == [i \in 1..n |-> s[n - i + 1]]
<1>1. n \in Nat /\ s \in [1..n -> S] /\ DOMAIN s = 1..n
  OBVIOUS
<1>2. \A i \in 1..n : n - i + 1 \in 1..n /\ n - (n - i + 1) + 1 = i
  OBVIOUS
<1> HIDE DEF n
<1>3. r \in [1..n -> S]
  BY <1>1, <1>2
<1>4. {r[i] : i \in 1..n} = {s[i] : i \in 1..n}
  <2>1. \A i \in 1..n : r[i] = s[n - i + 1] /\ s[i] = r[n - i + 1]
    BY <1>2
  <2> HIDE DEF r
  <2> QED BY <1>2, <2>1
<1>5. Reverse(s) = r
  BY DEF Reverse, n
<1>6. DOMAIN r = 1..n
  OBVIOUS
<1> HIDE DEF r
<1>7. r \in Seq(S)
  BY <1>1, <1>3
<1> QED BY <1>1, <1>4, <1>5, <1>6, <1>7 DEF ToSet

\* The same sequences have the same elements.
LEMMA SameElements ==
    ASSUME NEW S, NEW s \in Seq(S), NEW t \in Seq(S), Len(s) = Len(t), \A i \in 1..Len(s) : s[i] = t[i]
    PROVE  ToSet(s) = ToSet(t)
<1>1. s = t
  BY SeqEqual
<1> QED BY <1>1

LEMMA LastingKeeps ==
    ASSUME IgnInv
    PROVE  Lasting \in Seq(Ignore) /\ Len(Lasting) \in Nat /\ ToSet(Lasting) = ToLast
<1>1. ignores \in Seq(Ignore)
  BY DEF IgnInv
<1>2. Only(ignores, ToLast) \in Seq(Ignore) /\ ToSet(Only(ignores, ToLast)) = ToSet(ignores) \cap ToLast
  BY <1>1, OnlyKeeps
<1>3. ToSet(ignores) \cap ToLast = ToLast
  BY DEF ToLast
<1>4. Lasting \in Seq(Ignore) /\ ToSet(Lasting) = ToLast
  BY <1>2, <1>3 DEF Lasting
<1> HIDE DEF Lasting
<1> QED BY <1>4, LenProperties

LEMMA IgnKept == TextsInv /\ [Next]_vars => IgnInv'
<1> SUFFICES ASSUME TextsInv, [Next]_vars PROVE IgnInv'
  OBVIOUS
<1>1. IgnInv /\ PhaseInv
  BY DEF TextsInv
<1>2. ASSUME UNCHANGED <<ignoreconf, kept>>, ignores' \in Seq(Ignore), phase' # "writing" PROVE IgnInv'
  BY <1>1, <1>2 DEF IgnInv
<1>3. ASSUME UNCHANGED <<ignoreconf, kept, ignores, phase>> PROVE IgnInv'
  <2>1. Lasting' = Lasting
    BY <1>3 DEF Lasting, ToLast
  <2> HIDE DEF Lasting
  <2> QED BY <1>1, <1>3, <2>1 DEF IgnInv
<1>4. CASE Receive
  <2>1. phase' # "writing" /\ UNCHANGED <<ignoreconf, kept>>
    BY <1>4 DEF Receive, Quiet, files
  <2>2. CASE ignores' = ignores
    BY <1>1, <1>2, <2>1, <2>2 DEF IgnInv
  <2>3. CASE \E nick \in Nicks : ignores' = ignore_add(ignores, HostMask[nick], {"CTCP"})
    <3>1. PICK nick \in Nicks : ignores' = ignore_add(ignores, HostMask[nick], {"CTCP"})
      BY <2>3
    <3>2. [mask |-> HostMask[nick], types |-> {"CTCP"}] \in Ignore
      BY DEF Ignore
    <3> QED BY <1>1, <1>2, <2>1, <3>1, <3>2, IgnoreAdded DEF IgnInv
  <2>4. ignores' = ignores \/ \E nick \in Nicks : ignores' = ignore_add(ignores, HostMask[nick], {"CTCP"})
    <3>1. CASE inbound_privmsg
      BY <3>1 DEF inbound_privmsg, Ignored, memory
    <3>2. CASE inbound_chanmsg \/ inbound_notice
      BY <3>2 DEF inbound_chanmsg, inbound_notice, Ignored, memory
    <3>3. CASE ctcp_handle
      BY <3>3 DEF ctcp_handle
    <3> QED BY <1>4, <3>1, <3>2, <3>3 DEF Receive
  <2> QED BY <2>2, <2>3, <2>4
<1>5. CASE PrintText \/ Rewrite \/ Tick
  BY <1>3, <1>5 DEF PrintText, Rewrite, Tick, files, memory
<1>6. CASE flood_autodialog_timeout
  BY <1>3, <1>6 DEF flood_autodialog_timeout, files
<1>7. CASE User
  <2>1. phase' # "writing" /\ UNCHANGED <<ignoreconf, kept>>
    BY <1>7 DEF User, Acting, Quiet, files
  <2>2. CASE ignores' = ignores
    BY <1>1, <1>2, <2>1, <2>2 DEF IgnInv
  <2>3. CASE cmd_ignore
    <3>1. PICK m \in Maskings : ignores' = ignore_add(ignores, m.mask, m.types)
      BY <2>3 DEF cmd_ignore
    <3>2. [mask |-> m.mask, types |-> m.types] \in Ignore
      BY DEF Ignore
    <3> QED BY <1>1, <1>2, <2>1, <3>1, <3>2, IgnoreAdded DEF IgnInv
  <2>4. CASE cmd_unignore
    <3>1. PICK i \in DOMAIN ignores : ignores' = ignore_del(ignores, ignores[i].mask)
      BY <2>4 DEF cmd_unignore
    <3>2. ignores' \in Seq(Ignore)
      BY <1>1, <3>1, OnlyKeeps DEF IgnInv, ignore_del
    <3> QED BY <1>2, <2>1, <3>2
  <2> QED BY <1>7, <2>2, <2>3, <2>4 DEF User, cmd_query, CloseDialog, inbound_newnick, cmd_set
<1>8. CASE xchat_exit
  BY <1>1, <1>2, <1>8 DEF xchat_exit, memory, IgnInv
<1>9. CASE save_config
  <2>1. UNCHANGED <<ignoreconf, kept, ignores>> /\ phase' \in {"config", "ignores"}
    BY <1>9 DEF save_config, memory
  <2> QED BY <1>1, <1>2, <2>1 DEF IgnInv
<1>10. CASE ignore_save
  <2>1. ignores' = ignores
    BY <1>10 DEF ignore_save
  <2>2. Lasting' = Lasting /\ Lasting \in Seq(Ignore) /\ Len(Lasting) \in Nat /\ ToSet(Lasting) = ToLast
    BY <1>1, <2>1, LastingKeeps DEF Lasting, ToLast
  <2>3. /\ ignoreconf \in Seq(Ignore) /\ ignores \in Seq(Ignore)
        /\ kept = [whole |-> kept.whole, ignores |-> kept.ignores]
    BY <1>1 DEF IgnInv
  <2> HIDE DEF Lasting, ToLast
  <2>4. CASE phase' = "writing" /\ ignoreconf' = <<>> /\ kept' = [kept EXCEPT !.whole = FALSE]
    <3>1. kept'.whole = FALSE /\ kept' = [whole |-> kept'.whole, ignores |-> kept'.ignores]
      BY <2>3, <2>4
    <3>2. Len(ignoreconf') = 0 /\ ignoreconf' \in Seq(Ignore)
      BY <2>4
    <3>3. /\ Len(ignoreconf') <= Len(Lasting')
          /\ \A i \in 1..Len(ignoreconf') : ignoreconf'[i] = Lasting'[i]
      BY <2>2, <3>2
    <3> QED BY <2>1, <2>3, <3>1, <3>2, <3>3 DEF IgnInv
  <2>5. CASE /\ phase = "writing" /\ Len(ignoreconf) < Len(Lasting)
             /\ ignoreconf' = Append(ignoreconf, Lasting[Len(ignoreconf) + 1])
             /\ UNCHANGED <<phase, kept>>
    <3>1. kept.whole = FALSE /\ \A i \in 1..Len(ignoreconf) : ignoreconf[i] = Lasting[i]
      BY <1>1, <2>5 DEF IgnInv
    <3> DEFINE k == Len(ignoreconf) + 1
    <3>2. k \in 1..Len(Lasting) /\ Lasting[k] \in Ignore
      BY <2>2, <2>3, <2>5
    <3>3. /\ ignoreconf' \in Seq(Ignore) /\ Len(ignoreconf') = k
          /\ \A i \in 1..Len(ignoreconf) : ignoreconf'[i] = ignoreconf[i]
          /\ ignoreconf'[k] = Lasting[k]
      BY <2>3, <2>5, <3>2, Longer
    <3>4. \A i \in 1..k : i = k \/ i \in 1..Len(ignoreconf)
      BY <2>3
    <3>5. k <= Len(Lasting)
      BY <2>2, <3>2
    <3> HIDE DEF k
    <3>6. \A i \in 1..k : ignoreconf'[i] = Lasting[i]
      BY <3>1, <3>3, <3>4
    <3>7. /\ Len(ignoreconf') <= Len(Lasting')
          /\ \A i \in 1..Len(ignoreconf') : ignoreconf'[i] = Lasting'[i]
      BY <2>2, <3>3, <3>5, <3>6
    <3> QED BY <2>1, <2>3, <2>5, <3>1, <3>3, <3>7 DEF IgnInv
  <2>6. CASE /\ phase = "writing" /\ Len(ignoreconf) = Len(Lasting)
             /\ phase' = "down" /\ kept' = [whole |-> TRUE, ignores |-> ToLast] /\ ignoreconf' = ignoreconf
    <3>1. \A i \in 1..Len(ignoreconf) : ignoreconf[i] = Lasting[i]
      BY <1>1, <2>6 DEF IgnInv
    <3>2. ToSet(ignoreconf) = ToLast
      BY <2>2, <2>3, <2>6, <3>1, SameElements
    <3> QED BY <2>1, <2>3, <2>6, <3>2 DEF IgnInv
  <2> QED BY <1>10, <2>4, <2>5, <2>6 DEF ignore_save
<1>11. CASE Crash
  BY <1>1, <1>2, <1>11 DEF Crash, memory, files, IgnInv
<1>12. CASE Start
  <2>1. phase' # "writing" /\ UNCHANGED <<ignoreconf, kept>> /\ ignores' = Reverse(ignoreconf)
    BY <1>12 DEF Start, files, ignore_load
  <2>2. ignores' \in Seq(Ignore)
    BY <1>1, <2>1, Reversed DEF IgnInv
  <2> QED BY <1>2, <2>1, <2>2
<1>13. CASE UNCHANGED vars
  BY <1>3, <1>13 DEF vars, memory, files
<1> QED BY <1>4, <1>5, <1>6, <1>7, <1>8, <1>9, <1>10, <1>11, <1>12, <1>13 DEF Next

-----------------------------------------------------------------------------
(* The scrollback.                                                         *)

\* A window's count of lines is up when it passes the gap.
LEMMA GapCounts ==
    ASSUME max_lines \in Int
    PROVE  /\ Gap(max_lines) \in Nat /\ Keep(max_lines) \in Nat /\ Most(max_lines) = Gap(max_lines) + Keep(max_lines)
           /\ max_lines > 0 => Keep(max_lines) = max_lines /\ Gap(max_lines) <= max_lines
           /\ ~(max_lines > 0) => Keep(max_lines) = 0
           /\ \A n \in Nat : ((max_lines > 0 /\ n * 2 > max_lines) \/ n > MaxWritten) => n >= Gap(max_lines) + 1
           /\ \A n \in Nat : ~((max_lines > 0 /\ n * 2 > max_lines) \/ n > MaxWritten) => n <= Gap(max_lines)
<1> DEFINE m == max_lines
           h == m \div 2
<1>1. MaxWritten \in Nat /\ m \in Int
  BY TextsAssumption
<1>2. m > 0 => h \in Nat /\ h <= m /\ h * 2 <= m /\ m <= h * 2 + 1
  BY <1>1
<1>3. Gap(m) = IF m > 0 /\ h < MaxWritten THEN h ELSE MaxWritten
  BY DEF Gap
<1>4. Keep(max_lines) = (IF m > 0 THEN m ELSE 0) /\ Most(m) = Gap(m) + IF m > 0 THEN m ELSE 0
  BY DEF Keep, Most
<1> HIDE DEF h, m
<1>5. Gap(m) \in Nat /\ (m > 0 => Gap(m) <= m)
  BY <1>1, <1>2, <1>3
<1>6. Keep(max_lines) \in Nat /\ Most(m) = Gap(m) + Keep(max_lines) /\ (m > 0 => Keep(max_lines) = m) /\ (~(m > 0) => Keep(max_lines) = 0)
  BY <1>1, <1>4
<1>7. ASSUME NEW n \in Nat, (m > 0 /\ n * 2 > m) \/ n > MaxWritten PROVE n >= Gap(m) + 1
  BY <1>1, <1>2, <1>3, <1>7
<1>8. ASSUME NEW n \in Nat, ~((m > 0 /\ n * 2 > m) \/ n > MaxWritten) PROVE n <= Gap(m)
  BY <1>1, <1>2, <1>3, <1>8
<1> QED BY <1>5, <1>6, <1>7, <1>8 DEF m

\* A line that is begun is not whole yet.
LEMMA WholeBegun ==
    ASSUME NEW count \in Nat, NEW gone, gone \subseteq 1..count
    PROVE  Whole(count + 1, gone \cup {count + 1}) = Whole(count, gone)
<1>1. 1..(count + 1) = (1..count) \cup {count + 1} /\ count + 1 \notin 1..count
  OBVIOUS
<1> QED BY <1>1 DEF Whole

\* One line more, the one that was being written.
LEMMA RecentMore ==
    ASSUME max_lines \in Int,
           NEW lines \in Seq(Nat), NEW count \in Nat, NEW gone, gone \subseteq 1..count, count \in gone,
           Recent(lines, Whole(count, gone), max_lines)
    PROVE  /\ Append(lines, count) \in Seq(Nat) /\ Recent(Append(lines, count), Whole(count, gone \ {count}), max_lines)
           /\ Len(Append(lines, count)) = Len(lines) + 1 /\ Len(lines) \in Nat
<1> DEFINE a == Append(lines, count)
           n == Len(lines)
           W == Whole(count, gone)
           V == Whole(count, gone \ {count})
<1>1. /\ a \in Seq(Nat) /\ n \in Nat /\ Len(a) = n + 1
      /\ \A i \in 1..n : a[i] = lines[i]
      /\ a[n + 1] = count
  BY Longer
<1>2. V = W \cup {count} /\ \A k \in W : k \in Nat /\ k < count
  <2>1. \A k \in 1..count : k \in Nat /\ (k = count \/ k < count)
    OBVIOUS
  <2> QED BY <2>1 DEF Whole
<1>3. /\ \A i \in 1..n : lines[i] \in W
      /\ \A i, j \in 1..n : i < j => lines[i] < lines[j]
      /\ \A k \in W, i \in 1..n : lines[i] < k => \E j \in 1..n : lines[j] = k
      /\ (\A k \in W : \E j \in 1..n : lines[j] = k) \/ (max_lines > 0 => n >= Gap(max_lines))
  BY DEF Recent, Rising, Enough
<1>4. \A i \in 1..(n+1) : i \in 1..n \/ i = n + 1
  BY <1>1
<1>5. \A i \in 1..n : i \in 1..(n+1) /\ i < n + 1
  BY <1>1
<1>6. n + 1 \in 1..(n + 1) /\ \A i, j \in 1..(n+1) : i < j => i \in 1..n
  BY <1>1
<1> HIDE DEF a, n, W, V
<1>7. ASSUME NEW i \in 1..(n+1) PROVE a[i] \in V
  BY <1>1, <1>2, <1>3, <1>4
<1>8. ASSUME NEW i \in 1..(n+1), NEW j \in 1..(n+1), i < j PROVE a[i] < a[j]
  <2>1. i \in 1..n /\ a[i] = lines[i] /\ lines[i] \in W
    BY <1>1, <1>3, <1>6, <1>8
  <2>2. CASE j = n + 1
    BY <1>1, <1>2, <2>1, <2>2
  <2>3. CASE j \in 1..n
    BY <1>1, <1>3, <1>8, <2>1, <2>3
  <2> QED BY <1>4, <2>2, <2>3
<1>9. ASSUME NEW k \in V, NEW i \in 1..(n+1), a[i] < k PROVE \E j \in 1..(n+1) : a[j] = k
  <2>1. CASE k = count
    BY <1>1, <1>6, <2>1
  <2>2. CASE k # count
    <3>1. k \in W /\ k < count
      BY <1>2, <2>2
    <3>2. i \in 1..n
      <4>1. SUFFICES ASSUME i = n + 1 PROVE FALSE
        BY <1>4
      <4>2. count < k /\ k \in Nat
        BY <1>1, <1>2, <1>9, <3>1, <4>1
      <4> QED BY <3>1, <4>2
    <3>3. PICK j \in 1..n : lines[j] = k
      BY <1>1, <1>3, <1>9, <3>1, <3>2
    <3> QED BY <1>1, <1>5, <3>3
  <2> QED BY <2>1, <2>2
<1>10. (\A k \in V : \E j \in 1..(n+1) : a[j] = k) \/ (max_lines > 0 => n + 1 >= Gap(max_lines))
  <2>1. CASE \A k \in W : \E j \in 1..n : lines[j] = k
    <3>1. ASSUME NEW k \in W PROVE \E j \in 1..(n+1) : a[j] = k
      BY <1>1, <1>5, <2>1
    <3>2. \E j \in 1..(n+1) : a[j] = count
      BY <1>1, <1>6
    <3> QED BY <1>2, <3>1, <3>2
  <2>2. CASE max_lines > 0 => n >= Gap(max_lines)
    <3> DEFINE g == Gap(max_lines)
    <3>1. g \in Nat /\ n \in Nat
      BY <1>1, GapCounts
    <3>2. max_lines > 0 => n >= g
      BY <2>2
    <3> HIDE DEF g
    <3>3. n >= g => n + 1 >= g
      BY <3>1
    <3> QED BY <3>2, <3>3 DEF g
  <2> QED BY <1>3, <2>1, <2>2
<1>11. Recent(a, V, max_lines)
  BY <1>1, <1>7, <1>8, <1>9, <1>10 DEF Recent, Rising, Enough
<1> QED BY <1>1, <1>11 DEF a, n, V

\* What is left of a file that is shrunk: its last lines, no more than max_lines,
\* and enough of them if there were.
LEMMA Shrunk ==
    ASSUME max_lines \in Int,
           NEW lines \in Seq(Nat), NEW whole, Rising(lines, whole), Len(lines) >= Gap(max_lines) + 1
    PROVE  /\ scrollback_shrink(lines) \in Seq(Nat) /\ Len(scrollback_shrink(lines)) <= Keep(max_lines)
           /\ Recent(scrollback_shrink(lines), whole, max_lines)
<1> DEFINE n == Len(lines)
           g == Gap(max_lines)
           k == IF n - max_lines > 1 THEN n - max_lines ELSE 1
           r == SubSeq(lines, k + 1, n)
<1>1. /\ g \in Nat /\ Keep(max_lines) \in Nat /\ n \in Nat /\ n >= g + 1
      /\ max_lines > 0 => Keep(max_lines) = max_lines /\ g <= max_lines
      /\ ~(max_lines > 0) => Keep(max_lines) = 0
  BY GapCounts
<1>2. scrollback_shrink(lines) = IF k >= n THEN <<>> ELSE r
  BY DEF scrollback_shrink
<1> HIDE DEF n, g
<1>3. /\ k \in Nat /\ 1 <= k /\ n >= 1
      /\ max_lines > 0 => k <= n /\ n - k <= Keep(max_lines) /\ n - k >= g
      /\ ~(max_lines > 0) => k >= n
  BY <1>1
<1> HIDE DEF k
<1>4. CASE k >= n
  <2>1. Len(<<>>) = 0 /\ <<>> \in Seq(Nat) /\ (max_lines > 0 => 0 >= g)
    BY <1>1, <1>3, <1>4
  <2>2. Recent(<<>>, whole, max_lines)
    BY <2>1 DEF Recent, Rising, Enough, g
  <2> QED BY <1>1, <1>2, <1>4, <2>1, <2>2
<1>5. CASE ~(k >= n)
  <2>1. max_lines > 0 /\ n - k \in Nat
    BY <1>1, <1>3, <1>5
  <2>2. /\ r \in Seq(Nat) /\ Len(r) = n - k
        /\ \A i \in 1..(n - k) : r[i] = lines[k + i]
    <3>1. k + 1 \in 1..n /\ n \in 1..n /\ k + 1 <= n + 1 /\ n - (k + 1) + 1 = n - k
      BY <1>1, <1>3, <1>5
    <3>2. r \in Seq(Nat) /\ Len(r) = n - (k + 1) + 1
      BY SMTT(40), <1>3, <3>1, SubSeqProperties DEF n
    <3>3. \A i \in 1..(n - (k + 1) + 1) : r[i] = lines[(k + 1) + i - 1]
      BY SMTT(40), <1>3, <3>1, SubSeqProperties DEF n
    <3>4. \A i \in 1..(n - k) : i \in 1..(n - (k + 1) + 1) /\ (k + 1) + i - 1 = k + i
      BY <1>1, <1>3
    <3> HIDE DEF r
    <3> QED BY <3>1, <3>2, <3>3, <3>4
  <2> HIDE DEF r
  <2>3. /\ \A i \in 1..n : lines[i] \in whole /\ lines[i] \in Nat
        /\ \A i, j \in 1..n : i < j => lines[i] < lines[j]
        /\ \A x \in whole, i \in 1..n : lines[i] < x => \E j \in 1..n : lines[j] = x
    BY DEF Rising, n
  <2>4. \A i \in 1..(n - k) : i \in Nat /\ k + i \in 1..n
    BY <1>1, <1>3
  <2>5. ASSUME NEW i \in 1..(n - k), NEW j \in 1..(n - k), i < j PROVE r[i] < r[j]
    <3>1. k + i < k + j
      BY <1>3, <2>5
    <3> QED BY <2>2, <2>3, <2>4, <3>1
  <2>6. ASSUME NEW x \in whole, NEW i \in 1..(n - k), r[i] < x PROVE \E j \in 1..(n - k) : r[j] = x
    <3>1. lines[k + i] < x /\ k + i \in 1..n
      BY <2>2, <2>4, <2>6
    <3>2. PICK l \in 1..n : lines[l] = x
      BY <2>3, <3>1
    <3>3. ~(l <= k + i)
      <4>1. SUFFICES ASSUME l <= k + i PROVE FALSE
        OBVIOUS
      <4>2. l = k + i \/ l < k + i
        BY <1>3, <4>1
      <4>3. lines[l] = lines[k + i] \/ lines[l] < lines[k + i]
        BY <2>3, <3>1, <4>2
      <4>4. lines[l] \in Nat /\ lines[k + i] \in Nat
        BY <2>3, <3>1
      <4> QED BY <3>1, <3>2, <4>3, <4>4
    <3>4. l - k \in 1..(n - k) /\ k + (l - k) = l
      BY <1>1, <1>3, <3>3
    <3>5. r[l - k] = x
      BY <2>2, <3>2, <3>4
    <3> QED BY <3>4, <3>5
  <2>7. Rising(r, whole)
    BY <2>2, <2>3, <2>4, <2>5, <2>6 DEF Rising
  <2>8. Enough(r, whole, max_lines)
    BY <1>3, <2>1, <2>2 DEF Enough, g
  <2> QED BY <1>2, <1>3, <1>5, <2>1, <2>2, <2>7, <2>8 DEF Recent
<1> QED BY <1>4, <1>5

\* What is written in place of a file is a sequence of numbers.
LEMMA ShrinkTyped ==
    ASSUME max_lines \in Int, NEW t \in Seq(Nat)
    PROVE  scrollback_shrink(t) \in Seq(Nat)
<1> DEFINE k == IF Len(t) - max_lines > 1 THEN Len(t) - max_lines ELSE 1
<1>1. Len(t) \in Nat
  OBVIOUS
<1>2. k \in Nat /\ k >= 1
  BY <1>1
<1>3. scrollback_shrink(t) = IF k >= Len(t) THEN <<>> ELSE SubSeq(t, k + 1, Len(t))
  BY DEF scrollback_shrink
<1> HIDE DEF k
<1>4. ~(k >= Len(t)) => SubSeq(t, k + 1, Len(t)) \in Seq(Nat)
  <2>1. SUFFICES ASSUME ~(k >= Len(t)) PROVE SubSeq(t, k + 1, Len(t)) \in Seq(Nat)
    OBVIOUS
  <2>2. k + 1 \in 1..(Len(t) + 1) /\ Len(t) \in 0..Len(t)
    BY <1>1, <1>2, <2>1
  <2>3. \A i \in (k+1)..Len(t) : t[i] \in Nat
    BY <1>1, <1>2
  <2> QED BY <1>1, <1>2, <2>1, <2>2, <2>3, SubSeqProperties
<1>5. <<>> \in Seq(Nat)
  OBVIOUS
<1> QED BY <1>3, <1>4, <1>5

\* What shrinking and the files hold for the next step.
LEMMA ScrollTypes ==
    ASSUME ScrollInv, WindowsOk
    PROVE  /\ max_lines \in Int
           /\ \A f \in Named : scroll[f] \in Seq(Nat) /\ written[f] \in Nat /\ f # None /\ f # Tab
           /\ \A f \in Named : torn[f] \subseteq 1..written[f]
           /\ \A f \in Named : shrinking = NoShrink => shrinking.file # f
           /\ \A n \in DOMAIN windows : windows[n].fd \in Files /\ windows[n].written \in Nat
<1> USE TextsAssumption
<1>1. \A f \in Named : scroll[f] \in Seq(Nat) /\ written[f] \in Nat /\ torn[f] \subseteq 1..written[f]
  BY DEF ScrollInv, ScrollTyped
<1>2. \A f \in Named : f # None /\ f # Tab
  BY DEF Named
<1>3. NoShrink.file = None
  BY DEF NoShrink
<1>4. \A n \in DOMAIN windows : windows[n].fd \in Files /\ windows[n].written \in Nat
  BY DEF WindowsOk
<1>5. max_lines \in Int
  BY DEF ScrollInv, ScrollTyped
<1> QED BY <1>1, <1>2, <1>3, <1>4, <1>5

\* A line is begun in the window n: it is torn until it is ended.
LEMMA BegunInv ==
    ASSUME ScrollInv, WindowsOk, shrinking = NoShrink, max_lines' = max_lines,
           NEW n \in Named, n \in DOMAIN windows, scrollback_save(n)
    PROVE  /\ ScrollInv' /\ saving' = "time" /\ shrinking' = NoShrink
           /\ n \in DOMAIN windows' /\ windows'[n].fd \in Named /\ (windows'[n].fd = n \/ windows'[n].fd \in mixed')
           /\ written'[windows'[n].fd] \in torn'[windows'[n].fd]
<1> DEFINE w == windows[n]
           file == IF w.fd = None THEN n ELSE w.fd
<1>1. /\ w.fd \in Files /\ w \in [fd : Files, written : Nat] /\ file \in Named
      /\ \A f \in Named : scroll[f] \in Seq(Nat) /\ written[f] \in Nat /\ shrinking.file # f
      /\ torn[file] \subseteq 1..written[file] /\ written[file] \in Nat
  BY ScrollTypes DEF Files, WindowsOk
<1>2. /\ scroll \in [Named -> Seq(Nat)] /\ written \in [Named -> Nat] /\ torn \in [Named -> SUBSET Nat]
      /\ \A f \in Named : torn[f] \subseteq 1..written[f]
      /\ \A f \in Named \ mixed : FileOk(f)
  BY DEF ScrollInv, ScrollTyped
<1>3. /\ saving' = "time" /\ scroll' = scroll /\ shrinking' = shrinking
      /\ written' = [written EXCEPT ![file] = written[file] + 1]
      /\ torn' = [torn EXCEPT ![file] = torn[file] \cup {written[file] + 1}]
      /\ windows' = [windows EXCEPT ![n].fd = file]
      /\ mixed' = IF file = n THEN mixed ELSE mixed \cup {file}
  BY DEF scrollback_save
<1> HIDE DEF w, file
<1>4. /\ DOMAIN windows' = DOMAIN windows
      /\ \A f \in DOMAIN windows : f # n => windows'[f] = windows[f]
      /\ windows'[n] = [w EXCEPT !.fd = file]
  BY <1>3 DEF w
<1>5. windows'[n].fd = file /\ windows'[n].written = w.written
  BY <1>1, <1>4
<1>6. /\ written' \in [Named -> Nat] /\ torn' \in [Named -> SUBSET Nat]
      /\ written'[file] = written[file] + 1 /\ torn'[file] = torn[file] \cup {written[file] + 1}
      /\ \A f \in Named : f # file => written'[f] = written[f] /\ torn'[f] = torn[f]
  BY <1>1, <1>2, <1>3
<1>7. torn'[file] \subseteq 1..written'[file]
  <2>1. 1..(written[file] + 1) = (1..written[file]) \cup {written[file] + 1}
    BY <1>1
  <2> QED BY <1>1, <1>6, <2>1
<1>8. ScrollTyped'
  <2>1. \A f \in Named : torn'[f] \subseteq 1..written'[f]
    BY <1>2, <1>6, <1>7
  <2>2. max_lines' \in Int /\ scroll' \in [Named -> Seq(Nat)] /\ shrinking' \in [file : Files, rest : Seq(Nat)]
    BY <1>3 DEF ScrollInv, ScrollTyped
  <2> QED BY <1>6, <2>1, <2>2 DEF ScrollTyped
<1>9. ASSUME NEW f \in Named, f \notin mixed' PROVE FileOk(f)'
  <2>1. f \notin mixed /\ (f = file => file = n) /\ shrinking.file # f
    BY <1>1, <1>3, <1>9
  <2>2. /\ Recent(scroll[f], Whole(written[f], torn[f]), max_lines) /\ Len(scroll[f]) <= Most(max_lines)
        /\ f \in DOMAIN windows =>
              /\ windows[f].fd \in {None, f}
              /\ windows[f].written <= Len(scroll[f])
              /\ Len(scroll[f]) <= Keep(max_lines) + windows[f].written
    BY <1>2, <2>1 DEF FileOk
  <2>3. Whole(written'[f], torn'[f]) = Whole(written[f], torn[f])
    <3>1. CASE f = file
      <4>1. Whole(written[file] + 1, torn[file] \cup {written[file] + 1}) = Whole(written[file], torn[file])
        BY <1>1, WholeBegun
      <4> QED BY <1>6, <3>1, <4>1
    <3>2. CASE f # file
      BY <1>6, <3>2
    <3> QED BY <3>1, <3>2
  <2>4. f \in DOMAIN windows' =>
              /\ windows'[f].fd \in {None, f}
              /\ windows'[f].written <= Len(scroll[f])
              /\ Len(scroll[f]) <= Keep(max_lines) + windows'[f].written
    <3>1. CASE f = n
      <4>1. file = n
        BY <2>2, <3>1 DEF file, w
      <4> QED BY <1>5, <2>2, <3>1, <4>1 DEF w
    <3>2. CASE f # n
      BY <1>4, <2>2, <3>2
    <3> QED BY <3>1, <3>2
  <2> QED BY <1>3, <2>1, <2>2, <2>3, <2>4 DEF FileOk
<1>10. ScrollInv'
  BY <1>8, <1>9 DEF ScrollInv
<1>11. written'[file] \in torn'[file] /\ (file = n \/ file \in mixed')
  BY <1>3, <1>6
<1> QED BY <1>1, <1>3, <1>4, <1>5, <1>10, <1>11

\* The line of the window n is ended: its file has it, and the file of the
\* window's name is shrunk if the window's count is up.
LEMMA EndedInv ==
    ASSUME ScrollInv, WindowsOk, shrinking = NoShrink, max_lines' = max_lines,
           NEW n \in Named, n \in DOMAIN windows, windows[n].fd \in Named,
           windows[n].fd = n \/ windows[n].fd \in mixed, written[windows[n].fd] \in torn[windows[n].fd],
           LineSaved(n)
    PROVE  ScrollInv'
<1> DEFINE file == windows[n].fd
           count == windows[n].written + 1
           more == Append(scroll[file], written[file])
           text == [scroll EXCEPT ![file] = Append(@, written[file])]
           full == (max_lines > 0 /\ count * 2 > max_lines) \/ count > MaxWritten
           again == [fd |-> None, written |-> 0]
           counted == [fd |-> file, written |-> count]
<1>1. /\ file \in Named /\ windows[n].written \in Nat /\ count \in Nat /\ max_lines \in Int
      /\ \A f \in Named : scroll[f] \in Seq(Nat) /\ written[f] \in Nat /\ shrinking.file # f
      /\ written[file] \in torn[file] /\ torn[file] \subseteq 1..written[file]
  BY ScrollTypes
<1>2. /\ scroll \in [Named -> Seq(Nat)] /\ written \in [Named -> Nat] /\ torn \in [Named -> SUBSET Nat]
      /\ \A f \in Named : torn[f] \subseteq 1..written[f]
      /\ \A f \in Named \ mixed : FileOk(f)
  BY DEF ScrollInv, ScrollTyped
<1>3. /\ torn' = [torn EXCEPT ![file] = torn[file] \ {written[file]}]
      /\ windows' = [windows EXCEPT ![n] = IF full THEN again ELSE counted]
      /\ written' = written /\ mixed' = mixed
      /\ IF full /\ written[n] # 0
         THEN scroll' = [text EXCEPT ![n] = <<>>]
              /\ shrinking' = [file |-> n, rest |-> scrollback_shrink(text[n])]
         ELSE scroll' = text /\ shrinking' = shrinking
  BY DEF LineSaved
<1>4. more \in Seq(Nat)
  <2>1. scroll[file] \in Seq(Nat) /\ written[file] \in Nat
    BY <1>1
  <2> HIDE DEF file
  <2> QED BY <2>1
<1>5. file = n \/ file \in mixed
  OBVIOUS
<1> HIDE DEF again, counted, full, count, file
<1>6. /\ text \in [Named -> Seq(Nat)]
      /\ \A f \in Named : text[f] = IF f = file THEN more ELSE scroll[f]
  <2> HIDE DEF more
  <2>1. text = [scroll EXCEPT ![file] = more]
    BY DEF more
  <2> HIDE DEF text
  <2> QED BY <1>1, <1>2, <1>4, <2>1
<1> HIDE DEF text, more
<1>7. scrollback_shrink(text[n]) \in Seq(Nat)
  BY <1>1, <1>6, ShrinkTyped
<1>8. /\ torn' \in [Named -> SUBSET Nat] /\ torn'[file] = torn[file] \ {written[file]}
      /\ \A f \in Named : f # file => torn'[f] = torn[f]
  BY <1>1, <1>2, <1>3
<1>9. ScrollTyped'
  <2>1. n \in Files /\ <<>> \in Seq(Nat) /\ shrinking \in [file : Files, rest : Seq(Nat)]
    BY DEF Files, ScrollInv, ScrollTyped
  <2>2. scroll' \in [Named -> Seq(Nat)] /\ shrinking' \in [file : Files, rest : Seq(Nat)]
    <3>1. CASE full /\ written[n] # 0
      <4>1. scroll' = [text EXCEPT ![n] = <<>>] /\ shrinking' = [file |-> n, rest |-> scrollback_shrink(text[n])]
        BY <1>3, <3>1
      <4>2. [text EXCEPT ![n] = <<>>] \in [Named -> Seq(Nat)]
        BY <1>6, <2>1
      <4> QED BY <1>7, <2>1, <4>1, <4>2
    <3>2. CASE ~(full /\ written[n] # 0)
      BY <1>3, <1>6, <2>1, <3>2
    <3> QED BY <3>1, <3>2
  <2>3. \A f \in Named : torn'[f] \subseteq 1..written'[f]
    <3>1. \A f \in Named : torn'[f] \subseteq torn[f]
      BY <1>8
    <3> QED BY <1>2, <1>3, <3>1
  <2> QED BY <1>1, <1>2, <1>3, <1>8, <2>2, <2>3 DEF ScrollTyped
<1>10. ASSUME NEW f \in Named, f \notin mixed' PROVE FileOk(f)'
  <2>1. f \notin mixed /\ (f = file => file = n) /\ shrinking.file # f
    BY <1>1, <1>3, <1>5, <1>10
  <2>2. /\ Recent(scroll[f], Whole(written[f], torn[f]), max_lines) /\ Len(scroll[f]) <= Most(max_lines)
        /\ f \in DOMAIN windows =>
              /\ windows[f].fd \in {None, f}
              /\ windows[f].written <= Len(scroll[f])
              /\ Len(scroll[f]) <= Keep(max_lines) + windows[f].written
    BY <1>2, <2>1 DEF FileOk
  <2>3. DOMAIN windows' = DOMAIN windows
    BY <1>3
  <2>4. CASE f # n
    <3>1. windows'[f] = windows[f] \/ f \notin DOMAIN windows
      BY <1>3, <2>4
    <3>2. scroll'[f] = scroll[f] /\ written'[f] = written[f] /\ torn'[f] = torn[f]
      <4>1. f # file /\ text[f] = scroll[f] /\ torn'[f] = torn[f]
        BY <1>6, <1>8, <2>1, <2>4
      <4>2. scroll' = text \/ scroll' = [text EXCEPT ![n] = <<>>]
        BY <1>3
      <4>3. [text EXCEPT ![n] = <<>>][f] = text[f]
        BY <1>6, <2>4
      <4> QED BY <1>3, <4>1, <4>2, <4>3
    <3>3. shrinking'.file # f
      BY <1>3, <1>1, <2>4
    <3> QED BY <2>2, <2>3, <3>1, <3>2, <3>3 DEF FileOk
  <2>5. CASE f = n
    <3>1. file = n
      <4>1. windows[n].fd \in {None, n} /\ file # None
        BY <1>1, <2>2, <2>5, ScrollTypes
      <4> QED BY <4>1 DEF file
    <3> DEFINE W == Whole(written[n], torn[n] \ {written[n]})
    <3>2. /\ Recent(more, W, max_lines) /\ Len(more) = Len(scroll[n]) + 1 /\ Len(scroll[n]) \in Nat
          /\ more \in Seq(Nat)
      <4> DEFINE lines == scroll[n]
                 gone == torn[n]
                 number == written[n]
      <4>1. /\ lines \in Seq(Nat) /\ number \in Nat /\ gone \subseteq 1..number /\ number \in gone /\ max_lines \in Int
            /\ Recent(lines, Whole(number, gone), max_lines)
        BY <1>1, <2>2, <2>5, <3>1
      <4>2. more = Append(lines, number)
        BY <3>1 DEF more
      <4> HIDE DEF lines, gone, number
      <4>3. /\ Append(lines, number) \in Seq(Nat) /\ Recent(Append(lines, number), Whole(number, gone \ {number}), max_lines)
            /\ Len(Append(lines, number)) = Len(lines) + 1 /\ Len(lines) \in Nat
        BY <4>1, RecentMore
      <4> QED BY <4>2, <4>3 DEF lines, gone, number
    <3>3. text[n] = more /\ written' = written /\ Whole(written'[n], torn'[n]) = W
      BY <1>3, <1>6, <1>8, <3>1
    <3>4. written[n] # 0
      BY <1>1, <3>1
    <3> HIDE DEF W
    <3>5. windows[n].written <= Len(scroll[n]) /\ Len(scroll[n]) <= Keep(max_lines) + windows[n].written
      BY <2>2, <2>5
    <3> DEFINE l == Len(scroll[n])
               m == Len(more)
               v == windows[n].written
               g == Gap(max_lines)
               h == Keep(max_lines)
    <3>6. /\ l \in Nat /\ m = l + 1 /\ v \in Nat /\ v <= l /\ l <= h + v /\ g \in Nat /\ h \in Nat
          /\ Most(max_lines) = g + h /\ count = v + 1
      BY <1>1, <3>2, <3>5, GapCounts DEF count
    <3>7. (full => count >= g + 1) /\ (~full => count <= g)
      BY <1>1, GapCounts DEF full
    <3> HIDE DEF l, m, v, g, h
    <3>8. CASE full
      <4>1. m >= g + 1
        BY <3>6, <3>7, <3>8
      <4> DEFINE r == scrollback_shrink(more)
      <4>2. r \in Seq(Nat) /\ Len(r) <= Keep(max_lines) /\ Recent(r, W, max_lines)
        BY <1>1, <3>2, <4>1, Shrunk DEF Recent, m, g
      <4>3. shrinking' = [file |-> n, rest |-> r]
        BY <1>3, <3>3, <3>4, <3>8
      <4> HIDE DEF r
      <4>4. shrinking'.file = n /\ shrinking'.rest = r
        BY <4>3
      <4>5. windows'[n] = again
        BY <1>3, <3>8
      <4> QED BY <2>5, <3>3, <4>2, <4>4, <4>5 DEF FileOk, again
    <3>9. CASE ~full
      <4>1. scroll'[n] = more /\ shrinking' = shrinking
        BY <1>3, <3>3, <3>9
      <4>2. windows'[n] = counted /\ counted.fd = n /\ counted.written = count
        BY <1>3, <3>1, <3>9 DEF counted
      <4>3. m <= Most(max_lines) /\ count <= m /\ m <= h + count
        BY <3>6, <3>7, <3>9
      <4> QED BY <2>1, <2>5, <3>2, <3>3, <4>1, <4>2, <4>3 DEF FileOk, m, h
    <3> QED BY <3>8, <3>9
  <2> QED BY <2>4, <2>5
<1> QED BY <1>9, <1>10 DEF ScrollInv

\* A window opened on a file that is at rest fits it.
LEMMA OpenedFits ==
    ASSUME ScrollInv, WindowsOk, shrinking = NoShrink, NEW f \in Named \ mixed
    PROVE  Len(scroll[f]) \in Nat /\ Len(scroll[f]) <= Keep(max_lines) + Opened(f).written
           /\ Opened(f).written <= Len(scroll[f]) /\ Opened(f).fd \in {None, f}
<1>1. Len(scroll[f]) \in Nat /\ Keep(max_lines) \in Nat
  BY ScrollTypes, GapCounts
<1>2. Opened(f).written = Len(scroll[f]) /\ Opened(f).fd = None
  BY DEF Opened
<1> QED BY <1>1, <1>2

\* Only the windows change, and each that does is opened anew.
LEMMA WindowsFit ==
    ASSUME ScrollInv, WindowsOk, shrinking = NoShrink,
           UNCHANGED <<scroll, written, torn, max_lines, shrinking>>, mixed \subseteq mixed',
           \A f \in Named \ mixed' : f \in DOMAIN windows' =>
              windows'[f] = Opened(f) \/ (f \in DOMAIN windows /\ windows'[f] = windows[f])
    PROVE  ScrollInv'
<1>1. ASSUME NEW f \in Named, f \notin mixed' PROVE FileOk(f)'
  <2>1. shrinking.file # f /\ f \notin mixed
    BY <1>1, ScrollTypes
  <2>2. FileOk(f)
    BY <2>1 DEF ScrollInv, ScrollTyped
  <2>3. /\ Recent(scroll[f], Whole(written[f], torn[f]), max_lines) /\ Len(scroll[f]) <= Most(max_lines)
        /\ f \in DOMAIN windows =>
              /\ windows[f].fd \in {None, f}
              /\ windows[f].written <= Len(scroll[f])
              /\ Len(scroll[f]) <= Keep(max_lines) + windows[f].written
    BY <2>1, <2>2 DEF FileOk
  <2>4. f \in DOMAIN windows' =>
              /\ windows'[f].fd \in {None, f}
              /\ windows'[f].written <= Len(scroll[f])
              /\ Len(scroll[f]) <= Keep(max_lines) + windows'[f].written
    BY <1>1, <2>1, <2>3, OpenedFits
  <2> QED BY <2>1, <2>3, <2>4 DEF FileOk
<1> QED BY <1>1 DEF ScrollInv, ScrollTyped

LEMMA ScrollKept == TextsInv /\ [Next]_vars => ScrollInv'
<1> SUFFICES ASSUME TextsInv, [Next]_vars PROVE ScrollInv'
  OBVIOUS
<1>1. ScrollInv /\ WindowsOk /\ PhaseInv
  BY DEF TextsInv
<1>2. ASSUME UNCHANGED <<scroll, written, torn, max_lines, shrinking, mixed, windows>> PROVE ScrollInv'
  BY <1>1, <1>2 DEF ScrollInv, ScrollTyped, FileOk
<1>3. ASSUME shrinking = NoShrink, NEW nick \in Nicks, windows' = With(windows, nick, Opened(nick)),
             UNCHANGED <<scroll, written, torn, max_lines, shrinking, mixed>>
      PROVE  ScrollInv'
  <2>1. \A f \in DOMAIN windows' : windows'[f] = Opened(f) \/ (f \in DOMAIN windows /\ windows'[f] = windows[f])
    BY <1>3 DEF With
  <2> QED BY <1>1, <1>3, <2>1, WindowsFit
<1>4. CASE Receive
  <2>1. shrinking = NoShrink /\ UNCHANGED <<scroll, written, torn, max_lines, shrinking, mixed>>
    BY <1>4 DEF Receive, Quiet, storing
  <2>2. windows' = windows \/ \E nick \in Nicks : windows' = With(windows, nick, Opened(nick))
    BY <1>4 DEF Receive, inbound_privmsg, inbound_chanmsg, inbound_notice, ctcp_handle, Private, Ignored, memory
  <2> QED BY <1>2, <1>3, <2>1, <2>2
<1>5. CASE PrintText
  <2> DEFINE n == Head(printing).window
  <2>1. shrinking = NoShrink /\ printing # <<>> /\ max_lines' = max_lines /\ phase = "up"
    BY <1>5 DEF PrintText
  <2>2. n \in DOMAIN windows
    BY <1>1, <2>1, HeadHasWindow DEF TextsInv
  <2>3. CASE UNCHANGED <<scroll, written, torn, shrinking, mixed, windows>>
    BY <1>2, <2>1, <2>3
  <2>4. CASE scrollback_save(n) /\ n # Tab
    <3>1. n \in Named
      BY <1>1, <2>2, <2>4 DEF WindowsOk
    <3> HIDE DEF n
    <3> QED BY <1>1, <2>1, <2>2, <2>4, <3>1, BegunInv
  <2>5. CASE saving # None /\ LineSaved(n)
    <3>1. /\ n \in Named /\ windows[n].fd \in Named /\ (windows[n].fd = n \/ windows[n].fd \in mixed)
          /\ written[windows[n].fd] \in torn[windows[n].fd]
      BY <2>5 DEF TextsInv, SavingInv
    <3> HIDE DEF n
    <3> QED BY <1>1, <2>1, <2>2, <2>5, <3>1, EndedInv
  <2> QED BY <1>5, <2>3, <2>4, <2>5 DEF PrintText
<1>6. CASE Rewrite
  <2>1. /\ scroll' = [scroll EXCEPT ![shrinking.file] = shrinking.rest] /\ shrinking' = NoShrink
        /\ UNCHANGED <<written, torn, max_lines, mixed, windows>>
    BY <1>6 DEF Rewrite, memory
  <2>2. /\ scroll \in [Named -> Seq(Nat)] /\ shrinking \in [file : Files, rest : Seq(Nat)]
        /\ written \in [Named -> Nat] /\ torn \in [Named -> SUBSET Nat] /\ max_lines \in Int
        /\ \A f \in Named : torn[f] \subseteq 1..written[f]
    BY <1>1 DEF ScrollInv, ScrollTyped
  <2>3. scroll' \in [Named -> Seq(Nat)]
    BY <2>1, <2>2
  <2>4. shrinking' \in [file : Files, rest : Seq(Nat)] /\ \A f \in Named : shrinking'.file # f
    BY <2>1, TextsAssumption DEF NoShrink, Files, Named
  <2>5. ASSUME NEW f \in Named, f \notin mixed PROVE FileOk(f)'
    <3>1. FileOk(f) /\ shrinking'.file # f
      BY <1>1, <2>4, <2>5 DEF ScrollInv, ScrollTyped
    <3>2. CASE shrinking.file # f
      <4>1. scroll'[f] = scroll[f]
        BY <2>1, <2>2, <3>2
      <4> QED BY <2>1, <3>1, <3>2, <4>1 DEF FileOk
    <3>3. CASE shrinking.file = f
      <4>1. scroll'[f] = shrinking.rest
        BY <2>1, <2>2, <3>3
      <4>2. /\ Recent(shrinking.rest, Whole(written[f], torn[f]), max_lines) /\ Len(shrinking.rest) <= Keep(max_lines)
            /\ f \in DOMAIN windows => windows[f] = [fd |-> None, written |-> 0]
        BY <3>1, <3>3 DEF FileOk
      <4>3. Len(shrinking.rest) \in Nat
        BY <2>2
      <4>4. Len(shrinking.rest) <= Most(max_lines) /\ 0 <= Len(shrinking.rest)
            /\ Len(shrinking.rest) <= Keep(max_lines) + 0
        <5> DEFINE l == Len(shrinking.rest)
                   h == Keep(max_lines)
                   g == Gap(max_lines)
        <5>1. l \in Nat /\ h \in Nat /\ g \in Nat /\ Most(max_lines) = g + h /\ l <= h
          BY <1>1, <4>2, <4>3, GapCounts, ScrollTypes
        <5> HIDE DEF l, h, g
        <5>2. l <= g + h /\ 0 <= l /\ l <= h + 0
          BY <5>1
        <5> QED BY <5>1, <5>2 DEF l, h
      <4>5. f \in DOMAIN windows' =>
              /\ windows'[f].fd \in {None, f}
              /\ windows'[f].written <= Len(scroll'[f])
              /\ Len(scroll'[f]) <= Keep(max_lines) + windows'[f].written
        <5> SUFFICES ASSUME f \in DOMAIN windows'
                     PROVE  /\ windows'[f].fd \in {None, f}
                            /\ windows'[f].written <= Len(scroll'[f])
                            /\ Len(scroll'[f]) <= Keep(max_lines) + windows'[f].written
          OBVIOUS
        <5>1. windows'[f].fd = None /\ windows'[f].written = 0
          BY <2>1, <4>2
        <5> QED BY <4>1, <4>4, <5>1
      <4>6. Recent(scroll'[f], Whole(written'[f], torn'[f]), max_lines') /\ Len(scroll'[f]) <= Most(max_lines)
        BY <2>1, <4>1, <4>2, <4>4
      <4> QED BY <2>1, <3>1, <4>5, <4>6 DEF FileOk
    <3> QED BY <3>2, <3>3
  <2> QED BY <2>1, <2>2, <2>3, <2>4, <2>5 DEF ScrollInv, ScrollTyped
<1>7. CASE flood_autodialog_timeout
  BY <1>2, <1>7 DEF flood_autodialog_timeout, storing
<1>8. CASE User
  <2>1. shrinking = NoShrink /\ UNCHANGED <<scroll, written, torn, max_lines, shrinking>>
    BY <1>8 DEF User, Acting, Quiet, storing
  <2>2. CASE cmd_query
    BY <1>3, <2>1, <2>2 DEF cmd_query
  <2>3. CASE CloseDialog
    BY <1>1, <2>1, <2>3, WindowsFit DEF CloseDialog, Without
  <2>4. CASE inbound_newnick
    <3>1. PICK nick \in DOMAIN windows \ {Channel, Tab}, new \in Nicks \ DOMAIN windows :
             /\ windows' = Without(With(windows, new, windows[nick]), nick)
             /\ mixed' = IF windows[nick] # Opened(new) THEN mixed \cup {new} ELSE mixed
      BY <2>4 DEF inbound_newnick
    <3> DEFINE u == With(windows, new, windows[nick])
    <3>2. /\ DOMAIN u = DOMAIN windows \cup {new}
          /\ \A m \in DOMAIN u : u[m] = IF m = new THEN windows[nick] ELSE windows[m]
      BY DEF With
    <3>3. /\ DOMAIN windows' = DOMAIN u \ {nick}
          /\ \A m \in DOMAIN windows' : windows'[m] = u[m]
      <4> HIDE DEF u
      <4>1. windows' = Without(u, nick)
        BY <3>1 DEF u
      <4> QED BY <4>1 DEF Without
    <3> HIDE DEF u
    <3>4. mixed \subseteq mixed' /\ (new \notin mixed' => windows[nick] = Opened(new))
      BY <3>1
    <3>5. \A f \in Named \ mixed' : f \in DOMAIN windows' =>
              windows'[f] = Opened(f) \/ (f \in DOMAIN windows /\ windows'[f] = windows[f])
      BY <3>2, <3>3, <3>4
    <3> QED BY <1>1, <2>1, <3>4, <3>5, WindowsFit
  <2>5. CASE cmd_set \/ cmd_ignore \/ cmd_unignore
    BY <1>2, <2>1, <2>5 DEF cmd_set, cmd_ignore, cmd_unignore
  <2> QED BY <1>8, <2>2, <2>3, <2>4, <2>5 DEF User
<1>9. CASE Tick \/ xchat_exit \/ save_config
  BY <1>2, <1>9 DEF Tick, xchat_exit, save_config, storing, memory
<1>10. CASE ignore_save
  <2>1. shrinking = NoShrink /\ UNCHANGED <<scroll, written, torn, max_lines, shrinking, mixed>>
    BY <1>1, <1>10 DEF ignore_save, storing, PhaseInv
  <2>2. windows' = windows \/ windows' = <<>>
    BY <1>10 DEF ignore_save
  <2>3. DOMAIN <<>> = {}
    OBVIOUS
  <2> QED BY <1>1, <1>2, <2>1, <2>2, <2>3, WindowsFit
<1>11. CASE Crash
  <2>1. /\ shrinking' = NoShrink /\ UNCHANGED <<scroll, written, torn, max_lines, windows>>
        /\ mixed' = IF shrinking = NoShrink THEN mixed ELSE mixed \cup {shrinking.file}
    BY <1>11 DEF Crash, memory
  <2>2. shrinking' \in [file : Files, rest : Seq(Nat)] /\ \A f \in Named : shrinking'.file # f
    BY <2>1, TextsAssumption DEF NoShrink, Files, Named
  <2>3. ASSUME NEW f \in Named, f \notin mixed' PROVE FileOk(f)'
    <3>1. shrinking.file # f /\ f \notin mixed
      BY <1>1, <2>1, <2>3, ScrollTypes
    <3>2. FileOk(f) /\ shrinking'.file # f
      BY <1>1, <2>2, <3>1 DEF ScrollInv, ScrollTyped
    <3> QED BY <2>1, <3>1, <3>2 DEF FileOk
  <2> QED BY <1>1, <2>1, <2>2, <2>3 DEF ScrollInv, ScrollTyped
<1>12. CASE Start
  <2>1. /\ UNCHANGED <<scroll, written, torn, max_lines, shrinking, mixed>> /\ shrinking = NoShrink
        /\ windows' = [w \in {Channel, Tab} |-> IF w = Tab THEN [fd |-> None, written |-> 0] ELSE Opened(w)]
    BY <1>1, <1>12 DEF Start, storing, PhaseInv
  <2>2. \A f \in Named : f # Tab
    BY <1>1, ScrollTypes
  <2>3. \A f \in Named : f \in DOMAIN windows' => windows'[f] = Opened(f)
    BY <2>1, <2>2
  <2> QED BY <1>1, <2>1, <2>3, WindowsFit
<1>13. CASE UNCHANGED vars
  BY <1>2, <1>13 DEF vars, memory, storing
<1> QED BY <1>4, <1>5, <1>6, <1>7, <1>8, <1>9, <1>10, <1>11, <1>12, <1>13 DEF Next

LEMMA SavingKept == TextsInv /\ [Next]_vars => SavingInv'
<1> SUFFICES ASSUME TextsInv, [Next]_vars PROVE SavingInv'
  OBVIOUS
<1>1. ScrollInv /\ WindowsOk /\ PhaseInv /\ SavingInv /\ ShowInv
  BY DEF TextsInv
<1>2. ASSUME saving' = None PROVE SavingInv'
  BY <1>2 DEF SavingInv
<1>3. CASE PrintText
  <2> DEFINE n == Head(printing).window
  <2>1. shrinking = NoShrink /\ printing # <<>> /\ max_lines' = max_lines /\ phase = "up"
    BY <1>3 DEF PrintText
  <2>2. n \in DOMAIN windows
    BY <1>1, <2>1, HeadHasWindow
  <2>3. CASE scrollback_save(n) /\ n # Tab /\ printing' = printing
    <3>1. n \in Named
      BY <1>1, <2>2, <2>3 DEF WindowsOk
    <3>2. /\ saving' = "time" /\ shrinking' = NoShrink
          /\ n \in DOMAIN windows' /\ windows'[n].fd \in Named /\ (windows'[n].fd = n \/ windows'[n].fd \in mixed')
          /\ written'[windows'[n].fd] \in torn'[windows'[n].fd]
      <4> HIDE DEF n
      <4> QED BY <1>1, <2>1, <2>2, <2>3, <3>1, BegunInv
    <3> QED BY <2>1, <2>3, <3>1, <3>2 DEF SavingInv
  <2>4. CASE saving = "time" /\ saving' = "text" /\ UNCHANGED <<printing, windows, mixed, shrinking, written, torn>>
    <3>1. saving # None
      BY <2>4 DEF None
    <3> QED BY <1>1, <2>4, <3>1 DEF SavingInv
  <2>5. CASE LineSaved(n)
    BY <1>2, <2>5 DEF LineSaved
  <2>6. CASE saving' = saving /\ saving = None
    BY <1>2, <2>6
  <2> QED BY <1>3, <2>3, <2>4, <2>5, <2>6 DEF PrintText
<1>4. ASSUME printing = <<>> \/ shrinking # NoShrink, saving' = saving PROVE SavingInv'
  BY <1>1, <1>2, <1>4 DEF SavingInv
<1>5. CASE Receive \/ User \/ Tick \/ flood_autodialog_timeout \/ xchat_exit
  <2>1. printing = <<>> /\ saving' = saving
    BY <1>5 DEF Receive, User, Acting, Tick, flood_autodialog_timeout, xchat_exit, Quiet, storing
  <2> QED BY <1>4, <2>1
<1>6. CASE Rewrite
  BY <1>4, <1>6 DEF Rewrite
<1>7. CASE save_config \/ ignore_save \/ Start
  <2>1. phase # "up" /\ saving' = saving
    BY <1>7 DEF save_config, ignore_save, Start, storing
  <2> QED BY <1>1, <1>4, <2>1 DEF PhaseInv
<1>8. CASE Crash
  BY <1>2, <1>8 DEF Crash
<1>9. CASE UNCHANGED vars
  <2>1. UNCHANGED <<saving, printing, windows, mixed, shrinking, written, torn>>
    BY <1>9 DEF vars, memory, storing
  <2> QED BY <1>1, <2>1 DEF SavingInv
<1> QED BY <1>3, <1>5, <1>6, <1>7, <1>8, <1>9 DEF Next

-----------------------------------------------------------------------------
(* What holds of every behaviour.                                          *)

LEMMA TextsInvKept == TextsInv /\ [Next]_vars => TextsInv'
BY PhaseKept, WindowsKept, ShowKept, ConfKept, IgnKept, ScrollKept, SavingKept DEF TextsInv

LEMMA TextsInvHolds == Spec => []TextsInv
<1>1. Init => TextsInv
  BY InitHolds
<1>2. TextsInv /\ [Next]_vars => TextsInv'
  BY TextsInvKept
<1> QED BY <1>1, <1>2, PTL DEF Spec

\* What the variables hold: a line that is still to be printed has its window,
\* and while the program runs the channel and the server tab are open.
THEOREM TypesAreRight == Spec => []TypeOK
<1>1. TextsInv => TypeOK
  <2> SUFFICES ASSUME TextsInv PROVE TypeOK
    OBVIOUS
  <2>1. PhaseInv /\ WindowsOk /\ ShowInv /\ DOMAIN prefs = ToSet(Vars)
    BY DEF TextsInv, ConfInv
  <2>2. ASSUME NEW i \in DOMAIN printing PROVE printing[i].window \in DOMAIN windows
    <3>1. printing # <<>>
      BY <2>2
    <3>2. Channel \in DOMAIN windows
      BY <2>1, <3>1 DEF PhaseInv, WindowsOk
    <3>3. CASE printing = <<ToWarn>>
      <4>1. printing[i] = ToWarn
        BY <2>2, <3>3
      <4> QED BY <3>2, <4>1 DEF ToWarn
    <3>4. ASSUME NEW w \in DOMAIN windows, printing = <<ToShow(w)>> \/ printing = <<ToWarn, ToShow(w)>>
          PROVE  printing[i].window \in DOMAIN windows
      <4>1. printing[i] = ToShow(w) \/ printing[i] = ToWarn
        BY <2>2, <3>4
      <4> QED BY <3>2, <4>1 DEF ToShow, ToWarn
    <3> QED BY <2>1, <3>1, <3>3, <3>4 DEF ShowInv
  <2> QED BY <2>1, <2>2 DEF TypeOK, PhaseInv, WindowsOk
<1> QED BY <1>1, TextsInvHolds, PTL

\* A message of somebody who is not ignored is shown once, in the sender's
\* dialog if there is one, whatever windows, floods and crashes there are; only
\* the private message that trips the protection is not shown.
THEOREM MessagesAreShown == Spec => []ShownOnce
<1>1. TextsInv => ShownOnce
  <2> SUFFICES ASSUME TextsInv, printing = <<>>, phase = "up" PROVE Right(last, last.where)
    BY DEF ShownOnce, Right
  <2>1. ShowInv
    BY DEF TextsInv
  <2>2. \A a, b : <<a>> # <<>> /\ <<a, b>> # <<>>
    BY Singles
  <2> QED BY <2>1, <2>2 DEF ShowInv
<1> QED BY <1>1, TextsInvHolds, PTL

\* Wherever a save was cut short, the next start has every preference of the
\* last save that went well, but for the sizes and places that load_config
\* changes, for every table of preferences in which a name comes before those
\* that begin with it.
THEOREM ConfigIsWhole == Spec => []ConfigWhole
<1>1. TextsInv => ConfigWhole
  <2> SUFFICES ASSUME TextsInv PROVE ConfigWhole
    OBVIOUS
  <2>1. conf = Image(saved) /\ DOMAIN saved = ToSet(Vars)
    BY DEF TextsInv, ConfInv
  <2> DEFINE was == [v \in ToSet(Vars) |-> cfg_put_int(saved[v])]
             next == load_config(conf)
  <2>2. [v \in ToSet(Vars) |-> cfg_get_int(conf, v)] = was
    BY <2>1, ImageRead
  <2> HIDE DEF was
  <2>3. next = [v \in ToSet(Vars) |->
            IF v = "gui_ulist_pos" /\ was["gui_ulist_pos"] = 0 THEN ListPlace(was)
            ELSE IF v = "tab_pos" /\ was["gui_ulist_pos"] = 0 THEN TabPlace(was)
            ELSE Sized(v, was[v])]
    BY <2>2 DEF load_config
  <2> HIDE DEF next
  <2>4. /\ \A v \in ToSet(Vars) : was[v] = cfg_put_int(saved[v])
        /\ {"gui_ulist_pos", "tab_pos", "tab_position"} \subseteq ToSet(Vars)
    BY VarsAssumption DEF was
  <2>5. DOMAIN Smallest = {"gui_win_height", "gui_win_width"} /\ DOMAIN next = ToSet(Vars)
    BY <2>3 DEF Smallest
  <2>6. ASSUME NEW v \in ToSet(Vars)
        PROVE  \/ next[v] = was[v]
               \/ v \in DOMAIN Smallest /\ was[v] < Smallest[v] /\ next[v] = Smallest[v]
               \/ v \in {"gui_ulist_pos", "tab_pos"} /\ was["gui_ulist_pos"] = 0
    BY <2>3 DEF Sized
  <2>7. was["gui_ulist_pos"] = 0 => next["gui_ulist_pos"] \in 2..4
    BY <2>3, <2>4 DEF ListPlace
  <2>8. was["gui_ulist_pos"] = 0 /\ next["tab_pos"] # was["tab_pos"] => was["tab_position"] \in 0..5
    <3>1. was["gui_ulist_pos"] = 0 => next["tab_pos"] = TabPlace(was)
      BY <2>3, <2>4
    <3>2. was["tab_position"] \notin 0..5 => TabPlace(was) = was["tab_pos"]
      <4>1. SUFFICES ASSUME was["tab_position"] \notin 0..5 PROVE TabPlace(was) = was["tab_pos"]
        OBVIOUS
      <4>2. was["tab_position"] \notin 0..4 /\ was["tab_position"] # 5
        BY <4>1
      <4> QED BY <4>2 DEF TabPlace
    <3> QED BY <3>1, <3>2
  <2>9. ASSUME NEW v \in ToSet(Vars), v \in DOMAIN Smallest PROVE ~(next[v] < Smallest[v])
    <3>1. Smallest[v] \in Int /\ v \notin {"gui_ulist_pos", "tab_pos"}
      BY <2>5, <2>9 DEF Smallest
    <3> QED BY <2>3, <2>9, <3>1 DEF Sized
  <2> QED BY <2>1, <2>4, <2>5, <2>6, <2>7, <2>8, <2>9 DEF ConfigWhole, next
<1> QED BY <1>1, TextsInvHolds, PTL

\* The next start has the ignores that were to be kept, unless the program
\* ended while ignore.conf was written.
THEOREM IgnoresAreKept == Spec => []IgnoresKept
<1>1. TextsInv => IgnoresKept
  <2> SUFFICES ASSUME TextsInv, kept.whole PROVE ToSet(ignore_load) = kept.ignores
    BY DEF IgnoresKept
  <2>1. ignoreconf \in Seq(Ignore) /\ ToSet(ignoreconf) = kept.ignores
    BY DEF TextsInv, IgnInv
  <2> QED BY <2>1, Reversed DEF ignore_load
<1> QED BY <1>1, TextsInvHolds, PTL

\* A scrollback file that is not mixed holds the last lines of its window in
\* their order, without torn ones, enough of them and not too many, for every
\* max_lines and every number of windows, lines and crashes.
THEOREM ReplayIsRecent == Spec => []ReplayRecent
<1>1. TextsInv => ReplayRecent
  <2> SUFFICES ASSUME TextsInv, NEW f \in Named \ mixed, shrinking.file # f
               PROVE  /\ Recent(scroll[f], (1..written[f]) \ torn[f], max_lines)
                      /\ Len(scroll[f]) <= Most(max_lines)
    BY DEF ReplayRecent, Recent, Rising, Enough
  <2>1. FileOk(f)
    BY DEF TextsInv, ScrollInv
  <2> QED BY <2>1 DEF FileOk, Whole
<1> QED BY <1>1, TextsInvHolds, PTL
=============================================================================
