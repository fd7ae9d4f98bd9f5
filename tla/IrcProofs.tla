----------------------------- MODULE IrcProofs ------------------------------
(***************************************************************************)
(* Proofs about Irc, for any channels, users, numbers of tabs and lines:   *)
(* the types, that every answer the client waits for is on its way, and    *)
(* that what it shows of a channel is what the server has, once the lines  *)
(* on the way are read.  The latter is Follows, of LinesProofs, for each   *)
(* channel: kept when the server adds a line at the end, and when the      *)
(* client reads one from the front, because each handler makes of a tab    *)
(* what Step says the line makes of a view (Reads).                        *)
(***************************************************************************)
EXTENDS LinesProofs

-----------------------------------------------------------------------------
(* The client's tabs.                                                      *)
Tabs == [channel : Chans \union {None}, waitchannel : Chans \union {None},
         willjoinchannel : Chans \union {None}, doing_who : BOOLEAN,
         done_away_check : BOOLEAN, ignore_mode : BOOLEAN, end_of_names : BOOLEAN,
         users : Lists, modes : SUBSET Modes]

\* A channel is shown in one tab at most.
DistinctIn(ts) ==
    \A i, j \in DOMAIN ts : ts[i].channel = ts[j].channel /\ ts[i].channel # None => i = j
ViewIn(ts, c) == IF \E i \in DOMAIN ts : ts[i].channel = c
                 THEN ViewOf(ts[CHOOSE i \in DOMAIN ts : ts[i].channel = c]) ELSE Absent
\* The channels shown whose WHO is not answered.
WaitsIn(ts) == {ts[i].channel : i \in {j \in DOMAIN ts : ts[j].channel # None /\ ts[j].doing_who}}
Good(ts) == ts \in Seq(Tabs) /\ DistinctIn(ts)

LEMMA ViewShown ==
    ASSUME NEW ts, DistinctIn(ts), NEW i \in DOMAIN ts, ts[i].channel # None
    PROVE  ViewIn(ts, ts[i].channel) = ViewOf(ts[i])
<1> DEFINE c == ts[i].channel
           k == CHOOSE j \in DOMAIN ts : ts[j].channel = c
<1>1. k \in DOMAIN ts /\ ts[k].channel = c
  OBVIOUS
<1>2. k = i
  <2> HIDE DEF k
  <2> QED BY <1>1 DEF DistinctIn
<1>3. ViewIn(ts, c) = ViewOf(ts[k])
  BY DEF ViewIn
<1> QED BY <1>2, <1>3

LEMMA ViewAbsent ==
    ASSUME NEW ts, NEW c, \A i \in DOMAIN ts : ts[i].channel # c
    PROVE  ViewIn(ts, c) = Absent
BY DEF ViewIn

LEMMA ViewFacts ==
    ASSUME NEW ts, DistinctIn(ts), NEW c, c # None
    PROVE  /\ ViewIn(ts, c).shown <=> \E i \in DOMAIN ts : ts[i].channel = c
           /\ \A i \in DOMAIN ts : ts[i].channel = c => ViewIn(ts, c) = ViewOf(ts[i])
           /\ ~ViewIn(ts, c).shown => ViewIn(ts, c) = Absent
<1>1. \A i \in DOMAIN ts : ts[i].channel = c => ViewIn(ts, c) = ViewOf(ts[i])
  BY ViewShown
<1>2. \A t : ViewOf(t).shown
  BY DEF ViewOf, Seen
<1>3. ~Absent.shown
  BY DEF Absent
<1>4. CASE \E i \in DOMAIN ts : ts[i].channel = c
  BY <1>1, <1>2, <1>4
<1>5. CASE ~\E i \in DOMAIN ts : ts[i].channel = c
  <2>1. ViewIn(ts, c) = Absent
    BY <1>5, ViewAbsent
  <2> QED BY <1>3, <1>5, <2>1
<1> QED BY <1>4, <1>5

\* All tabs are changed, and none shows another channel.
LEMMA AllTabs ==
    ASSUME NEW ts, Good(ts), NEW ts2, ts2 = [i \in DOMAIN ts |-> ts2[i]],
           \A i \in DOMAIN ts : ts2[i] \in Tabs /\ ts2[i].channel = ts[i].channel
    PROVE  /\ Good(ts2)
           /\ \A c \in Chans :
                 \/ ViewIn(ts, c) = Absent /\ ViewIn(ts2, c) = Absent
                 \/ \E i \in DOMAIN ts : ts[i].channel = c /\ ViewIn(ts, c) = ViewOf(ts[i]) /\ ViewIn(ts2, c) = ViewOf(ts2[i])
           /\ (\A i \in DOMAIN ts : ts2[i].doing_who => ts[i].doing_who) => WaitsIn(ts2) \subseteq WaitsIn(ts)
<1>1. ts \in Seq(Tabs) /\ DistinctIn(ts) /\ DOMAIN ts2 = DOMAIN ts
  BY DEF Good
<1>2. ts2 \in Seq(Tabs)
  <2>1. DOMAIN ts = 1..Len(ts) /\ Len(ts) \in Nat
    BY <1>1
  <2>2. ts2 = [i \in 1..Len(ts) |-> ts2[i]] /\ \A i \in 1..Len(ts) : ts2[i] \in Tabs
    BY <2>1
  <2>3. ts2 \in [1..Len(ts) -> Tabs]
    BY <2>2
  <2> QED BY <2>1, <2>3
<1>3. DistinctIn(ts2)
  BY <1>1 DEF DistinctIn
<1>4. ASSUME NEW c \in Chans
      PROVE  \/ ViewIn(ts, c) = Absent /\ ViewIn(ts2, c) = Absent
             \/ \E i \in DOMAIN ts : ts[i].channel = c /\ ViewIn(ts, c) = ViewOf(ts[i]) /\ ViewIn(ts2, c) = ViewOf(ts2[i])
  <2>1. c # None
    BY NamesAssumption
  <2>2. CASE \E i \in DOMAIN ts : ts[i].channel = c
    <3>1. PICK i \in DOMAIN ts : ts[i].channel = c
      BY <2>2
    <3>2. ViewIn(ts, c) = ViewOf(ts[i])
      BY <1>1, <2>1, <3>1, ViewShown
    <3>3. ViewIn(ts2, c) = ViewOf(ts2[i])
      <4>1. i \in DOMAIN ts2 /\ ts2[i].channel = c
        BY <1>1, <3>1
      <4> QED BY <1>3, <2>1, <4>1, ViewShown
    <3> QED BY <3>1, <3>2, <3>3
  <2>3. CASE ~\E i \in DOMAIN ts : ts[i].channel = c
    <3>1. ViewIn(ts, c) = Absent
      BY <2>3, ViewAbsent
    <3>2. \A i \in DOMAIN ts2 : ts2[i].channel # c
      BY <1>1, <2>3
    <3>3. ViewIn(ts2, c) = Absent
      BY <3>2, ViewAbsent
    <3> QED BY <3>1, <3>3
  <2> QED BY <2>2, <2>3
<1>5. ASSUME \A i \in DOMAIN ts : ts2[i].doing_who => ts[i].doing_who
      PROVE  WaitsIn(ts2) \subseteq WaitsIn(ts)
  BY <1>1, <1>5 DEF WaitsIn
<1> QED BY <1>2, <1>3, <1>4, <1>5 DEF Good

\* Tab k becomes t.
Becomes(ts, k, t, ts2) == k \in DOMAIN ts /\ t \in Tabs /\ ts2 = [ts EXCEPT ![k] = t]

\* One tab is changed; it shows the same channel, none, or one not shown before.
LEMMA OneTab ==
    ASSUME NEW ts, Good(ts), NEW k, NEW t, NEW ts2, Becomes(ts, k, t, ts2),
           t.channel \in {None, ts[k].channel} \/ \A i \in DOMAIN ts : ts[i].channel # t.channel
    PROVE  /\ Good(ts2)
           /\ \A c \in Chans : c \notin {t.channel, ts[k].channel} => ViewIn(ts2, c) = ViewIn(ts, c)
           /\ t.channel # None => ViewIn(ts2, t.channel) = ViewOf(t)
           /\ ts[k].channel \notin {None, t.channel} => ViewIn(ts2, ts[k].channel) = Absent
           /\ ts[k].channel # None => ViewIn(ts, ts[k].channel) = ViewOf(ts[k])
           /\ WaitsIn(ts2) \subseteq WaitsIn(ts) \union {t.channel}
           /\ (t.doing_who => ts[k].doing_who) /\ t.channel \in {None, ts[k].channel}
              => WaitsIn(ts2) \subseteq WaitsIn(ts)
           /\ ~t.doing_who => t.channel \notin WaitsIn(ts2)
<1>1. ts \in Seq(Tabs) /\ DistinctIn(ts)
  BY DEF Good
<1>2. k \in DOMAIN ts /\ t \in Tabs /\ ts2 \in Seq(Tabs) /\ DOMAIN ts2 = DOMAIN ts
      /\ \A i \in DOMAIN ts : ts2[i] = IF i = k THEN t ELSE ts[i]
  BY <1>1 DEF Becomes
<1>3. ts2[k] = t /\ \A i \in DOMAIN ts : i # k => ts2[i] = ts[i]
  BY <1>2
<1>4. DistinctIn(ts2)
  <2> SUFFICES ASSUME NEW i \in DOMAIN ts, NEW j \in DOMAIN ts, ts2[i].channel = ts2[j].channel, ts2[i].channel # None
               PROVE  i = j
    BY <1>2 DEF DistinctIn
  <2>1. CASE i # k /\ j # k
    BY <1>1, <1>3, <2>1 DEF DistinctIn
  <2>2. CASE i = k /\ j # k
    <3>1. t.channel = ts[j].channel /\ t.channel # None
      BY <1>3, <2>2
    <3>2. ts[k].channel = ts[j].channel
      BY <3>1
    <3> QED BY <1>1, <1>2, <3>1, <3>2 DEF DistinctIn
  <2>3. CASE i # k /\ j = k
    <3>1. t.channel = ts[i].channel /\ t.channel # None
      BY <1>3, <2>3
    <3>2. ts[k].channel = ts[i].channel
      BY <3>1
    <3> QED BY <1>1, <1>2, <3>1, <3>2 DEF DistinctIn
  <2> QED BY <2>1, <2>2, <2>3
<1>5. ASSUME NEW c \in Chans, c \notin {t.channel, ts[k].channel} PROVE ViewIn(ts2, c) = ViewIn(ts, c)
  <2>1. c # None
    BY NamesAssumption
  <2>2. CASE \E i \in DOMAIN ts : ts[i].channel = c
    <3>1. PICK i \in DOMAIN ts : ts[i].channel = c
      BY <2>2
    <3>2. ts2[i] = ts[i] /\ i \in DOMAIN ts2
      BY <1>2, <1>3, <1>5, <3>1
    <3> QED BY <1>1, <1>4, <2>1, <3>1, <3>2, ViewShown
  <2>3. CASE ~\E i \in DOMAIN ts : ts[i].channel = c
    <3>1. \A i \in DOMAIN ts2 : ts2[i].channel # c
      BY <1>2, <1>5, <2>3
    <3> QED BY <2>3, <3>1, ViewAbsent
  <2> QED BY <2>2, <2>3
<1>6. t.channel # None => ViewIn(ts2, t.channel) = ViewOf(t)
  <2>1. k \in DOMAIN ts2
    BY <1>2
  <2> QED BY <1>3, <1>4, <2>1, ViewShown
<1>7. ts[k].channel \notin {None, t.channel} => ViewIn(ts2, ts[k].channel) = Absent
  <2> SUFFICES ASSUME ts[k].channel \notin {None, t.channel} PROVE ViewIn(ts2, ts[k].channel) = Absent
    OBVIOUS
  <2>1. \A i \in DOMAIN ts2 : ts2[i].channel # ts[k].channel
    BY <1>1, <1>2, <1>3 DEF DistinctIn
  <2> QED BY <2>1, ViewAbsent
<1>8. ts[k].channel # None => ViewIn(ts, ts[k].channel) = ViewOf(ts[k])
  BY <1>1, <1>2, ViewShown
<1>9. WaitsIn(ts2) \subseteq WaitsIn(ts) \union {t.channel}
  BY <1>2, <1>3 DEF WaitsIn
<1>10. (t.doing_who => ts[k].doing_who) /\ t.channel \in {None, ts[k].channel} => WaitsIn(ts2) \subseteq WaitsIn(ts)
  BY <1>2, <1>3 DEF WaitsIn
<1>11. ~t.doing_who => t.channel \notin WaitsIn(ts2)
  <2> SUFFICES ASSUME ~t.doing_who, t.channel \in WaitsIn(ts2) PROVE FALSE
    OBVIOUS
  <2>1. PICK i \in DOMAIN ts2 : ts2[i].channel = t.channel /\ ts2[i].channel # None /\ ts2[i].doing_who
    BY DEF WaitsIn
  <2>2. i = k
    BY <1>2, <1>3, <1>4, <2>1 DEF DistinctIn
  <2> QED BY <1>3, <2>1, <2>2
<1> QED BY <1>2, <1>4, <1>5, <1>6, <1>7, <1>8, <1>9, <1>10, <1>11 DEF Good

-----------------------------------------------------------------------------
(* What the client makes of a line: its tabs become what the line says.    *)
Reads(line, n, ts, n2, ts2) ==
    /\ Good(ts2) /\ n2 \in ToSet(Nicks)
    /\ \A c \in Chans : State(n2, ViewIn(ts2, c)) = Step(c, State(n, ViewIn(ts, c)), line)
    /\ \A c \in WaitsIn(ts2) : (c \in WaitsIn(ts) /\ line # <<"315", c>>) \/ Entered(c, n, line)

LEMMA StepShown ==
    ASSUME NEW c, NEW n, NEW x, NEW line, x.shown, ~Entered(c, n, line), ~Gone(c, n, line)
    PROVE  Step(c, State(n, x), line)
           = State(NickAfter(n, line), Seen(UsersAfter(c, n, x, line), EndedAfter(c, x, line),
                                            HidesAfter(c, x, line), ModesAfter(c, x, line)))
<1>1. State(n, x).nick = n /\ State(n, x).view = x
  BY DEF State
<1>2. After(c, n, x, line) = Seen(UsersAfter(c, n, x, line), EndedAfter(c, x, line),
                                  HidesAfter(c, x, line), ModesAfter(c, x, line))
  BY DEF After
<1> QED BY <1>1, <1>2 DEF Step

LEMMA StepUnshown ==
    ASSUME NEW c, NEW n, NEW x, NEW line, ~x.shown \/ Gone(c, n, line), ~Entered(c, n, line)
    PROVE  Step(c, State(n, x), line) = State(NickAfter(n, line), Absent)
<1>1. State(n, x).nick = n /\ State(n, x).view = x
  BY DEF State
<1>2. After(c, n, x, line) = Absent
  BY DEF After
<1> QED BY <1>1, <1>2 DEF Step

LEMMA ViewOfIs ==
    ASSUME NEW t
    PROVE  /\ ViewOf(t).shown /\ ViewOf(t).users = t.users /\ ViewOf(t).ended = t.end_of_names
           /\ ViewOf(t).hides = t.ignore_mode
           /\ t.ignore_mode => ViewOf(t).modes = {}
           /\ ~t.ignore_mode => ViewOf(t).modes = t.modes
           /\ ViewOf(t) = Seen(ViewOf(t).users, ViewOf(t).ended, ViewOf(t).hides, ViewOf(t).modes)
           /\ ~Absent.shown
BY DEF ViewOf, Seen, Absent

\* A line that changes nothing of c leaves the view of c.
LEMMA StepKeeps ==
    ASSUME NEW c, NEW n, NEW ts, NEW line, Neutral(c, line)
    PROVE  /\ Step(c, State(n, ViewIn(ts, c)), line) = State(n, ViewIn(ts, c))
           /\ ~Entered(c, n, line)
<1> DEFINE x == ViewIn(ts, c)
<1>1. /\ NickAfter(n, line) = n /\ ~Entered(c, n, line) /\ ~Gone(c, n, line)
      /\ UsersAfter(c, n, x, line) = x.users /\ EndedAfter(c, x, line) = x.ended
      /\ HidesAfter(c, x, line) = x.hides /\ ModesAfter(c, x, line) = x.modes
  BY DEF Neutral
<1>2. x = Absent \/ \E t : x = ViewOf(t)
  BY DEF ViewIn
<1> HIDE DEF x
<1>3. CASE x = Absent
  BY <1>1, <1>3, ViewOfIs, StepUnshown DEF x
<1>4. CASE \E t : x = ViewOf(t)
  <2>1. x.shown /\ x = Seen(x.users, x.ended, x.hides, x.modes)
    BY <1>4, ViewOfIs
  <2>2. Step(c, State(n, x), line) = State(n, x)
    BY <1>1, <2>1, StepShown
  <2> QED BY <1>1, <2>2 DEF x
<1> QED BY <1>2, <1>3, <1>4

\* No tab changes what it shows.
LEMMA ReadsNothing ==
    ASSUME NEW line, NEW n \in ToSet(Nicks), NEW ts, NEW ts2, Good(ts2), WaitsIn(ts2) \subseteq WaitsIn(ts),
           \A c \in Chans : Neutral(c, line) /\ ViewIn(ts2, c) = ViewIn(ts, c), line[1] # "315"
    PROVE  Reads(line, n, ts, n, ts2)
<1>1. ASSUME NEW c \in Chans PROVE State(n, ViewIn(ts2, c)) = Step(c, State(n, ViewIn(ts, c)), line)
  BY StepKeeps
<1>2. \A c : line # <<"315", c>>
  OBVIOUS
<1> QED BY <1>1, <1>2 DEF Reads

\* The line is about channel d, which is not shown.
LEMMA ReadsUnshown ==
    ASSUME NEW line, NEW n \in ToSet(Nicks), NEW ts, Good(ts), NEW d \in Chans, ViewIn(ts, d) = Absent,
           \A c \in Chans \ {d} : Neutral(c, line), NickAfter(n, line) = n, ~Entered(d, n, line),
           \A c : line = <<"315", c>> => c = d
    PROVE  Reads(line, n, ts, n, ts)
<1>1. ASSUME NEW c \in Chans PROVE State(n, ViewIn(ts, c)) = Step(c, State(n, ViewIn(ts, c)), line)
  <2>1. CASE c = d
    BY <2>1, ViewOfIs, StepUnshown
  <2>2. CASE c # d
    BY <2>2, StepKeeps
  <2> QED BY <2>1, <2>2
<1>2. d \notin WaitsIn(ts)
  <2> SUFFICES ASSUME d \in WaitsIn(ts) PROVE FALSE
    OBVIOUS
  <2>1. PICK i \in DOMAIN ts : ts[i].channel = d
    BY DEF WaitsIn
  <2>2. ViewIn(ts, d).shown
    BY <2>1, NamesAssumption, ViewFacts DEF Good
  <2> QED BY <2>2, ViewOfIs
<1> QED BY <1>1, <1>2 DEF Reads

\* The tab of channel d is changed, or shows no channel any more.
LEMMA TheTab ==
    ASSUME NEW ts, Good(ts), NEW d \in Chans, NEW k, ts[k].channel = d, NEW t,
           t.channel \in {None, d}, NEW ts2, Becomes(ts, k, t, ts2)
    PROVE  /\ Good(ts2)
           /\ \A c \in Chans : c \notin {t.channel, d} => ViewIn(ts2, c) = ViewIn(ts, c)
           /\ t.channel # None => ViewIn(ts2, t.channel) = ViewOf(t)
           /\ d \notin {None, t.channel} => ViewIn(ts2, d) = Absent
           /\ ViewIn(ts, d) = ViewOf(ts[k])
           /\ (t.doing_who => ts[k].doing_who) => WaitsIn(ts2) \subseteq WaitsIn(ts)
           /\ ~t.doing_who => t.channel \notin WaitsIn(ts2)
<1>1. d # None
  BY NamesAssumption
<1>2. /\ Good(ts2)
      /\ \A c \in Chans : c \notin {t.channel, ts[k].channel} => ViewIn(ts2, c) = ViewIn(ts, c)
      /\ t.channel # None => ViewIn(ts2, t.channel) = ViewOf(t)
      /\ ts[k].channel \notin {None, t.channel} => ViewIn(ts2, ts[k].channel) = Absent
      /\ ts[k].channel # None => ViewIn(ts, ts[k].channel) = ViewOf(ts[k])
      /\ (t.doing_who => ts[k].doing_who) /\ t.channel \in {None, ts[k].channel}
         => WaitsIn(ts2) \subseteq WaitsIn(ts)
      /\ ~t.doing_who => t.channel \notin WaitsIn(ts2)
  BY OneTab
<1> QED BY <1>1, <1>2

\* The line is about channel d, and its tab becomes t.
LEMMA ReadsOne ==
    ASSUME NEW line, NEW n \in ToSet(Nicks), NEW ts, Good(ts), NEW d \in Chans,
           NEW k, ts[k].channel = d, NEW t, NEW ts2, Becomes(ts, k, t, ts2),
           \A c \in Chans \ {d} : Neutral(c, line), NickAfter(n, line) = n, ~Entered(d, n, line),
           \/ Gone(d, n, line) /\ t.channel = None
           \/ /\ ~Gone(d, n, line) /\ t.channel = d
              /\ ViewOf(t) = Seen(UsersAfter(d, n, ViewOf(ts[k]), line), EndedAfter(d, ViewOf(ts[k]), line),
                                  HidesAfter(d, ViewOf(ts[k]), line), ModesAfter(d, ViewOf(ts[k]), line)),
           t.doing_who => ts[k].doing_who, line[1] = "315" => line[2] = d /\ ~t.doing_who /\ t.channel = d
    PROVE  Reads(line, n, ts, n, ts2)
<1>0. d # None
  BY NamesAssumption
<1>1. t.channel \in {None, d}
  OBVIOUS
<1>2. /\ Good(ts2)
      /\ \A c \in Chans : c \notin {t.channel, d} => ViewIn(ts2, c) = ViewIn(ts, c)
      /\ t.channel # None => ViewIn(ts2, t.channel) = ViewOf(t)
      /\ d \notin {None, t.channel} => ViewIn(ts2, d) = Absent
      /\ ViewIn(ts, d) = ViewOf(ts[k])
      /\ WaitsIn(ts2) \subseteq WaitsIn(ts)
      /\ ~t.doing_who => t.channel \notin WaitsIn(ts2)
  BY <1>1, TheTab
<1>3. ASSUME NEW c \in Chans PROVE State(n, ViewIn(ts2, c)) = Step(c, State(n, ViewIn(ts, c)), line)
  <2>1. CASE c # d
    <3>1. ViewIn(ts2, c) = ViewIn(ts, c)
      <4>1. c \notin {t.channel, d}
        BY <1>1, <2>1, NamesAssumption
      <4> QED BY <1>2, <4>1
    <3> QED BY <2>1, <3>1, StepKeeps
  <2>2. CASE c = d /\ Gone(d, n, line) /\ t.channel = None
    <3>1. ViewIn(ts2, d) = Absent
      BY <1>0, <1>2, <2>2
    <3> QED BY <2>2, <3>1, StepUnshown
  <2>3. CASE c = d /\ ~Gone(d, n, line) /\ t.channel = d
    <3>1. ViewIn(ts2, d) = ViewOf(t)
      BY <1>0, <1>2, <2>3
    <3>2. ViewOf(ts[k]).shown
      BY ViewOfIs
    <3>3. ViewOf(t) = Seen(UsersAfter(d, n, ViewOf(ts[k]), line), EndedAfter(d, ViewOf(ts[k]), line),
                           HidesAfter(d, ViewOf(ts[k]), line), ModesAfter(d, ViewOf(ts[k]), line))
      BY <2>3
    <3>4. Step(d, State(n, ViewOf(ts[k])), line) = State(n, ViewOf(t))
      BY <2>3, <3>2, <3>3, StepShown
    <3> QED BY <1>2, <2>3, <3>1, <3>4
  <2> QED BY <2>1, <2>2, <2>3
<1>4. ASSUME NEW c \in WaitsIn(ts2) PROVE c \in WaitsIn(ts) /\ line # <<"315", c>>
  <2>1. line = <<"315", c>> => c = d /\ t.channel = d /\ ~t.doing_who
    OBVIOUS
  <2> QED BY <1>2, <1>4, <2>1
<1> QED BY <1>2, <1>3, <1>4 DEF Reads

\* The line is about all channels.
LEMMA ReadsMany ==
    ASSUME NEW line, NEW n, NEW ts, Good(ts), NEW ts2, ts2 = [i \in DOMAIN ts |-> ts2[i]],
           \A i \in DOMAIN ts : ts2[i] \in Tabs /\ ts2[i].channel = ts[i].channel,
           \A i \in DOMAIN ts : ts2[i].doing_who => ts[i].doing_who,
           NickAfter(n, line) \in ToSet(Nicks), line[1] # "315",
           \A c \in Chans : ~Entered(c, n, line) /\ ~Gone(c, n, line),
           \A i \in DOMAIN ts : \A c \in Chans :
               ts[i].channel = c
               => ViewOf(ts2[i]) = Seen(UsersAfter(c, n, ViewOf(ts[i]), line), EndedAfter(c, ViewOf(ts[i]), line),
                                        HidesAfter(c, ViewOf(ts[i]), line), ModesAfter(c, ViewOf(ts[i]), line))
    PROVE  Reads(line, n, ts, NickAfter(n, line), ts2)
<1>1. /\ Good(ts2) /\ WaitsIn(ts2) \subseteq WaitsIn(ts)
      /\ \A c \in Chans :
            \/ ViewIn(ts, c) = Absent /\ ViewIn(ts2, c) = Absent
            \/ \E i \in DOMAIN ts : ts[i].channel = c /\ ViewIn(ts, c) = ViewOf(ts[i]) /\ ViewIn(ts2, c) = ViewOf(ts2[i])
  BY AllTabs
<1>2. ASSUME NEW c \in Chans
      PROVE  State(NickAfter(n, line), ViewIn(ts2, c)) = Step(c, State(n, ViewIn(ts, c)), line)
  <2>1. CASE ViewIn(ts, c) = Absent /\ ViewIn(ts2, c) = Absent
    BY <2>1, ViewOfIs, StepUnshown
  <2>2. CASE \E i \in DOMAIN ts : ts[i].channel = c /\ ViewIn(ts, c) = ViewOf(ts[i]) /\ ViewIn(ts2, c) = ViewOf(ts2[i])
    <3>1. PICK i \in DOMAIN ts : ts[i].channel = c /\ ViewIn(ts, c) = ViewOf(ts[i]) /\ ViewIn(ts2, c) = ViewOf(ts2[i])
      BY <2>2
    <3>2. ViewOf(ts[i]).shown
      BY ViewOfIs
    <3>3. ViewOf(ts2[i]) = Seen(UsersAfter(c, n, ViewOf(ts[i]), line), EndedAfter(c, ViewOf(ts[i]), line),
                                HidesAfter(c, ViewOf(ts[i]), line), ModesAfter(c, ViewOf(ts[i]), line))
      BY <3>1
    <3> QED BY <3>1, <3>2, <3>3, StepShown
  <2> QED BY <1>1, <2>1, <2>2
<1>3. \A c : line # <<"315", c>>
  OBVIOUS
<1> QED BY <1>1, <1>2, <1>3 DEF Reads

\* What a line turns tab t of channel d into.
Turns(d, n, line, t, t2) ==
    /\ t2 \in Tabs /\ (t2.doing_who => t.doing_who)
    /\ line[1] = "315" => ~t2.doing_who
    /\ \/ Gone(d, n, line) /\ t2.channel = None /\ line[1] # "315"
       \/ /\ ~Gone(d, n, line) /\ t2.channel = d
          /\ t2.users = UsersAfter(d, n, ViewOf(t), line) /\ t2.end_of_names = EndedAfter(d, ViewOf(t), line)
          /\ t2.ignore_mode = HidesAfter(d, ViewOf(t), line)
          /\ (IF t2.ignore_mode THEN {} ELSE t2.modes) = ModesAfter(d, ViewOf(t), line)
\* A line about d alone, which does not make client n enter it.
About(d, n, line) ==
    /\ \A c \in Chans \ {d} : Neutral(c, line)
    /\ NickAfter(n, line) = n /\ ~Entered(d, n, line)
    /\ line[1] = "315" => line[2] = d

LEMMA AboutKinds ==
    ASSUME NEW d, NEW n, NEW line,
           \/ line[1] \in {"315", "324", "353", "366", "MODE", "OP"} /\ line[2] = d
           \/ line[1] \in {"PART", "KICK"} /\ line[3] = d
           \/ line[1] = "JOIN" /\ line[3] = d /\ line[2] # n
    PROVE  About(d, n, line)
<1>1. ASSUME NEW c \in Chans \ {d} PROVE Neutral(c, line)
  <2>1. CASE line[1] \in {"315", "324", "353", "366", "MODE", "OP"} /\ line[2] = d
    BY <2>1, NeutralKinds
  <2>2. CASE line[1] \in {"JOIN", "PART", "KICK"} /\ line[3] = d
    BY <2>2 DEF Neutral, NickAfter, Entered, Gone, UsersAfter, EndedAfter, HidesAfter, ModesAfter
  <2> QED BY <2>1, <2>2
<1>2. NickAfter(n, line) = n /\ ~Entered(d, n, line)
  BY DEF NickAfter, Entered
<1> QED BY <1>1, <1>2 DEF About

LEMMA Found ==
    ASSUME Good(tabs), NEW d
    PROVE  \/ find_channel(d) = 0 /\ \A i \in DOMAIN tabs : tabs[i].channel # d
           \/ find_channel(d) \in DOMAIN tabs /\ find_channel(d) # 0 /\ tabs[find_channel(d)].channel = d
<1> DEFINE shown == {i \in DOMAIN tabs : tabs[i].channel = d}
           k == find_channel(d)
<1>1. k = IF shown = {} THEN 0 ELSE CHOOSE i \in shown : \A j \in shown : i <= j
  BY DEF find_channel, FirstTab
<1>2. DOMAIN tabs = 1..Len(tabs) /\ Len(tabs) \in Nat
  BY DEF Good
<1>3. shown \subseteq Nat
  BY <1>2
<1> HIDE DEF k
<1>4. CASE shown = {}
  BY <1>1, <1>4 DEF k
<1>5. CASE shown # {}
  <2> HIDE DEF shown
  <2>1. PICK x \in shown : \A y \in shown : ~(y < x)
    BY <1>3, <1>5, NatMin
  <2>2. \A y \in shown : x <= y
    BY <1>3, <2>1
  <2>3. k \in shown
    BY <1>1, <1>5, <2>2
  <2> QED BY <1>2, <2>3 DEF shown, k
<1> QED BY <1>4, <1>5

LEMMA ReadsTab ==
    ASSUME Good(tabs), NEW n \in ToSet(Nicks), NEW d \in Chans, NEW line, About(d, n, line), NEW ts2, NEW t2,
           find_channel(d) = 0 => ts2 = tabs,
           find_channel(d) # 0 => ts2 = [tabs EXCEPT ![find_channel(d)] = t2],
           find_channel(d) # 0 => Turns(d, n, line, tabs[find_channel(d)], t2)
    PROVE  Reads(line, n, tabs, n, ts2)
<1> DEFINE k == find_channel(d)
<1>1. CASE k = 0
  <2>1. ts2 = tabs /\ \A i \in DOMAIN tabs : tabs[i].channel # d
    BY <1>1, Found
  <2>2. ViewIn(tabs, d) = Absent
    BY <2>1, ViewAbsent
  <2>3. \A c : line = <<"315", c>> => c = d
    BY DEF About
  <2>4. /\ \A c \in Chans \ {d} : Neutral(c, line)
        /\ NickAfter(n, line) = n /\ ~Entered(d, n, line)
    BY DEF About
  <2> QED BY <2>1, <2>2, <2>3, <2>4, ReadsUnshown
<1>2. CASE k # 0
  <2>1. k \in DOMAIN tabs /\ tabs[k].channel = d
    BY <1>2, Found
  <2>2. ts2 = [tabs EXCEPT ![k] = t2] /\ Turns(d, n, line, tabs[k], t2)
    BY <1>2
  <2> HIDE DEF k
  <2>3. Becomes(tabs, k, t2, ts2)
    BY <2>1, <2>2 DEF Becomes, Turns
  <2>4. /\ \A c \in Chans \ {d} : Neutral(c, line)
        /\ NickAfter(n, line) = n /\ ~Entered(d, n, line)
    BY DEF About
  <2>5. t2.doing_who => tabs[k].doing_who
    BY <2>2 DEF Turns
  <2>6. line[1] = "315" => line[2] = d /\ ~t2.doing_who /\ t2.channel = d
    BY <2>2 DEF Turns, About
  <2>7. \/ Gone(d, n, line) /\ t2.channel = None
        \/ /\ ~Gone(d, n, line) /\ t2.channel = d
           /\ ViewOf(t2) = Seen(UsersAfter(d, n, ViewOf(tabs[k]), line), EndedAfter(d, ViewOf(tabs[k]), line),
                                HidesAfter(d, ViewOf(tabs[k]), line), ModesAfter(d, ViewOf(tabs[k]), line))
    <3>1. CASE Gone(d, n, line) /\ t2.channel = None
      BY <3>1
    <3>2. CASE ~(Gone(d, n, line) /\ t2.channel = None)
      <4>1. /\ ~Gone(d, n, line) /\ t2.channel = d
            /\ t2.users = UsersAfter(d, n, ViewOf(tabs[k]), line) /\ t2.end_of_names = EndedAfter(d, ViewOf(tabs[k]), line)
            /\ t2.ignore_mode = HidesAfter(d, ViewOf(tabs[k]), line)
            /\ (IF t2.ignore_mode THEN {} ELSE t2.modes) = ModesAfter(d, ViewOf(tabs[k]), line)
        BY <2>2, <3>2 DEF Turns
      <4>2. ViewOf(t2) = Seen(t2.users, t2.end_of_names, t2.ignore_mode, IF t2.ignore_mode THEN {} ELSE t2.modes)
        BY DEF ViewOf
      <4> QED BY <4>1, <4>2
    <3> QED BY <3>1, <3>2
  <2> QED BY <2>1, <2>3, <2>4, <2>5, <2>6, <2>7, ReadsOne
<1> QED BY <1>1, <1>2

LEMMA ReplyIs ==
    ASSUME NEW line \in Replies
    PROVE  /\ line[1] = "001" => line[2] \in ToSet(Nicks)
           /\ line[1] \in {"005", "303"} => line[2] \in BOOLEAN
           /\ line[1] = "NICK" => line[2] \in ToSet(Nicks) /\ line[3] \in ToSet(Nicks)
           /\ line[1] \in {"JOIN", "PART", "KICK"} => line[2] \in People /\ line[3] \in Chans
           /\ line[1] = "QUIT" => line[2] \in People
           /\ line[1] = "324" => line[2] \in Chans /\ line[3] \in SUBSET Modes
           /\ line[1] \in {"315", "366"} => line[2] \in Chans /\ line = <<line[1], line[2]>>
           /\ line[1] = "353" => line[2] \in Chans /\ line[3] \in People /\ line[4] \in BOOLEAN
           /\ line[1] = "MODE" => \/ line[2] \in ToSet(Nicks) /\ line[2] \notin Chans
                                  \/ line[2] \in Chans /\ line[3] \in {"+", "-"} /\ line[4] \in Modes
           /\ line[1] = "OP" => line[2] \in Chans /\ line[3] \in People /\ line[4] \in BOOLEAN
<1>1. \A n \in ToSet(Nicks) : n \notin Chans
  BY NamesAssumption
<1> QED BY <1>1 DEF Replies

LEMMA NoOne == <<>> \in Lists
<1>1. <<>> = [x \in {} |-> x] /\ DOMAIN <<>> = {}
  OBVIOUS
<1>2. <<>> \in [{} -> BOOLEAN]
  BY <1>1
<1>3. {} \in SUBSET People
  OBVIOUS
<1> QED BY <1>2, <1>3 DEF Lists

LEMMA TabIs ==
    ASSUME NEW t \in Tabs, NEW n \in People, NEW b \in BOOLEAN
    PROVE  /\ t.users \in Lists /\ With(t.users, n, b) \in Lists /\ With(<<>>, n, b) \in Lists
           /\ \A m : Without(t.users, m) \in Lists
           /\ \A us \in Lists : [t EXCEPT !.users = us] \in Tabs
<1>1. t.users \in Lists /\ <<>> \in Lists
  BY ListsMade DEF Tabs
<1>2. \A us \in Lists : [t EXCEPT !.users = us] \in Tabs
  BY DEF Tabs
<1> QED BY <1>1, <1>2, ListsMade

LEMMA TheTabIs ==
    ASSUME Good(tabs), NEW d, find_channel(d) # 0
    PROVE  tabs[find_channel(d)] \in Tabs /\ tabs[find_channel(d)].channel = d
<1>1. find_channel(d) \in DOMAIN tabs /\ tabs[find_channel(d)].channel = d
  BY Found
<1> QED BY <1>1 DEF Good

\* The users of t become us.
LEMMA TurnsUsers ==
    ASSUME NEW t \in Tabs, NEW us \in Lists, NEW d, t.channel = d, NEW n, NEW line, line[1] # "315",
           ~Gone(d, n, line), us = UsersAfter(d, n, ViewOf(t), line),
           EndedAfter(d, ViewOf(t), line) = t.end_of_names, HidesAfter(d, ViewOf(t), line) = t.ignore_mode,
           ModesAfter(d, ViewOf(t), line) = ViewOf(t).modes
    PROVE  Turns(d, n, line, t, [t EXCEPT !.users = us])
<1> DEFINE t2 == [t EXCEPT !.users = us]
<1>1. /\ t2 \in Tabs /\ t2.channel = d /\ t2.users = us /\ t2.end_of_names = t.end_of_names
      /\ t2.ignore_mode = t.ignore_mode /\ t2.modes = t.modes /\ t2.doing_who = t.doing_who
  BY DEF Tabs
<1>2. (IF t2.ignore_mode THEN {} ELSE t2.modes) = ViewOf(t).modes
  BY <1>1, ViewOfIs
<1> HIDE DEF t2
<1>3. Turns(d, n, line, t, t2)
  BY <1>1, <1>2 DEF Turns
<1> QED BY <1>3 DEF t2

LEMMA ReadsJoin ==
    ASSUME Good(tabs), serv.nick \in ToSet(Nicks), NEW line \in Replies, line[1] = "JOIN", ~IsMe(line[2]),
           inbound_join(line[3], line[2])
    PROVE  Reads(line, serv.nick, tabs, serv.nick, tabs')
<1> DEFINE d == line[3]
           n == line[2]
           t == tabs[find_channel(d)]
           us == With(t.users, n, FALSE)
           t2 == [t EXCEPT !.users = us]
<1>1. d \in Chans /\ n \in People
  BY ReplyIs
<1>2. About(d, serv.nick, line)
  BY AboutKinds DEF IsMe
<1>3. find_channel(d) = 0 => tabs' = tabs
  BY DEF inbound_join, InChannel
<1>4. find_channel(d) # 0 => tabs' = [tabs EXCEPT ![find_channel(d)] = t2]
  BY DEF inbound_join, InChannel, userlist_add
<1>5. ASSUME find_channel(d) # 0 PROVE Turns(d, serv.nick, line, t, t2)
  <2>1. t \in Tabs /\ t.channel = d
    BY <1>5, TheTabIs
  <2>2. us \in Lists
    BY <1>1, <2>1, TabIs
  <2>3. us = UsersAfter(d, serv.nick, ViewOf(t), line)
    BY ViewOfIs DEF UsersAfter
  <2>4. /\ ~Gone(d, serv.nick, line) /\ EndedAfter(d, ViewOf(t), line) = t.end_of_names
        /\ HidesAfter(d, ViewOf(t), line) = t.ignore_mode /\ ModesAfter(d, ViewOf(t), line) = ViewOf(t).modes
    BY ViewOfIs DEF Gone, EndedAfter, HidesAfter, ModesAfter
  <2> HIDE DEF us, t
  <2> QED BY <2>1, <2>2, <2>3, <2>4, TurnsUsers
<1> HIDE DEF t2, t, d
<1> QED BY <1>1, <1>2, <1>3, <1>4, <1>5, ReadsTab DEF t

\* PART or KICK of another user
LEMMA ReadsPart ==
    ASSUME Good(tabs), serv.nick \in ToSet(Nicks), NEW line \in Replies, line[1] \in {"PART", "KICK"}, ~IsMe(line[2]),
           inbound_part(line[3], line[2])
    PROVE  Reads(line, serv.nick, tabs, serv.nick, tabs')
<1> DEFINE d == line[3]
           n == line[2]
           t == tabs[find_channel(d)]
           us == Without(t.users, n)
           t2 == [t EXCEPT !.users = us]
<1>1. d \in Chans /\ n \in People
  BY ReplyIs
<1>2. About(d, serv.nick, line)
  BY AboutKinds
<1>3. find_channel(d) = 0 => tabs' = tabs
  BY DEF inbound_part, InChannel
<1>4. find_channel(d) # 0 => tabs' = [tabs EXCEPT ![find_channel(d)] = t2]
  BY DEF inbound_part, InChannel, userlist_remove
<1>5. ASSUME find_channel(d) # 0 PROVE Turns(d, serv.nick, line, t, t2)
  <2>1. t \in Tabs /\ t.channel = d
    BY <1>5, TheTabIs
  <2>2. us \in Lists
    BY <1>1, <2>1, TabIs
  <2>3. us = UsersAfter(d, serv.nick, ViewOf(t), line)
    BY ViewOfIs DEF UsersAfter
  <2>4. /\ ~Gone(d, serv.nick, line) /\ EndedAfter(d, ViewOf(t), line) = t.end_of_names
        /\ HidesAfter(d, ViewOf(t), line) = t.ignore_mode /\ ModesAfter(d, ViewOf(t), line) = ViewOf(t).modes
    BY ViewOfIs DEF Gone, IsMe, EndedAfter, HidesAfter, ModesAfter
  <2>5. line[1] # "315"
    OBVIOUS
  <2> HIDE DEF us, t
  <2> QED BY <2>1, <2>2, <2>3, <2>4, <2>5, TurnsUsers
<1> HIDE DEF t2, t, d
<1> QED BY <1>1, <1>2, <1>3, <1>4, <1>5, ReadsTab DEF t

\* A tab whose channel is left
LEMMA TurnsOut ==
    ASSUME NEW d \in Chans, NEW t \in Tabs, NEW n, NEW line, Gone(d, n, line), line[1] # "315",
           NEW t2, t2 = clear_channel(t) \/ t2 = [clear_channel(t) EXCEPT !.waitchannel = d]
    PROVE  Turns(d, n, line, t, t2)
<1>1. <<>> \in Lists
  BY NoOne
<1>2. clear_channel(t) \in Tabs /\ clear_channel(t).channel = None /\ ~clear_channel(t).doing_who
  BY <1>1 DEF clear_channel, Tabs
<1>3. t2 \in Tabs /\ t2.channel = None /\ ~t2.doing_who
  BY <1>2 DEF Tabs
<1> QED BY <1>3 DEF Turns

LEMMA ReadsUpart ==
    ASSUME Good(tabs), serv.nick \in ToSet(Nicks), NEW line \in Replies, line[1] \in {"PART", "KICK"}, IsMe(line[2]),
           NEW t2, t2 = clear_channel(tabs[find_channel(line[3])])
                   \/ t2 = [clear_channel(tabs[find_channel(line[3])]) EXCEPT !.waitchannel = line[3]],
           find_channel(line[3]) = 0 => tabs' = tabs,
           find_channel(line[3]) # 0 => tabs' = [tabs EXCEPT ![find_channel(line[3])] = t2]
    PROVE  Reads(line, serv.nick, tabs, serv.nick, tabs')
<1> DEFINE d == line[3]
           t == tabs[find_channel(d)]
<1>1. d \in Chans
  BY ReplyIs
<1>2. About(d, serv.nick, line)
  BY AboutKinds
<1>3. /\ find_channel(d) = 0 => tabs' = tabs
      /\ find_channel(d) # 0 => tabs' = [tabs EXCEPT ![find_channel(d)] = t2]
  OBVIOUS
<1>5. ASSUME find_channel(d) # 0 PROVE Turns(d, serv.nick, line, t, t2)
  <2>1. t \in Tabs /\ t.channel = d
    BY <1>5, TheTabIs
  <2>2. Gone(d, serv.nick, line) /\ line[1] # "315"
    BY DEF Gone, IsMe
  <2>3. t2 = clear_channel(t) \/ t2 = [clear_channel(t) EXCEPT !.waitchannel = d]
    OBVIOUS
  <2> HIDE DEF t, d
  <2> QED BY <1>1, <2>1, <2>2, <2>3, TurnsOut
<1> HIDE DEF t, d
<1> QED BY <1>1, <1>2, <1>3, <1>5, ReadsTab DEF t

LEMMA ReadsNames ==
    ASSUME Good(tabs), serv.nick \in ToSet(Nicks), NEW line \in Replies, line[1] = "353",
           inbound_nameslist(line[2], line[3], line[4])
    PROVE  Reads(line, serv.nick, tabs, serv.nick, tabs')
<1> DEFINE d == line[2]
           t == tabs[find_channel(d)]
           us == With(IF t.end_of_names THEN <<>> ELSE t.users, line[3], line[4])
           t2 == [[t EXCEPT !.users = IF t.end_of_names THEN <<>> ELSE @, !.end_of_names = FALSE] EXCEPT !.users = With(@, line[3], line[4])]
<1>1. d \in Chans /\ line[3] \in People /\ line[4] \in BOOLEAN
  BY ReplyIs
<1>2. About(d, serv.nick, line)
  BY AboutKinds
<1>3. find_channel(d) = 0 => tabs' = tabs
  BY DEF inbound_nameslist, InChannel
<1>4. find_channel(d) # 0 => tabs' = [tabs EXCEPT ![find_channel(d)] = t2]
  BY DEF inbound_nameslist, InChannel, userlist_add
<1>5. ASSUME find_channel(d) # 0 PROVE Turns(d, serv.nick, line, t, t2)
  <2>1. t \in Tabs /\ t.channel = d
    BY <1>5, TheTabIs
  <2> HIDE DEF t, d
  <2>2. us \in Lists
    <3>1. CASE t.end_of_names
      BY <1>1, <2>1, <3>1, TabIs
    <3>2. CASE ~t.end_of_names
      BY <1>1, <2>1, <3>2, TabIs
    <3> QED BY <3>1, <3>2
  <2>3. /\ t2.users = us /\ t2.channel = d /\ t2.end_of_names = FALSE /\ t2.ignore_mode = t.ignore_mode
        /\ t2.modes = t.modes /\ t2.doing_who = t.doing_who
    BY <2>1 DEF Tabs
  <2>4. t2 = [t EXCEPT !.users = us, !.end_of_names = FALSE]
    BY <2>1 DEF Tabs
  <2> HIDE DEF us
  <2>5. t2 \in Tabs
    BY <2>1, <2>2, <2>4 DEF Tabs
  <2>6. us = UsersAfter(d, serv.nick, ViewOf(t), line)
    BY ViewOfIs DEF UsersAfter, us, d
  <2>7. /\ ~Gone(d, serv.nick, line) /\ EndedAfter(d, ViewOf(t), line) = FALSE
        /\ HidesAfter(d, ViewOf(t), line) = t.ignore_mode /\ ModesAfter(d, ViewOf(t), line) = ViewOf(t).modes
    BY ViewOfIs DEF Gone, EndedAfter, HidesAfter, ModesAfter, d
  <2>8. (IF t2.ignore_mode THEN {} ELSE t2.modes) = ViewOf(t).modes
    BY <2>3, ViewOfIs
  <2> HIDE DEF t2
  <2> QED BY <2>3, <2>5, <2>6, <2>7, <2>8 DEF Turns
<1> HIDE DEF t2, t, d
<1> QED BY <1>1, <1>2, <1>3, <1>4, <1>5, ReadsTab DEF t

LEMMA ReadsNamesEnd ==
    ASSUME Good(tabs), serv.nick \in ToSet(Nicks), NEW line \in Replies, line[1] = "366",
           inbound_nameslist_end(line[2])
    PROVE  Reads(line, serv.nick, tabs, serv.nick, tabs')
<1> DEFINE d == line[2]
           t == tabs[find_channel(d)]
           t2 == [t EXCEPT !.end_of_names = TRUE]
<1>1. d \in Chans
  BY ReplyIs
<1>2. About(d, serv.nick, line)
  BY AboutKinds
<1>3. find_channel(d) = 0 => tabs' = tabs
  BY DEF inbound_nameslist_end, InChannel
<1>4. find_channel(d) # 0 => tabs' = [tabs EXCEPT ![find_channel(d)] = t2]
  BY DEF inbound_nameslist_end, InChannel
<1>5. ASSUME find_channel(d) # 0 PROVE Turns(d, serv.nick, line, t, t2)
  <2>1. t \in Tabs /\ t.channel = d
    BY <1>5, TheTabIs
  <2> HIDE DEF t, d
  <2>2. /\ t2 \in Tabs /\ t2.users = t.users /\ t2.channel = d /\ t2.end_of_names = TRUE /\ t2.ignore_mode = t.ignore_mode
        /\ t2.modes = t.modes /\ t2.doing_who = t.doing_who
    BY <2>1 DEF Tabs
  <2>3. /\ ~Gone(d, serv.nick, line) /\ EndedAfter(d, ViewOf(t), line) = TRUE
        /\ UsersAfter(d, serv.nick, ViewOf(t), line) = t.users
        /\ HidesAfter(d, ViewOf(t), line) = t.ignore_mode /\ ModesAfter(d, ViewOf(t), line) = ViewOf(t).modes
    BY ViewOfIs DEF Gone, EndedAfter, UsersAfter, HidesAfter, ModesAfter, d
  <2>4. (IF t2.ignore_mode THEN {} ELSE t2.modes) = ViewOf(t).modes
    BY <2>2, ViewOfIs
  <2> HIDE DEF t2
  <2> QED BY <2>2, <2>3, <2>4 DEF Turns
<1> HIDE DEF t2, t, d
<1> QED BY <1>1, <1>2, <1>3, <1>4, <1>5, ReadsTab DEF t

LEMMA ReadsEndOfWho ==
    ASSUME Good(tabs), serv.nick \in ToSet(Nicks), NEW line \in Replies, line[1] = "315", EndOfWho(line[2])
    PROVE  Reads(line, serv.nick, tabs, serv.nick, tabs')
<1> DEFINE d == line[2]
           t == tabs[find_channel(d)]
           t2 == [t EXCEPT !.doing_who = FALSE]
<1>1. d \in Chans
  BY ReplyIs
<1>2. About(d, serv.nick, line)
  BY AboutKinds
<1>3. find_channel(d) = 0 => tabs' = tabs
  BY DEF EndOfWho, InChannel
<1>4. find_channel(d) # 0 => tabs' = [tabs EXCEPT ![find_channel(d)] = t2]
  BY DEF EndOfWho, InChannel
<1>5. ASSUME find_channel(d) # 0 PROVE Turns(d, serv.nick, line, t, t2)
  <2>1. t \in Tabs /\ t.channel = d
    BY <1>5, TheTabIs
  <2> HIDE DEF t, d
  <2>2. /\ t2 \in Tabs /\ t2.users = t.users /\ t2.channel = d /\ t2.end_of_names = t.end_of_names /\ t2.ignore_mode = t.ignore_mode
        /\ t2.modes = t.modes /\ ~t2.doing_who
    BY <2>1 DEF Tabs
  <2>3. /\ ~Gone(d, serv.nick, line) /\ EndedAfter(d, ViewOf(t), line) = t.end_of_names
        /\ UsersAfter(d, serv.nick, ViewOf(t), line) = t.users
        /\ HidesAfter(d, ViewOf(t), line) = t.ignore_mode /\ ModesAfter(d, ViewOf(t), line) = ViewOf(t).modes
    BY ViewOfIs DEF Gone, EndedAfter, UsersAfter, HidesAfter, ModesAfter, d
  <2>4. (IF t2.ignore_mode THEN {} ELSE t2.modes) = ViewOf(t).modes
    BY <2>2, ViewOfIs
  <2> HIDE DEF t2
  <2> QED BY <2>2, <2>3, <2>4 DEF Turns
<1> HIDE DEF t2, t, d
<1> QED BY <1>1, <1>2, <1>3, <1>4, <1>5, ReadsTab DEF t

LEMMA ReadsModesAre ==
    ASSUME Good(tabs), serv.nick \in ToSet(Nicks), NEW line \in Replies, line[1] = "324", ModesAre(line[2], line[3])
    PROVE  Reads(line, serv.nick, tabs, serv.nick, tabs')
<1> DEFINE d == line[2]
           t == tabs[find_channel(d)]
           t2 == [t EXCEPT !.ignore_mode = FALSE, !.modes = line[3]]
<1>1. d \in Chans /\ line[3] \in SUBSET Modes
  BY ReplyIs
<1>2. About(d, serv.nick, line)
  BY AboutKinds
<1>3. find_channel(d) = 0 => tabs' = tabs
  BY DEF ModesAre, InChannel
<1>4. find_channel(d) # 0 => tabs' = [tabs EXCEPT ![find_channel(d)] = t2]
  BY DEF ModesAre, InChannel
<1>5. ASSUME find_channel(d) # 0 PROVE Turns(d, serv.nick, line, t, t2)
  <2>1. t \in Tabs /\ t.channel = d
    BY <1>5, TheTabIs
  <2> HIDE DEF t, d
  <2>2. /\ t2 \in Tabs /\ t2.users = t.users /\ t2.channel = d /\ t2.end_of_names = t.end_of_names /\ t2.ignore_mode = FALSE
        /\ t2.modes = line[3] /\ t2.doing_who = t.doing_who
    BY <1>1, <2>1 DEF Tabs
  <2>3. /\ ~Gone(d, serv.nick, line) /\ EndedAfter(d, ViewOf(t), line) = t.end_of_names
        /\ UsersAfter(d, serv.nick, ViewOf(t), line) = t.users
        /\ HidesAfter(d, ViewOf(t), line) = FALSE /\ ModesAfter(d, ViewOf(t), line) = line[3]
    BY ViewOfIs DEF Gone, EndedAfter, UsersAfter, HidesAfter, ModesAfter, d
  <2> HIDE DEF t2
  <2> QED BY <2>2, <2>3 DEF Turns
<1> HIDE DEF t2, t, d
<1> QED BY <1>1, <1>2, <1>3, <1>4, <1>5, ReadsTab DEF t

LEMMA ReadsMode ==
    ASSUME Good(tabs), serv.nick \in ToSet(Nicks), NEW line \in Replies, line[1] = "MODE", line[2] \in Chans,
           ChanMode(line[2], line[3], line[4])
    PROVE  Reads(line, serv.nick, tabs, serv.nick, tabs')
<1> DEFINE d == line[2]
           t == tabs[find_channel(d)]
           ms == IF t.ignore_mode THEN t.modes ELSE IF line[3] = "+" THEN t.modes \union {line[4]} ELSE t.modes \ {line[4]}
           t2 == [t EXCEPT !.modes = IF t.ignore_mode THEN @ ELSE IF line[3] = "+" THEN @ \union {line[4]} ELSE @ \ {line[4]}]
<1>1. d \in Chans /\ line[4] \in Modes
  BY ReplyIs
<1>2. About(d, serv.nick, line)
  BY AboutKinds
<1>3. find_channel(d) = 0 => tabs' = tabs
  BY DEF ChanMode, InChannel
<1>4. find_channel(d) # 0 => tabs' = [tabs EXCEPT ![find_channel(d)] = t2]
  BY DEF ChanMode, InChannel, record_chan_mode
<1>5. ASSUME find_channel(d) # 0 PROVE Turns(d, serv.nick, line, t, t2)
  <2>1. t \in Tabs /\ t.channel = d
    BY <1>5, TheTabIs
  <2>0. line[2] = d
    OBVIOUS
  <2> HIDE DEF t, d
  <2>5. ms \in SUBSET Modes
    BY <1>1, <2>1 DEF Tabs
  <2>6. t2 = [t EXCEPT !.modes = ms]
    BY <2>1 DEF Tabs
  <2>7. /\ t.ignore_mode => ms = t.modes
        /\ ~t.ignore_mode /\ line[3] = "+" => ms = t.modes \union {line[4]}
        /\ ~t.ignore_mode /\ line[3] # "+" => ms = t.modes \ {line[4]}
    OBVIOUS
  <2> HIDE DEF ms
  <2>2. /\ t2 \in Tabs /\ t2.users = t.users /\ t2.channel = d /\ t2.end_of_names = t.end_of_names /\ t2.ignore_mode = t.ignore_mode
        /\ t2.modes = ms /\ t2.doing_who = t.doing_who
    BY <2>1, <2>5, <2>6 DEF Tabs
  <2> HIDE DEF t2
  <2>3. /\ ~Gone(d, serv.nick, line) /\ EndedAfter(d, ViewOf(t), line) = t.end_of_names
        /\ UsersAfter(d, serv.nick, ViewOf(t), line) = t.users
        /\ HidesAfter(d, ViewOf(t), line) = t.ignore_mode
    BY ViewOfIs DEF Gone, EndedAfter, UsersAfter, HidesAfter
  <2>4. (IF t2.ignore_mode THEN {} ELSE t2.modes) = ModesAfter(d, ViewOf(t), line)
    <3>1. CASE t.ignore_mode
      <4>1. ModesAfter(d, ViewOf(t), line) = {}
        BY <3>1, ViewOfIs DEF ModesAfter
      <4> QED BY <2>2, <3>1, <4>1
    <3>2. CASE ~t.ignore_mode
      <4>1. ViewOf(t).modes = t.modes /\ ~ViewOf(t).hides
        BY <3>2, ViewOfIs
      <4>2. ModesAfter(d, ViewOf(t), line) = IF line[3] = "+" THEN t.modes \union {line[4]} ELSE t.modes \ {line[4]}
        BY <2>0, <4>1 DEF ModesAfter
      <4> QED BY <2>2, <2>7, <3>2, <4>2
    <3> QED BY <3>1, <3>2
  <2> QED BY <2>2, <2>3, <2>4 DEF Turns
<1> HIDE DEF t2, t, d
<1> QED BY <1>1, <1>2, <1>3, <1>4, <1>5, ReadsTab DEF t

LEMMA ReadsOp ==
    ASSUME Good(tabs), serv.nick \in ToSet(Nicks), NEW line \in Replies, line[1] = "OP",
           NickMode(line[2], line[3], line[4])
    PROVE  Reads(line, serv.nick, tabs, serv.nick, tabs')
<1> DEFINE d == line[2]
           n == line[3]
           t == tabs[find_channel(d)]
           us == IF n \in DOMAIN t.users THEN [t.users EXCEPT ![n] = line[4]] ELSE t.users
           t2 == [t EXCEPT !.users = us]
<1>1. d \in Chans /\ n \in People /\ line[4] \in BOOLEAN
  BY ReplyIs
<1>2. About(d, serv.nick, line)
  BY AboutKinds
<1>3. find_channel(d) = 0 => tabs' = tabs
  BY DEF NickMode, InChannel
<1>4. find_channel(d) # 0 => tabs' = [tabs EXCEPT ![find_channel(d)] = t2]
  BY DEF NickMode, InChannel, userlist_update_mode
<1>5. ASSUME find_channel(d) # 0 PROVE Turns(d, serv.nick, line, t, t2)
  <2>1. t \in Tabs /\ t.channel = d
    BY <1>5, TheTabIs
  <2>2. us \in Lists
    <3>1. t.users \in Lists
      BY <2>1 DEF Tabs
    <3> HIDE DEF t
    <3>2. CASE n \in DOMAIN t.users
      BY <1>1, <3>1, <3>2, ListsMade
    <3>3. CASE n \notin DOMAIN t.users
      BY <3>1, <3>3
    <3> QED BY <3>2, <3>3
  <2>3. us = UsersAfter(d, serv.nick, ViewOf(t), line)
    BY ViewOfIs DEF UsersAfter
  <2>4. /\ ~Gone(d, serv.nick, line) /\ EndedAfter(d, ViewOf(t), line) = t.end_of_names
        /\ HidesAfter(d, ViewOf(t), line) = t.ignore_mode /\ ModesAfter(d, ViewOf(t), line) = ViewOf(t).modes
    BY ViewOfIs DEF Gone, EndedAfter, HidesAfter, ModesAfter
  <2>5. line[1] # "315"
    OBVIOUS
  <2> HIDE DEF us, t
  <2> QED BY <2>1, <2>2, <2>3, <2>4, <2>5, TurnsUsers
<1> HIDE DEF t2, t, d
<1> QED BY <1>1, <1>2, <1>3, <1>4, <1>5, ReadsTab DEF t

\* Lines about a user wherever it is
LEMMA ReadsUsers ==
    ASSUME NEW ts, Good(ts), NEW n, NEW line, line[1] \in {"QUIT", "NICK", "001"}, NickAfter(n, line) \in ToSet(Nicks),
           NEW us, \A i \in DOMAIN ts : us[i] \in Lists,
           \A i \in DOMAIN ts : \A c : us[i] = UsersAfter(c, n, ViewOf(ts[i]), line),
           NEW ts2, ts2 = [i \in DOMAIN ts |-> [ts[i] EXCEPT !.users = us[i]]]
    PROVE  Reads(line, n, ts, NickAfter(n, line), ts2)
<1>1. \A i \in DOMAIN ts : ts[i] \in Tabs
  BY DEF Good
<1>2. \A i \in DOMAIN ts : ts2[i] = [ts[i] EXCEPT !.users = us[i]]
  OBVIOUS
<1>3. ts2 = [i \in DOMAIN ts |-> ts2[i]]
  OBVIOUS
<1>4. ASSUME NEW i \in DOMAIN ts
      PROVE  /\ ts2[i] \in Tabs /\ ts2[i].channel = ts[i].channel /\ ts2[i].users = us[i] /\ ts2[i].doing_who = ts[i].doing_who
             /\ ts2[i].end_of_names = ts[i].end_of_names /\ ts2[i].ignore_mode = ts[i].ignore_mode /\ ts2[i].modes = ts[i].modes
  BY <1>1, <1>2 DEF Tabs
<1>5. ASSUME NEW i \in DOMAIN ts, NEW c
      PROVE  ViewOf(ts2[i]) = Seen(UsersAfter(c, n, ViewOf(ts[i]), line), EndedAfter(c, ViewOf(ts[i]), line),
                                   HidesAfter(c, ViewOf(ts[i]), line), ModesAfter(c, ViewOf(ts[i]), line))
  <2>1. /\ EndedAfter(c, ViewOf(ts[i]), line) = ts[i].end_of_names
        /\ HidesAfter(c, ViewOf(ts[i]), line) = ts[i].ignore_mode /\ ModesAfter(c, ViewOf(ts[i]), line) = ViewOf(ts[i]).modes
    BY ViewOfIs DEF EndedAfter, HidesAfter, ModesAfter
  <2>2. ViewOf(ts2[i]).modes = ViewOf(ts[i]).modes
    <3>1. ts2[i].ignore_mode = ts[i].ignore_mode /\ ts2[i].modes = ts[i].modes
      BY <1>4
    <3>2. CASE ts[i].ignore_mode
      <4>1. ts2[i].ignore_mode
        BY <3>1, <3>2
      <4> QED BY <3>2, <4>1, ViewOfIs
    <3>3. CASE ~ts[i].ignore_mode
      <4>1. ~ts2[i].ignore_mode
        BY <3>1, <3>3
      <4>2. ViewOf(ts2[i]).modes = ts2[i].modes /\ ViewOf(ts[i]).modes = ts[i].modes
        BY <3>3, <4>1, ViewOfIs
      <4> QED BY <3>1, <4>2
    <3> QED BY <3>2, <3>3
  <2>3. us[i] = UsersAfter(c, n, ViewOf(ts[i]), line)
    OBVIOUS
  <2>4. /\ ViewOf(ts2[i]) = Seen(ViewOf(ts2[i]).users, ViewOf(ts2[i]).ended, ViewOf(ts2[i]).hides, ViewOf(ts2[i]).modes)
        /\ ViewOf(ts2[i]).users = us[i] /\ ViewOf(ts2[i]).ended = ts[i].end_of_names /\ ViewOf(ts2[i]).hides = ts[i].ignore_mode
    BY <1>4, ViewOfIs
  <2> QED BY <2>1, <2>2, <2>3, <2>4
<1>6. \A c \in Chans : ~Entered(c, n, line) /\ ~Gone(c, n, line)
  BY DEF Entered, Gone
<1>7. line[1] # "315"
  OBVIOUS
<1>8. \A i \in DOMAIN ts : \A c \in Chans :
          ts[i].channel = c
          => ViewOf(ts2[i]) = Seen(UsersAfter(c, n, ViewOf(ts[i]), line), EndedAfter(c, ViewOf(ts[i]), line),
                                   HidesAfter(c, ViewOf(ts[i]), line), ModesAfter(c, ViewOf(ts[i]), line))
  BY <1>5
<1> QED BY <1>3, <1>4, <1>6, <1>7, <1>8, ReadsMany

LEMMA ReadsQuit ==
    ASSUME Good(tabs), serv.nick \in ToSet(Nicks), NEW line \in Replies, line[1] = "QUIT", inbound_quit(line[2])
    PROVE  Reads(line, serv.nick, tabs, serv.nick, tabs')
<1> DEFINE n == line[2]
           us == [i \in DOMAIN tabs |-> Without(tabs[i].users, n)]
<1>1. tabs' = [i \in DOMAIN tabs |-> [tabs[i] EXCEPT !.users = Without(@, n)]]
  BY DEF inbound_quit, InAll, userlist_remove
<1>2. \A i \in DOMAIN tabs : tabs[i] \in Tabs
  BY DEF Good
<1>3. n \in People
  BY ReplyIs
<1>4. \A i \in DOMAIN tabs : us[i] \in Lists
  BY <1>2, <1>3, TabIs
<1>5. tabs' = [i \in DOMAIN tabs |-> [tabs[i] EXCEPT !.users = us[i]]]
  BY <1>1, <1>2 DEF Tabs
<1>6. \A i \in DOMAIN tabs : \A c : us[i] = UsersAfter(c, serv.nick, ViewOf(tabs[i]), line)
  BY ViewOfIs DEF UsersAfter
<1>7. NickAfter(serv.nick, line) = serv.nick
  BY DEF NickAfter
<1> HIDE DEF us, n
<1> QED BY <1>4, <1>5, <1>6, <1>7, ReadsUsers

LEMMA RenamedList ==
    ASSUME NEW f \in Lists, NEW n, NEW m \in People
    PROVE  RenamedIn(f, n, m) \in Lists
<1>1. CASE n \in DOMAIN f
  BY <1>1, ListsMade DEF RenamedIn
<1>2. CASE n \notin DOMAIN f
  BY <1>2 DEF RenamedIn
<1> QED BY <1>1, <1>2

\* NICK, and 001, by which the server tells the client its nick
LEMMA ReadsNick ==
    ASSUME Good(tabs), serv.nick \in ToSet(Nicks), NEW line \in Replies, NEW n, NEW m,
           \/ line[1] = "NICK" /\ n = line[2] /\ m = line[3]
           \/ line[1] = "001" /\ n = serv.nick /\ m = line[2],
           inbound_newnick(n, m)
    PROVE  Reads(line, serv.nick, tabs, NickAfter(serv.nick, line), tabs')
<1> DEFINE us == [i \in DOMAIN tabs |-> RenamedIn(tabs[i].users, n, m)]
<1>1. tabs' = [i \in DOMAIN tabs |-> [tabs[i] EXCEPT !.users = IF n \in DOMAIN @ THEN Renamed(@, n, m) ELSE @]]
  BY DEF inbound_newnick, InAll, userlist_change
<1>2. \A i \in DOMAIN tabs : tabs[i] \in Tabs
  BY DEF Good
<1>3. m \in ToSet(Nicks) /\ m \in People
  BY ReplyIs DEF People
<1>4. \A i \in DOMAIN tabs : us[i] \in Lists
  BY <1>2, <1>3, RenamedList DEF Tabs
<1>5. tabs' = [i \in DOMAIN tabs |-> [tabs[i] EXCEPT !.users = us[i]]]
  BY <1>1, <1>2 DEF Tabs, RenamedIn
<1>6. \A i \in DOMAIN tabs : \A c : us[i] = UsersAfter(c, serv.nick, ViewOf(tabs[i]), line)
  BY ViewOfIs DEF UsersAfter
<1>7. NickAfter(serv.nick, line) \in ToSet(Nicks)
  BY <1>3 DEF NickAfter
<1>8. line[1] \in {"QUIT", "NICK", "001"}
  OBVIOUS
<1> HIDE DEF us
<1> QED BY <1>4, <1>5, <1>6, <1>7, <1>8, ReadsUsers

LEMMA NeutralElse ==
    ASSUME NEW line, line[1] \in {"JOIN", "PART", "KICK"}, NEW c, line[3] # c
    PROVE  Neutral(c, line)
BY DEF Neutral, NickAfter, Entered, Gone, UsersAfter, EndedAfter, HidesAfter, ModesAfter

LEMMA FirstOf ==
    ASSUME NEW T, T \subseteq Nat, T # {}
    PROVE  (CHOOSE i \in T : \A j \in T : i <= j) \in T
<1>1. PICK x \in T : \A y \in T : ~(y < x)
  BY NatMin
<1>2. \A y \in T : x <= y
  BY <1>1
<1> QED BY <1>2

\* The tab for a channel that is entered shows none, if there is one.
LEMMA FoundFree ==
    ASSUME Good(tabs), NEW d
    PROVE  /\ find_session_from_waitchannel(d) # 0 => /\ find_session_from_waitchannel(d) \in DOMAIN tabs
                                                      /\ tabs[find_session_from_waitchannel(d)].channel = None
           /\ find_unused_session # 0 => find_unused_session \in DOMAIN tabs /\ tabs[find_unused_session].channel = None
<1> DEFINE waits == {i \in DOMAIN tabs : tabs[i].channel = None /\ tabs[i].waitchannel = d}
           unused == {i \in DOMAIN tabs : tabs[i].channel = None /\ tabs[i].waitchannel = None}
<1>1. find_session_from_waitchannel(d) = IF waits = {} THEN 0 ELSE CHOOSE i \in waits : \A j \in waits : i <= j
  BY DEF find_session_from_waitchannel, FirstTab
<1>2. find_unused_session = IF unused = {} THEN 0 ELSE CHOOSE i \in unused : \A j \in unused : i <= j
  BY DEF find_unused_session, FirstTab
<1>3. DOMAIN tabs = 1..Len(tabs) /\ Len(tabs) \in Nat
  BY DEF Good
<1>4. waits \subseteq Nat /\ unused \subseteq Nat
  BY <1>3
<1> HIDE DEF waits, unused
<1>5. find_session_from_waitchannel(d) # 0 => find_session_from_waitchannel(d) \in waits
  BY <1>1, <1>4, FirstOf
<1>6. find_unused_session # 0 => find_unused_session \in unused
  BY <1>2, <1>4, FirstOf
<1> QED BY <1>5, <1>6 DEF waits, unused

\* A new tab comes first.
Opens(d, ts, ts2) == ts2 = <<NewTab(d)>> \o ts

LEMMA NewTabs ==
    ASSUME NEW ts, Good(ts), NEW d \in Chans, \A i \in DOMAIN ts : ts[i].channel # d,
           NEW ts2, Opens(d, ts, ts2)
    PROVE  /\ Good(ts2) /\ 1 \in DOMAIN ts2 /\ ts2[1].channel = d /\ WaitsIn(ts2) \subseteq WaitsIn(ts)
           /\ \A c \in Chans \ {d} : ViewIn(ts2, c) = ViewIn(ts, c)
<1> DEFINE t == NewTab(d)
           n == Len(ts)
<1>1. t \in Tabs /\ t.channel = d /\ ~t.doing_who
  BY NoOne DEF NewTab, Tabs
<1>2. ts \in Seq(Tabs) /\ DistinctIn(ts)
  BY DEF Good
<1>0. DOMAIN ts = 1..n /\ n \in Nat
  BY <1>2
<1> HIDE DEF t
<1>9. ts2 = <<t>> \o ts
  BY DEF t, Opens
<1>3. ts2 \in Seq(Tabs) /\ Len(ts2) = 1 + n
  BY <1>1, <1>2, <1>9
<1>4. DOMAIN ts2 = 1..1 + n
  BY <1>3
<1>5. ts2[1] = t
  BY <1>1, <1>2, <1>9
<1>6. \A i \in 1..n : ts2[1 + i] = ts[i]
  BY <1>1, <1>2, <1>9
<1> HIDE DEF n
<1>7. \A i \in DOMAIN ts2 : i = 1 \/ \E j \in DOMAIN ts : i = 1 + j
  <2> TAKE i \in DOMAIN ts2
  <2> DEFINE j == i - 1
  <2>1. i # 1 => j \in 1..n /\ i = 1 + j
    BY <1>0, <1>4
  <2> HIDE DEF j
  <2> QED BY <1>0, <2>1
<1>8. DistinctIn(ts2)
  <2> SUFFICES ASSUME NEW i \in DOMAIN ts2, NEW j \in DOMAIN ts2, ts2[i].channel = ts2[j].channel, ts2[i].channel # None
               PROVE  i = j
    BY DEF DistinctIn
  <2>1. CASE i = 1 /\ j = 1
    BY <2>1
  <2>2. CASE i = 1 /\ j # 1
    <3>1. PICK h \in DOMAIN ts : j = 1 + h
      BY <1>7, <2>2
    <3> QED BY <1>0, <1>1, <1>5, <1>6, <2>2, <3>1
  <2>3. CASE i # 1 /\ j = 1
    <3>1. PICK h \in DOMAIN ts : i = 1 + h
      BY <1>7, <2>3
    <3> QED BY <1>0, <1>1, <1>5, <1>6, <2>3, <3>1
  <2>4. CASE i # 1 /\ j # 1
    <3>1. PICK h \in DOMAIN ts : i = 1 + h
      BY <1>7, <2>4
    <3>2. PICK k \in DOMAIN ts : j = 1 + k
      BY <1>7, <2>4
    <3>3. ts2[i] = ts[h] /\ ts2[j] = ts[k]
      BY <1>0, <1>6, <3>1, <3>2
    <3>4. h = k
      BY <1>2, <3>3 DEF DistinctIn
    <3> QED BY <3>1, <3>2, <3>4
  <2> QED BY <2>1, <2>2, <2>3, <2>4
<1>10. ASSUME NEW c \in Chans \ {d} PROVE ViewIn(ts2, c) = ViewIn(ts, c)
  <2>1. c # None
    BY NamesAssumption
  <2>2. CASE \E i \in DOMAIN ts : ts[i].channel = c
    <3>1. PICK i \in DOMAIN ts : ts[i].channel = c
      BY <2>2
    <3> DEFINE j == 1 + i
    <3>2. ts2[j] = ts[i] /\ j \in DOMAIN ts2
      BY <1>0, <1>4, <1>6
    <3> HIDE DEF j
    <3> QED BY <1>2, <1>8, <2>1, <3>1, <3>2, ViewShown
  <2>3. CASE ~\E i \in DOMAIN ts : ts[i].channel = c
    <3>1. \A i \in DOMAIN ts2 : ts2[i].channel # c
      BY <1>0, <1>1, <1>5, <1>6, <1>7, <1>10, <2>3
    <3> QED BY <2>3, <3>1, ViewAbsent
  <2> QED BY <2>2, <2>3
<1>11. WaitsIn(ts2) \subseteq WaitsIn(ts)
  <2> SUFFICES ASSUME NEW c \in WaitsIn(ts2) PROVE c \in WaitsIn(ts)
    OBVIOUS
  <2>1. PICK i \in DOMAIN ts2 : ts2[i].channel = c /\ c # None /\ ts2[i].doing_who
    BY DEF WaitsIn
  <2>2. i # 1
    BY <1>1, <1>5, <2>1
  <2>3. PICK j \in DOMAIN ts : i = 1 + j
    BY <1>7, <2>2
  <2>4. ts2[i] = ts[j]
    BY <1>0, <1>6, <2>3
  <2> QED BY <2>1, <2>4 DEF WaitsIn
<1>12. 1 \in DOMAIN ts2
  BY <1>0, <1>4
<1> QED BY <1>1, <1>3, <1>5, <1>8, <1>10, <1>11, <1>12 DEF Good

\* The tab that a channel enters, of those there are when it does
Enters(ts, k, d, ts2) ==
    /\ k \in DOMAIN ts /\ (ts[k].channel = None \/ ts[k].channel = d)
    /\ \A i \in DOMAIN ts : ts[i].channel = d => i = k
    /\ ts2 = [ts EXCEPT ![k] = [ts[k] EXCEPT !.channel = d, !.users = <<>>, !.waitchannel = None,
                                              !.ignore_mode = TRUE, !.end_of_names = FALSE, !.doing_who = TRUE]]

LEMMA ReadsEntered ==
    ASSUME NEW line, NEW n \in ToSet(Nicks), NEW d \in Chans, line[1] = "JOIN", line[2] = n, line[3] = d,
           NEW ts, NEW opened, Good(opened), NEW k, NEW ts2, Enters(opened, k, d, ts2),
           WaitsIn(opened) \subseteq WaitsIn(ts), \A c \in Chans \ {d} : ViewIn(opened, c) = ViewIn(ts, c)
    PROVE  Reads(line, n, ts, n, ts2)
<1> DEFINE t == [opened[k] EXCEPT !.channel = d, !.users = <<>>, !.waitchannel = None,
                                  !.ignore_mode = TRUE, !.end_of_names = FALSE, !.doing_who = TRUE]
<1>1. opened[k] \in Tabs /\ k \in DOMAIN opened
  BY DEF Good, Enters
<1>2. t \in Tabs /\ t.channel = d /\ t.users = <<>> /\ t.ignore_mode /\ t.end_of_names = FALSE
  BY <1>1, NoOne DEF Tabs
<1>3. ts2 = [opened EXCEPT ![k] = t]
  BY DEF Enters
<1>4. d # None
  BY NamesAssumption
<1> HIDE DEF t
<1>5. Becomes(opened, k, t, ts2)
  BY <1>1, <1>2, <1>3 DEF Becomes
<1>6. t.channel \in {None, opened[k].channel} \/ \A i \in DOMAIN opened : opened[i].channel # t.channel
  BY <1>2, <1>4 DEF Enters
<1>7. /\ Good(ts2)
      /\ \A c \in Chans : c \notin {t.channel, opened[k].channel} => ViewIn(ts2, c) = ViewIn(opened, c)
      /\ t.channel # None => ViewIn(ts2, t.channel) = ViewOf(t)
      /\ WaitsIn(ts2) \subseteq WaitsIn(opened) \union {t.channel}
  BY <1>5, <1>6, OneTab
<1>8. ASSUME NEW c \in Chans PROVE State(n, ViewIn(ts2, c)) = Step(c, State(n, ViewIn(ts, c)), line)
  <2>1. CASE c = d
    <3>1. ViewIn(ts2, d) = ViewOf(t)
      BY <1>2, <1>4, <1>7
    <3>2. ViewOf(t) = Seen(<<>>, FALSE, TRUE, {})
      BY <1>2 DEF ViewOf
    <3>3. Entered(d, n, line) /\ NickAfter(n, line) = n
      BY DEF Entered, NickAfter
    <3>4. Step(d, State(n, ViewIn(ts, d)), line) = State(n, Seen(<<>>, FALSE, TRUE, {}))
      BY <3>3 DEF Step, State, After
    <3> QED BY <2>1, <3>1, <3>2, <3>4
  <2>2. CASE c # d
    <3>1. Neutral(c, line)
      BY <2>2, NeutralElse
    <3>2. c # None
      BY NamesAssumption
    <3>4. opened[k].channel = None \/ opened[k].channel = d
      BY DEF Enters
    <3>3. ViewIn(ts2, c) = ViewIn(ts, c)
      BY <1>2, <1>7, <2>2, <3>2, <3>4
    <3> QED BY <3>1, <3>3, StepKeeps
  <2> QED BY <2>1, <2>2
<1>9. ASSUME NEW c \in WaitsIn(ts2) PROVE (c \in WaitsIn(ts) /\ line # <<"315", c>>) \/ Entered(c, n, line)
  <2>1. line # <<"315", c>>
    OBVIOUS
  <2>2. c \in WaitsIn(ts) \/ c = d
    BY <1>2, <1>7
  <2> QED BY <2>1, <2>2 DEF Entered
<1> QED BY <1>7, <1>8, <1>9 DEF Reads

\* The tab a channel enters and the tabs there are then: a new one, or one that shows none.
Chosen(d, ts, ts2, k) == \/ Opens(d, ts, ts2) /\ k = 1
                         \/ ts2 = ts /\ k \in DOMAIN ts /\ ts[k].channel = None

LEMMA ChosenTab ==
    ASSUME NEW d \in Chans, NEW ts, NEW ts2, NEW k, Good(ts), \A j \in DOMAIN ts : ts[j].channel # d,
           Chosen(d, ts, ts2, k)
    PROVE  /\ Good(ts2) /\ k \in DOMAIN ts2 /\ (ts2[k].channel = None \/ ts2[k].channel = d)
           /\ \A j \in DOMAIN ts2 : ts2[j].channel = d => j = k
           /\ WaitsIn(ts2) \subseteq WaitsIn(ts) /\ \A c \in Chans \ {d} : ViewIn(ts2, c) = ViewIn(ts, c)
<1>0. d # None
  BY NamesAssumption
<1>1. CASE Opens(d, ts, ts2) /\ k = 1
  <2>2. Good(ts2) /\ 1 \in DOMAIN ts2 /\ ts2[1].channel = d /\ WaitsIn(ts2) \subseteq WaitsIn(ts)
        /\ \A c \in Chans \ {d} : ViewIn(ts2, c) = ViewIn(ts, c)
    BY <1>1, NewTabs
  <2>3. \A j \in DOMAIN ts2 : ts2[j].channel = d => j = 1
    BY <1>0, <2>2 DEF Good, DistinctIn
  <2> QED BY <1>1, <2>2, <2>3
<1>2. CASE ts2 = ts /\ k \in DOMAIN ts /\ ts[k].channel = None
  BY <1>2
<1> QED BY <1>1, <1>2 DEF Chosen

LEMMA ReadsUjoin ==
    ASSUME Good(tabs), serv.nick \in ToSet(Nicks), NEW line \in Replies, line[1] = "JOIN", IsMe(line[2]),
           ~ViewIn(tabs, line[3]).shown, inbound_ujoin(line[3])
    PROVE  Reads(line, serv.nick, tabs, serv.nick, tabs')
<1> DEFINE d == line[3]
           waiting == find_session_from_waitchannel(d)
           i == IF waiting # 0 THEN waiting ELSE find_unused_session
           opened == IF i = 0 THEN <<NewTab(d)>> \o tabs ELSE tabs
           k == IF i = 0 THEN 1 ELSE i
<1>1. d \in Chans /\ line[2] = serv.nick /\ line[3] = d
  BY ReplyIs DEF IsMe
<1>2. d # None
  BY <1>1, NamesAssumption
<1>3. \A j \in DOMAIN tabs : tabs[j].channel # d
  BY <1>2, ViewFacts DEF Good
<1>4. find_channel(d) = 0
  BY <1>3, Found
<1>5. tabs' = [opened EXCEPT ![k].channel = d, ![k].users = <<>>, ![k].waitchannel = None,
                             ![k].ignore_mode = TRUE, ![k].end_of_names = FALSE, ![k].doing_who = TRUE]
  BY <1>4 DEF inbound_ujoin
<1>6. i # 0 => i \in DOMAIN tabs /\ tabs[i].channel = None
  BY FoundFree
<1> HIDE DEF i, d
<1>10. Chosen(d, tabs, opened, k)
  <2>1. CASE i = 0
    <3>1. opened = <<NewTab(d)>> \o tabs /\ k = 1
      BY <2>1
    <3> QED BY <1>3, <3>1 DEF Chosen, Opens
  <2>2. CASE i # 0
    <3>1. opened = tabs /\ k = i
      BY <2>2
    <3> HIDE DEF opened, k
    <3> QED BY <1>6, <2>2, <3>1 DEF Chosen
  <2> QED BY <2>1, <2>2
<1>7. /\ Good(opened) /\ k \in DOMAIN opened /\ (opened[k].channel = None \/ opened[k].channel = d)
      /\ \A j \in DOMAIN opened : opened[j].channel = d => j = k
      /\ WaitsIn(opened) \subseteq WaitsIn(tabs) /\ \A c \in Chans \ {d} : ViewIn(opened, c) = ViewIn(tabs, c)
  <2> HIDE DEF opened, k
  <2> QED BY <1>1, <1>3, <1>10, ChosenTab
<1> HIDE DEF opened, k
<1>8. tabs' = [opened EXCEPT ![k] = [opened[k] EXCEPT !.channel = d, !.users = <<>>, !.waitchannel = None,
                                                        !.ignore_mode = TRUE, !.end_of_names = FALSE, !.doing_who = TRUE]]
  BY <1>5, <1>7 DEF Good
<1>9. Enters(opened, k, d, tabs')
  BY <1>7, <1>8 DEF Enters
<1> QED BY <1>1, <1>7, <1>9, ReadsEntered


-----------------------------------------------------------------------------
(* The lines under way.                                                    *)
LEMMA BothIn ==
    ASSUME NEW S, NEW p \in Seq(S), NEW q \in Seq(S)
    PROVE  p \o q \in Seq(S) /\ ToSet(p \o q) = ToSet(p) \union ToSet(q)
<1>1. /\ Len(p) \in Nat /\ Len(q) \in Nat /\ DOMAIN p = 1..Len(p) /\ DOMAIN q = 1..Len(q)
      /\ p \o q \in Seq(S) /\ DOMAIN (p \o q) = 1..(Len(p) + Len(q))
  OBVIOUS
<1>2. \A i \in 1..Len(p) : (p \o q)[i] = p[i]
  OBVIOUS
<1>3. \A i \in 1..Len(q) : (p \o q)[Len(p) + i] = q[i] /\ Len(p) + i \in DOMAIN (p \o q)
  OBVIOUS
<1>4. \A i \in DOMAIN (p \o q) : i \in 1..Len(p) \/ \E j \in 1..Len(q) : i = Len(p) + j
  <2> SUFFICES ASSUME NEW i \in DOMAIN (p \o q), i \notin 1..Len(p) PROVE \E j \in 1..Len(q) : i = Len(p) + j
    OBVIOUS
  <2>1. i - Len(p) \in 1..Len(q) /\ i = Len(p) + (i - Len(p))
    BY <1>1
  <2> QED BY <2>1
<1>5. ToSet(p \o q) \subseteq ToSet(p) \union ToSet(q)
  BY <1>1, <1>2, <1>3, <1>4 DEF ToSet
<1>6. 1..Len(p) \subseteq DOMAIN (p \o q)
  BY <1>1
<1>7. ToSet(p) \subseteq ToSet(p \o q)
  BY <1>1, <1>2, <1>6 DEF ToSet
<1>8. ToSet(q) \subseteq ToSet(p \o q)
  BY <1>1, <1>3 DEF ToSet
<1> QED BY <1>1, <1>5, <1>7, <1>8

LEMMA FirstIn ==
    ASSUME NEW S, NEW p \in Seq(S), p # <<>>
    PROVE  /\ Head(p) \in S /\ Tail(p) \in Seq(S) /\ Head(p) = p[1]
           /\ ToSet(p) = {Head(p)} \union ToSet(Tail(p))
<1>1. /\ Len(p) \in Nat /\ Len(p) > 0 /\ DOMAIN p = 1..Len(p) /\ Head(p) = p[1] /\ Head(p) \in S
      /\ Tail(p) \in Seq(S) /\ DOMAIN Tail(p) = 1..(Len(p) - 1)
  OBVIOUS
<1>2. \A i \in DOMAIN Tail(p) : Tail(p)[i] = p[i + 1] /\ i + 1 \in DOMAIN p
  OBVIOUS
<1>3. \A i \in DOMAIN p : i = 1 \/ (i - 1 \in DOMAIN Tail(p) /\ i = (i - 1) + 1)
  BY <1>1
<1>4. 1 \in DOMAIN p
  BY <1>1
<1> QED BY <1>1, <1>2, <1>3, <1>4 DEF ToSet

LEMMA MembersIn ==
    ASSUME NEW S, NEW p \in Seq(S)
    PROVE  /\ ToSet(p) \subseteq S /\ DOMAIN p = 1..Len(p)
           /\ \A x : x \in ToSet(p) <=> \E k \in 1..Len(p) : p[k] = x
<1>1. DOMAIN p = 1..Len(p)
  OBVIOUS
<1>2. \A k \in DOMAIN p : p[k] \in S
  OBVIOUS
<1> QED BY <1>1, <1>2 DEF ToSet

LEMMA NoneIn == ToSet(<<>>) = {}
BY DEF ToSet

\* The channels named in a list, and only they, are what Named leaves of it.
NamedUpto(chans, g) ==
    g = [i \in 0..Len(chans) |-> IF i = 0 THEN <<>> ELSE IF chans[i] = None THEN g[i - 1]
                                 ELSE Append(g[i - 1], chans[i])]

LEMMA NamedExists ==
    ASSUME NEW chans, Len(chans) \in Nat
    PROVE  \E g : NamedUpto(chans, g)
<1> DEFINE Upto(n, g) == g = [i \in 0..n |-> IF i = 0 THEN <<>> ELSE IF chans[i] = None THEN g[i - 1]
                                             ELSE Append(g[i - 1], chans[i])]
           T == {n \in Nat : \E g : Upto(n, g)}
<1>1. 0 \in T
  <2> DEFINE g == [i \in 0..0 |-> <<>>]
  <2>1. g = [i \in 0..0 |-> IF i = 0 THEN <<>> ELSE IF chans[i] = None THEN g[i - 1] ELSE Append(g[i - 1], chans[i])]
    OBVIOUS
  <2>2. Upto(0, g)
    BY <2>1
  <2> QED BY <2>2
<1>2. ASSUME NEW n \in Nat, n \in T PROVE n + 1 \in T
  <2>1. PICK g : Upto(n, g)
    BY <1>2
  <2>2. \A i \in 0..n : g[i] = IF i = 0 THEN <<>> ELSE IF chans[i] = None THEN g[i - 1] ELSE Append(g[i - 1], chans[i])
    BY <2>1
  <2> DEFINE h == [i \in 0..(n + 1) |-> IF i <= n THEN g[i] ELSE IF chans[i] = None THEN g[i - 1] ELSE Append(g[i - 1], chans[i])]
  <2>3. ASSUME NEW i \in 0..(n + 1)
        PROVE  h[i] = IF i = 0 THEN <<>> ELSE IF chans[i] = None THEN h[i - 1] ELSE Append(h[i - 1], chans[i])
    <3>1. i # 0 => i - 1 \in 0..(n + 1) /\ i - 1 <= n /\ h[i - 1] = g[i - 1]
      OBVIOUS
    <3>2. CASE i <= n
      <4>1. h[i] = g[i] /\ i \in 0..n
        BY <3>2
      <4> HIDE DEF h
      <4> QED BY <2>2, <3>1, <4>1
    <3>3. CASE ~(i <= n)
      <4>1. h[i] = IF i <= n THEN g[i] ELSE IF chans[i] = None THEN g[i - 1] ELSE Append(g[i - 1], chans[i])
        OBVIOUS
      <4>2. i # 0
        BY <3>3
      <4> HIDE DEF h
      <4> QED BY <3>1, <3>3, <4>1, <4>2
    <3> QED BY <3>2, <3>3
  <2>4. Upto(n + 1, h)
    <3>1. h = [i \in 0..(n + 1) |-> h[i]]
      OBVIOUS
    <3> HIDE DEF h
    <3> QED BY <2>3, <3>1
  <2>5. \E f : Upto(n + 1, f)
    <3> HIDE DEF h, Upto
    <3> QED BY <2>4
  <2> HIDE DEF Upto
  <2> QED BY <2>5
<1> HIDE DEF T
<1>3. Len(chans) \in T
  BY <1>1, <1>2, NatInduct
<1> QED BY <1>3 DEF T, NamedUpto

LEMMA NamedTable ==
    ASSUME NEW chans, Len(chans) \in Nat
    PROVE  \E g : /\ Named(chans) = g[Len(chans)]
                  /\ \A i \in 0..Len(chans) : g[i] = IF i = 0 THEN <<>> ELSE IF chans[i] = None THEN g[i - 1]
                                                     ELSE Append(g[i - 1], chans[i])
<1> DEFINE g == CHOOSE g : NamedUpto(chans, g)
<1>1. NamedUpto(chans, g)
  BY NamedExists
<1>2. Named(chans) = g[Len(chans)]
  BY DEF Named, NamedUpto
<1> HIDE DEF g
<1>3. \A i \in 0..Len(chans) : g[i] = IF i = 0 THEN <<>> ELSE IF chans[i] = None THEN g[i - 1]
                                      ELSE Append(g[i - 1], chans[i])
  BY <1>1 DEF NamedUpto
<1> QED BY <1>2, <1>3

LEMMA AppendIn ==
    ASSUME NEW S, NEW p \in Seq(S), NEW x \in S
    PROVE  Append(p, x) \in Seq(S) /\ ToSet(Append(p, x)) = ToSet(p) \union {x}
<1>1. /\ Len(p) \in Nat /\ DOMAIN p = 1..Len(p) /\ Append(p, x) \in Seq(S) /\ DOMAIN Append(p, x) = 1..(Len(p) + 1)
  OBVIOUS
<1>2. \A i \in 1..Len(p) : Append(p, x)[i] = p[i] /\ i \in 1..(Len(p) + 1)
  OBVIOUS
<1>3. Append(p, x)[Len(p) + 1] = x /\ Len(p) + 1 \in 1..(Len(p) + 1)
  OBVIOUS
<1>4. \A i \in 1..(Len(p) + 1) : i \in 1..Len(p) \/ i = Len(p) + 1
  BY <1>1
<1> QED BY <1>1, <1>2, <1>3, <1>4 DEF ToSet

LEMMA NamedAre ==
    ASSUME NEW chans \in Seq(Chans \union {None})
    PROVE  Named(chans) \in Seq(Chans) /\ ToSet(Named(chans)) = ToSet(chans) \ {None}
<1> DEFINE n == Len(chans)
<1>1. n \in Nat /\ DOMAIN chans = 1..n /\ \A i \in 1..n : chans[i] \in Chans \union {None}
  OBVIOUS
<1>2. PICK g : /\ Named(chans) = g[n]
               /\ \A i \in 0..n : g[i] = IF i = 0 THEN <<>> ELSE IF chans[i] = None THEN g[i - 1]
                                         ELSE Append(g[i - 1], chans[i])
  BY <1>1, NamedTable
<1> HIDE DEF n
<1> DEFINE T == {i \in Nat : i <= n => g[i] \in Seq(Chans) /\ ToSet(g[i]) = {chans[j] : j \in 1..i} \ {None}}
<1>3. 0 \in T
  <2>1. g[0] = <<>>
    BY <1>1, <1>2
  <2>2. <<>> \in Seq(Chans) /\ 1..0 = {}
    OBVIOUS
  <2> QED BY <2>1, <2>2, NoneIn
<1>4. ASSUME NEW i \in Nat, i \in T PROVE i + 1 \in T
  <2> SUFFICES ASSUME i + 1 <= n
               PROVE  g[i + 1] \in Seq(Chans) /\ ToSet(g[i + 1]) = {chans[j] : j \in 1..(i + 1)} \ {None}
    OBVIOUS
  <2>1. i + 1 \in 0..n /\ i + 1 # 0 /\ (i + 1) - 1 = i /\ i <= n /\ i + 1 \in 1..n
    BY <1>1
  <2>2. g[i + 1] = IF chans[i + 1] = None THEN g[i] ELSE Append(g[i], chans[i + 1])
    BY <1>2, <2>1
  <2>3. g[i] \in Seq(Chans) /\ ToSet(g[i]) = {chans[j] : j \in 1..i} \ {None}
    BY <1>4, <2>1
  <2>4. {chans[j] : j \in 1..(i + 1)} = {chans[j] : j \in 1..i} \union {chans[i + 1]}
    OBVIOUS
  <2>5. CASE chans[i + 1] = None
    BY <2>2, <2>3, <2>4, <2>5
  <2>6. CASE chans[i + 1] # None
    <3>1. chans[i + 1] \in Chans
      BY <1>1, <2>1, <2>6
    <3>2. Append(g[i], chans[i + 1]) \in Seq(Chans) /\ ToSet(Append(g[i], chans[i + 1])) = ToSet(g[i]) \union {chans[i + 1]}
      BY <2>3, <3>1, AppendIn
    <3> QED BY <2>2, <2>3, <2>4, <2>6, <3>2
  <2> QED BY <2>5, <2>6
<1> HIDE DEF T
<1>5. n \in T
  BY <1>1, <1>3, <1>4, NatInduct
<1>6. g[n] \in Seq(Chans) /\ ToSet(g[n]) = {chans[j] : j \in 1..n} \ {None}
  BY <1>1, <1>5 DEF T
<1>7. ToSet(chans) = {chans[j] : j \in 1..n}
  BY <1>1 DEF ToSet
<1> QED BY <1>2, <1>6, <1>7

\* What RemoveAt makes of a sequence.

\* A closed tab shows nothing; the others show what they did.
LEMMA ClosedTab ==
    ASSUME NEW ts, Good(ts), NEW i \in DOMAIN ts, NEW ts2, ts2 = RemoveAt(ts, i)
    PROVE  /\ Good(ts2)
           /\ \A c \in Chans : c # ts[i].channel => ViewIn(ts2, c) = ViewIn(ts, c)
           /\ ts[i].channel # None => /\ ViewIn(ts2, ts[i].channel) = Absent
                                      /\ ViewIn(ts, ts[i].channel).shown
           /\ WaitsIn(ts2) \subseteq WaitsIn(ts)
<1> DEFINE n == Len(ts)
<1>1. /\ ts \in Seq(Tabs) /\ DistinctIn(ts) /\ n \in Nat /\ DOMAIN ts = 1..n /\ i \in 1..n
  BY DEF Good
<1>2. /\ ts2 \in Seq(Tabs) /\ Len(ts2) = n - 1
      /\ \A j \in 1..(i - 1) : ts2[j] = ts[j]
      /\ \A j \in i..(n - 1) : ts2[j] = ts[j + 1]
  BY <1>1, RemoveAtProps
<1>3. DOMAIN ts2 = 1..(n - 1)
  BY <1>2
<1> HIDE DEF n
\* From which tab each of them comes
<1> DEFINE from(j) == IF j < i THEN j ELSE j + 1
<1>4. \A j \in 1..(n - 1) : from(j) \in 1..n /\ from(j) # i
  BY <1>1
<1>5. \A j \in 1..(n - 1) : ts2[j] = ts[from(j)]
  <2> SUFFICES ASSUME NEW j \in 1..(n - 1) PROVE ts2[j] = ts[from(j)]
    OBVIOUS
  <2>1. CASE j < i
    <3>1. j \in 1..(i - 1)
      BY <1>1, <2>1
    <3> QED BY <1>2, <2>1, <3>1
  <2>2. CASE ~(j < i)
    <3>1. j \in i..(n - 1)
      BY <1>1, <2>2
    <3> QED BY <1>2, <2>2, <3>1
  <2> QED BY <2>1, <2>2
<1>6. \A j, k \in 1..(n - 1) : from(j) = from(k) => j = k
  BY <1>1
<1>7. \A k \in 1..n : k # i => \E j \in 1..(n - 1) : from(j) = k
  <2> SUFFICES ASSUME NEW k \in 1..n, k # i PROVE \E j \in 1..(n - 1) : from(j) = k
    OBVIOUS
  <2>1. CASE k < i
    <3>1. k \in 1..(n - 1) /\ from(k) = k
      BY <1>1, <2>1
    <3> QED BY <3>1
  <2>2. CASE k > i
    <3>1. k - 1 \in 1..(n - 1) /\ from(k - 1) = k
      BY <1>1, <2>2
    <3> QED BY <3>1
  <2> QED BY <1>1, <2>1, <2>2
<1> HIDE DEF from
<1>8. DistinctIn(ts2)
  BY <1>1, <1>3, <1>4, <1>5, <1>6 DEF DistinctIn
<1>9. ASSUME NEW c \in Chans, c # ts[i].channel PROVE ViewIn(ts2, c) = ViewIn(ts, c)
  <2>1. CASE \E k \in 1..n : ts[k].channel = c
    <3>1. PICK k \in 1..n : ts[k].channel = c
      BY <2>1
    <3>2. PICK j \in 1..(n - 1) : from(j) = k
      BY <1>7, <1>9, <3>1
    <3>3. ts2[j] = ts[k] /\ c # None
      BY <1>5, <3>2, NamesAssumption
    <3>4. ViewIn(ts, c) = ViewOf(ts[k])
      BY <1>1, <3>1, <3>3, ViewShown
    <3>5. ViewIn(ts2, c) = ViewOf(ts2[j])
      BY <1>3, <1>8, <3>1, <3>3, ViewShown
    <3> QED BY <3>3, <3>4, <3>5
  <2>2. CASE \A k \in 1..n : ts[k].channel # c
    <3>1. \A j \in DOMAIN ts2 : ts2[j].channel # c
      BY <1>3, <1>4, <1>5, <2>2
    <3> QED BY <1>1, <2>2, <3>1, ViewAbsent
  <2> QED BY <2>1, <2>2
<1>10. ts[i].channel # None => ViewIn(ts2, ts[i].channel) = Absent /\ ViewIn(ts, ts[i].channel).shown
  <2> SUFFICES ASSUME ts[i].channel # None
               PROVE  ViewIn(ts2, ts[i].channel) = Absent /\ ViewIn(ts, ts[i].channel).shown
    OBVIOUS
  <2>1. \A j \in DOMAIN ts2 : ts2[j].channel # ts[i].channel
    BY <1>1, <1>3, <1>4, <1>5 DEF DistinctIn
  <2>2. ViewIn(ts2, ts[i].channel) = Absent
    BY <2>1, ViewAbsent
  <2>3. ViewIn(ts, ts[i].channel) = ViewOf(ts[i])
    BY <1>1, ViewShown
  <2> QED BY <2>2, <2>3, ViewOfIs
<1>11. WaitsIn(ts2) \subseteq WaitsIn(ts)
  BY <1>1, <1>3, <1>4, <1>5 DEF WaitsIn
<1> QED BY <1>2, <1>8, <1>9, <1>10, <1>11 DEF Good


-----------------------------------------------------------------------------
(* What holds of client, server and the lines between them.                *)
Servs == [nick : ToSet(Nicks), state : {"waiting", "connecting", "connected"}, nickcount : Nat,
          end_of_motd : BOOLEAN, joindelay : BOOLEAN, nickserv : BOOLEAN, autojoin : Seq(Chans),
          is_away : BOOLEAN, reconnect_away : BOOLEAN, supports_watch : BOOLEAN]
Notes == [listed : BOOLEAN, ison : BOOLEAN]

Typed ==
    /\ Good(tabs) /\ serv \in Servs /\ notify \in Notes
    /\ fast \in Seq(Requests) /\ slow \in Seq(Questions) /\ inbox \in Seq(Replies)
    /\ Sound(irc) /\ kept \subseteq Chans \union {Away}

\* What the client believes of the connection and of itself, or is about to.
Linked ==
    /\ serv.state # "connected" => irc.nick = NoNick /\ fast = <<>> /\ slow = <<>> /\ inbox = <<>>
    /\ irc.nick = NoNick => ~irc.gone
    /\ serv.state # "waiting" /\ (serv.end_of_motd \/ \E k \in 1..Len(inbox) : inbox[k][1] = "376")
       => irc.nick # NoNick
    /\ serv.state # "waiting" => AwayRead(serv.is_away, inbox, irc.gone)

\* Reading all that is on the way, the client sees each channel as the server has it.
Tracked ==
    \A c \in Chans : Follows(c, State(serv.nick, ViewIn(tabs, c)), inbox, irc,
                             <<"PART", c>> \in ToSet(fast), <<"MODE", c>> \in ToSet(slow))

\* A WHO not answered is on its way, or its answer is.
Waited == \A c \in WaitsIn(tabs) : <<"WHO", c>> \in ToSet(slow) \/ <<"315", c>> \in ToSet(inbox)

IrcInv == Typed /\ Linked /\ Tracked /\ Waited

\* What a client sends enters the queue, or is lost.
Asked(urgent, questions) ==
    /\ fast' \in Seq(Requests) /\ slow' \in Seq(Questions)
    /\ ToSet(fast) \subseteq ToSet(fast') /\ ToSet(slow) \subseteq ToSet(slow')
    /\ serv.state = "connected" => ToSet(urgent) \subseteq ToSet(fast') /\ ToSet(questions) \subseteq ToSet(slow')
    /\ serv.state # "connected" => fast' = fast /\ slow' = slow

LEMMA SendsMore ==
    ASSUME Typed, NEW urgent \in Seq(Requests), NEW questions \in Seq(Questions), SendLines(urgent, questions)
    PROVE  Asked(urgent, questions)
<1>1. fast \in Seq(Requests) /\ slow \in Seq(Questions)
  BY DEF Typed
<1>2. /\ fast \o urgent \in Seq(Requests) /\ ToSet(fast \o urgent) = ToSet(fast) \union ToSet(urgent)
      /\ slow \o questions \in Seq(Questions) /\ ToSet(slow \o questions) = ToSet(slow) \union ToSet(questions)
  BY <1>1, BothIn
<1>3. CASE serv.state = "connected"
  <2>1. fast' = fast \o urgent /\ slow' = slow \o questions
    BY <1>3 DEF SendLines
  <2> QED BY <1>2, <1>3, <2>1 DEF Asked
<1>4. CASE serv.state # "connected"
  <2>1. fast' = fast /\ slow' = slow
    BY <1>4 DEF SendLines
  <2> QED BY <1>1, <1>4, <2>1 DEF Asked
<1> QED BY <1>3, <1>4

LEMMA SendsNone ==
    ASSUME Typed, Silent
    PROVE  Asked(<<>>, <<>>)
<1>1. fast \in Seq(Requests) /\ slow \in Seq(Questions) /\ fast' = fast /\ slow' = slow
  BY DEF Typed, Silent
<1> QED BY <1>1, NoneIn DEF Asked

\* A step of the client that reads no line and changes no view.
Keeps ==
    /\ Good(tabs') /\ serv' \in Servs /\ notify' \in Notes /\ kept' \subseteq Chans \union {Away}
    /\ inbox' = inbox /\ irc' = irc
    /\ serv'.state = serv.state /\ serv'.end_of_motd = serv.end_of_motd
    /\ serv'.is_away = serv.is_away /\ serv'.nick = serv.nick
    /\ \A c \in Chans : ViewIn(tabs', c) = ViewIn(tabs, c)
    /\ \A c \in WaitsIn(tabs') : c \in WaitsIn(tabs) \/ <<"WHO", c>> \in ToSet(slow')

LEMMA KeepsInv ==
    ASSUME IrcInv, Keeps, NEW urgent, NEW questions, Asked(urgent, questions)
    PROVE  IrcInv'
<1>1. Typed'
  BY DEF IrcInv, Typed, Keeps, Asked
<1>2. Linked'
  BY DEF IrcInv, Linked, Keeps, Asked
<1>3. Tracked'
  <2> SUFFICES ASSUME NEW c \in Chans
               PROVE  Follows(c, State(serv.nick, ViewIn(tabs, c)), inbox, irc,
                              <<"PART", c>> \in ToSet(fast'), <<"MODE", c>> \in ToSet(slow'))
    BY DEF Tracked, Keeps
  <2> DEFINE part == <<"PART", c>> \in ToSet(fast)
             ask == <<"MODE", c>> \in ToSet(slow)
             part2 == <<"PART", c>> \in ToSet(fast')
             ask2 == <<"MODE", c>> \in ToSet(slow')
             s == State(serv.nick, ViewIn(tabs, c))
  <2>1. Follows(c, s, inbox, irc, part, ask)
    BY DEF IrcInv, Tracked
  <2>2. (part => part2) /\ (ask => ask2)
    BY DEF Asked
  <2>3. part \in BOOLEAN /\ part2 \in BOOLEAN /\ ask \in BOOLEAN /\ ask2 \in BOOLEAN
    OBVIOUS
  <2> HIDE DEF part, ask, part2, ask2, s
  <2>4. Follows(c, s, inbox, irc, part2, ask2)
    BY <2>1, <2>2, <2>3, FollowsMore
  <2> QED BY <2>4 DEF part2, ask2, s
<1>4. Waited'
  <2> SUFFICES ASSUME NEW c \in WaitsIn(tabs') PROVE <<"WHO", c>> \in ToSet(slow') \/ <<"315", c>> \in ToSet(inbox')
    BY DEF Waited
  <2>1. ToSet(slow) \subseteq ToSet(slow') /\ inbox' = inbox
    BY DEF Asked, Keeps
  <2>2. c \in WaitsIn(tabs) \/ <<"WHO", c>> \in ToSet(slow')
    BY DEF Keeps
  <2>3. c \in WaitsIn(tabs) => <<"WHO", c>> \in ToSet(slow) \/ <<"315", c>> \in ToSet(inbox)
    BY DEF IrcInv, Waited
  <2> QED BY <2>1, <2>2, <2>3
<1> QED BY <1>1, <1>2, <1>3, <1>4 DEF IrcInv

\* A client that is not registered shows no channel.
LEMMA Offline ==
    ASSUME NEW r, Sound(r), r.nick = NoNick, NEW c \in Chans, NEW n, NEW part \in BOOLEAN, NEW ask \in BOOLEAN
    PROVE  Follows(c, State(n, Absent), <<>>, r, part, ask)
<1> DEFINE s == State(n, Absent)
<1>1. s.view = Absent /\ ~s.view.shown /\ ~s.view.hides
  BY DEF State, Absent
<1>2. ~On(r, c, r.nick)
  BY ServerFacts DEF Sound
<1>3. Match(r, c, s)
  BY <1>1 DEF Match
<1> HIDE DEF s
<1>4. At(c, s, r, part, ask)
  BY <1>1, <1>2, <1>3 DEF At
<1> QED BY <1>4, FollowsNone DEF s

LEMMA NoneShown ==
    ASSUME Typed, Tracked, irc.nick = NoNick
    PROVE  /\ \A c \in Chans : ViewIn(tabs, c) = Absent
           /\ \A i \in DOMAIN tabs : tabs[i].channel = None
           /\ WaitsIn(tabs) = {}
<1>1. DistinctIn(tabs) /\ tabs \in Seq(Tabs) /\ inbox \in Seq(Replies)
  BY DEF Good, Typed
<1>2. ASSUME NEW c \in Chans PROVE ViewIn(tabs, c) = Absent
  <2> DEFINE s == State(serv.nick, ViewIn(tabs, c))
             part == <<"PART", c>> \in ToSet(fast)
             ask == <<"MODE", c>> \in ToSet(slow)
  <2>1. Follows(c, s, inbox, irc, part, ask)
    BY DEF Tracked
  <2>2. s.view = ViewIn(tabs, c)
    BY DEF State
  <2> HIDE DEF s, part, ask
  <2>3. PICK v : Walk(v, c, s, inbox) /\ \A i \in 0..Len(inbox) : ~v[i].view.shown
    BY <2>1 DEF Follows
  <2>4. v[0] = s
    BY <2>3 DEF Walk
  <2>5. 0 \in 0..Len(inbox)
    BY <1>1
  <2>6. ~ViewIn(tabs, c).shown /\ c # None
    BY <2>2, <2>3, <2>4, <2>5, NamesAssumption
  <2> QED BY <1>1, <2>6, ViewFacts
<1>3. ASSUME NEW i \in DOMAIN tabs PROVE tabs[i].channel = None
  <2> SUFFICES ASSUME tabs[i].channel # None PROVE FALSE
    OBVIOUS
  <2>1. tabs[i] \in Tabs
    BY <1>1
  <2>2. tabs[i].channel \in Chans
    BY <2>1 DEF Tabs
  <2>3. ViewIn(tabs, tabs[i].channel) = ViewOf(tabs[i])
    BY <1>1, ViewShown
  <2> QED BY <1>2, <2>2, <2>3, ViewOfIs
<1>4. WaitsIn(tabs) = {}
  BY <1>3 DEF WaitsIn
<1> QED BY <1>2, <1>3, <1>4

\* The client has read a line.
Took(line) ==
    /\ Reads(line, serv.nick, tabs, serv'.nick, tabs')
    /\ serv' \in Servs /\ notify' \in Notes /\ serv'.state = serv.state
    /\ serv'.end_of_motd => serv.end_of_motd \/ line[1] = "376"
    /\ serv'.is_away = AwayAfter(serv.is_away, line)
    /\ \A c \in Chans : Entered(c, serv.nick, line) => <<"MODE", c>> \in ToSet(slow') /\ <<"WHO", c>> \in ToSet(slow')

LEMMA TookInv ==
    ASSUME IrcInv, inbox # <<>>, inbox' = Tail(inbox), irc' = irc, kept' = kept, Took(Head(inbox)),
           NEW urgent, NEW questions, Asked(urgent, questions)
    PROVE  IrcInv'
<1> DEFINE line == Head(inbox)
<1>1. /\ inbox \in Seq(Replies) /\ line \in Replies /\ inbox' \in Seq(Replies) /\ line = inbox[1]
      /\ ToSet(inbox) = {line} \union ToSet(inbox')
  BY FirstIn DEF IrcInv, Typed
<1>2. serv.state = "connected" /\ serv'.state = "connected"
  BY DEF IrcInv, Linked, Took
<1>3. Sound(irc) /\ irc.gone \in BOOLEAN
  BY DEF IrcInv, Typed, Sound, Servers
<1>4. Typed'
  BY <1>1 DEF IrcInv, Typed, Took, Reads, Asked
<1>5. Linked'
  <2>1. \A k \in 1..Len(inbox') : inbox'[k] = inbox[k + 1] /\ k + 1 \in 1..Len(inbox)
    BY <1>1
  <2>2. 1 \in 1..Len(inbox)
    BY <1>1
  <2>3. serv'.end_of_motd \/ (\E k \in 1..Len(inbox') : inbox'[k][1] = "376") => irc.nick # NoNick
    BY <1>1, <1>2, <2>1, <2>2 DEF IrcInv, Linked, Took
  <2>4. AwayRead(serv.is_away, inbox, irc.gone)
    BY <1>2 DEF IrcInv, Linked
  <2>5. AwayRead(AwayAfter(serv.is_away, line), inbox', irc.gone)
    BY <1>1, <1>3, <2>4, AwayReads
  <2>6. AwayRead(serv'.is_away, inbox', irc.gone)
    BY <2>5 DEF Took
  <2>7. irc.nick = NoNick => ~irc.gone
    BY DEF IrcInv, Linked
  <2> QED BY <1>2, <2>3, <2>6, <2>7 DEF Linked
<1>6. Tracked'
  <2> SUFFICES ASSUME NEW c \in Chans
               PROVE  Follows(c, State(serv'.nick, ViewIn(tabs', c)), inbox', irc,
                              <<"PART", c>> \in ToSet(fast'), <<"MODE", c>> \in ToSet(slow'))
    BY DEF Tracked
  <2> DEFINE part == <<"PART", c>> \in ToSet(fast)
             ask == <<"MODE", c>> \in ToSet(slow)
             part2 == <<"PART", c>> \in ToSet(fast')
             ask2 == <<"MODE", c>> \in ToSet(slow')
             entered == Entered(c, serv.nick, line)
             s == State(serv.nick, ViewIn(tabs, c))
             s2 == State(serv'.nick, ViewIn(tabs', c))
  <2>1. Follows(c, s, inbox, irc, part, ask)
    BY DEF IrcInv, Tracked
  <2>2. (part => part2) /\ (ask => ask2) /\ (entered => ask2)
    BY DEF Asked, Took
  <2>3. part \in BOOLEAN /\ part2 \in BOOLEAN /\ ask \in BOOLEAN /\ ask2 \in BOOLEAN /\ entered \in BOOLEAN
    BY DEF Entered
  <2>4. s2 = Step(c, s, line) /\ s.nick = serv.nick
    BY DEF Took, Reads, State
  <2> HIDE DEF part, ask, part2, ask2, s, s2
  <2>5. Follows(c, Step(c, s, line), inbox', irc, part, ask \/ Entered(c, s.nick, line))
    BY <1>1, <2>1, <2>3, FollowsReads
  <2>6. Follows(c, s2, inbox', irc, part, ask \/ entered)
    BY <2>4, <2>5
  <2>7. (ask \/ entered => ask2) /\ (ask \/ entered) \in BOOLEAN
    BY <2>2, <2>3
  <2> HIDE DEF entered
  <2>8. Follows(c, s2, inbox', irc, part2, ask2)
    BY <2>2, <2>3, <2>6, <2>7, FollowsMore
  <2> QED BY <2>8 DEF part2, ask2, s2
<1>7. Waited'
  <2> SUFFICES ASSUME NEW c \in WaitsIn(tabs') PROVE <<"WHO", c>> \in ToSet(slow') \/ <<"315", c>> \in ToSet(inbox')
    BY DEF Waited
  <2>0. c \in Chans
    <3>1. tabs' \in Seq(Tabs)
      BY <1>4 DEF Typed, Good
    <3>2. PICK i \in DOMAIN tabs' : c = tabs'[i].channel /\ c # None
      BY DEF WaitsIn
    <3>3. tabs'[i] \in Tabs
      BY <3>1, <3>2
    <3> QED BY <3>2, <3>3 DEF Tabs
  <2>1. (c \in WaitsIn(tabs) /\ line # <<"315", c>>) \/ Entered(c, serv.nick, line)
    BY DEF Took, Reads
  <2>2. Entered(c, serv.nick, line) => <<"WHO", c>> \in ToSet(slow')
    BY <2>0 DEF Took
  <2>3. c \in WaitsIn(tabs) => <<"WHO", c>> \in ToSet(slow) \/ <<"315", c>> \in ToSet(inbox)
    BY DEF IrcInv, Waited
  <2>4. ToSet(slow) \subseteq ToSet(slow')
    BY DEF Asked
  <2> QED BY <1>1, <2>1, <2>2, <2>3, <2>4
<1> QED BY <1>4, <1>5, <1>6, <1>7 DEF IrcInv

\* The server has become r, and said lines to the client.
Says(lines, r) ==
    /\ irc' = r /\ inbox' = inbox \o lines /\ fast' \in Seq(Requests) /\ slow' \in Seq(Questions)
    /\ tabs' = tabs /\ serv' = serv /\ notify' = notify /\ kept' = kept
    /\ Sound(r) /\ lines \in Seq(Replies) /\ AwayRead(irc.gone, lines, r.gone)
    /\ irc.nick # NoNick \/ (\E k \in 1..Len(lines) : lines[k][1] = "376") => r.nick # NoNick
    /\ r.nick = NoNick => ~r.gone
    /\ serv.state # "connected" => lines = <<>> /\ r.nick = NoNick /\ fast' = <<>> /\ slow' = <<>>
    /\ \A c \in WaitsIn(tabs) : <<"WHO", c>> \in ToSet(slow) => <<"WHO", c>> \in ToSet(slow') \/ <<"315", c>> \in ToSet(lines)
    /\ \A c \in Chans : Leads(c, irc, <<"PART", c>> \in ToSet(fast), <<"MODE", c>> \in ToSet(slow), lines,
                              r, <<"PART", c>> \in ToSet(fast'), <<"MODE", c>> \in ToSet(slow'))

LEMMA SaysInv ==
    ASSUME IrcInv, NEW lines, NEW r, Says(lines, r)
    PROVE  IrcInv'
<1>1. /\ inbox \in Seq(Replies) /\ lines \in Seq(Replies) /\ inbox' \in Seq(Replies)
      /\ ToSet(inbox') = ToSet(inbox) \union ToSet(lines)
  BY BothIn DEF IrcInv, Typed, Says
<1>2. irc.gone \in BOOLEAN /\ r.gone \in BOOLEAN /\ irc' = r
  BY DEF IrcInv, Typed, Says, Sound, Servers
<1>3. Typed'
  BY <1>1 DEF IrcInv, Typed, Says
<1>4. Linked'
  <2>1. serv'.state # "connected" => irc'.nick = NoNick /\ fast' = <<>> /\ slow' = <<>> /\ inbox' = <<>>
    <3> SUFFICES ASSUME serv'.state # "connected" PROVE irc'.nick = NoNick /\ fast' = <<>> /\ slow' = <<>> /\ inbox' = <<>>
      OBVIOUS
    <3>1. serv.state # "connected" /\ lines = <<>> /\ inbox = <<>> /\ inbox' = inbox \o lines
      BY DEF Says, IrcInv, Linked
    <3> QED BY <3>1 DEF Says
  <2>2. serv'.state # "waiting" /\ (serv'.end_of_motd \/ \E k \in 1..Len(inbox') : inbox'[k][1] = "376") => irc'.nick # NoNick
    <3> SUFFICES ASSUME serv.state # "waiting", NEW k \in 1..Len(inbox'), inbox'[k][1] = "376" PROVE r.nick # NoNick
      BY DEF Says, IrcInv, Linked
    <3>1. inbox'[k] \in ToSet(inbox')
      BY <1>1, MembersIn
    <3>2. CASE inbox'[k] \in ToSet(inbox)
      <4>1. PICK j \in 1..Len(inbox) : inbox[j] = inbox'[k]
        BY <1>1, <3>2, MembersIn
      <4> QED BY <4>1 DEF Says, IrcInv, Linked
    <3>3. CASE inbox'[k] \in ToSet(lines)
      <4>1. PICK j \in 1..Len(lines) : lines[j] = inbox'[k]
        BY <1>1, <3>3, MembersIn
      <4> QED BY <4>1 DEF Says
    <3> QED BY <1>1, <3>1, <3>2, <3>3
  <2>3. serv'.state # "waiting" => AwayRead(serv'.is_away, inbox', irc'.gone)
    <3> SUFFICES ASSUME serv.state # "waiting" PROVE AwayRead(serv.is_away, inbox \o lines, r.gone)
      BY DEF Says
    <3>1. AwayRead(serv.is_away, inbox, irc.gone) /\ AwayRead(irc.gone, lines, r.gone)
      BY DEF Says, IrcInv, Linked
    <3>2. serv.is_away \in BOOLEAN
      BY DEF IrcInv, Typed, Servs
    <3> QED BY <1>1, <1>2, <3>1, <3>2, AwaySays
  <2> QED BY <2>1, <2>2, <2>3 DEF Linked, Says
<1>5. Tracked'
  <2> SUFFICES ASSUME NEW c \in Chans
               PROVE  Follows(c, State(serv.nick, ViewIn(tabs, c)), inbox \o lines, r,
                              <<"PART", c>> \in ToSet(fast'), <<"MODE", c>> \in ToSet(slow'))
    BY DEF Tracked, Says
  <2> DEFINE part == <<"PART", c>> \in ToSet(fast)
             ask == <<"MODE", c>> \in ToSet(slow)
             part2 == <<"PART", c>> \in ToSet(fast')
             ask2 == <<"MODE", c>> \in ToSet(slow')
             s == State(serv.nick, ViewIn(tabs, c))
  <2>1. Follows(c, s, inbox, irc, part, ask)
    BY DEF IrcInv, Tracked
  <2>2. Leads(c, irc, part, ask, lines, r, part2, ask2)
    BY DEF Says
  <2>3. part \in BOOLEAN /\ part2 \in BOOLEAN /\ ask \in BOOLEAN /\ ask2 \in BOOLEAN
    OBVIOUS
  <2> HIDE DEF part, ask, part2, ask2, s
  <2>4. Follows(c, s, inbox \o lines, r, part2, ask2)
    BY <1>1, <2>1, <2>2, <2>3, FollowsSays
  <2> QED BY <2>4 DEF part2, ask2, s
<1>6. Waited'
  <2> SUFFICES ASSUME NEW c \in WaitsIn(tabs) PROVE <<"WHO", c>> \in ToSet(slow') \/ <<"315", c>> \in ToSet(inbox')
    BY DEF Waited, Says
  <2>1. <<"WHO", c>> \in ToSet(slow) \/ <<"315", c>> \in ToSet(inbox)
    BY DEF IrcInv, Waited
  <2> QED BY <1>1, <2>1 DEF Says
<1> QED BY <1>3, <1>4, <1>5, <1>6 DEF IrcInv

\* Who is not registered is not away.
LEMMA StillHere ==
    ASSUME NEW r, Sound(r), r.nick = NoNick, NEW line \in Requests \union Questions
    PROVE  Answer(r, line)[1].gone = r.gone
<1>1. r \in Servers
  BY DEF Sound
<1>2. Called(r, line[2]).gone = r.gone
  BY <1>1 DEF Called, Servers
<1>3. Answer(r, line) \in {<<r, <<>> >>, <<r, << <<"433", line[2]>> >> >>, <<Called(r, line[2]), Welcome(r, line[2])>>}
  BY DEF Answer
<1> QED BY <1>2, <1>3

\* A line of the queue reaches the server.
LEMMA ServedInv ==
    ASSUME IrcInv, serv.state = "connected", NEW line \in Requests \union Questions,
           irc' = Answer(irc, line)[1], inbox' = inbox \o Answer(irc, line)[2], UNCHANGED <<tabs, serv, notify, kept>>,
           fast' \in Seq(Requests), slow' \in Seq(Questions),
           \A x \in ToSet(fast) : x = line \/ x \in ToSet(fast'), \A x \in ToSet(slow) : x = line \/ x \in ToSet(slow')
    PROVE  IrcInv'
<1> DEFINE r == Answer(irc, line)[1]
           lines == Answer(irc, line)[2]
<1>1. Sound(irc)
  BY DEF IrcInv, Typed
<1>2. Serves(irc, line, lines, r)
  BY <1>1, ServesAll
<1>3. irc.nick = NoNick => r.gone = irc.gone
  BY <1>1, StillHere
<1>4. irc.nick = NoNick => ~irc.gone /\ WaitsIn(tabs) = {}
  BY NoneShown DEF IrcInv, Linked
<1>5. irc' = r /\ inbox' = inbox \o lines
  OBVIOUS
<1> HIDE DEF r, lines
<1>6. ASSUME NEW c \in Chans
      PROVE  Leads(c, irc, <<"PART", c>> \in ToSet(fast), <<"MODE", c>> \in ToSet(slow), lines,
                   r, <<"PART", c>> \in ToSet(fast'), <<"MODE", c>> \in ToSet(slow'))
  <2> DEFINE part == <<"PART", c>> \in ToSet(fast)
             ask == <<"MODE", c>> \in ToSet(slow)
             part2 == <<"PART", c>> \in ToSet(fast')
             ask2 == <<"MODE", c>> \in ToSet(slow')
  <2>2. (part => part2 \/ line = <<"PART", c>>) /\ (ask => ask2 \/ line = <<"MODE", c>>)
    OBVIOUS
  <2>3. part \in BOOLEAN /\ part2 \in BOOLEAN /\ ask \in BOOLEAN /\ ask2 \in BOOLEAN
    OBVIOUS
  <2> HIDE DEF part, ask, part2, ask2
  <2>4. Leads(c, irc, part, ask, lines, r, part2, ask2)
    BY <1>2, <2>2, <2>3 DEF Serves
  <2> QED BY <2>4 DEF part, ask, part2, ask2
<1>7. ASSUME NEW c \in WaitsIn(tabs), <<"WHO", c>> \in ToSet(slow)
      PROVE  <<"WHO", c>> \in ToSet(slow') \/ <<"315", c>> \in ToSet(lines)
  <2>1. irc.nick # NoNick
    BY <1>4
  <2>2. ASSUME line = <<"WHO", c>> PROVE <<"315", c>> \in ToSet(lines)
    <3>1. PICK k \in 1..Len(lines) : lines[k] = <<"315", c>>
      BY <1>2, <2>1, <2>2 DEF Serves
    <3>2. lines \in Seq(Replies)
      BY <1>2 DEF Serves
    <3>3. \A x : x \in ToSet(lines) <=> \E i \in 1..Len(lines) : lines[i] = x
      BY <3>2, MembersIn
    <3> QED BY <3>1, <3>3
  <2>3. <<"WHO", c>> = line \/ <<"WHO", c>> \in ToSet(slow')
    BY <1>7
  <2> QED BY <2>2, <2>3
<1>8. r.nick = NoNick => ~r.gone
  BY <1>2, <1>3, <1>4 DEF Serves
<1>9. Says(lines, r)
  BY <1>2, <1>5, <1>6, <1>7, <1>8 DEF Says, Serves
<1> QED BY <1>9, SaysInv

LEMMA ServeInv ==
    ASSUME IrcInv, Serve
    PROVE  IrcInv'
<1>1. fast \in Seq(Requests) /\ slow \in Seq(Questions) /\ serv.state = "connected" /\ UNCHANGED <<tabs, serv, notify, kept>>
  BY DEF IrcInv, Typed, Serve, Rest
<1>2. CASE fast # <<>> /\ Reply(Answer(irc, Head(fast))) /\ fast' = Tail(fast) /\ slow' = slow
  <2>1. Head(fast) \in Requests /\ fast' \in Seq(Requests) /\ ToSet(fast) = {Head(fast)} \union ToSet(fast')
    BY <1>1, <1>2, FirstIn
  <2>2. irc' = Answer(irc, Head(fast))[1] /\ inbox' = inbox \o Answer(irc, Head(fast))[2]
    BY <1>2 DEF Reply
  <2> QED BY <1>1, <1>2, <2>1, <2>2, ServedInv
<1>3. CASE slow # <<>> /\ Reply(Answer(irc, Head(slow))) /\ slow' = Tail(slow) /\ fast' = fast
  <2>1. Head(slow) \in Questions /\ slow' \in Seq(Questions) /\ ToSet(slow) = {Head(slow)} \union ToSet(slow')
    BY <1>1, <1>3, FirstIn
  <2>2. irc' = Answer(irc, Head(slow))[1] /\ inbox' = inbox \o Answer(irc, Head(slow))[2]
    BY <1>3 DEF Reply
  <2> QED BY <1>1, <1>3, <2>1, <2>2, ServedInv
<1> QED BY <1>2, <1>3 DEF Serve

\* Something else happens at the server.
LEMMA HappenedInv ==
    ASSUME IrcInv, NEW lines, NEW r, Happens(irc, lines, r), irc' = r, inbox' = inbox \o lines,
           UNCHANGED <<tabs, serv, notify, kept, fast, slow>>
    PROVE  IrcInv'
<1>1. AwayRead(irc.gone, lines, r.gone)
  BY AwayPlain DEF Happens
<1>2. serv.state # "connected" => lines = <<>> /\ r.nick = NoNick /\ fast' = <<>> /\ slow' = <<>>
  BY DEF IrcInv, Linked, Happens
<1>3. r.nick = NoNick => ~r.gone
  BY DEF IrcInv, Linked, Happens
<1>4. irc.nick # NoNick \/ (\E k \in 1..Len(lines) : lines[k][1] = "376") => r.nick # NoNick
  BY DEF Happens, Plain
<1>5. ASSUME NEW c \in Chans
      PROVE  Leads(c, irc, <<"PART", c>> \in ToSet(fast), <<"MODE", c>> \in ToSet(slow), lines,
                   r, <<"PART", c>> \in ToSet(fast'), <<"MODE", c>> \in ToSet(slow'))
  <2> DEFINE part == <<"PART", c>> \in ToSet(fast)
             ask == <<"MODE", c>> \in ToSet(slow)
  <2>1. part \in BOOLEAN /\ ask \in BOOLEAN
    OBVIOUS
  <2> HIDE DEF part, ask
  <2>2. Leads(c, irc, part, ask, lines, r, part, ask)
    BY <2>1 DEF Happens
  <2> QED BY <2>2 DEF part, ask
<1>6. fast' \in Seq(Requests) /\ slow' \in Seq(Questions)
  BY DEF IrcInv, Typed
<1>7. Says(lines, r)
  BY <1>1, <1>2, <1>3, <1>4, <1>5, <1>6 DEF Says, Happens
<1> QED BY <1>7, SaysInv

LEMMA RepliedInv ==
    ASSUME IrcInv, NEW kind, World(kind), NEW lines, NEW r, Happens(irc, lines, r), Reply(<<r, lines>>)
    PROVE  IrcInv'
<1>1. irc' = r /\ inbox' = inbox \o lines /\ UNCHANGED <<tabs, serv, notify, kept, fast, slow>>
  BY DEF World, Reply, Rest, Silent
<1> QED BY <1>1, HappenedInv

LEMMA OthersInv ==
    ASSUME IrcInv, Others
    PROVE  IrcInv'
<1>1. Sound(irc) /\ irc \in Servers
  BY DEF IrcInv, Typed, Sound
<1>2. ASSUME NEW c \in Chans, Kick(c) PROVE IrcInv'
  <2>1. irc.nick \in People /\ On(irc, c, irc.nick) /\ irc.nick # NoNick
    BY <1>1, <1>2, ServerFacts DEF Kick
  <2>2. Happens(irc, Told(irc, c, <<"KICK", irc.nick, c>>), Parted(irc, c, irc.nick))
    BY <1>1, <2>1, HappensParted
  <2>3. Told(irc, c, <<"KICK", irc.nick, c>>) = << <<"KICK", irc.nick, c>> >>
    BY <2>1 DEF Told
  <2>4. World("kick") /\ Reply(<<Parted(irc, c, irc.nick), << <<"KICK", irc.nick, c>> >> >>)
    BY <1>2 DEF Kick
  <2> QED BY <2>2, <2>3, <2>4, RepliedInv
<1>3. ASSUME NEW c \in Chans, FriendJoins(c) PROVE IrcInv'
  <2> DEFINE news == irc.news /\ ~On(irc, c, irc.nick)
             r == [irc EXCEPT !.members[c] = With(@, Friend, @ = <<>>), !.news = news]
  <2>1. news \in BOOLEAN
    BY <1>1 DEF Servers, On
  <2>2. ~On(irc, c, Friend)
    BY <1>3 DEF FriendJoins
  <2>3. [irc EXCEPT !.members[c] = With(@, Friend, @ = <<>>), !.news = @ /\ ~On(irc, c, irc.nick)] = r
    BY <1>1 DEF Servers
  <2>4. World("visit") /\ Reply(<<r, Told(irc, c, <<"JOIN", Friend, c>>)>>)
    <3> HIDE DEF r
    <3> QED BY <1>3, <2>3 DEF FriendJoins
  <2> HIDE DEF news
  <2>5. Happens(irc, Told(irc, c, <<"JOIN", Friend, c>>), r)
    BY <1>1, <2>1, <2>2, HappensVisit
  <2> HIDE DEF r
  <2> QED BY <2>4, <2>5, RepliedInv
<1>4. ASSUME NEW c \in Chans, FriendParts(c) PROVE IrcInv'
  <2>1. On(irc, c, Friend) /\ Friend \in People
    BY <1>4 DEF FriendParts, People
  <2>2. Happens(irc, Told(irc, c, <<"PART", Friend, c>>), Parted(irc, c, Friend))
    BY <1>1, <2>1, HappensParted
  <2>3. World("visit") /\ Reply(<<Parted(irc, c, Friend), Told(irc, c, <<"PART", Friend, c>>)>>)
    BY <1>4 DEF FriendParts
  <2> QED BY <2>2, <2>3, RepliedInv
<1>5. ASSUME NEW c \in Chans, NEW sign \in {"+", "-"}, NEW m \in Modes, SetMode(c, sign, m) PROVE IrcInv'
  <2> DEFINE r == [irc EXCEPT !.modes[c] = IF sign = "+" THEN @ \union {m} ELSE @ \ {m}]
  <2>1. Happens(irc, Told(irc, c, <<"MODE", c, sign, m>>), r)
    BY <1>1, HappensModes
  <2>2. World("mode") /\ Reply(<<r, Told(irc, c, <<"MODE", c, sign, m>>)>>)
    BY <1>5 DEF SetMode
  <2> HIDE DEF r
  <2> QED BY <2>1, <2>2, RepliedInv
<1>6. ASSUME NEW c \in Chans, NEW n \in ToSet(Nicks) \union {Friend}, SetOp(c, n) PROVE IrcInv'
  <2> DEFINE r == [irc EXCEPT !.members[c][n] = ~@]
  <2>0. On(irc, c, n) /\ n \in People
    BY <1>6 DEF SetOp, People
  <2>1. Happens(irc, Told(irc, c, <<"OP", c, n, ~irc.members[c][n]>>), r)
    BY <1>1, <2>0, HappensOp
  <2>2. World("mode") /\ Reply(<<r, Told(irc, c, <<"OP", c, n, ~irc.members[c][n]>>)>>)
    BY <1>6 DEF SetOp
  <2> HIDE DEF r
  <2> QED BY <2>1, <2>2, RepliedInv
<1>7. ASSUME FriendComes PROVE IrcInv'
  <2> DEFINE r == [irc EXCEPT !.online = TRUE, !.news = ~irc.watched]
             lines == IF irc.watched THEN << <<"600">> >> ELSE <<>>
  <2>1. /\ r \in Servers /\ r.nick = irc.nick /\ r.gone = irc.gone /\ r.watched = irc.watched
        /\ r.members = irc.members /\ r.modes = irc.modes /\ r.ghosts = irc.ghosts
    BY <1>1 DEF Servers
  <2>2. irc.watched \in BOOLEAN /\ (irc.watched => irc.nick # NoNick)
    BY <1>1 DEF Sound, Servers
  <2>3. World("friend") /\ Reply(<<r, lines>>)
    BY <1>7 DEF FriendComes
  <2> HIDE DEF r
  <2>4. Happens(irc, lines, r)
    BY <1>1, <2>1, <2>2, HappensQuiet
  <2> HIDE DEF lines
  <2> QED BY <2>3, <2>4, RepliedInv
<1>8. ASSUME FriendQuits PROVE IrcInv'
  <2> DEFINE r == [GoneFrom(irc, Friend) EXCEPT !.online = FALSE, !.news = ~irc.watched /\ ~CommonWith(irc, Friend)]
             lines == (IF CommonWith(irc, Friend) THEN << <<"QUIT", Friend>> >> ELSE <<>>)
                      \o (IF irc.watched THEN << <<"601">> >> ELSE <<>>)
  <2>1. /\ GoneFrom(irc, Friend) \in Servers /\ GoneFrom(irc, Friend).nick = irc.nick
        /\ GoneFrom(irc, Friend).gone = irc.gone /\ GoneFrom(irc, Friend).ghosts = irc.ghosts
        /\ GoneFrom(irc, Friend).watched = irc.watched
    BY <1>1, GoneFromIs
  <2>2. CommonWith(irc, Friend) \in BOOLEAN /\ irc.watched \in BOOLEAN /\ (irc.watched => irc.nick # NoNick)
    BY <1>1 DEF Sound, Servers, CommonWith
  <2>3. (~irc.watched /\ ~CommonWith(irc, Friend)) \in BOOLEAN
    BY <2>2
  <2>4. /\ r \in Servers /\ r.nick = irc.nick /\ r.gone = irc.gone /\ r.watched = irc.watched
        /\ r.members = GoneFrom(irc, Friend).members /\ r.modes = GoneFrom(irc, Friend).modes /\ r.ghosts = irc.ghosts
    BY <2>1, <2>3 DEF Servers
  <2>5. World("friend") /\ Reply(<<r, lines>>)
    BY <1>8 DEF FriendQuits
  <2>6. Friend \in People /\ Friend # irc.nick
    BY <1>1, NamesAssumption DEF Servers, People
  <2> HIDE DEF r
  <2>7. Happens(irc, lines, r)
    BY <1>1, <2>2, <2>4, <2>6, HappensGone
  <2> HIDE DEF lines
  <2> QED BY <2>5, <2>7, RepliedInv
<1>9. ASSUME NEW n \in irc.ghosts, GhostQuits(n) PROVE IrcInv'
  <2> DEFINE r == [GoneFrom(irc, n) EXCEPT !.ghosts = @ \ {n}]
             lines == IF CommonWith(irc, n) THEN << <<"QUIT", n>> >> ELSE <<>>
  <2>1. /\ GoneFrom(irc, n) \in Servers /\ GoneFrom(irc, n).nick = irc.nick
        /\ GoneFrom(irc, n).gone = irc.gone /\ GoneFrom(irc, n).ghosts = irc.ghosts
        /\ GoneFrom(irc, n).watched = irc.watched
    BY <1>1, GoneFromIs
  <2>2. /\ r \in Servers /\ r.nick = irc.nick /\ r.gone = irc.gone /\ r.watched = irc.watched
        /\ r.members = GoneFrom(irc, n).members /\ r.modes = GoneFrom(irc, n).modes /\ r.ghosts = irc.ghosts \ {n}
    BY <2>1 DEF Servers
  <2>3. n \in People /\ n # irc.nick
    BY <1>1 DEF Sound, Servers, People
  <2>4. World("ghost") /\ Reply(<<r, lines>>)
    BY <1>9 DEF GhostQuits
  <2> HIDE DEF r
  <2>5. Happens(irc, lines \o (IF FALSE THEN << <<"601">> >> ELSE <<>>), r)
    BY <1>1, <2>2, <2>3, HappensGone
  <2>6. lines \o (IF FALSE THEN << <<"601">> >> ELSE <<>>) = lines
    OBVIOUS
  <2> HIDE DEF lines
  <2> QED BY <2>4, <2>5, <2>6, RepliedInv
<1> QED BY <1>2, <1>3, <1>4, <1>5, <1>6, <1>7, <1>8, <1>9 DEF Others


-----------------------------------------------------------------------------
(* What the client does by itself.                                         *)
LEMMA TabsKeep ==
    ASSUME NEW ts, Good(ts), NEW ts2, ts2 = [i \in DOMAIN ts |-> ts2[i]],
           \A i \in DOMAIN ts : /\ ts2[i] \in Tabs /\ ts2[i].channel = ts[i].channel /\ ViewOf(ts2[i]) = ViewOf(ts[i])
    PROVE  /\ Good(ts2) /\ \A c \in Chans : ViewIn(ts2, c) = ViewIn(ts, c)
           /\ (\A i \in DOMAIN ts : ts2[i].doing_who => ts[i].doing_who) => WaitsIn(ts2) \subseteq WaitsIn(ts)
<1>1. /\ Good(ts2)
      /\ \A c \in Chans :
            \/ ViewIn(ts, c) = Absent /\ ViewIn(ts2, c) = Absent
            \/ \E i \in DOMAIN ts : ts[i].channel = c /\ ViewIn(ts, c) = ViewOf(ts[i]) /\ ViewIn(ts2, c) = ViewOf(ts2[i])
      /\ (\A i \in DOMAIN ts : ts2[i].doing_who => ts[i].doing_who) => WaitsIn(ts2) \subseteq WaitsIn(ts)
  BY AllTabs
<1> QED BY <1>1

LEMMA MadeOf ==
    ASSUME NEW S, NEW T, NEW chans \in Seq(S), NEW f, f = [i \in DOMAIN chans |-> f[i]],
           \A i \in DOMAIN chans : f[i] \in T
    PROVE  f \in Seq(T) /\ DOMAIN f = DOMAIN chans
<1>1. DOMAIN chans = 1..Len(chans) /\ Len(chans) \in Nat
  OBVIOUS
<1>2. f \in [1..Len(chans) -> T]
  BY <1>1
<1> QED BY <1>1, <1>2

LEMMA AsksAre ==
    /\ \A c \in Chans : /\ <<"JOIN", c>> \in Requests /\ <<"PART", c>> \in Requests /\ <<"NAMES", c>> \in Requests
                        /\ <<"MODE", c>> \in Questions /\ <<"WHO", c>> \in Questions
    /\ \A n \in ToSet(Nicks) : <<"NICK", n>> \in Requests
    /\ \A b \in BOOLEAN : <<"AWAY", b>> \in Requests /\ <<"WATCH", b>> \in Requests
    /\ <<"IDENTIFY">> \in Requests /\ <<"ISON">> \in Requests
<1>1. \A c \in Chans : <<"JOIN", c>> \in Requests /\ <<"PART", c>> \in Requests /\ <<"NAMES", c>> \in Requests
  BY DEF Requests
<1>2. \A c \in Chans : <<"MODE", c>> \in Questions /\ <<"WHO", c>> \in Questions
  BY DEF Questions
<1>3. \A n \in ToSet(Nicks) : <<"NICK", n>> \in Requests
  BY DEF Requests
<1>4. \A b \in BOOLEAN : <<"AWAY", b>> \in Requests /\ <<"WATCH", b>> \in Requests
  BY DEF Requests
<1>5. <<"IDENTIFY">> \in Requests /\ <<"ISON">> \in Requests
  BY DEF Requests
<1> QED BY <1>1, <1>2, <1>3, <1>4, <1>5

LEMMA JoinListIs ==
    ASSUME NEW chans \in Seq(Chans)
    PROVE  irc_join_list(chans) \in Seq(Requests)
<1> DEFINE f == irc_join_list(chans)
<1>1. \A i \in DOMAIN chans : chans[i] \in Chans
  OBVIOUS
<1>2. f = [i \in DOMAIN chans |-> f[i]] /\ \A i \in DOMAIN chans : f[i] = <<"JOIN", chans[i]>>
  BY DEF irc_join_list
<1> HIDE DEF f
<1>3. \A i \in DOMAIN chans : f[i] \in Requests
  BY <1>1, <1>2, AsksAre
<1>4. f \in Seq(Requests)
  BY <1>2, <1>3, MadeOf
<1> QED BY <1>4 DEF f

LEMMA StatusIs ==
    ASSUME NEW chans \in Seq(Chans)
    PROVE  irc_away_status(chans) \in Seq(Questions) /\ \A c \in ToSet(chans) : <<"WHO", c>> \in ToSet(irc_away_status(chans))
<1> DEFINE f == irc_away_status(chans)
<1>1. \A i \in DOMAIN chans : chans[i] \in Chans
  OBVIOUS
<1>2. f = [i \in DOMAIN chans |-> f[i]] /\ \A i \in DOMAIN chans : f[i] = <<"WHO", chans[i]>>
  BY DEF irc_away_status
<1> HIDE DEF f
<1>3. \A i \in DOMAIN chans : f[i] \in Questions
  BY <1>1, <1>2, AsksAre
<1>4. f \in Seq(Questions) /\ DOMAIN f = DOMAIN chans
  BY <1>2, <1>3, MadeOf
<1>5. \A c \in ToSet(chans) : <<"WHO", c>> \in ToSet(f)
  BY <1>2, <1>4 DEF ToSet
<1> QED BY <1>4, <1>5 DEF f

\* The JOINs that wait for the end of the login.
LEMMA AutojoinKeeps ==
    ASSUME Typed, NEW after \in Seq(Requests), check_autojoin_channels(after)
    PROVE  /\ \E urgent : Asked(urgent, <<>>)
           /\ Good(tabs') /\ \A c \in Chans : ViewIn(tabs', c) = ViewIn(tabs, c)
           /\ WaitsIn(tabs') \subseteq WaitsIn(tabs)
<1>1. Good(tabs) /\ tabs \in Seq(Tabs) /\ serv.autojoin \in Seq(Chans)
  BY DEF Typed, Good, Servs
<1>2. \A i \in DOMAIN tabs : tabs[i] \in Tabs
  BY <1>1
<1>3. Rejoins \in Seq(Chans)
  <2> DEFINE f == [i \in DOMAIN tabs |-> tabs[i].willjoinchannel]
  <2>1. \A i \in DOMAIN tabs : f[i] \in Chans \union {None}
    BY <1>2 DEF Tabs
  <2>2. f = [i \in DOMAIN tabs |-> f[i]]
    OBVIOUS
  <2>3. Rejoins = Named(f)
    BY DEF Rejoins
  <2> HIDE DEF f
  <2>4. f \in Seq(Chans \union {None})
    BY <1>1, <2>1, <2>2, MadeOf
  <2> QED BY <2>3, <2>4, NamedAre
<1>4. irc_join_list(serv.autojoin) \in Seq(Requests) /\ irc_join_list(Rejoins) \in Seq(Requests)
  BY <1>1, <1>3, JoinListIs
<1> DEFINE urgent == irc_join_list(serv.autojoin) \o irc_join_list(Rejoins) \o after
<1>5. urgent \in Seq(Requests)
  BY <1>4, BothIn
<1>6. SendLines(urgent, <<>>)
  BY DEF check_autojoin_channels
<1>7. <<>> \in Seq(Questions)
  OBVIOUS
<1> HIDE DEF urgent
<1>8. Asked(urgent, <<>>)
  BY <1>5, <1>6, <1>7, SendsMore
<1>9. tabs' = [i \in DOMAIN tabs |-> IF tabs[i].willjoinchannel = None THEN tabs[i]
               ELSE [tabs[i] EXCEPT !.waitchannel = tabs[i].willjoinchannel, !.willjoinchannel = None]]
  BY DEF check_autojoin_channels, InAll
<1>10. tabs' = [i \in DOMAIN tabs |-> tabs'[i]]
  BY <1>9
<1>11. ASSUME NEW i \in DOMAIN tabs
       PROVE  /\ tabs'[i] \in Tabs /\ tabs'[i].channel = tabs[i].channel /\ tabs'[i].doing_who = tabs[i].doing_who
              /\ ViewOf(tabs'[i]) = ViewOf(tabs[i])
  <2> DEFINE t == tabs[i]
             t2 == tabs'[i]
  <2>0. t \in Tabs /\ t2 = IF t.willjoinchannel = None THEN t
                           ELSE [t EXCEPT !.waitchannel = t.willjoinchannel, !.willjoinchannel = None]
    BY <1>2, <1>9
  <2> HIDE DEF t, t2
  <2>1. /\ t2 \in Tabs /\ t2.channel = t.channel /\ t2.doing_who = t.doing_who /\ t2.users = t.users
        /\ t2.end_of_names = t.end_of_names /\ t2.ignore_mode = t.ignore_mode /\ t2.modes = t.modes
    BY <2>0 DEF Tabs
  <2>2. ViewOf(t2) = ViewOf(t)
    BY <2>1 DEF ViewOf
  <2> QED BY <2>1, <2>2 DEF t, t2
<1> QED BY <1>1, <1>8, <1>10, <1>11, TabsKeep

LEMMA JoinTimeoutInv ==
    ASSUME IrcInv, JoinTimeout
    PROVE  IrcInv'
<1>1. Typed
  BY DEF IrcInv
<1>2. <<>> \in Seq(Requests) /\ check_autojoin_channels(<<>>)
  BY DEF JoinTimeout
<1>3. /\ Good(tabs') /\ \A c \in Chans : ViewIn(tabs', c) = ViewIn(tabs, c)
      /\ WaitsIn(tabs') \subseteq WaitsIn(tabs)
  BY <1>1, <1>2, AutojoinKeeps
<1>4. PICK urgent : Asked(urgent, <<>>)
  BY <1>1, <1>2, AutojoinKeeps
<1>5. serv' = [serv EXCEPT !.joindelay = FALSE, !.autojoin = <<>>] /\ UNCHANGED <<notify, inbox, irc, kept>>
  BY DEF JoinTimeout
<1>6. serv' \in Servs
  <2>1. <<>> \in Seq(Chans) /\ serv \in Servs
    BY <1>1 DEF Typed
  <2> QED BY <1>5, <2>1 DEF Servs
<1>7. Keeps
  BY <1>1, <1>3, <1>5, <1>6 DEF Keeps, Typed, Servs
<1> QED BY <1>4, <1>7, KeepsInv

LEMMA AwayCheckInv ==
    ASSUME IrcInv, away_check
    PROVE  IrcInv'
<1> DEFINE joined == {i \in DOMAIN tabs : tabs[i].channel # None}
           rest == {i \in joined : ~tabs[i].done_away_check}
           due == {i \in IF rest = {} THEN joined ELSE rest : ~tabs[i].doing_who}
           chans == [i \in DOMAIN tabs |-> IF i \in due THEN tabs[i].channel ELSE None]
           asked == Named(chans)
<1>1. Good(tabs) /\ tabs \in Seq(Tabs) /\ serv.state = "connected" /\ \A i \in DOMAIN tabs : tabs[i] \in Tabs
  <2>1. Good(tabs) /\ tabs \in Seq(Tabs)
    BY DEF IrcInv, Typed, Good
  <2>2. serv.state = "connected"
    BY DEF away_check
  <2>3. \A i \in DOMAIN tabs : tabs[i] \in Tabs
    BY <2>1
  <2> QED BY <2>1, <2>2, <2>3
<1>2. due \subseteq joined
  OBVIOUS
<1>3. \A i \in due : i \in DOMAIN tabs /\ tabs[i].channel # None
  BY <1>2
<1>4. /\ tabs' = [i \in DOMAIN tabs |-> [tabs[i] EXCEPT !.done_away_check = i \in due \/ (@ /\ rest # {}),
                                                         !.doing_who = i \in due \/ @]]
      /\ SendLines(<<>>, irc_away_status(asked)) /\ UNCHANGED <<serv, notify, inbox, irc, kept>>
  BY DEF away_check
<1>5. chans = [i \in DOMAIN tabs |-> chans[i]] /\ \A i \in DOMAIN tabs : chans[i] = IF i \in due THEN tabs[i].channel ELSE None
  OBVIOUS
<1> DEFINE some == rest # {}
<1>6. some \in BOOLEAN
  OBVIOUS
<1>7. tabs' = [i \in DOMAIN tabs |-> [tabs[i] EXCEPT !.done_away_check = i \in due \/ (tabs[i].done_away_check /\ some),
                                                      !.doing_who = i \in due \/ tabs[i].doing_who]]
  <2> HIDE DEF due
  <2>1. \A i \in DOMAIN tabs : tabs[i] \in Tabs
    BY <1>1
  <2> QED BY <1>4, <2>1 DEF Tabs
<1> HIDE DEF rest, joined, due, chans, asked, some
<1>8. chans \in Seq(Chans \union {None}) /\ DOMAIN chans = DOMAIN tabs
  <2>1. \A i \in DOMAIN tabs : chans[i] \in Chans \union {None}
    BY <1>1, <1>5 DEF Tabs
  <2> QED BY <1>1, <1>5, <2>1, MadeOf
<1>9. asked \in Seq(Chans) /\ ToSet(asked) = ToSet(chans) \ {None}
  BY <1>8, NamedAre DEF asked
<1>10. irc_away_status(asked) \in Seq(Questions) /\ \A c \in ToSet(asked) : <<"WHO", c>> \in ToSet(irc_away_status(asked))
  BY <1>9, StatusIs
<1>11. Asked(<<>>, irc_away_status(asked))
  <2>1. <<>> \in Seq(Requests) /\ Typed
    BY DEF IrcInv
  <2> QED BY <1>4, <1>10, <2>1, SendsMore
<1>12. \A i \in due : <<"WHO", tabs[i].channel>> \in ToSet(slow')
  <2> SUFFICES ASSUME NEW i \in due PROVE <<"WHO", tabs[i].channel>> \in ToSet(slow')
    OBVIOUS
  <2>1. chans[i] = tabs[i].channel /\ i \in DOMAIN chans
    BY <1>3, <1>5, <1>8
  <2>2. tabs[i].channel \in ToSet(chans)
    BY <2>1 DEF ToSet
  <2>3. tabs[i].channel \in ToSet(asked)
    BY <1>3, <1>9, <2>2
  <2> QED BY <1>1, <1>10, <1>11, <2>3 DEF Asked
<1>13. tabs' = [i \in DOMAIN tabs |-> tabs'[i]] /\ DOMAIN tabs' = DOMAIN tabs
  BY <1>7
<1>14. ASSUME NEW i \in DOMAIN tabs
       PROVE  /\ tabs'[i] \in Tabs /\ tabs'[i].channel = tabs[i].channel /\ ViewOf(tabs'[i]) = ViewOf(tabs[i])
              /\ tabs'[i].doing_who => i \in due \/ tabs[i].doing_who
  <2> DEFINE t == tabs[i]
             t2 == tabs'[i]
             a == i \in due \/ (t.done_away_check /\ some)
             b == i \in due \/ t.doing_who
  <2>0. t \in Tabs /\ t2 = [t EXCEPT !.done_away_check = a, !.doing_who = b]
    BY <1>1, <1>7
  <2>1. a \in BOOLEAN /\ b \in BOOLEAN
    OBVIOUS
  <2> HIDE DEF t, t2, a, b
  <2>2. /\ t2 \in Tabs /\ t2.channel = t.channel /\ t2.doing_who = b /\ t2.users = t.users
        /\ t2.end_of_names = t.end_of_names /\ t2.ignore_mode = t.ignore_mode /\ t2.modes = t.modes
    BY <2>0, <2>1 DEF Tabs
  <2>3. ViewOf(t2) = ViewOf(t)
    BY <2>2 DEF ViewOf
  <2>4. t2.doing_who => i \in due \/ t.doing_who
    BY <2>2 DEF b
  <2> QED BY <2>2, <2>3, <2>4 DEF t, t2
<1>15. Good(tabs') /\ \A c \in Chans : ViewIn(tabs', c) = ViewIn(tabs, c)
  BY <1>1, <1>13, <1>14, TabsKeep
<1>16. ASSUME NEW c \in WaitsIn(tabs') PROVE c \in WaitsIn(tabs) \/ <<"WHO", c>> \in ToSet(slow')
  <2>1. PICK i \in DOMAIN tabs : tabs'[i].channel = c /\ c # None /\ tabs'[i].doing_who
    BY <1>13 DEF WaitsIn
  <2>2. tabs[i].channel = c /\ (i \in due \/ tabs[i].doing_who)
    BY <1>14, <2>1
  <2>3. tabs[i].doing_who => c \in WaitsIn(tabs)
    BY <2>1, <2>2 DEF WaitsIn
  <2> QED BY <1>12, <2>2, <2>3
<1>17. Keeps
  BY <1>4, <1>15, <1>16 DEF Keeps, IrcInv, Typed
<1> QED BY <1>11, <1>17, KeepsInv

LEMMA OneRequest ==
    ASSUME NEW x \in Requests
    PROVE  <<x>> \in Seq(Requests)
OBVIOUS

\* Commands that only send lines.
LEMMA SaidInv ==
    ASSUME IrcInv, NEW urgent \in Seq(Requests), SendLines(urgent, <<>>),
           notify' \in Notes, kept' \subseteq kept, UNCHANGED <<tabs, serv, inbox, irc>>
    PROVE  IrcInv'
<1>1. Typed /\ <<>> \in Seq(Questions)
  BY DEF IrcInv
<1>2. Asked(urgent, <<>>)
  BY <1>1, SendsMore
<1>3. Keeps
  BY <1>1 DEF Keeps, Typed
<1> QED BY <1>2, <1>3, KeepsInv

LEMMA ChecklistInv ==
    ASSUME IrcInv, notify_checklist
    PROVE  IrcInv'
<1>1. notify_ison \in Seq(Requests)
  BY AsksAre DEF notify_ison
<1> QED BY <1>1, SaidInv DEF notify_checklist, IrcInv, Typed

\* A tab that shows no channel waits for another one.
LEMMA JoinInv ==
    ASSUME IrcInv, NEW c \in Chans, cmd_join(c)
    PROVE  IrcInv'
<1>1. irc_join(c) \in Seq(Requests)
  <2>1. <<"JOIN", c>> \in Requests
    BY AsksAre
  <2> QED BY <2>1, OneRequest DEF irc_join
<1>2. Typed /\ <<>> \in Seq(Questions) /\ SendLines(irc_join(c), <<>>) /\ UNCHANGED <<inbox, irc, serv, notify, kept>>
  BY DEF IrcInv, cmd_join, Command
<1>3. Asked(irc_join(c), <<>>)
  BY <1>1, <1>2, SendsMore
<1>4. CASE tabs' = tabs
  <2>1. Keeps
    BY <1>2, <1>4 DEF Keeps, Typed
  <2> QED BY <1>3, <2>1, KeepsInv
<1>5. ASSUME NEW k \in DOMAIN tabs, tabs' = [tabs EXCEPT ![k].waitchannel = c] PROVE IrcInv'
  <2>1. Good(tabs) /\ \A i \in DOMAIN tabs : tabs[i] \in Tabs
    BY <1>2 DEF Typed, Good
  <2>2. tabs' = [i \in DOMAIN tabs |-> tabs'[i]]
    BY <1>5
  <2>3. ASSUME NEW i \in DOMAIN tabs
        PROVE  /\ tabs'[i] \in Tabs /\ tabs'[i].channel = tabs[i].channel /\ ViewOf(tabs'[i]) = ViewOf(tabs[i])
               /\ tabs'[i].doing_who = tabs[i].doing_who
    <3>1. tabs'[i] = IF i = k THEN [tabs[i] EXCEPT !.waitchannel = c] ELSE tabs[i]
      BY <1>5
    <3>2. tabs[i] \in Tabs
      BY <2>1
    <3>3. CASE i # k
      BY <3>1, <3>2, <3>3
    <3>4. CASE i = k
      <4>1. PICK t : t = tabs[i]
        OBVIOUS
      <4>2. PICK t2 : t2 = [t EXCEPT !.waitchannel = c]
        OBVIOUS
      <4>3. /\ t2 \in Tabs /\ t2.channel = t.channel /\ t2.doing_who = t.doing_who /\ t2.users = t.users
            /\ t2.end_of_names = t.end_of_names /\ t2.ignore_mode = t.ignore_mode /\ t2.modes = t.modes
        BY <3>2, <4>1, <4>2 DEF Tabs
      <4>4. ViewOf(t2) = ViewOf(t)
        BY <4>3 DEF ViewOf
      <4> QED BY <3>1, <3>4, <4>1, <4>2, <4>3, <4>4
    <3> QED BY <3>3, <3>4
  <2>4. /\ Good(tabs') /\ \A d \in Chans : ViewIn(tabs', d) = ViewIn(tabs, d)
        /\ WaitsIn(tabs') \subseteq WaitsIn(tabs)
    BY <2>1, <2>2, <2>3, TabsKeep
  <2>5. Keeps
    BY <1>2, <2>4 DEF Keeps, Typed
  <2> QED BY <1>3, <2>5, KeepsInv
<1> QED BY <1>4, <1>5 DEF cmd_join

LEMMA NickInv ==
    ASSUME IrcInv, NEW n \in ToSet(Nicks), cmd_nick(n)
    PROVE  IrcInv'
<1>1. Typed /\ UNCHANGED <<inbox, irc, notify, kept>>
  BY DEF IrcInv, cmd_nick, Command
<1>2. CASE serv.state = "connected"
  <2>1. <<"NICK", n>> \in Requests
    BY AsksAre
  <2>2. irc_change_nick(n) \in Seq(Requests)
    BY <2>1, OneRequest DEF irc_change_nick
  <2>3. SendLines(irc_change_nick(n), <<>>) /\ UNCHANGED <<tabs, serv>>
    BY <1>2 DEF cmd_nick
  <2>4. notify' \in Notes
    BY <1>1 DEF Typed
  <2> QED BY <1>1, <2>2, <2>3, <2>4, SaidInv
<1>3. CASE serv.state # "connected"
  <2>1. serv' = [serv EXCEPT !.nick = n] /\ UNCHANGED <<fast, slow>> /\ inbound_newnick(serv.nick, n)
    BY <1>3 DEF cmd_nick, Silent
  <2>2. irc.nick = NoNick /\ fast = <<>> /\ slow = <<>> /\ inbox = <<>> /\ Sound(irc)
    BY <1>3 DEF IrcInv, Linked, Typed
  <2>3. Good(tabs) /\ tabs \in Seq(Tabs) /\ serv \in Servs
    BY <1>1 DEF Typed, Good
  <2>3a. \A i \in DOMAIN tabs : tabs[i] \in Tabs
    BY <2>3
  <2>4. (\A c \in Chans : ViewIn(tabs, c) = Absent) /\ (\A i \in DOMAIN tabs : tabs[i].channel = None) /\ WaitsIn(tabs) = {}
    BY <1>1, <2>2, NoneShown DEF IrcInv
  <2>5. tabs' = [i \in DOMAIN tabs |-> userlist_change(tabs[i], serv.nick, n)]
    BY <2>1 DEF inbound_newnick, InAll
  <2>6. tabs' = [i \in DOMAIN tabs |-> tabs'[i]] /\ DOMAIN tabs' = DOMAIN tabs
    BY <2>5
  <2>7. ASSUME NEW i \in DOMAIN tabs PROVE tabs'[i] \in Tabs /\ tabs'[i].channel = tabs[i].channel
    <3>1. tabs[i].users \in Lists /\ n \in People
      BY <2>3a DEF Tabs, People
    <3>2. RenamedIn(tabs[i].users, serv.nick, n) \in Lists
      BY <3>1, RenamedList
    <3>3. tabs'[i] = [tabs[i] EXCEPT !.users = RenamedIn(tabs[i].users, serv.nick, n)]
      BY <2>5 DEF userlist_change, RenamedIn
    <3> QED BY <2>3a, <3>2, <3>3 DEF Tabs
  <2>8. Good(tabs')
    BY <2>3, <2>6, <2>7, AllTabs
  <2>9. \A i \in DOMAIN tabs' : tabs'[i].channel = None
    BY <2>4, <2>6, <2>7
  <2>10. WaitsIn(tabs') = {} /\ \A c \in Chans : ViewIn(tabs', c) = Absent
    <3>1. WaitsIn(tabs') = {}
      BY <2>9 DEF WaitsIn
    <3>2. \A c \in Chans : \A i \in DOMAIN tabs' : tabs'[i].channel # c
      BY <2>9, NamesAssumption
    <3> QED BY <3>1, <3>2, ViewAbsent
  <2>11. serv' \in Servs /\ serv'.state = serv.state /\ serv'.end_of_motd = serv.end_of_motd /\ serv'.is_away = serv.is_away
    BY <2>1, <2>3 DEF Servs
  <2>12. Typed'
    BY <1>1, <2>1, <2>8, <2>11 DEF Typed
  <2>13. Linked'
    BY <1>1, <2>1, <2>11 DEF Linked, IrcInv
  <2>14. ASSUME NEW c \in Chans
         PROVE  Follows(c, State(serv'.nick, ViewIn(tabs', c)), inbox', irc',
                        <<"PART", c>> \in ToSet(fast'), <<"MODE", c>> \in ToSet(slow'))
    <3> DEFINE part == <<"PART", c>> \in ToSet(fast')
               ask == <<"MODE", c>> \in ToSet(slow')
    <3>1. part \in BOOLEAN /\ ask \in BOOLEAN
      OBVIOUS
    <3> HIDE DEF part, ask
    <3>2. Follows(c, State(serv'.nick, Absent), <<>>, irc, part, ask)
      BY <2>2, <3>1, Offline
    <3> QED BY <1>1, <2>2, <2>10, <3>2 DEF part, ask
  <2>15. Tracked'
    BY <2>14 DEF Tracked
  <2>16. Waited'
    BY <2>10 DEF Waited
  <2> QED BY <2>12, <2>13, <2>15, <2>16 DEF IrcInv
<1> QED BY <1>2, <1>3

\* A closed tab parts its channel, of which the client then need know no more.
LEMMA CloseInv ==
    ASSUME IrcInv, NEW k \in DOMAIN tabs, Close(k)
    PROVE  IrcInv'
<1> DEFINE d == tabs[k].channel
           urgent == IF d # None THEN irc_part(d) ELSE <<>>
<1>1. Typed /\ UNCHANGED <<inbox, irc, serv, notify>> /\ kept' \subseteq kept /\ tabs' = RemoveAt(tabs, k)
  BY DEF IrcInv, Close, Command
<1>2. Good(tabs) /\ d \in Chans \union {None}
  <2>1. tabs \in Seq(Tabs) /\ Good(tabs)
    BY <1>1 DEF Typed, Good
  <2>2. tabs[k] \in Tabs
    BY <2>1
  <2> QED BY <2>1, <2>2 DEF Tabs
<1>3. urgent \in Seq(Requests) /\ (d # None => <<"PART", d>> \in ToSet(urgent))
  <2>1. CASE d # None
    <3>1. <<"PART", d>> \in Requests
      BY <1>2, <2>1, AsksAre
    <3>2. urgent = << <<"PART", d>> >>
      BY <2>1 DEF irc_part
    <3> HIDE DEF urgent, d
    <3>3. urgent \in Seq(Requests) /\ urgent[1] = <<"PART", d>> /\ DOMAIN urgent = 1..1
      BY <3>1, <3>2, OneRequest
    <3> QED BY <3>3 DEF ToSet
  <2>2. CASE d = None
    BY <2>2
  <2> QED BY <2>1, <2>2
<1>4. SendLines(urgent, <<>>) /\ <<>> \in Seq(Questions)
  BY DEF Close
<1>5. Asked(urgent, <<>>)
  <2> HIDE DEF urgent, d
  <2> QED BY <1>1, <1>3, <1>4, SendsMore
<1>6. /\ Good(tabs')
      /\ \A c \in Chans : c # d => ViewIn(tabs', c) = ViewIn(tabs, c)
      /\ d # None => ViewIn(tabs', d) = Absent /\ ViewIn(tabs, d).shown
      /\ WaitsIn(tabs') \subseteq WaitsIn(tabs)
  BY <1>1, <1>2, ClosedTab
<1> HIDE DEF urgent, d
<1>7. d # None => serv.state = "connected"
  <2> SUFFICES ASSUME d # None, serv.state # "connected" PROVE FALSE
    OBVIOUS
  <2>1. irc.nick = NoNick
    BY DEF IrcInv, Linked
  <2>2. ViewIn(tabs, d) = Absent
    BY <1>1, <1>2, <2>1, NoneShown DEF IrcInv
  <2> QED BY <1>6, <2>2, ViewOfIs
<1>8. Typed'
  BY <1>1, <1>5, <1>6 DEF Typed, Asked
<1>9. Linked'
  BY <1>1, <1>5 DEF IrcInv, Linked, Asked
<1>10. Tracked'
  <2> SUFFICES ASSUME NEW c \in Chans
               PROVE  Follows(c, State(serv.nick, ViewIn(tabs', c)), inbox, irc,
                              <<"PART", c>> \in ToSet(fast'), <<"MODE", c>> \in ToSet(slow'))
    BY <1>1 DEF Tracked
  <2> DEFINE part == <<"PART", c>> \in ToSet(fast)
             ask == <<"MODE", c>> \in ToSet(slow)
             part2 == <<"PART", c>> \in ToSet(fast')
             ask2 == <<"MODE", c>> \in ToSet(slow')
             s == State(serv.nick, ViewIn(tabs, c))
             s2 == State(serv.nick, ViewIn(tabs', c))
  <2>1. Follows(c, s, inbox, irc, part, ask)
    BY DEF IrcInv, Tracked
  <2>2. (part => part2) /\ (ask => ask2)
    BY <1>5 DEF Asked
  <2>3. part \in BOOLEAN /\ part2 \in BOOLEAN /\ ask \in BOOLEAN /\ ask2 \in BOOLEAN
    OBVIOUS
  <2>4. c = d => part2
    BY <1>2, <1>3, <1>5, <1>7, NamesAssumption DEF Asked
  <2>5. s.nick = serv.nick /\ (c # d => s2 = s) /\ (c = d => s2 = State(serv.nick, Absent))
    BY <1>6, NamesAssumption DEF State
  <2>6. inbox \in Seq(Replies)
    BY <1>1 DEF Typed
  <2> HIDE DEF part, ask, part2, ask2, s, s2
  <2>7. CASE c # d
    BY <2>1, <2>2, <2>3, <2>5, <2>7, FollowsMore DEF part2, ask2, s2
  <2>8. CASE c = d
    <3>1. Follows(c, State(s.nick, Absent), inbox, irc, TRUE, ask)
      BY <2>1, <2>3, <2>6, FollowsClosed
    <3>2. part2 = TRUE
      BY <2>3, <2>4, <2>8
    <3>3. Follows(c, State(s.nick, Absent), inbox, irc, part2, ask2)
      BY <2>2, <2>3, <3>1, <3>2, FollowsMore
    <3> QED BY <2>5, <2>8, <3>3 DEF part2, ask2, s2
  <2> QED BY <2>7, <2>8
<1>11. Waited'
  BY <1>1, <1>5, <1>6 DEF IrcInv, Waited, Asked
<1> QED BY <1>8, <1>9, <1>10, <1>11 DEF IrcInv

LEMMA UserInv ==
    ASSUME IrcInv, User
    PROVE  IrcInv'
<1>1. Typed /\ notify \in Notes /\ <<>> \in Seq(Requests)
  BY DEF IrcInv, Typed
<1>2. ASSUME NEW c \in Chans, cmd_part(c) PROVE IrcInv'
  <2>1. <<"PART", c>> \in Requests
    BY AsksAre
  <2>2. irc_part(c) \in Seq(Requests)
    BY <2>1, OneRequest DEF irc_part
  <2>3. SendLines(irc_part(c), <<>>) /\ UNCHANGED <<tabs, serv, notify, inbox, irc>> /\ kept' \subseteq kept
    BY <1>2 DEF cmd_part, Command
  <2> QED BY <1>1, <2>2, <2>3, SaidInv
<1>3. ASSUME NEW c \in Chans, cmd_cycle(c) PROVE IrcInv'
  <2>1. <<"PART", c>> \in Requests /\ <<"JOIN", c>> \in Requests
    BY AsksAre
  <2>2. irc_part(c) \in Seq(Requests) /\ irc_join(c) \in Seq(Requests)
    BY <2>1, OneRequest DEF irc_part, irc_join
  <2>3. irc_cycle(c) \in Seq(Requests)
    BY <2>2, BothIn DEF irc_cycle
  <2>4. SendLines(irc_cycle(c), <<>>) /\ UNCHANGED <<tabs, serv, notify, inbox, irc, kept>>
    BY <1>3 DEF cmd_cycle, Command
  <2> QED BY <1>1, <2>3, <2>4, SaidInv
<1>4. ASSUME NEW c \in Chans, cmd_names(c) PROVE IrcInv'
  <2>1. <<"NAMES", c>> \in Requests
    BY AsksAre
  <2>2. irc_names(c) \in Seq(Requests)
    BY <2>1, OneRequest DEF irc_names
  <2>3. SendLines(irc_names(c), <<>>) /\ UNCHANGED <<tabs, serv, notify, inbox, irc, kept>>
    BY <1>4 DEF cmd_names, Command
  <2> QED BY <1>1, <2>2, <2>3, SaidInv
<1>5. ASSUME NEW gone \in BOOLEAN, SendLines(irc_set_away(gone), <<>>), kept' \subseteq kept,
             UNCHANGED <<tabs, serv, notify, inbox, irc>>
      PROVE  IrcInv'
  <2>1. <<"AWAY", gone>> \in Requests
    BY AsksAre
  <2>2. irc_set_away(gone) \in Seq(Requests)
    BY <2>1, OneRequest DEF irc_set_away
  <2> QED BY <1>1, <1>5, <2>2, SaidInv
<1>6. ASSUME cmd_away PROVE IrcInv'
  <2>1. SendLines(irc_set_away(TRUE), <<>>) /\ UNCHANGED <<tabs, serv, notify, inbox, irc, kept>>
    BY <1>6 DEF cmd_away, Command
  <2> QED BY <1>5, <2>1
<1>7. ASSUME cmd_back PROVE IrcInv'
  <2>1. SendLines(irc_set_away(FALSE), <<>>) /\ UNCHANGED <<tabs, serv, notify, inbox, irc>> /\ kept' \subseteq kept
    BY <1>7 DEF cmd_back, Command
  <2> QED BY <1>5, <2>1
<1>8. ASSUME cmd_notify PROVE IrcInv'
  <2> DEFINE urgent == IF LoggedIn /\ serv.supports_watch THEN notify_watch(~notify.listed)
                       ELSE IF Asks /\ ~notify.listed THEN notify_ison ELSE <<>>
  <2>1. notify.listed \in BOOLEAN /\ (~notify.listed) \in BOOLEAN
    BY <1>1 DEF Notes
  <2>2. <<"WATCH", ~notify.listed>> \in Requests /\ <<"ISON">> \in Requests
    BY <2>1, AsksAre
  <2>3. notify_watch(~notify.listed) \in Seq(Requests) /\ notify_ison \in Seq(Requests)
    BY <2>2, OneRequest DEF notify_watch, notify_ison
  <2>4. urgent \in Seq(Requests)
    BY <1>1, <2>3
  <2>5. SendLines(urgent, <<>>) /\ UNCHANGED <<tabs, serv, inbox, irc, kept>> /\ notify' = [listed |-> ~notify.listed, ison |-> FALSE]
    BY <1>8 DEF cmd_notify, Command
  <2>6. notify' \in Notes
    BY <2>1, <2>5 DEF Notes
  <2> HIDE DEF urgent
  <2> QED BY <2>4, <2>5, <2>6, SaidInv
<1> QED BY <1>2, <1>3, <1>4, <1>6, <1>7, <1>8, JoinInv, NickInv, CloseInv DEF User

-----------------------------------------------------------------------------
(* The connection.                                                         *)
LEMMA AttemptInv ==
    ASSUME IrcInv, Attempt
    PROVE  IrcInv'
<1>1. /\ Typed /\ serv.state = "waiting" /\ fast' = <<>> /\ slow' = <<>> /\ UNCHANGED <<tabs, notify, inbox, irc, kept>>
      /\ serv' = [serv EXCEPT !.state = "connecting", !.nickcount = 1, !.end_of_motd = FALSE,
                              !.is_away = FALSE, !.supports_watch = FALSE]
  BY DEF IrcInv, Attempt
<1>2. irc.nick = NoNick /\ fast = <<>> /\ slow = <<>> /\ inbox = <<>> /\ ~irc.gone
  BY <1>1 DEF IrcInv, Linked
<1>3. serv' \in Servs /\ serv'.nick = serv.nick /\ serv'.state = "connecting" /\ ~serv'.end_of_motd /\ serv'.is_away = FALSE
  BY <1>1 DEF Typed, Servs
<1>4. <<>> \in Seq(Requests) /\ <<>> \in Seq(Questions)
  OBVIOUS
<1>5. Typed'
  BY <1>1, <1>3, <1>4 DEF Typed
<1>6. irc.gone = FALSE /\ Len(<<>>) = 0
  BY <1>1, <1>2 DEF Typed, Sound, Servers
<1>7. AwayRead(FALSE, <<>>, FALSE) /\ 1..Len(<<>>) = {}
  BY <1>6 DEF AwayRead
<1>8. Linked'
  BY <1>1, <1>2, <1>3, <1>6, <1>7 DEF Linked
<1>9. Tracked' /\ Waited'
  BY <1>1, <1>2, <1>3 DEF IrcInv, Tracked, Waited
<1> QED BY <1>5, <1>8, <1>9 DEF IrcInv

LEMMA ConnectedInv ==
    ASSUME IrcInv, server_connected
    PROVE  IrcInv'
<1>1. /\ Typed /\ serv.state = "connecting" /\ fast' = irc_change_nick(serv.nick) /\ UNCHANGED <<slow, tabs, notify, inbox, irc, kept>>
      /\ serv' = [serv EXCEPT !.state = "connected"]
  BY DEF IrcInv, server_connected
<1>2. irc.nick = NoNick /\ fast = <<>> /\ slow = <<>> /\ inbox = <<>> /\ Sound(irc)
  BY <1>1 DEF IrcInv, Linked, Typed
<1>3. /\ serv' \in Servs /\ serv'.nick = serv.nick /\ serv'.state = "connected" /\ serv'.end_of_motd = serv.end_of_motd
      /\ serv'.is_away = serv.is_away /\ serv.nick \in ToSet(Nicks)
  BY <1>1 DEF Typed, Servs
<1>4. <<"NICK", serv.nick>> \in Requests
  BY <1>3, AsksAre
<1>5. fast' \in Seq(Requests)
  BY <1>1, <1>4, OneRequest DEF irc_change_nick
<1>6. Typed'
  BY <1>1, <1>3, <1>5 DEF Typed
<1>7. Linked'
  BY <1>1, <1>2, <1>3 DEF IrcInv, Linked
<1>8. (\A c \in Chans : ViewIn(tabs, c) = Absent) /\ WaitsIn(tabs) = {}
  BY <1>1, <1>2, NoneShown DEF IrcInv
<1>9. Tracked'
  <2> SUFFICES ASSUME NEW c \in Chans
               PROVE  Follows(c, State(serv.nick, Absent), <<>>, irc, <<"PART", c>> \in ToSet(fast'), <<"MODE", c>> \in ToSet(slow'))
    BY <1>1, <1>2, <1>3, <1>8 DEF Tracked
  <2> DEFINE part == <<"PART", c>> \in ToSet(fast')
             ask == <<"MODE", c>> \in ToSet(slow')
  <2>1. part \in BOOLEAN /\ ask \in BOOLEAN
    OBVIOUS
  <2> HIDE DEF part, ask
  <2>2. Follows(c, State(serv.nick, Absent), <<>>, irc, part, ask)
    BY <1>2, <2>1, Offline
  <2> QED BY <2>2 DEF part, ask
<1>10. Waited'
  BY <1>1, <1>8 DEF Waited
<1> QED BY <1>6, <1>7, <1>9, <1>10 DEF IrcInv

LEMMA AttemptFailsInv ==
    ASSUME IrcInv, AttemptFails
    PROVE  IrcInv'
<1>1. /\ Typed /\ serv.state = "connecting" /\ serv' = WaitAgain /\ UNCHANGED <<tabs, notify, fast, slow, inbox, irc, kept>>
  BY DEF IrcInv, AttemptFails
<1>2. serv' \in Servs /\ serv'.nick = serv.nick /\ serv'.state = "waiting"
  BY <1>1 DEF Typed, Servs, WaitAgain
<1>3. Typed'
  BY <1>1, <1>2 DEF Typed
<1>4. Linked'
  BY <1>1, <1>2 DEF IrcInv, Linked
<1>5. Tracked' /\ Waited'
  BY <1>1, <1>2 DEF IrcInv, Tracked, Waited
<1> QED BY <1>3, <1>4, <1>5 DEF IrcInv

\* A tab after the connection broke
LEMMA LostTab ==
    ASSUME NEW t \in Tabs
    PROVE  Lose(t) \in Tabs /\ Lose(t).channel = None /\ ~Lose(t).doing_who
<1> DEFINE u == Marked(t)
<1>1. u \in Tabs
  <2>1. CASE t.channel = None \/ ~serv.end_of_motd
    BY <2>1 DEF Marked
  <2>2. CASE ~(t.channel = None \/ ~serv.end_of_motd)
    <3>1. Marked(t) = [t EXCEPT !.willjoinchannel = t.channel]
      BY <2>2 DEF Marked
    <3> QED BY <3>1 DEF Tabs
  <2> QED BY <2>1, <2>2
<1>2. Lose(t) = clear_channel(u)
  BY DEF Lose
<1> HIDE DEF u
<1>3. <<>> \in Lists
  BY NoOne
<1>4. clear_channel(u) \in Tabs /\ clear_channel(u).channel = None /\ ~clear_channel(u).doing_who
  BY <1>1, <1>3 DEF clear_channel, Tabs
<1> QED BY <1>2, <1>4

LEMMA CutIs ==
    ASSUME NEW r, Sound(r)
    PROVE  Sound(Cut(r)) /\ Cut(r).nick = NoNick /\ Cut(r).gone = FALSE
<1>1. r \in Servers
  BY DEF Sound
<1>2. /\ Cut(r) \in Servers /\ Cut(r).nick = NoNick /\ Cut(r).gone = FALSE /\ Cut(r).watched = FALSE
      /\ Cut(r).members = r.members /\ Cut(r).ghosts = r.ghosts \union ({r.nick} \ {NoNick})
  BY <1>1 DEF Cut, Servers
<1>3. NoNick \notin Cut(r).ghosts
  BY <1>1, <1>2, NamesAssumption DEF Servers
<1>4. \A c \in Chans : DOMAIN Cut(r).members[c] \subseteq Cut(r).ghosts \union {Cut(r).nick, Friend}
  BY <1>2 DEF Sound
<1> QED BY <1>2, <1>3, <1>4 DEF Sound

LEMMA BreaksInv ==
    ASSUME IrcInv, Breaks
    PROVE  IrcInv'
<1>1. /\ Typed /\ tabs' = [i \in DOMAIN tabs |-> Lose(tabs[i])] /\ notify' = [notify EXCEPT !.ison = FALSE]
      /\ serv' = WaitAgain /\ fast' = <<>> /\ slow' = <<>> /\ inbox' = <<>> /\ irc' = Cut(irc)
  BY DEF IrcInv, Breaks, auto_reconnect, InAll
<1>2. Good(tabs) /\ tabs \in Seq(Tabs) /\ serv \in Servs /\ notify \in Notes /\ Sound(irc)
  BY <1>1 DEF Typed, Good
<1>2a. \A i \in DOMAIN tabs : tabs[i] \in Tabs
  BY <1>2
<1>3. serv' \in Servs /\ serv'.state = "waiting"
  BY <1>1, <1>2 DEF WaitAgain, Servs
<1>4. Sound(irc') /\ irc'.nick = NoNick /\ irc'.gone = FALSE
  BY <1>1, <1>2, CutIs
<1>5. \A i \in DOMAIN tabs : tabs'[i] \in Tabs /\ tabs'[i].channel = None
  BY <1>1, <1>2a, LostTab
<1>6. tabs' \in Seq(Tabs) /\ DOMAIN tabs' = DOMAIN tabs
  <2>1. tabs' = [i \in DOMAIN tabs |-> tabs'[i]]
    BY <1>1
  <2> QED BY <1>2, <1>5, <2>1, MadeOf
<1>7. Good(tabs')
  BY <1>5, <1>6 DEF Good, DistinctIn
<1>8. kept' \subseteq Chans \union {Away}
  <2>1. \A i \in DOMAIN tabs : tabs[i].channel \in Chans \union {None} /\ tabs[i].willjoinchannel \in Chans \union {None}
    BY <1>2a DEF Tabs
  <2>2. kept' = (IF serv.end_of_motd THEN {tabs[i].channel : i \in DOMAIN tabs} \ {None} ELSE {})
                \union ({tabs[i].willjoinchannel : i \in DOMAIN tabs} \ {None})
                \union (IF serv.is_away THEN {Away} ELSE {})
    BY DEF Breaks
  <2>3. {tabs[i].channel : i \in DOMAIN tabs} \ {None} \subseteq Chans
    BY <2>1
  <2>4. {tabs[i].willjoinchannel : i \in DOMAIN tabs} \ {None} \subseteq Chans
    BY <2>1
  <2> QED BY <2>2, <2>3, <2>4
<1>9. <<>> \in Seq(Requests) /\ <<>> \in Seq(Questions) /\ <<>> \in Seq(Replies)
  OBVIOUS
<1>10. notify' \in Notes
  BY <1>1, <1>2 DEF Notes
<1>11. Typed'
  BY <1>1, <1>3, <1>4, <1>7, <1>8, <1>9, <1>10 DEF Typed
<1>12. Linked'
  BY <1>1, <1>3, <1>4 DEF Linked
<1>13. WaitsIn(tabs') = {} /\ \A c \in Chans : ViewIn(tabs', c) = Absent
  <2>1. WaitsIn(tabs') = {}
    BY <1>5, <1>6 DEF WaitsIn
  <2>2. \A c \in Chans : \A i \in DOMAIN tabs' : tabs'[i].channel # c
    BY <1>5, <1>6, NamesAssumption
  <2> QED BY <2>1, <2>2, ViewAbsent
<1>14. Tracked'
  <2> SUFFICES ASSUME NEW c \in Chans
               PROVE  Follows(c, State(serv'.nick, Absent), <<>>, irc', <<"PART", c>> \in ToSet(fast'), <<"MODE", c>> \in ToSet(slow'))
    BY <1>1, <1>13 DEF Tracked
  <2> DEFINE part == <<"PART", c>> \in ToSet(fast')
             ask == <<"MODE", c>> \in ToSet(slow')
  <2>1. part \in BOOLEAN /\ ask \in BOOLEAN
    OBVIOUS
  <2> HIDE DEF part, ask
  <2>2. Follows(c, State(serv'.nick, Absent), <<>>, irc', part, ask)
    BY <1>4, <2>1, Offline
  <2> QED BY <2>2 DEF part, ask
<1>15. Waited'
  BY <1>13 DEF Waited
<1> QED BY <1>11, <1>12, <1>14, <1>15 DEF IrcInv


-----------------------------------------------------------------------------
(* The client reads a line.                                                *)
\* What is read, and by which client.
Reading(line) == /\ IrcInv /\ Typed /\ Good(tabs) /\ serv.nick \in ToSet(Nicks) /\ serv \in Servs /\ notify \in Notes
                 /\ line \in Replies

LEMMA NoteIs ==
    ASSUME notify \in Notes, NEW n, NEW on \in BOOLEAN, notify_set(n, on)
    PROVE  notify' \in Notes
BY DEF notify_set, Notes

\* A line that changes no record of the server.
LEMMA TookPlainly ==
    ASSUME NEW line, Reading(line), line[1] \notin {"001", "305", "306"}, serv' = serv, notify' \in Notes,
           Reads(line, serv.nick, tabs, serv.nick, tabs'),
           line[1] # "JOIN" \/ line[2] # serv.nick
           \/ (<<"MODE", line[3]>> \in ToSet(slow') /\ <<"WHO", line[3]>> \in ToSet(slow'))
    PROVE  Took(line)
<1>1. AwayAfter(serv.is_away, line) = serv.is_away
  BY DEF AwayAfter
<1>2. \A c \in Chans : Entered(c, serv.nick, line) => <<"MODE", c>> \in ToSet(slow') /\ <<"WHO", c>> \in ToSet(slow')
  BY DEF Entered
<1> QED BY <1>1, <1>2 DEF Took, Reading

\* A line that changes no view.
LEMMA TookNothing ==
    ASSUME NEW line, Reading(line), line[1] \notin {"JOIN", "315"}, \A c \in Chans : Neutral(c, line),
           Good(tabs'), \A c \in Chans : ViewIn(tabs', c) = ViewIn(tabs, c), WaitsIn(tabs') \subseteq WaitsIn(tabs),
           serv' \in Servs, notify' \in Notes, serv'.nick = serv.nick, serv'.state = serv.state,
           serv'.end_of_motd => serv.end_of_motd \/ line[1] = "376", serv'.is_away = AwayAfter(serv.is_away, line)
    PROVE  Took(line)
<1>1. Reads(line, serv.nick, tabs, serv.nick, tabs')
  BY ReadsNothing DEF Reading
<1>2. \A c \in Chans : ~Entered(c, serv.nick, line)
  BY DEF Entered
<1> QED BY <1>1, <1>2 DEF Took

\* What is sent when nothing is.
LEMMA SilentAsked ==
    ASSUME NEW line, Reading(line), UNCHANGED <<fast, slow>>
    PROVE  Asked(<<>>, <<>>)
BY SendsNone DEF Silent, Reading

\* A numeric that changes no tab.
LEMMA TookStill ==
    ASSUME NEW line, Reading(line), line[1] \in {"005", "376", "433", "303", "305", "306", "600", "601", "604", "605"},
           tabs' = tabs, serv' \in Servs, notify' \in Notes, serv'.nick = serv.nick, serv'.state = serv.state,
           serv'.end_of_motd => serv.end_of_motd \/ line[1] = "376", serv'.is_away = AwayAfter(serv.is_away, line)
    PROVE  Took(line)
<1>1. \A c \in Chans : Neutral(c, line)
  BY NeutralKinds
<1>2. Good(tabs)
  BY DEF Reading
<1> QED BY <1>1, <1>2, TookNothing

LEMMA TookWelcome ==
    ASSUME NEW line, Reading(line), line[1] = "001", inbound_login_start(line[2])
    PROVE  Took(line) /\ \E urgent : Asked(urgent, <<>>)
<1>1. Typed /\ Good(tabs) /\ serv.nick \in ToSet(Nicks) /\ serv \in Servs /\ notify \in Notes /\ line \in Replies
  BY DEF Reading
<1>2. line[2] \in ToSet(Nicks)
  BY <1>1, ReplyIs
<1>3. /\ inbound_newnick(serv.nick, line[2]) /\ serv' = [serv EXCEPT !.nick = line[2], !.reconnect_away = FALSE]
      /\ SendLines(IF serv.reconnect_away /\ ~serv.is_away THEN irc_set_away(TRUE) ELSE <<>>, <<>>) /\ UNCHANGED notify
  BY DEF inbound_login_start
<1>4. serv' \in Servs /\ serv'.nick = line[2] /\ serv'.state = serv.state /\ serv'.end_of_motd = serv.end_of_motd
      /\ serv'.is_away = serv.is_away
  BY <1>1, <1>2, <1>3 DEF Servs
<1>5. Reads(line, serv.nick, tabs, NickAfter(serv.nick, line), tabs')
  <2> DEFINE m == line[2]
  <2>1. inbound_newnick(serv.nick, m)
    BY <1>3
  <2>2. line[1] = "001" /\ m = line[2]
    OBVIOUS
  <2> HIDE DEF m
  <2> QED BY <1>1, <2>1, <2>2, ReadsNick
<1>6. NickAfter(serv.nick, line) = serv'.nick
  BY <1>4 DEF NickAfter
<1>7. AwayAfter(serv.is_away, line) = serv.is_away
  BY DEF AwayAfter
<1>8. \A c \in Chans : ~Entered(c, serv.nick, line)
  BY DEF Entered
<1>9. Took(line)
  BY <1>1, <1>3, <1>4, <1>5, <1>6, <1>7, <1>8 DEF Took
<1> DEFINE urgent == IF serv.reconnect_away /\ ~serv.is_away THEN irc_set_away(TRUE) ELSE <<>>
<1>10. <<"AWAY", TRUE>> \in Requests
  BY AsksAre
<1>11. irc_set_away(TRUE) \in Seq(Requests) /\ <<>> \in Seq(Requests) /\ <<>> \in Seq(Questions)
  BY <1>10, OneRequest DEF irc_set_away
<1>12. urgent \in Seq(Requests) /\ SendLines(urgent, <<>>)
  BY <1>3, <1>11
<1> HIDE DEF urgent
<1>13. Asked(urgent, <<>>)
  BY <1>1, <1>11, <1>12, SendsMore
<1> QED BY <1>9, <1>13

LEMMA TookNextNick ==
    ASSUME NEW line, Reading(line), line[1] = "433", inbound_next_nick
    PROVE  Took(line) /\ \E urgent : Asked(urgent, <<>>)
<1>1. Typed /\ Good(tabs) /\ serv \in Servs /\ notify \in Notes
  BY DEF Reading
<1>2. /\ serv' = [serv EXCEPT !.nickcount = @ + 1] /\ UNCHANGED <<tabs, notify>>
      /\ SendLines(IF serv'.nickcount \in {2, 3} THEN irc_change_nick(Nicks[serv'.nickcount]) ELSE <<>>, <<>>)
  BY DEF inbound_next_nick
<1>3. /\ serv' \in Servs /\ serv'.nick = serv.nick /\ serv'.state = serv.state /\ serv'.end_of_motd = serv.end_of_motd
      /\ serv'.is_away = serv.is_away
  BY <1>1, <1>2 DEF Servs
<1>4. AwayAfter(serv.is_away, line) = serv.is_away
  BY DEF AwayAfter
<1>5. Took(line)
  BY <1>1, <1>2, <1>3, <1>4, TookStill
<1> DEFINE k == serv'.nickcount
           urgent == IF k \in {2, 3} THEN irc_change_nick(Nicks[k]) ELSE <<>>
<1>6. urgent \in Seq(Requests)
  <2>1. CASE k \in {2, 3}
    <3>1. DOMAIN Nicks = 1..3
      BY NicksAssumption
    <3>2. k \in DOMAIN Nicks
      BY <2>1, <3>1
    <3>3. Nicks[k] \in ToSet(Nicks)
      BY <3>2 DEF ToSet
    <3>4. <<"NICK", Nicks[k]>> \in Requests
      BY <3>3, AsksAre
    <3>5. irc_change_nick(Nicks[k]) \in Seq(Requests)
      BY <3>4, OneRequest DEF irc_change_nick
    <3> QED BY <2>1, <3>5
  <2>2. CASE k \notin {2, 3}
    BY <2>2
  <2> QED BY <2>1, <2>2
<1>7. SendLines(urgent, <<>>) /\ <<>> \in Seq(Questions)
  BY <1>2
<1> HIDE DEF urgent
<1>8. Asked(urgent, <<>>)
  BY <1>1, <1>6, <1>7, SendsMore
<1> QED BY <1>5, <1>8

\* The end of the login, after which the client enters channels
LEMMA TookLogin ==
    ASSUME NEW line, Reading(line), line[1] = "376", inbound_login_end
    PROVE  Took(line) /\ \E urgent : Asked(urgent, <<>>)
<1> DEFINE watches == IF serv.supports_watch /\ notify.listed THEN notify_watch(TRUE) ELSE <<>>
<1>1. Typed /\ Good(tabs) /\ serv \in Servs /\ notify \in Notes /\ UNCHANGED notify
  BY DEF Reading, inbound_login_end
<1>2. AwayAfter(serv.is_away, line) = serv.is_away
  BY DEF AwayAfter
<1>3. watches \in Seq(Requests)
  <2>1. <<"WATCH", TRUE>> \in Requests
    BY AsksAre
  <2>2. notify_watch(TRUE) \in Seq(Requests) /\ <<>> \in Seq(Requests)
    BY <2>1, OneRequest DEF notify_watch
  <2> QED BY <2>2
<1>4. \/ serv.end_of_motd /\ Silent /\ UNCHANGED <<tabs, serv>>
      \/ /\ serv' = [serv EXCEPT !.end_of_motd = TRUE, !.joindelay = TRUE]
         /\ SendLines(irc_ns_identify \o watches, <<>>) /\ UNCHANGED tabs
      \/ /\ serv' = [serv EXCEPT !.end_of_motd = TRUE, !.autojoin = <<>>] /\ check_autojoin_channels(watches)
  BY DEF inbound_login_end
<1> HIDE DEF watches
<1>5. CASE serv.end_of_motd /\ Silent /\ UNCHANGED <<tabs, serv>>
  <2>1. Took(line)
    BY <1>1, <1>2, <1>5, TookStill
  <2>2. Asked(<<>>, <<>>)
    BY <1>5, SilentAsked DEF Silent
  <2> QED BY <2>1, <2>2
<1>6. CASE /\ serv' = [serv EXCEPT !.end_of_motd = TRUE, !.joindelay = TRUE]
           /\ SendLines(irc_ns_identify \o watches, <<>>) /\ UNCHANGED tabs
  <2>1. serv' \in Servs /\ serv'.nick = serv.nick /\ serv'.state = serv.state /\ serv'.is_away = serv.is_away
    BY <1>1, <1>6 DEF Servs
  <2>2. Took(line)
    BY <1>1, <1>2, <1>6, <2>1, TookStill
  <2>3. <<"IDENTIFY">> \in Requests /\ <<>> \in Seq(Questions)
    BY AsksAre
  <2>4. irc_ns_identify \in Seq(Requests)
    BY <2>3, OneRequest DEF irc_ns_identify
  <2>5. irc_ns_identify \o watches \in Seq(Requests)
    BY <1>3, <2>4, BothIn
  <2>6. Asked(irc_ns_identify \o watches, <<>>)
    BY <1>1, <1>6, <2>3, <2>5, SendsMore
  <2> QED BY <2>2, <2>6
<1>7. CASE serv' = [serv EXCEPT !.end_of_motd = TRUE, !.autojoin = <<>>] /\ check_autojoin_channels(watches)
  <2>1. <<>> \in Seq(Chans)
    OBVIOUS
  <2>2. serv' \in Servs /\ serv'.nick = serv.nick /\ serv'.state = serv.state /\ serv'.is_away = serv.is_away
    BY <1>1, <1>7, <2>1 DEF Servs
  <2>3. /\ Good(tabs') /\ \A c \in Chans : ViewIn(tabs', c) = ViewIn(tabs, c)
        /\ WaitsIn(tabs') \subseteq WaitsIn(tabs)
    BY <1>1, <1>3, <1>7, AutojoinKeeps
  <2>4. \E urgent : Asked(urgent, <<>>)
    BY <1>1, <1>3, <1>7, AutojoinKeeps
  <2>5. \A c \in Chans : Neutral(c, line)
    BY NeutralKinds
  <2>6. Took(line)
    BY <1>1, <1>2, <2>2, <2>3, <2>5, TookNothing
  <2> QED BY <2>4, <2>6
<1> QED BY <1>4, <1>5, <1>6, <1>7

LEMMA TookIdentified ==
    ASSUME NEW line, Reading(line), line[1] = "MODE", line[2] \notin Chans, inbound_identified
    PROVE  Took(line) /\ \E urgent : Asked(urgent, <<>>)
<1>1. Typed /\ Good(tabs) /\ serv \in Servs /\ notify \in Notes
  BY DEF Reading
<1>2. AwayAfter(serv.is_away, line) = serv.is_away
  BY DEF AwayAfter
<1>3. \A c \in Chans : Neutral(c, line)
  BY NeutralKinds
<1>4. CASE serv.joindelay
  <2>1. serv' = [serv EXCEPT !.joindelay = FALSE, !.autojoin = <<>>] /\ check_autojoin_channels(<<>>) /\ UNCHANGED notify
    BY <1>4 DEF inbound_identified
  <2>2. <<>> \in Seq(Chans) /\ <<>> \in Seq(Requests)
    OBVIOUS
  <2>3. serv' \in Servs /\ serv'.nick = serv.nick /\ serv'.state = serv.state /\ serv'.is_away = serv.is_away
        /\ serv'.end_of_motd = serv.end_of_motd
    BY <1>1, <2>1, <2>2 DEF Servs
  <2>4. /\ Good(tabs') /\ \A c \in Chans : ViewIn(tabs', c) = ViewIn(tabs, c)
        /\ WaitsIn(tabs') \subseteq WaitsIn(tabs)
    BY <1>1, <2>1, <2>2, AutojoinKeeps
  <2>5. \E urgent : Asked(urgent, <<>>)
    BY <1>1, <2>1, <2>2, AutojoinKeeps
  <2>6. Took(line)
    BY <1>1, <1>2, <1>3, <2>1, <2>3, <2>4, TookNothing
  <2> QED BY <2>5, <2>6
<1>5. CASE ~serv.joindelay
  <2>1. UNCHANGED <<tabs, serv, notify, fast, slow>>
    BY <1>5 DEF inbound_identified
  <2>2. Took(line)
    BY <1>1, <1>2, <1>3, <2>1, TookNothing
  <2>3. Asked(<<>>, <<>>)
    BY <2>1, SilentAsked
  <2> QED BY <2>2, <2>3
<1> QED BY <1>4, <1>5

LEMMA TookNumeric ==
    ASSUME NEW line, Reading(line), process_numeric(line)
    PROVE  Took(line) /\ \E urgent : Asked(urgent, <<>>)
<1>1. Typed /\ Good(tabs) /\ serv.nick \in ToSet(Nicks) /\ serv \in Servs /\ notify \in Notes /\ line \in Replies
  BY DEF Reading
<1>2. /\ line[1] \in {"005", "303"} => line[2] \in BOOLEAN
      /\ line[1] \in {"324", "315", "353", "366"} => line[2] \in Chans
  BY <1>1, ReplyIs
<1>3. ASSUME Silent PROVE \E urgent : Asked(urgent, <<>>)
  <2>1. Asked(<<>>, <<>>)
    BY <1>3, SilentAsked DEF Silent
  <2> QED BY <2>1
<1>4. ASSUME line[1] = "005", serv' = [serv EXCEPT !.supports_watch = line[2]], Silent, UNCHANGED <<tabs, notify>>
      PROVE  Took(line)
  <2>1. serv' \in Servs /\ serv'.nick = serv.nick /\ serv'.state = serv.state /\ serv'.is_away = serv.is_away
        /\ serv'.end_of_motd = serv.end_of_motd
    BY <1>1, <1>2, <1>4 DEF Servs
  <2>2. AwayAfter(serv.is_away, line) = serv.is_away
    BY <1>4 DEF AwayAfter
  <2> QED BY <1>1, <1>4, <2>1, <2>2, TookStill
<1>5. ASSUME line[1] \in {"303", "600", "601", "604", "605", "433"}, notify' \in Notes, UNCHANGED <<tabs, serv>>
      PROVE  Took(line)
  <2>1. AwayAfter(serv.is_away, line) = serv.is_away
    BY <1>5 DEF AwayAfter
  <2> QED BY <1>1, <1>5, <2>1, TookStill
<1>6. ASSUME NEW gone \in BOOLEAN, line[1] = (IF gone THEN "306" ELSE "305"), AwayIs(gone) PROVE Took(line)
  <2>1. /\ serv' = [serv EXCEPT !.is_away = gone, !.reconnect_away = IF gone THEN @ ELSE FALSE]
        /\ Silent /\ UNCHANGED <<tabs, notify>>
    BY <1>6 DEF AwayIs
  <2>2. serv' \in Servs /\ serv'.nick = serv.nick /\ serv'.state = serv.state /\ serv'.is_away = gone
        /\ serv'.end_of_motd = serv.end_of_motd
    BY <1>1, <2>1 DEF Servs
  <2>3. AwayAfter(serv.is_away, line) = gone
    BY <1>6 DEF AwayAfter
  <2> QED BY <1>1, <1>6, <2>1, <2>2, <2>3, TookStill
<1>7. ASSUME line[1] \in {"315", "324", "353", "366"}, Reads(line, serv.nick, tabs, serv.nick, tabs'), notify' \in Notes, UNCHANGED serv
      PROVE  Took(line)
  BY <1>7, TookPlainly
<1>8. CASE line[1] = "001" /\ inbound_login_start(line[2])
  BY <1>8, TookWelcome
<1>9. CASE line[1] = "005" /\ serv' = [serv EXCEPT !.supports_watch = line[2]] /\ Silent /\ UNCHANGED <<tabs, notify>>
  BY <1>3, <1>4, <1>9
<1>10. CASE line[1] = "303" /\ notify_set(Friend, line[2]) /\ Silent /\ UNCHANGED <<tabs, serv>>
  <2>1. notify' \in Notes
    BY <1>1, <1>2, <1>10, NoteIs
  <2> QED BY <1>3, <1>5, <1>10, <2>1
<1>11. CASE line[1] \in {"600", "604"} /\ notify_set(Friend, TRUE) /\ Silent /\ UNCHANGED <<tabs, serv>>
  <2>1. notify' \in Notes
    BY <1>1, <1>11, NoteIs
  <2> QED BY <1>3, <1>5, <1>11, <2>1
<1>12. CASE line[1] \in {"601", "605"} /\ notify_set(Friend, FALSE) /\ Silent /\ UNCHANGED <<tabs, serv>>
  <2>1. notify' \in Notes
    BY <1>1, <1>12, NoteIs
  <2> QED BY <1>3, <1>5, <1>12, <2>1
<1>13. CASE line[1] = "305" /\ AwayIs(FALSE)
  BY <1>3, <1>6, <1>13 DEF AwayIs
<1>14. CASE line[1] = "306" /\ AwayIs(TRUE)
  BY <1>3, <1>6, <1>14 DEF AwayIs
<1>15. CASE line[1] = "315" /\ EndOfWho(line[2]) /\ UNCHANGED serv
  <2>1. Reads(line, serv.nick, tabs, serv.nick, tabs')
    BY <1>1, <1>15, ReadsEndOfWho
  <2>2. Silent /\ notify' = notify
    BY <1>15 DEF EndOfWho
  <2> QED BY <1>1, <1>3, <1>7, <1>15, <2>1, <2>2
<1>16. CASE line[1] = "324" /\ ModesAre(line[2], line[3]) /\ UNCHANGED serv
  <2>1. Reads(line, serv.nick, tabs, serv.nick, tabs')
    BY <1>1, <1>16, ReadsModesAre
  <2>2. Silent /\ notify' = notify
    BY <1>16 DEF ModesAre
  <2> QED BY <1>1, <1>3, <1>7, <1>16, <2>1, <2>2
<1>17. CASE line[1] = "353" /\ inbound_nameslist(line[2], line[3], line[4]) /\ UNCHANGED serv
  <2>1. Reads(line, serv.nick, tabs, serv.nick, tabs')
    BY <1>1, <1>17, ReadsNames
  <2>2. Silent /\ (notify_set(line[3], TRUE) \/ notify' = notify)
    BY <1>17 DEF inbound_nameslist
  <2>3. notify' \in Notes
    BY <1>1, <2>2, NoteIs
  <2> QED BY <1>1, <1>3, <1>7, <1>17, <2>1, <2>2, <2>3
<1>18. CASE line[1] = "366" /\ inbound_nameslist_end(line[2]) /\ UNCHANGED serv
  <2>1. Reads(line, serv.nick, tabs, serv.nick, tabs')
    BY <1>1, <1>18, ReadsNamesEnd
  <2>2. Silent /\ notify' = notify
    BY <1>18 DEF inbound_nameslist_end
  <2> QED BY <1>1, <1>3, <1>7, <1>18, <2>1, <2>2
<1>19. CASE line[1] = "376" /\ inbound_login_end
  BY <1>19, TookLogin
<1>20. CASE /\ line[1] = "433"
            /\ IF serv.end_of_motd THEN UNCHANGED <<tabs, serv, notify, fast, slow>> ELSE inbound_next_nick
  <2>1. CASE serv.end_of_motd
    <3>1. UNCHANGED <<tabs, serv, notify, fast, slow>>
      BY <1>20, <2>1
    <3>2. Silent
      BY <3>1 DEF Silent
    <3> QED BY <1>1, <1>3, <1>5, <1>20, <3>1, <3>2
  <2>2. CASE ~serv.end_of_motd
    BY <1>20, <2>2, TookNextNick
  <2> QED BY <2>1, <2>2
<1> QED BY <1>8, <1>9, <1>10, <1>11, <1>12, <1>13, <1>14, <1>15, <1>16, <1>17, <1>18, <1>19, <1>20 DEF process_numeric

LEMMA OneQuestion ==
    ASSUME NEW x \in Questions
    PROVE  <<x>> \in Seq(Questions) /\ x \in ToSet(<<x>>)
<1>1. <<x>> \in Seq(Questions) /\ DOMAIN <<x>> = 1..1 /\ <<x>>[1] = x
  OBVIOUS
<1> QED BY <1>1 DEF ToSet

\* The client enters a channel, and asks for its modes and who is on it.
LEMMA TookEntered ==
    ASSUME NEW line, Reading(line), serv.state = "connected", line[1] = "JOIN", IsMe(line[2]), serv' = serv,
           ~ViewIn(tabs, line[3]).shown, inbound_ujoin(line[3])
    PROVE  Took(line) /\ \E questions : Asked(<<>>, questions)
<1>1. Typed /\ Good(tabs) /\ serv.nick \in ToSet(Nicks) /\ notify \in Notes /\ line \in Replies
  BY DEF Reading
<1>2. line[3] \in Chans
  BY <1>1, ReplyIs
<1>3. Reads(line, serv.nick, tabs, serv.nick, tabs')
  BY <1>1, ReadsUjoin
<1> DEFINE c == line[3]
           questions == irc_join_info(c) \o irc_user_list(c)
<1>4. SendLines(<<>>, questions) /\ notify' = notify
  BY DEF inbound_ujoin
<1> HIDE DEF c
<1>5. <<"MODE", c>> \in Questions /\ <<"WHO", c>> \in Questions
  BY <1>2, AsksAre DEF c
<1> HIDE DEF questions
<1>6. /\ irc_join_info(c) \in Seq(Questions) /\ <<"MODE", c>> \in ToSet(irc_join_info(c))
      /\ irc_user_list(c) \in Seq(Questions) /\ <<"WHO", c>> \in ToSet(irc_user_list(c))
  BY <1>5, OneQuestion DEF irc_join_info, irc_user_list
<1>7. questions \in Seq(Questions) /\ <<>> \in Seq(Requests)
  BY <1>6, BothIn DEF questions
<1>8. <<"MODE", c>> \in ToSet(questions) /\ <<"WHO", c>> \in ToSet(questions)
  BY <1>6, BothIn DEF questions
<1>9. Asked(<<>>, questions)
  BY <1>1, <1>4, <1>7, SendsMore
<1>10. <<"MODE", line[3]>> \in ToSet(slow') /\ <<"WHO", line[3]>> \in ToSet(slow')
  BY <1>8, <1>9 DEF Asked, c
<1>11. Took(line)
  BY <1>1, <1>3, <1>4, <1>10, TookPlainly
<1> QED BY <1>9, <1>11

\* The client is on a channel no more.
LEMMA LeavesTab ==
    ASSUME NEW line, Reading(line), line[1] \in {"PART", "KICK"}, IsMe(line[2]),
           inbound_upart(line[3]) \/ inbound_ukick(line[3])
    PROVE  Reads(line, serv.nick, tabs, serv.nick, tabs')
<1>1. Good(tabs) /\ serv.nick \in ToSet(Nicks) /\ line \in Replies
  BY DEF Reading
<1> DEFINE k == find_channel(line[3])
           gone == clear_channel(tabs[k])
           kicked == [clear_channel(tabs[k]) EXCEPT !.waitchannel = line[3]]
<1>2. CASE inbound_upart(line[3])
  <2>1. tabs' = IF k = 0 THEN tabs ELSE [tabs EXCEPT ![k] = gone]
    BY <1>2 DEF inbound_upart, InChannel
  <2>2. (k = 0 => tabs' = tabs) /\ (k # 0 => tabs' = [tabs EXCEPT ![k] = gone])
    BY <2>1
  <2> QED BY <1>1, <2>2, ReadsUpart
<1>3. CASE inbound_ukick(line[3])
  <2>1. tabs' = IF k = 0 THEN tabs ELSE [tabs EXCEPT ![k] = kicked]
    BY <1>3 DEF inbound_ukick, InChannel
  <2>2. (k = 0 => tabs' = tabs) /\ (k # 0 => tabs' = [tabs EXCEPT ![k] = kicked])
    BY <2>1
  <2> QED BY <1>1, <2>2, ReadsUpart
<1> QED BY <1>2, <1>3

LEMMA TookNamed ==
    ASSUME NEW line, Reading(line), serv.state = "connected", process_named_msg(line),
           \A c \in Chans : Entered(c, serv.nick, line) => ~ViewIn(tabs, c).shown
    PROVE  Took(line) /\ \E urgent, questions : Asked(urgent, questions)
<1>1. Typed /\ Good(tabs) /\ serv.nick \in ToSet(Nicks) /\ serv \in Servs /\ notify \in Notes /\ line \in Replies
  BY DEF Reading
<1>2. line[1] \in {"JOIN", "PART", "KICK"} => line[3] \in Chans
  BY <1>1, ReplyIs
<1>3. ASSUME Silent PROVE \E urgent, questions : Asked(urgent, questions)
  <2>1. Asked(<<>>, <<>>)
    BY <1>3, SilentAsked DEF Silent
  <2> QED BY <2>1
<1>4. ASSUME line[1] \in {"JOIN", "PART", "KICK", "QUIT", "MODE", "OP"}, Reads(line, serv.nick, tabs, serv.nick, tabs'),
             notify' \in Notes, serv' = serv, line[1] # "JOIN" \/ ~IsMe(line[2])
      PROVE  Took(line)
  BY <1>4, TookPlainly DEF IsMe
<1>5. CASE /\ line[1] = "JOIN" /\ UNCHANGED serv
           /\ IF IsMe(line[2]) THEN inbound_ujoin(line[3]) ELSE inbound_join(line[3], line[2])
  <2>1. CASE IsMe(line[2])
    <3>1. Entered(line[3], serv.nick, line)
      BY <1>5, <2>1 DEF Entered, IsMe
    <3>2. ~ViewIn(tabs, line[3]).shown
      BY <1>2, <1>5, <3>1
    <3>3. inbound_ujoin(line[3]) /\ serv' = serv /\ line[1] = "JOIN"
      BY <1>5, <2>1
    <3> QED BY <2>1, <3>2, <3>3, TookEntered
  <2>2. CASE ~IsMe(line[2])
    <3>1. inbound_join(line[3], line[2]) /\ line[1] = "JOIN"
      BY <1>5, <2>2
    <3>2. Reads(line, serv.nick, tabs, serv.nick, tabs')
      BY <1>1, <2>2, <3>1, ReadsJoin
    <3>3. Silent /\ (notify_set(line[2], TRUE) \/ notify' = notify)
      BY <3>1 DEF inbound_join
    <3>4. notify' \in Notes
      BY <1>1, <3>3, NoteIs
    <3> QED BY <1>3, <1>4, <1>5, <2>2, <3>2, <3>3, <3>4
  <2> QED BY <2>1, <2>2
<1>6. CASE /\ line[1] = "PART" /\ UNCHANGED serv
           /\ IF IsMe(line[2]) THEN inbound_upart(line[3]) ELSE inbound_part(line[3], line[2])
  <2>1. Reads(line, serv.nick, tabs, serv.nick, tabs')
    <3>1. CASE IsMe(line[2])
      BY <1>6, <3>1, LeavesTab
    <3>2. CASE ~IsMe(line[2])
      BY <1>1, <1>6, <3>2, ReadsPart
    <3> QED BY <3>1, <3>2
  <2>2. Silent /\ notify' = notify
    BY <1>6 DEF inbound_upart, inbound_part
  <2> QED BY <1>1, <1>3, <1>4, <1>6, <2>1, <2>2
<1>7. CASE /\ line[1] = "KICK" /\ UNCHANGED serv
           /\ IF IsMe(line[2]) THEN inbound_ukick(line[3]) ELSE inbound_part(line[3], line[2])
  <2>1. CASE IsMe(line[2])
    <3>1. inbound_ukick(line[3])
      BY <1>7, <2>1
    <3>2. Reads(line, serv.nick, tabs, serv.nick, tabs')
      BY <1>7, <2>1, <3>1, LeavesTab
    <3>3. SendLines(IF find_channel(line[3]) = 0 THEN <<>> ELSE irc_join(line[3]), <<>>) /\ notify' = notify
      BY <3>1 DEF inbound_ukick
    <3> DEFINE urgent == IF find_channel(line[3]) = 0 THEN <<>> ELSE irc_join(line[3])
    <3>4. <<"JOIN", line[3]>> \in Requests
      BY <1>2, <1>7, AsksAre
    <3>5. irc_join(line[3]) \in Seq(Requests) /\ <<>> \in Seq(Requests) /\ <<>> \in Seq(Questions)
      BY <3>4, OneRequest DEF irc_join
    <3>6. urgent \in Seq(Requests) /\ SendLines(urgent, <<>>)
      BY <3>3, <3>5
    <3> HIDE DEF urgent
    <3>7. Asked(urgent, <<>>)
      BY <1>1, <3>5, <3>6, SendsMore
    <3>8. Took(line)
      BY <1>1, <1>4, <1>7, <3>2, <3>3
    <3> QED BY <3>7, <3>8
  <2>2. CASE ~IsMe(line[2])
    <3>1. inbound_part(line[3], line[2])
      BY <1>7, <2>2
    <3>2. Reads(line, serv.nick, tabs, serv.nick, tabs')
      BY <1>1, <1>7, <2>2, <3>1, ReadsPart
    <3>3. Silent /\ notify' = notify
      BY <3>1 DEF inbound_part
    <3> QED BY <1>1, <1>3, <1>4, <1>7, <3>2, <3>3
  <2> QED BY <2>1, <2>2
<1>8. CASE line[1] = "QUIT" /\ inbound_quit(line[2]) /\ UNCHANGED serv
  <2>1. Reads(line, serv.nick, tabs, serv.nick, tabs')
    BY <1>1, <1>8, ReadsQuit
  <2>2. Silent /\ notify_set(line[2], FALSE)
    BY <1>8 DEF inbound_quit
  <2>3. notify' \in Notes
    BY <1>1, <2>2, NoteIs
  <2> QED BY <1>3, <1>4, <1>8, <2>1, <2>2, <2>3
<1>9. CASE /\ line[1] = "NICK" /\ Silent /\ UNCHANGED notify
           /\ inbound_newnick(line[2], line[3])
           /\ serv' = IF IsMe(line[2]) THEN [serv EXCEPT !.nick = line[3]] ELSE serv
  <2>1. line[2] \in ToSet(Nicks) /\ line[3] \in ToSet(Nicks)
    BY <1>1, <1>9, ReplyIs
  <2>2. Reads(line, serv.nick, tabs, NickAfter(serv.nick, line), tabs')
    <3> DEFINE n == line[2]
               m == line[3]
    <3>1. inbound_newnick(n, m) /\ line[1] = "NICK" /\ n = line[2] /\ m = line[3]
      BY <1>9
    <3> HIDE DEF n, m
    <3> QED BY <1>1, <3>1, ReadsNick
  <2>3. /\ serv' \in Servs /\ serv'.nick = NickAfter(serv.nick, line) /\ serv'.state = serv.state
        /\ serv'.end_of_motd = serv.end_of_motd /\ serv'.is_away = serv.is_away
    <3>1. CASE IsMe(line[2])
      <4>1. serv' = [serv EXCEPT !.nick = line[3]] /\ line[2] = serv.nick /\ line[1] = "NICK"
        BY <1>9, <3>1 DEF IsMe
      <4> QED BY <1>1, <2>1, <4>1 DEF Servs, NickAfter
    <3>2. CASE ~IsMe(line[2])
      <4>1. serv' = serv /\ line[2] # serv.nick /\ line[1] = "NICK"
        BY <1>9, <3>2 DEF IsMe
      <4> QED BY <1>1, <4>1 DEF NickAfter
    <3> QED BY <3>1, <3>2
  <2>4. AwayAfter(serv.is_away, line) = serv.is_away
    BY <1>9 DEF AwayAfter
  <2>5. \A c \in Chans : ~Entered(c, serv.nick, line)
    BY <1>9 DEF Entered
  <2>6. Took(line)
    BY <1>1, <1>9, <2>2, <2>3, <2>4, <2>5 DEF Took
  <2> QED BY <1>3, <1>9, <2>6
<1>10. CASE line[1] = "MODE" /\ line[2] \notin Chans /\ IsMe(line[2]) /\ inbound_identified
  BY <1>10, TookIdentified
<1>11. CASE line[1] = "MODE" /\ line[2] \in Chans /\ line[4] \in Modes /\ ChanMode(line[2], line[3], line[4]) /\ UNCHANGED serv
  <2>1. Reads(line, serv.nick, tabs, serv.nick, tabs')
    BY <1>1, <1>11, ReadsMode
  <2>2. Silent /\ notify' = notify
    BY <1>11 DEF ChanMode
  <2> QED BY <1>1, <1>3, <1>4, <1>11, <2>1, <2>2
<1>12. CASE line[1] = "OP" /\ NickMode(line[2], line[3], line[4]) /\ UNCHANGED serv
  <2>1. Reads(line, serv.nick, tabs, serv.nick, tabs')
    BY <1>1, <1>12, ReadsOp
  <2>2. Silent /\ notify' = notify
    BY <1>12 DEF NickMode
  <2> QED BY <1>1, <1>3, <1>4, <1>12, <2>1, <2>2
<1> QED BY <1>5, <1>6, <1>7, <1>8, <1>9, <1>10, <1>11, <1>12 DEF process_named_msg


LEMMA ReceiveInv ==
    ASSUME IrcInv, Receive
    PROVE  IrcInv'
<1> DEFINE line == Head(inbox)
<1>1. inbox # <<>> /\ inbox' = Tail(inbox) /\ UNCHANGED <<irc, kept>> /\ (process_numeric(line) \/ process_named_msg(line))
  BY DEF Receive
<1>2. Typed /\ Good(tabs) /\ serv \in Servs /\ notify \in Notes /\ inbox \in Seq(Replies) /\ serv.nick \in ToSet(Nicks)
  BY DEF IrcInv, Typed, Servs
<1>3. line \in Replies
  BY <1>1, <1>2, FirstIn
<1>4. Reading(line)
  BY <1>2, <1>3 DEF Reading
<1>5. serv.state = "connected"
  BY <1>1 DEF IrcInv, Linked
<1>6. ASSUME NEW c \in Chans, Entered(c, serv.nick, line) PROVE ~ViewIn(tabs, c).shown
  <2> DEFINE part == <<"PART", c>> \in ToSet(fast)
             ask == <<"MODE", c>> \in ToSet(slow)
             s == State(serv.nick, ViewIn(tabs, c))
  <2>1. Follows(c, s, inbox, irc, part, ask)
    BY DEF IrcInv, Tracked
  <2>2. part \in BOOLEAN /\ ask \in BOOLEAN
    OBVIOUS
  <2>3. s.nick = serv.nick /\ s.view = ViewIn(tabs, c)
    BY DEF State
  <2> HIDE DEF part, ask, s
  <2>4. Entered(c, s.nick, line) => ~s.view.shown
    BY <1>1, <1>2, <2>1, <2>2, FollowsReads
  <2> QED BY <1>6, <2>3, <2>4
<1>7. Took(line) /\ \E urgent, questions : Asked(urgent, questions)
  <2> HIDE DEF line
  <2>1. CASE process_numeric(line)
    BY <1>4, <2>1, TookNumeric
  <2>2. CASE process_named_msg(line)
    BY <1>4, <1>5, <1>6, <2>2, TookNamed
  <2> QED BY <1>1, <2>1, <2>2
<1>8. PICK urgent, questions : Asked(urgent, questions)
  BY <1>7
<1> QED BY <1>1, <1>7, <1>8, TookInv

LEMMA NewServerIs ==
    ASSUME NEW watch \in BOOLEAN
    PROVE  /\ Sound(NewServer(watch)) /\ NewServer(watch).nick = NoNick /\ NewServer(watch).gone = FALSE
<1> DEFINE r == NewServer(watch)
<1>1. <<>> \in Lists /\ DOMAIN <<>> = {}
  BY NoOne
<1>2. r = [nick |-> NoNick, gone |-> FALSE, members |-> [c \in Chans |-> <<>>],
           modes |-> [c \in Chans |-> {}], ghosts |-> {}, online |-> FALSE,
           watched |-> FALSE, watch |-> watch, news |-> FALSE]
  BY DEF NewServer
<1> HIDE DEF r
<1>3. [c \in Chans |-> <<>>] \in [Chans -> Lists] /\ [c \in Chans |-> {}] \in [Chans -> SUBSET Modes]
  BY <1>1
<1>4. r \in Servers
  BY <1>2, <1>3 DEF Servers
<1>5. r.nick = NoNick /\ r.gone = FALSE /\ r.ghosts = {} /\ ~r.watched /\ \A c \in Chans : r.members[c] = <<>>
  BY <1>2
<1>6. Sound(r)
  BY <1>1, <1>4, <1>5 DEF Sound
<1> QED BY <1>5, <1>6 DEF r

LEMMA IrcInitInv ==
    ASSUME IrcInit
    PROVE  IrcInv
<1>1. PICK scenario \in Scenarios :
        /\ tabs = <<>>
        /\ serv = [nick |-> Nicks[1], state |-> "connecting", nickcount |-> 1, end_of_motd |-> FALSE,
                   joindelay |-> FALSE, nickserv |-> scenario["nickserv"] > 0,
                   autojoin |-> SubSeq(AutoJoin, 1, scenario["autojoin"]), is_away |-> FALSE,
                   reconnect_away |-> FALSE, supports_watch |-> FALSE]
        /\ notify = [listed |-> FALSE, ison |-> FALSE]
        /\ fast = <<>> /\ slow = <<>> /\ inbox = <<>>
        /\ irc = NewServer(scenario["watch"] > 0)
        /\ kept = {}
  BY DEF IrcInit
<1>2. scenario["autojoin"] \in Nat /\ scenario["autojoin"] <= Len(AutoJoin)
  <2>1. scenario \in [Kinds \union Settings -> Nat] /\ scenario["autojoin"] <= Len(AutoJoin)
    BY ScenariosAssumption
  <2>2. "autojoin" \in Kinds \union Settings
    BY DEF Settings
  <2> QED BY <2>1, <2>2
<1>3. SubSeq(AutoJoin, 1, scenario["autojoin"]) \in Seq(Chans)
  <2>1. AutoJoin \in Seq(Chans)
    BY NamesAssumption
  <2>2. PICK k \in Nat : k = scenario["autojoin"] /\ k <= Len(AutoJoin)
    BY <1>2
  <2>3. \A i \in 1..k : AutoJoin[i] \in Chans
    BY <2>1, <2>2
  <2>4. SubSeq(AutoJoin, 1, k) = [i \in 1..k |-> AutoJoin[i]]
    BY <2>1, <2>2
  <2>5. SubSeq(AutoJoin, 1, k) \in Seq(Chans)
    BY <2>3, <2>4
  <2> QED BY <2>2, <2>5
<1>4. Nicks[1] \in ToSet(Nicks)
  <2>1. 1 \in DOMAIN Nicks
    BY NicksAssumption
  <2> QED BY <2>1 DEF ToSet
<1>5. (scenario["nickserv"] > 0) \in BOOLEAN /\ (scenario["watch"] > 0) \in BOOLEAN
  OBVIOUS
<1>6. Sound(irc) /\ irc.nick = NoNick /\ irc.gone = FALSE
  BY <1>1, <1>5, NewServerIs
<1>7. serv \in Servs /\ serv.state = "connecting" /\ ~serv.end_of_motd /\ serv.is_away = FALSE
  BY <1>1, <1>3, <1>4, <1>5 DEF Servs
<1>8. Good(tabs) /\ notify \in Notes /\ fast \in Seq(Requests) /\ slow \in Seq(Questions) /\ inbox \in Seq(Replies)
  <2>1. <<>> \in Seq(Tabs) /\ DOMAIN <<>> = {} /\ <<>> \in Seq(Requests) /\ <<>> \in Seq(Questions) /\ <<>> \in Seq(Replies)
    OBVIOUS
  <2>2. Good(<<>>)
    BY <2>1 DEF Good, DistinctIn
  <2>3. notify \in Notes
    BY <1>1 DEF Notes
  <2> QED BY <1>1, <2>1, <2>2, <2>3
<1>9. Typed
  BY <1>1, <1>6, <1>7, <1>8 DEF Typed
<1>10. AwayRead(FALSE, <<>>, FALSE) /\ 1..Len(<<>>) = {}
  <2>1. Len(<<>>) = 0
    OBVIOUS
  <2> QED BY <2>1 DEF AwayRead
<1>11. Linked
  BY <1>1, <1>6, <1>7, <1>10 DEF Linked
<1>12. WaitsIn(tabs) = {} /\ \A c \in Chans : ViewIn(tabs, c) = Absent
  <2>1. DOMAIN tabs = {}
    BY <1>1
  <2>2. WaitsIn(tabs) = {}
    BY <2>1 DEF WaitsIn
  <2> QED BY <2>1, <2>2, ViewAbsent
<1>13. Tracked
  <2> SUFFICES ASSUME NEW c \in Chans
               PROVE  Follows(c, State(serv.nick, Absent), <<>>, irc, <<"PART", c>> \in ToSet(fast), <<"MODE", c>> \in ToSet(slow))
    BY <1>1, <1>12 DEF Tracked
  <2> DEFINE part == <<"PART", c>> \in ToSet(fast)
             ask == <<"MODE", c>> \in ToSet(slow)
  <2>1. part \in BOOLEAN /\ ask \in BOOLEAN
    OBVIOUS
  <2> HIDE DEF part, ask
  <2>2. Follows(c, State(serv.nick, Absent), <<>>, irc, part, ask)
    BY <1>6, <2>1, Offline
  <2> QED BY <2>2 DEF part, ask
<1>14. Waited
  BY <1>12 DEF Waited
<1> QED BY <1>9, <1>11, <1>13, <1>14 DEF IrcInv

LEMMA NextInv ==
    ASSUME IrcInv, [IrcNext]_irc_vars
    PROVE  IrcInv'
<1>1. CASE Timers
  BY <1>1, JoinTimeoutInv, AwayCheckInv, ChecklistInv DEF Timers
<1>2. CASE Connection
  BY <1>2, AttemptInv, ConnectedInv, BreaksInv, AttemptFailsInv DEF Connection
<1>3. CASE UNCHANGED irc_vars
  BY <1>3 DEF irc_vars, IrcInv, Typed, Linked, Tracked, Waited
<1> QED BY <1>1, <1>2, <1>3, ReceiveInv, ServeInv, UserInv, OthersInv DEF IrcNext

-----------------------------------------------------------------------------
(* What the client shows is what the server has, or will be.               *)

(* At every moment, whatever is on its way in either direction, a client   *)
(* that goes on to read what process_numeric and process_named_msg are     *)
(* given will show each channel as the server has it, and is away if the   *)
(* server says so (IrcInv).                                                *)
THEOREM IrcInvariant == IrcSpec => []IrcInv
<1>1. IrcInit => IrcInv
  BY IrcInitInv
<1>2. IrcInv /\ [IrcNext]_irc_vars => IrcInv'
  BY NextInv
<1> QED BY <1>1, <1>2, PTL DEF IrcSpec

(* Tabs keep their type, for any number of them and of lines, and so do    *)
(* nick and state of the server structure (the rest of it, and the lines,  *)
(* are typed in IrcInv).                                                   *)
THEOREM IrcTypes == IrcSpec => []IrcTypeOK
<1>1. IrcInv => IrcTypeOK
  <2> SUFFICES ASSUME IrcInv PROVE IrcTypeOK
    OBVIOUS
  <2>1. tabs \in Seq(Tabs) /\ serv \in Servs /\ kept \subseteq Chans \union {Away}
    BY DEF IrcInv, Typed, Good
  <2>2. serv.nick \in ToSet(Nicks) /\ serv.state \in {"waiting", "connecting", "connected"}
    BY <2>1 DEF Servs
  <2> QED BY <2>1, <2>2 DEF IrcTypeOK, Tabs, Lists, People
<1> QED BY <1>1, IrcInvariant, PTL

LEMMA InvAnswered ==
    ASSUME IrcInv
    PROVE  Answered
<1>1. Good(tabs) /\ tabs \in Seq(Tabs) /\ DistinctIn(tabs) /\ inbox \in Seq(Replies)
  BY DEF IrcInv, Typed, Good
<1>2. ASSUME NEW i \in DOMAIN tabs, NEW c, c = tabs[i].channel, c # None
      PROVE  /\ tabs[i].doing_who => <<"WHO", c>> \in ToSet(slow) \/ <<"315", c>> \in ToSet(inbox)
             /\ tabs[i].ignore_mode =>
                    \/ <<"MODE", c>> \in ToSet(slow)
                    \/ \E k \in DOMAIN inbox : \/ inbox[k][1] = "324" /\ inbox[k][2] = c
                                               \/ inbox[k][1] \in {"PART", "KICK"} /\ inbox[k][3] = c
  <2>1. c \in Chans
    <3>1. tabs[i] \in Tabs
      BY <1>1
    <3> QED BY <1>2, <3>1 DEF Tabs
  <2>2. ASSUME tabs[i].doing_who PROVE <<"WHO", c>> \in ToSet(slow) \/ <<"315", c>> \in ToSet(inbox)
    <3>1. c \in WaitsIn(tabs)
      BY <1>2, <2>2 DEF WaitsIn
    <3> QED BY <3>1 DEF IrcInv, Waited
  <2>3. ASSUME tabs[i].ignore_mode
        PROVE  \/ <<"MODE", c>> \in ToSet(slow)
               \/ \E k \in DOMAIN inbox : \/ inbox[k][1] = "324" /\ inbox[k][2] = c
                                          \/ inbox[k][1] \in {"PART", "KICK"} /\ inbox[k][3] = c
    <3> DEFINE part == <<"PART", c>> \in ToSet(fast)
               ask == <<"MODE", c>> \in ToSet(slow)
               s == State(serv.nick, ViewIn(tabs, c))
    <3>1. Follows(c, s, inbox, irc, part, ask)
      BY <2>1 DEF IrcInv, Tracked
    <3>2. ViewIn(tabs, c) = ViewOf(tabs[i])
      BY <1>1, <1>2, ViewShown
    <3>3. s.view.shown /\ s.view.hides
      BY <2>3, <3>2, ViewOfIs DEF State
    <3>4. part \in BOOLEAN /\ ask \in BOOLEAN
      OBVIOUS
    <3> HIDE DEF part, ask, s
    <3>5. ask \/ \E k \in 1..Len(inbox) : (inbox[k][1] = "324" /\ inbox[k][2] = c) \/ (inbox[k][1] \in {"PART", "KICK"} /\ inbox[k][3] = c)
      BY <1>1, <3>1, <3>3, <3>4, Awaited
    <3>6. DOMAIN inbox = 1..Len(inbox)
      BY <1>1
    <3> QED BY <3>5, <3>6 DEF ask
  <2> QED BY <2>2, <2>3
<1> QED BY <1>2 DEF Answered

(* While doing_who or ignore_mode hides the answer to a WHO or MODE that   *)
(* inbound_ujoin or away_check sent, that answer is coming, or for the     *)
(* MODE a PART or KICK that takes the channel from the tab.                *)
THEOREM AnswersCome == IrcSpec => []Answered
<1>1. IrcInv => Answered
  BY InvAnswered
<1> QED BY <1>1, IrcInvariant, PTL

LEMMA InvFollows ==
    ASSUME IrcInv
    PROVE  ViewFollows
<1> SUFFICES ASSUME Settled PROVE ViewFollows
  BY DEF ViewFollows, ChannelsFollow, SelfFollows
<1>1. serv.state = "connected" /\ serv.end_of_motd /\ fast = <<>> /\ slow = <<>> /\ inbox = <<>>
  BY DEF Settled, LoggedIn
<1>2. Good(tabs) /\ tabs \in Seq(Tabs) /\ DistinctIn(tabs)
  BY DEF IrcInv, Typed, Good
<1>3. irc.nick # NoNick
  BY <1>1 DEF IrcInv, Linked
<1>4. ASSUME NEW c \in Chans
      PROVE  /\ serv.nick = irc.nick /\ (ViewIn(tabs, c).shown <=> On(irc, c, irc.nick))
             /\ ViewIn(tabs, c).shown => /\ ~ViewIn(tabs, c).hides /\ ViewIn(tabs, c).users = irc.members[c]
                                         /\ ViewIn(tabs, c).modes = irc.modes[c]
  <2> DEFINE s == State(serv.nick, ViewIn(tabs, c))
  <2>1. Follows(c, s, <<>>, irc, <<"PART", c>> \in ToSet(<<>>), <<"MODE", c>> \in ToSet(<<>>))
    BY <1>1 DEF IrcInv, Tracked
  <2>2. <<"PART", c>> \notin ToSet(<<>>) /\ <<"MODE", c>> \notin ToSet(<<>>)
    BY NoneIn
  <2>3. s.nick = serv.nick /\ s.view = ViewIn(tabs, c)
    BY DEF State
  <2> DEFINE part == <<"PART", c>> \in ToSet(<<>>)
             ask == <<"MODE", c>> \in ToSet(<<>>)
  <2>4. ~part /\ ~ask
    BY <2>2
  <2> HIDE DEF s, part, ask
  <2>5. At(c, s, irc, part, ask)
    BY <2>1, NoneFollows DEF part, ask
  <2> QED BY <1>3, <2>3, <2>4, <2>5 DEF At, Match
<1>5. SelfFollows
  <2>1. serv.nick = irc.nick
    BY <1>4, NamesAssumption
  <2>2. AwayRead(serv.is_away, <<>>, irc.gone)
    BY <1>1 DEF IrcInv, Linked
  <2>3. Len(<<>>) = 0
    OBVIOUS
  <2>4. serv.is_away = irc.gone
    BY <2>2, <2>3 DEF AwayRead
  <2> QED BY <2>1, <2>4 DEF SelfFollows
<1>6. ChannelsFollow
  <2>1. ASSUME NEW c \in Chans, NEW shown, shown = {i \in DOMAIN tabs : tabs[i].channel = c}
        PROVE  IF On(irc, c, irc.nick)
               THEN \E i \in DOMAIN tabs : /\ shown = {i}
                                           /\ tabs[i].users = irc.members[c]
                                           /\ tabs[i].modes = irc.modes[c]
               ELSE shown = {}
    <3>0. c # None
      BY NamesAssumption
    <3>1. /\ ViewIn(tabs, c).shown <=> \E i \in DOMAIN tabs : tabs[i].channel = c
          /\ \A i \in DOMAIN tabs : tabs[i].channel = c => ViewIn(tabs, c) = ViewOf(tabs[i])
      BY <1>2, <3>0, ViewFacts
    <3>2. CASE On(irc, c, irc.nick)
      <4>1. ViewIn(tabs, c).shown
        BY <1>4, <3>2
      <4>2. PICK i \in DOMAIN tabs : tabs[i].channel = c
        BY <3>1, <4>1
      <4>3. ViewIn(tabs, c) = ViewOf(tabs[i])
        BY <3>1, <4>2
      <4>4. ~tabs[i].ignore_mode /\ tabs[i].users = irc.members[c] /\ tabs[i].modes = irc.modes[c]
        BY <1>4, <4>1, <4>3, ViewOfIs
      <4>5. shown = {i}
        BY <1>2, <2>1, <3>0, <4>2 DEF DistinctIn
      <4> QED BY <3>2, <4>4, <4>5
    <3>3. CASE ~On(irc, c, irc.nick)
      <4>1. ~ViewIn(tabs, c).shown
        BY <1>4, <3>3
      <4> QED BY <2>1, <3>1, <3>3, <4>1
    <3> QED BY <3>2, <3>3
  <2> QED BY <2>1 DEF ChannelsFollow
<1> QED BY <1>5, <1>6 DEF ViewFollows

(* When nothing is on its way, each tab that shows a channel has the users *)
(* and modes that the server has for it, no channel is shown that the      *)
(* client is not on, none it is on is missing, and nick and away state are *)
(* those of the server: inbound_ujoin, inbound_nameslist, inbound_part,    *)
(* inbound_newnick and the others lose nothing and invent nothing.         *)
THEOREM ViewsFollow == IrcSpec => []ViewFollows
<1>1. IrcInv => ViewFollows
  BY InvFollows
<1> QED BY <1>1, IrcInvariant, PTL
=============================================================================
