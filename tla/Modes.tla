------------------------------- MODULE Modes -------------------------------
(***************************************************************************)
(* The modes of one channel (modes.cpp and the commands of outbound.cpp):  *)
(* commands put changes for many users on as few MODE lines as the server  *)
(* takes, the server applies what it accepts and tells everybody, and the  *)
(* client keeps users' levels, the key, the limit and the text of the      *)
(* channel's modes from what it is told, while others change them too.     *)
(* The server is external; it has announced its modes (inbound_005).       *)
(***************************************************************************)
EXTENDS Integers, Sequences, FiniteSets, SequencesExt

CONSTANTS
    Users, Me,   \* who is in the channel; the client's own nick
    NickModes,   \* nick_modes of PREFIX=, the highest first
    TypeA, TypeB, TypeC, TypeD, \* the four parts of CHANMODES=
    Announced,   \* MODES= of the 005, 0 when the server does not say
    Length,      \* the length of each nick, mask, key and limit
    Room,        \* max of send_channel_modes
    TypedNicks, TypedMasks, \* bounds: the lists typed after /op, /unban, ...
    Host,        \* the ban mask for the address of each user
    Typed,       \* bound: the modes given to /mode and set by others
    MaxCommands, MaxOthers  \* bounds

VARIABLES
    access,   \* the user list: each user in it with the modes it has
    current,  \* current_modes: the letters and the arguments after them
    key,      \* channelkey, None when empty
    limit,    \* sess->limit, None when 0
    level,    \* the server: each user in the channel with its modes
    setting,  \* the server: each mode that is set, with its argument
    masks,    \* the server: the banned masks
    toserver, \* lines on their way to the server
    toclient, \* lines on their way to the client
    asked,    \* history: the changes the commands were to make, in order
    done,     \* history: the changes the server took from the client, in order
    left      \* bounds: commands and changes of others that are left

client == <<access, current, key, limit>>
server == <<level, setting, masks>>
history == <<asked, done>>
modes_vars == <<client, server, toserver, toclient, history, left>>

None == "none"
Change(s, m, a) == [sign |-> s, mode |-> m, arg |-> a]
Words == DOMAIN Length
Letters == ToSet(NickModes) \cup TypeA \cup TypeB \cup TypeC \cup TypeD

\* MODES= below three is not modelled (send_channel_modes calls it insane);
\* bans, the key and the limit are the letters the code has for them.
ASSUME ServerAssumption ==
    /\ Announced \in Nat \ {1, 2} /\ Room \in Nat
    /\ NickModes \in Seq(ToSet(NickModes)) /\ NickModes # <<>>
    /\ IsFiniteSet(TypeB \cup TypeC \cup TypeD)
    /\ "b" \in TypeA /\ {"k", "l"} \cap (ToSet(NickModes) \cup TypeA) = {}
ASSUME WordsAssumption ==
    /\ Length \in [Words -> Nat] /\ None \notin Words
    /\ Users \subseteq Words /\ IsFiniteSet(Users) /\ Me \in Users /\ Host \in [Users -> Words]
    /\ TypedNicks \cup TypedMasks \subseteq Seq(Words)

\* What kind of mode a letter is, as PREFIX= and CHANMODES= say.
mode_chanmode_type(m) == IF m \in TypeA THEN 0 ELSE IF m \in TypeB THEN 1 ELSE
                         IF m \in TypeC THEN 2 ELSE IF m \in TypeD THEN 3 ELSE -1
IsNickMode(m) == m \in ToSet(NickModes)
mode_has_arg_AnySign(sign, m) == IsNickMode(m) \/ mode_chanmode_type(m) \in 0..2
mode_has_arg(sign, m) ==
    IsNickMode(m) \/ mode_chanmode_type(m) \in {0, 1} \/ (mode_chanmode_type(m) = 2 /\ sign = "+")

\* How many of W there are up to i; the elements of q at those places.
Count(W, i) == Cardinality(W \cap 1..i)
Kept(q, W) == [k \in 1..Cardinality(W) |-> q[CHOOSE i \in W : Count(W, i) = k]]

\* What some words take on a line, with the spaces before them.
Bytes(words) ==
    LET b[i \in 0..Len(words)] == IF i = 0 THEN 0 ELSE b[i - 1] + Length[words[i]] + 1
    IN b[Len(words)]

\* A MODE line: signed letters, then the arguments of those that have one.
Line(changes) == [kind |-> "MODE", modes |-> [i \in DOMAIN changes |-> [sign |-> changes[i].sign, mode |-> changes[i].mode]],
                  args |-> Kept([i \in DOMAIN changes |-> changes[i].arg], {i \in DOMAIN changes : changes[i].arg # None})]
Query == [kind |-> "QUERY"]
KickLine(nick) == [kind |-> "KICK", nick |-> nick]

ModesInit ==
    /\ access = [u \in Users |-> IF u = Me THEN {Head(NickModes)} ELSE {}]
    /\ current = [modes |-> <<>>, args |-> <<>>]
    /\ key = None /\ limit = None
    /\ level = access
    /\ setting = <<>> /\ masks = {}
    /\ toserver = <<>> /\ toclient = <<>>
    /\ asked = <<>> /\ done = <<>>
    /\ left = [commands |-> MaxCommands, others |-> MaxOthers]

-----------------------------------------------------------------------------
(* Commands.                                                               *)

\* One line's share: the most targets after the first w that a line takes.
Fits_Over(targets, w, permode) ==
    LET fit == {n \in 0..Len(targets) - w : n <= permode /\ \A i \in 1..n : permode + Bytes(SubSeq(targets, w + 1, w + i - 1)) <= Room}
    IN CHOOSE n \in fit : \A i \in fit : i <= n
Fits(targets, w, permode) ==
    LET fit == {n \in 0..Len(targets) - w : n <= permode /\ \A i \in 1..n : permode + Bytes(SubSeq(targets, w + 1, w + i)) <= Room}
    IN CHOOSE n \in fit : \A i \in fit : i <= n

modes_per_line(want) == IF want >= 1 THEN want ELSE IF Announced < 3 THEN 3 ELSE Announced

Each(targets, sign, mode) == [i \in DOMAIN targets |-> Change(sign, mode, targets[i])]

\* The lines it sends; it gives up at a target no line has room for.
send_channel_modes(targets, sign, mode, permode) ==
    LET sent[i \in 0..Len(targets)] ==
          IF i = 0 THEN [lines |-> <<>>, w |-> 0]
          ELSE LET s == sent[i - 1]
                   n == Fits(targets, s.w, permode)
               IN IF n < 1 THEN s
                  ELSE [lines |-> Append(s.lines, Line(Each(SubSeq(targets, s.w + 1, s.w + n), sign, mode))), w |-> s.w + n]
    IN sent[Len(targets)].lines

Commanding(lines, changes) ==
    /\ left.commands > 0
    /\ left' = [left EXCEPT !.commands = @ - 1]
    /\ toserver' = toserver \o lines
    /\ asked' = asked \o changes
    /\ UNCHANGED <<client, server, toclient, done>>

\* /op /deop /hop /dehop /voice /devoice, and a plugin's xchat_send_modes
cmd_op == \E nicks \in TypedNicks, sign \in {"+", "-"}, m \in ToSet(NickModes), want \in {0, 2} :
    Commanding(send_channel_modes(nicks, sign, m, modes_per_line(want)), Each(nicks, sign, m))
cmd_unban == \E typed \in TypedMasks, m \in TypeA :
    Commanding(send_channel_modes(typed, "-", m, modes_per_line(0)), Each(typed, "-", m))

\* In the order of the user list: by level; names among the same level are not ordered here.
Rank(u) == CHOOSE r \in 1..Len(NickModes) + 1 :
    /\ r <= Len(NickModes) => NickModes[r] \in access[u]
    /\ \A i \in 1..r - 1 : NickModes[i] \notin access[u]
Orders(S) == {q \in [1..Cardinality(S) -> S] : IsInjective(q) /\ ToSet(q) = S}
Listed(us) == {q \in Orders(us) : \A i, j \in DOMAIN q : i < j => Rank(q[i]) <= Rank(q[j])}

Many(us, sign, mode) == \E nicks \in Listed(us) :
    Commanding(send_channel_modes(nicks, sign, mode, modes_per_line(0)), Each(nicks, sign, mode))
cmd_mop == \E m \in ToSet(NickModes) : m = "o" /\ Many({u \in DOMAIN access : m \notin access[u]}, "+", m)
cmd_mdeop == \E m \in ToSet(NickModes) \ {"v"} : Many({u \in DOMAIN access \ {Me} : m \in access[u]}, "-", m)

Kicks(nicks) == [i \in DOMAIN nicks |-> KickLine(nicks[i])]
Kicked(nicks) == [i \in DOMAIN nicks |-> Change("kick", None, nicks[i])]
cmd_kick == \E u \in Users \ {Me} : Commanding(Kicks(<<u>>), Kicked(<<u>>))
cmd_mkick ==
    \E ops \in Listed({u \in DOMAIN access \ {Me} : "o" \in access[u]}),
       rest \in Listed({u \in DOMAIN access \ {Me} : "o" \notin access[u]}) :
        Commanding(Kicks(ops \o rest), Kicked(ops \o rest))

\* The client knows the address of a user in the list from its JOIN or from
\* a WHO, or not yet.
Known(nick) == IF nick \in DOMAIN access THEN BOOLEAN ELSE {FALSE}

\* A mask for the address, and the -o; with no address known, what was typed.
ban(nick, known, deop) ==
    LET banned == Change("+", "b", IF known THEN Host[nick] ELSE nick)
    IN IF known /\ deop THEN <<Change("-", "o", nick), banned>> ELSE <<banned>>
cmd_ban == \E u \in Users \ {Me} : \E known \in Known(u) :
    Commanding(<<Line(ban(u, known, FALSE))>>, ban(u, known, FALSE))
cmd_kickban == \E u \in Users \ {Me} : \E known \in Known(u) :
    LET b == ban(u, known, u \in DOMAIN access /\ "o" \in access[u])
    IN Commanding(<<Line(b), KickLine(u)>>, b \o Kicked(<<u>>))

cmd_mode ==
    \/ \E changes \in Typed : Commanding(<<Line(changes)>>, changes)
    \/ Commanding(<<Query>>, <<>>)

-----------------------------------------------------------------------------
(* The server.                                                             *)

\* What CHANMODES= and PREFIX= mean to the server that announced them.
HasArgument(sign, m) == m \in ToSet(NickModes) \cup TypeA \cup TypeB \/ (m \in TypeC /\ sign = "+")

\* The changes of a line, each with its argument if it is one of those taking
\* one and there are as many.
Paired(line, taking) ==
    [i \in DOMAIN line.modes |->
        Change(line.modes[i].sign, line.modes[i].mode,
               IF i \in taking /\ Count(taking, i) <= Len(line.args) THEN line.args[Count(taking, i)] ELSE None)]
Meant(line) == Paired(line, {i \in DOMAIN line.modes : HasArgument(line.modes[i].sign, line.modes[i].mode)})

\* What a server takes of a line: MODES= changes, and no more than 512 bytes.
Takes == IF Announced = 0 THEN 3 ELSE Announced
Accepted(line) ==
    LET changes == Meant(line)
        with == {i \in DOMAIN changes : changes[i].arg # None}
        fits(i) == /\ Count(with, i) <= Takes
                   /\ Len(line.modes) + Bytes(SubSeq(line.args, 1, Count(with, i))) <= Room
    IN Kept(changes, {i \in DOMAIN changes : fits(i)})

\* What a line can carry: every change that needs an argument has one, no other.
Proper(changes) ==
    /\ changes \in Seq([sign : {"+", "-"}, mode : Letters, arg : Words \cup {None}])
    /\ \A i \in DOMAIN changes : changes[i].arg # None <=> HasArgument(changes[i].sign, changes[i].mode)

\* A line has room for one of the words a command may put on it, and for a ban;
\* what is typed after /mode is within the server's limits.
Short(word) == modes_per_line(0) + Length[word] + 1 <= Room
ASSUME RoomAssumption ==
    /\ \A u \in Users : Short(u)
    /\ \A typed \in TypedNicks \cup TypedMasks : \A i \in DOMAIN typed : Short(typed[i])
    /\ \A u \in Users : \A mask \in {u, Host[u]} : 2 + Length[u] + 1 + Length[mask] + 1 <= Room
ASSUME TypedAssumption == \A changes \in Typed : Proper(changes) /\ Accepted(Line(changes)) = changes

World == [level |-> level, setting |-> setting, masks |-> masks]
Without(f, x) == [y \in DOMAIN f \ {x} |-> f[y]]
With(f, x, v) == [y \in DOMAIN f \cup {x} |-> IF y = x THEN v ELSE f[y]]

Applied(w, c) ==
    LET type == IF IsNickMode(c.mode) THEN -1 ELSE mode_chanmode_type(c.mode) IN
    [level |-> IF IsNickMode(c.mode) /\ c.arg \in DOMAIN w.level
               THEN [w.level EXCEPT ![c.arg] = IF c.sign = "+" THEN @ \cup {c.mode} ELSE @ \ {c.mode}] ELSE w.level,
     masks |-> IF type # 0 THEN w.masks ELSE IF c.sign = "+" THEN w.masks \cup {c.arg} ELSE w.masks \ {c.arg},
     setting |-> IF type < 1 THEN w.setting ELSE IF c.sign = "+" THEN With(w.setting, c.mode, c.arg) ELSE Without(w.setting, c.mode)]

\* Everybody is told what the line has changed, and nothing else.
Served(r, c) ==
    LET w == Applied(r.w, c) IN [w |-> w, told |-> IF w = r.w THEN r.told ELSE Append(r.told, c)]
Effect(changes) ==
    LET r[i \in 0..Len(changes)] == IF i = 0 THEN [w |-> World, told |-> <<>>] ELSE Served(r[i - 1], changes[i])
    IN r[Len(changes)]
Changes(changes) ==
    LET result == Effect(changes)
    IN /\ level' = result.w.level /\ setting' = result.w.setting /\ masks' = result.w.masks
       /\ toclient' = IF result.told = <<>> THEN toclient ELSE Append(toclient, Line(result.told))
Leaves(nick) ==
    /\ level' = Without(level, nick)
    /\ toclient' = IF nick \in DOMAIN level THEN Append(toclient, KickLine(nick)) ELSE toclient
    /\ UNCHANGED <<setting, masks>>

\* The answer to a question names the modes that are set, ms in some order.
Settings(ms) ==
    LET line == Line([i \in DOMAIN ms |-> Change("+", ms[i], setting[ms[i]])])
    IN [kind |-> "324", modes |-> line.modes, args |-> line.args]

Serve ==
    /\ toserver # <<>>
    /\ toserver' = Tail(toserver)
    /\ LET line == Head(toserver) IN
       \/ /\ line.kind = "MODE"
          /\ Changes(Accepted(line))
          /\ done' = done \o Accepted(line)
       \/ /\ line.kind = "KICK"
          /\ Leaves(line.nick)
          /\ done' = done \o Kicked(<<line.nick>>)
       \/ /\ line.kind = "QUERY"
          /\ \E ms \in Orders(DOMAIN setting) : toclient' = Append(toclient, Settings(ms))
          /\ UNCHANGED <<server, done>>
    /\ UNCHANGED <<client, asked, left>>

Others ==
    /\ left.others > 0
    /\ left' = [left EXCEPT !.others = @ - 1]
    /\ \/ \E changes \in Typed : Changes(changes)
       \/ \E u \in DOMAIN level \ {Me} : Leaves(u)
    /\ UNCHANGED <<client, toserver, history>>

-----------------------------------------------------------------------------
(* What the client makes of it.                                            *)

Client == [access |-> access, current |-> current, key |-> key, limit |-> limit]

\* The arguments follow the letters, in the order of the letters that have one.
Position(cur, m) == IF m \in ToSet(cur.modes) THEN CHOOSE i \in DOMAIN cur.modes : cur.modes[i] = m ELSE 0
ArgumentOf(cur, pos) == Count({i \in DOMAIN cur.modes : mode_has_arg("+", cur.modes[i])}, pos)

record_chan_mode(cur, sign, m, arg) ==
    LET pos == Position(cur, m)
        nth == ArgumentOf(cur, pos)
        has == mode_has_arg("+", m)
    IN CASE sign = "+" /\ pos = 0 -> [modes |-> Append(cur.modes, m), args |-> IF has THEN Append(cur.args, arg) ELSE cur.args]
         [] sign = "+" /\ pos # 0 -> [cur EXCEPT !.args = IF has THEN ReplaceAt(@, nth, arg) ELSE @]
         [] sign = "-" /\ pos # 0 -> [modes |-> RemoveAt(cur.modes, pos), args |-> IF has THEN RemoveAt(cur.args, nth) ELSE cur.args]
         [] OTHER -> cur

Updated(users, nick, m, sign) ==
    IF nick \notin DOMAIN users THEN users
    ELSE [users EXCEPT ![nick] = IF sign = "+" THEN @ \cup {m} ELSE @ \ {m}]

\* kind: whether it came in a MODE line or in the answer to a question, a 324.
handle_single_mode(c, change, kind) ==
    LET m == change.mode
        value == IF change.sign = "+" THEN change.arg ELSE None
    IN [access |-> IF IsNickMode(m) THEN Updated(c.access, change.arg, m, change.sign) ELSE c.access,
        current |-> IF ~IsNickMode(m) /\ kind # "324" /\ mode_chanmode_type(m) >= 1
                    THEN record_chan_mode(c.current, change.sign, m, change.arg) ELSE c.current,
        key |-> IF m = "k" THEN value ELSE c.key,
        limit |-> IF m = "l" THEN value ELSE c.limit]

\* As many arguments as letters: then every letter has one.
handle_mode(c, line) ==
    LET all == Len(line.args) = Len(line.modes)
        changes == Paired(line, {i \in DOMAIN line.modes : all \/ mode_has_arg(line.modes[i].sign, line.modes[i].mode)})
        given == IF line.kind = "324" THEN [modes |-> [i \in DOMAIN line.modes |-> line.modes[i].mode], args |-> line.args] ELSE c.current
        r[i \in 0..Len(line.modes)] ==
            IF i = 0 THEN [access |-> c.access, current |-> given, key |-> c.key, limit |-> c.limit]
            ELSE handle_single_mode(r[i - 1], changes[i], line.kind)
    IN r[Len(line.modes)]

\* What the client keeps after one more line.
After(c, line) ==
    IF line.kind = "KICK"
    THEN [access |-> Without(c.access, line.nick), current |-> c.current, key |-> c.key, limit |-> c.limit]
    ELSE handle_mode(c, line)

Read ==
    /\ toclient # <<>>
    /\ toclient' = Tail(toclient)
    /\ LET c == After(Client, Head(toclient))
       IN access' = c.access /\ current' = c.current /\ key' = c.key /\ limit' = c.limit
    /\ UNCHANGED <<server, toserver, history, left>>

Command == cmd_op \/ cmd_unban \/ cmd_mop \/ cmd_mdeop \/ cmd_kick \/ cmd_mkick \/ cmd_ban \/ cmd_kickban \/ cmd_mode
ModesNext == Command \/ Serve \/ Others \/ Read
ModesSpec == ModesInit /\ [][ModesNext]_modes_vars

-----------------------------------------------------------------------------
\* What the variables hold.
ModesTypeOK ==
    /\ DOMAIN access \subseteq Users /\ DOMAIN level \subseteq Users
    /\ \A u \in DOMAIN access : access[u] \subseteq ToSet(NickModes)
    /\ ToSet(current.modes) \subseteq TypeB \cup TypeC \cup TypeD

\* Every change a command was to make is taken by the server once, in order:
\* no line holds more than the server takes, none is left out between two
\* lines (send_channel_modes, ban, and the commands that call them).
InLine(line) == CASE line.kind = "MODE" -> Meant(line) [] line.kind = "KICK" -> Kicked(<<line.nick>>)
                  [] OTHER -> <<>>
TargetsReached ==
    LET r[i \in 0..Len(toserver)] == IF i = 0 THEN done ELSE r[i - 1] \o InLine(toserver[i])
    IN asked = r[Len(toserver)]

\* Once the client has read everything, the user list holds who is in the
\* channel, each with the level the server gave it: no argument of a line went
\* to another letter than the server meant it for (handle_mode).
LevelsAgree == toclient = <<>> => access = level

\* And the text of the modes, with the arguments at their places, the key and
\* the limit are those of the server (record_chan_mode, handle_single_mode).
Value(m) == IF m \in DOMAIN setting THEN setting[m] ELSE None
SettingsAgree ==
    /\ Len(current.args) = ArgumentOf(current, Len(current.modes))
    /\ toclient = <<>> =>
         /\ ToSet(current.modes) = DOMAIN setting
         /\ \A i \in DOMAIN current.modes : LET m == current.modes[i] IN
               IF HasArgument("+", m) THEN current.args[ArgumentOf(current, i)] = setting[m] ELSE setting[m] = None
         /\ key = Value("k") /\ limit = Value("l")

\* Together: what the client keeps of the channel is what the server has.
ModesAgree == LevelsAgree /\ SettingsAgree
=============================================================================
