----------------------------- MODULE IrcServer -----------------------------
(***************************************************************************)
(* The IRC server at the other end, as far as the client's code relies on  *)
(* it (external: no code of the repository).  It reads the client's lines  *)
(* one by one, keeps who is on which channel and answers each line with a  *)
(* sequence of lines.  Lines are tuples <<command or numeric, ...>>.        *)
(***************************************************************************)
EXTENDS Naturals, FiniteSets, SequencesExt, Functions

CONSTANTS
    Chans,      \* the channels
    Modes,      \* channel modes that take no part in who may join
    Friend,     \* another user, who is on the client's notify list
    NoNick      \* the nick of a client that has not registered

(* nick, gone: the client's nick and whether it is away;                   *)
(* members[c]: nick -> is an operator, for those on c; modes[c]: its modes;*)
(* ghosts: nicks of the client's earlier connections, not timed out yet;   *)
(* online: Friend is connected; watched: the client watches Friend; watch: *)
(* the server knows WATCH; news: Friend came or left unknown to the client.*)
NewServer(watch) == [nick |-> NoNick, gone |-> FALSE, members |-> [c \in Chans |-> <<>>],
              modes |-> [c \in Chans |-> {}], ghosts |-> {}, online |-> FALSE,
              watched |-> FALSE, watch |-> watch, news |-> FALSE]

On(irc, c, n) == n \in DOMAIN irc.members[c]
InUse(irc) == irc.ghosts \union {irc.nick} \union (IF irc.online THEN {Friend} ELSE {})

\* f without n, f with n renamed to m, and f with n added.
Without(f, n) == Restrict(f, DOMAIN f \ {n})
Renamed(f, n, m) == [x \in (DOMAIN f \ {n}) \union {m} |-> IF x = m THEN f[n] ELSE f[x]]
With(f, n, op) == [x \in DOMAIN f \union {n} |-> IF x \in DOMAIN f THEN f[x] ELSE op]

NamesOf(irc, c) ==
    LET here == irc.members[c]
    IN  [i \in 1..Cardinality(DOMAIN here) |->
            LET n == SetToSeq(DOMAIN here)[i] IN <<"353", c, n, here[n]>>] \o << <<"366", c>> >>

Joined(irc, c) == [irc EXCEPT !.members[c] = With(@, irc.nick, @ = <<>>)]
Parted(irc, c, n) == [irc EXCEPT !.members[c] = Without(@, n),
                                 !.modes[c] = IF DOMAIN irc.members[c] = {n} THEN {} ELSE @]
GoneFrom(irc, n) ==
    [irc EXCEPT !.members = [c \in Chans |-> Without(@[c], n)],
                !.modes = [c \in Chans |-> IF DOMAIN irc.members[c] = {n} THEN {} ELSE @[c]]]
Called(irc, n) ==
    [irc EXCEPT !.nick = n,
                !.members = [c \in Chans |-> IF On(irc, c, irc.nick) THEN Renamed(@[c], irc.nick, n)
                                             ELSE @[c]]]

Welcome(irc, n) == << <<"001", n>>, <<"005", irc.watch>>, <<"376">> >>

(* What the server does with a line, as <<its new state, its answer>>.     *)
Answer(irc, line) ==
    LET cmd == line[1]
        in == irc.nick # NoNick
    IN  CASE cmd = "NICK" /\ line[2] \in InUse(irc) ->
                <<irc, IF line[2] = irc.nick THEN <<>> ELSE << <<"433", line[2]>> >> >>
          [] cmd = "NICK" /\ line[2] \notin InUse(irc) ->
                <<Called(irc, line[2]), IF in THEN << <<"NICK", irc.nick, line[2]>> >> ELSE Welcome(irc, line[2])>>
          [] cmd = "JOIN" /\ in /\ ~On(irc, line[2], irc.nick) ->
                <<Joined(irc, line[2]),
                  << <<"JOIN", irc.nick, line[2]>> >> \o NamesOf(Joined(irc, line[2]), line[2])>>
          [] cmd = "PART" /\ in /\ On(irc, line[2], irc.nick) ->
                <<Parted(irc, line[2], irc.nick), << <<"PART", irc.nick, line[2]>> >> >>
          [] cmd = "MODE" /\ in /\ irc.members[line[2]] # <<>> ->
                <<irc, << <<"324", line[2], irc.modes[line[2]]>> >> >>
          [] cmd = "WHO" /\ in -> <<irc, << <<"315", line[2]>> >> >>
          [] cmd = "NAMES" /\ in -> <<irc, NamesOf(irc, line[2])>>
          [] cmd = "AWAY" /\ in ->
                <<[irc EXCEPT !.gone = line[2]], << <<IF line[2] THEN "306" ELSE "305">> >> >>
          [] cmd = "IDENTIFY" /\ in -> <<irc, << <<"MODE", irc.nick, "+", "e">> >> >>
          [] cmd = "ISON" /\ in -> <<[irc EXCEPT !.news = FALSE], << <<"303", irc.online>> >> >>
          [] cmd = "WATCH" /\ in /\ line[2] ->
                <<[irc EXCEPT !.watched = TRUE, !.news = FALSE], << <<IF irc.online THEN "604" ELSE "605">> >> >>
          [] cmd = "WATCH" /\ in /\ ~line[2] -> <<[irc EXCEPT !.watched = FALSE], <<>> >>
          [] OTHER -> <<irc, <<>> >>

(* What the client is told when something happens on channels it is on.    *)
Told(irc, c, line) == IF irc.nick # NoNick /\ On(irc, c, irc.nick) THEN <<line>> ELSE <<>>
CommonWith(irc, n) == \E c \in Chans : On(irc, c, n) /\ On(irc, c, irc.nick)

(* The client's connection has broken: its user stays as a ghost.          *)
Cut(irc) == [irc EXCEPT !.ghosts = @ \union ({irc.nick} \ {NoNick}), !.nick = NoNick,
                        !.gone = FALSE, !.watched = FALSE, !.news = irc.online]
=============================================================================
