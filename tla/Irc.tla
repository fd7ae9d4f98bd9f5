-------------------------------- MODULE Irc --------------------------------
(***************************************************************************)
(* Channels, own nick and notify list: how the client follows the server   *)
(* by the lines it receives (proto-irc.cpp, inbound.cpp, notify.cpp and the*)
(* parts of modes.cpp, outbound.cpp, server.cpp and xchat.cpp they meet).  *)
(* Client and server run concurrently: lines wait in the send queue, where *)
(* WHO and MODE questions are overtaken by all others, and in the socket.  *)
(* One server, its tab and any number of channel tabs; connections break,  *)
(* and the client reconnects, logs in, and joins its channels again.       *)
(***************************************************************************)
EXTENDS IrcServer

CONSTANTS
    Nicks,      \* the nicks of the preferences, in the order they are tried
    AutoJoin,   \* a list of channels
    MaxTabs,    \* bound: channel tabs
    MaxLines,   \* bound: lines on the way to the client before it reads
    Scenarios   \* bounds: how often each kind of event of Kinds happens

None == "none"
Away == "away"

ASSUME NicksAssumption == Nicks \in Seq(STRING) /\ Len(Nicks) = 3
\* What tells the names apart: a channel begins with one of CHANTYPES=, a nick does not.
ASSUME NamesAssumption ==
    /\ Friend \notin ToSet(Nicks) /\ NoNick \notin ToSet(Nicks) \cup {Friend}
    /\ ToSet(Nicks) \cap Chans = {} /\ Chans # {} /\ None \notin Chans
    /\ AutoJoin \in Seq(Chans)

Kinds == {"join", "part", "cycle", "close", "nick", "away", "names", "mode", "notify",
          "check", "poll", "kick", "friend", "visit", "ghost", "drop", "fail"}
\* A scenario also chooses whether the server knows WATCH, whether joining waits for NickServ
\* and how much of AutoJoin is the network's list.
Settings == {"watch", "nickserv", "autojoin"}
ASSUME ScenariosAssumption ==
    \A scenario \in Scenarios :
        scenario \in [Kinds \union Settings -> Nat] /\ scenario["autojoin"] <= Len(AutoJoin)

VARIABLES
    tabs,   \* sess_list: the channel tabs
    serv,   \* the client's record of the server
    notify, \* Friend is listed, and believed to be online
    fast,   \* the send queue: lines of priority 2
    slow,   \* the send queue: questions, of priority 0
    inbox,  \* lines on their way to the client
    irc,    \* the server itself
    left,   \* how often each kind of event may still happen
    kept    \* history: what to come back to after the connection broke: channels, and Away

irc_vars == <<tabs, serv, notify, fast, slow, inbox, irc, left, kept>>

NewTab(c) == [channel |-> c, waitchannel |-> None, willjoinchannel |-> None, doing_who |-> FALSE,
              done_away_check |-> FALSE, ignore_mode |-> FALSE, end_of_names |-> FALSE,
              users |-> <<>>, modes |-> {}]

IrcInit ==
    \E scenario \in Scenarios :
        /\ tabs = <<>>
        /\ serv = [nick |-> Nicks[1], state |-> "connecting", nickcount |-> 1, end_of_motd |-> FALSE,
                   joindelay |-> FALSE, nickserv |-> scenario["nickserv"] > 0,
                   autojoin |-> SubSeq(AutoJoin, 1, scenario["autojoin"]), is_away |-> FALSE,
                   reconnect_away |-> FALSE, supports_watch |-> FALSE]
        /\ notify = [listed |-> FALSE, ison |-> FALSE]
        /\ fast = <<>> /\ slow = <<>> /\ inbox = <<>>
        /\ irc = NewServer(scenario["watch"] > 0)
        /\ left = scenario
        /\ kept = {}

-----------------------------------------------------------------------------
(* The lines the client sends, and their place in the queue.               *)
irc_join(c) == << <<"JOIN", c>> >>
irc_part(c) == << <<"PART", c>> >>
irc_cycle(c) == irc_part(c) \o irc_join(c)
irc_names(c) == << <<"NAMES", c>> >>
irc_change_nick(n) == << <<"NICK", n>> >>
irc_join_info(c) == << <<"MODE", c>> >>
irc_user_list(c) == << <<"WHO", c>> >>
irc_away_status(chans) == [i \in DOMAIN chans |-> <<"WHO", chans[i]>>]
irc_set_away(gone) == << <<"AWAY", gone>> >>
irc_ns_identify == << <<"IDENTIFY">> >>
notify_watch(add) == << <<"WATCH", add>> >>
notify_ison == << <<"ISON">> >>

\* However many lines a list of channels takes, the server reads it as one JOIN for each.
irc_join_list(chans) == [i \in DOMAIN chans |-> <<"JOIN", chans[i]>>]

\* What is sent on a closed connection is lost.
SendLines(urgent, questions) ==
    /\ fast' = IF serv.state = "connected" THEN fast \o urgent ELSE fast
    /\ slow' = IF serv.state = "connected" THEN slow \o questions ELSE slow
Silent == UNCHANGED <<fast, slow>>

-----------------------------------------------------------------------------
(* Tabs.                                                                   *)
\* The first tab in the list that is as wanted, 0 if none is.
FirstTab(P(_)) == LET is == {i \in DOMAIN tabs : P(tabs[i])}
                  IN  IF is = {} THEN 0 ELSE CHOOSE i \in is : \A j \in is : i <= j
find_channel(c) == FirstTab(LAMBDA t : t.channel = c)
find_session_from_waitchannel(c) == FirstTab(LAMBDA t : t.channel = None /\ t.waitchannel = c)
find_unused_session == FirstTab(LAMBDA t : t.channel = None /\ t.waitchannel = None)

\* Those that are channels, of a list with Nones.
Named(chans) ==
    LET named[i \in 0..Len(chans)] == IF i = 0 THEN <<>> ELSE IF chans[i] = None THEN named[i - 1]
                                      ELSE Append(named[i - 1], chans[i])
    IN  named[Len(chans)]

IsMe(n) == n = serv.nick

\* A user enters the list unless the nick is there already.
userlist_add(t, n, op) == [t EXCEPT !.users = With(@, n, op)]
userlist_remove(t, n) == [t EXCEPT !.users = Without(@, n)]
userlist_change(t, n, m) == [t EXCEPT !.users = IF n \in DOMAIN @ THEN Renamed(@, n, m) ELSE @]
userlist_update_mode(t, n, op) == [t EXCEPT !.users = IF n \in DOMAIN @ THEN [@ EXCEPT ![n] = op] ELSE @]

clear_channel(t) ==
    [t EXCEPT !.waitchannel = IF t.channel # None THEN t.channel ELSE @, !.channel = None,
              !.doing_who = FALSE, !.done_away_check = FALSE, !.users = <<>>, !.modes = {}]

\* The tab of channel c becomes f(tab), if there is one.
InChannel(c, f(_)) ==
    tabs' = IF find_channel(c) = 0 THEN tabs ELSE [tabs EXCEPT ![find_channel(c)] = f(@)]
InAll(f(_)) == tabs' = [i \in DOMAIN tabs |-> f(tabs[i])]

-----------------------------------------------------------------------------
(* Handlers of the server's lines.                                         *)
notify_set(n, on) == notify' = IF n = Friend /\ notify.listed THEN [notify EXCEPT !.ison = on] ELSE notify

\* A channel we enter takes the tab that shows it, one that waits for it, an unused one or a new one.
inbound_ujoin(c) ==
    LET found == find_channel(c)
        waiting == IF found # 0 THEN found ELSE find_session_from_waitchannel(c)
        i == IF waiting # 0 THEN waiting ELSE find_unused_session
        opened == IF i = 0 THEN <<NewTab(c)>> \o tabs ELSE tabs
    IN  /\ i = 0 => Len(tabs) < MaxTabs
        /\ tabs' = [opened EXCEPT ![IF i = 0 THEN 1 ELSE i].channel = c,
                                  ![IF i = 0 THEN 1 ELSE i].users = <<>>,
                                  ![IF i = 0 THEN 1 ELSE i].waitchannel = None,
                                  ![IF i = 0 THEN 1 ELSE i].ignore_mode = TRUE,
                                  ![IF i = 0 THEN 1 ELSE i].end_of_names = FALSE,
                                  ![IF i = 0 THEN 1 ELSE i].doing_who = TRUE]
        /\ SendLines(<<>>, irc_join_info(c) \o irc_user_list(c))
        /\ UNCHANGED notify

inbound_join(c, n) ==
    /\ InChannel(c, LAMBDA t : userlist_add(t, n, FALSE))
    /\ IF find_channel(c) # 0 THEN notify_set(n, TRUE) ELSE UNCHANGED notify
    /\ Silent

\* With "autorejoin", a kicked client asks to come back at once.
inbound_ukick(c) ==
    /\ InChannel(c, LAMBDA t : [clear_channel(t) EXCEPT !.waitchannel = c])
    /\ SendLines(IF find_channel(c) = 0 THEN <<>> ELSE irc_join(c), <<>>)
    /\ UNCHANGED notify

inbound_upart(c) == InChannel(c, clear_channel) /\ Silent /\ UNCHANGED notify

\* inbound_part, inbound_kick
inbound_part(c, n) == InChannel(c, LAMBDA t : userlist_remove(t, n)) /\ Silent /\ UNCHANGED notify

inbound_quit_Unnoticed(n) == InAll(LAMBDA t : userlist_remove(t, n)) /\ UNCHANGED notify /\ Silent
inbound_quit(n) == InAll(LAMBDA t : userlist_remove(t, n)) /\ notify_set(n, FALSE) /\ Silent

\* The first line after the end of a list begins a new one.
inbound_nameslist(c, n, op) ==
    /\ InChannel(c, LAMBDA t : userlist_add([t EXCEPT !.users = IF t.end_of_names THEN <<>> ELSE @,
                                                      !.end_of_names = FALSE], n, op))
    /\ IF find_channel(c) # 0 THEN notify_set(n, TRUE) ELSE UNCHANGED notify
    /\ Silent

inbound_nameslist_end(c) ==
    InChannel(c, LAMBDA t : [t EXCEPT !.end_of_names = TRUE]) /\ Silent /\ UNCHANGED notify

\* handle_mode, for a nick's mode and for a channel's
NickMode(c, n, op) == InChannel(c, LAMBDA t : userlist_update_mode(t, n, op)) /\ Silent /\ UNCHANGED notify
record_chan_mode(t, sign, m) ==
    [t EXCEPT !.modes = IF t.ignore_mode THEN @ ELSE IF sign = "+" THEN @ \union {m} ELSE @ \ {m}]
ChanMode(c, sign, m) ==
    InChannel(c, LAMBDA t : record_chan_mode(t, sign, m)) /\ Silent /\ UNCHANGED notify

\* 324: the channel's modes; 315: the end of a WHO
ModesAre_Ignored(c, modes) ==
    InChannel(c, LAMBDA t : [t EXCEPT !.modes = IF t.ignore_mode THEN @ ELSE modes, !.ignore_mode = FALSE])
    /\ Silent /\ UNCHANGED notify
ModesAre(c, modes) ==
    InChannel(c, LAMBDA t : [t EXCEPT !.ignore_mode = FALSE, !.modes = modes]) /\ Silent /\ UNCHANGED notify
EndOfWho_FrontTab(c) == /\ tabs' = [i \in DOMAIN tabs |-> [tabs[i] EXCEPT !.doing_who = i # 1 /\ @]]
                        /\ Silent /\ UNCHANGED notify
EndOfWho(c) == InChannel(c, LAMBDA t : [t EXCEPT !.doing_who = FALSE]) /\ Silent /\ UNCHANGED notify

inbound_newnick(n, m) == InAll(LAMBDA t : userlist_change(t, n, m))

inbound_next_nick ==
    /\ serv' = [serv EXCEPT !.nickcount = @ + 1]
    /\ SendLines(IF serv'.nickcount \in {2, 3} THEN irc_change_nick(Nicks[serv'.nickcount]) ELSE <<>>, <<>>)
    /\ UNCHANGED <<tabs, notify>>

inbound_login_start_Asked(n) ==
    /\ serv' = [serv EXCEPT !.reconnect_away = FALSE]
    /\ SendLines(IF serv.reconnect_away /\ ~serv.is_away THEN irc_set_away(TRUE) ELSE <<>>, <<>>)
    /\ UNCHANGED <<tabs, notify>>
\* The server says what our nick is; who was away says so again.
inbound_login_start(n) ==
    /\ inbound_newnick(serv.nick, n)
    /\ serv' = [serv EXCEPT !.nick = n, !.reconnect_away = FALSE]
    /\ SendLines(IF serv.reconnect_away /\ ~serv.is_away THEN irc_set_away(TRUE) ELSE <<>>, <<>>)
    /\ UNCHANGED notify

\* The JOINs for the network's list, and one p_join for each tab that lost its channel to a broken
\* connection: to the server, a list of them too.
Rejoins == Named([i \in DOMAIN tabs |-> tabs[i].willjoinchannel])
check_autojoin_channels(after) ==
    /\ SendLines(irc_join_list(serv.autojoin) \o irc_join_list(Rejoins) \o after, <<>>)
    /\ InAll(LAMBDA t : IF t.willjoinchannel = None THEN t
                        ELSE [t EXCEPT !.waitchannel = t.willjoinchannel, !.willjoinchannel = None])

\* End of the MOTD.  (The WATCH is sent after the JOINs, or the NickServ command.)
inbound_login_end ==
    LET watches == IF serv.supports_watch /\ notify.listed THEN notify_watch(TRUE) ELSE <<>>
    IN  /\ UNCHANGED notify
        /\ \/ serv.end_of_motd /\ Silent /\ UNCHANGED <<tabs, serv>>
           \/ /\ ~serv.end_of_motd /\ serv.nickserv
              /\ serv' = [serv EXCEPT !.end_of_motd = TRUE, !.joindelay = TRUE]
              /\ SendLines(irc_ns_identify \o watches, <<>>)
              /\ UNCHANGED tabs
           \/ /\ ~serv.end_of_motd /\ ~serv.nickserv
              /\ serv' = [serv EXCEPT !.end_of_motd = TRUE, !.autojoin = <<>>]
              /\ check_autojoin_channels(watches)

\* MODE +e for our nick: NickServ knows us, no need to wait.
inbound_identified ==
    IF serv.joindelay
    THEN /\ serv' = [serv EXCEPT !.joindelay = FALSE, !.autojoin = <<>>]
         /\ check_autojoin_channels(<<>>)
         /\ UNCHANGED notify
    ELSE UNCHANGED <<tabs, serv, notify, fast, slow>>

AwayIs(gone) ==
    /\ serv' = [serv EXCEPT !.is_away = gone, !.reconnect_away = IF gone THEN @ ELSE FALSE]
    /\ Silent /\ UNCHANGED <<tabs, notify>>

\* Everything a line may do.
process_numeric(line) ==
    \/ line[1] = "001" /\ inbound_login_start(line[2])
    \/ line[1] = "005" /\ serv' = [serv EXCEPT !.supports_watch = line[2]] /\ Silent /\ UNCHANGED <<tabs, notify>>
    \/ line[1] = "303" /\ notify_set(Friend, line[2]) /\ Silent /\ UNCHANGED <<tabs, serv>>
    \/ line[1] \in {"600", "604"} /\ notify_set(Friend, TRUE) /\ Silent /\ UNCHANGED <<tabs, serv>>
    \/ line[1] \in {"601", "605"} /\ notify_set(Friend, FALSE) /\ Silent /\ UNCHANGED <<tabs, serv>>
    \/ line[1] = "305" /\ AwayIs(FALSE)
    \/ line[1] = "306" /\ AwayIs(TRUE)
    \/ line[1] = "315" /\ EndOfWho(line[2]) /\ UNCHANGED serv
    \/ line[1] = "324" /\ ModesAre(line[2], line[3]) /\ UNCHANGED serv
    \/ line[1] = "353" /\ inbound_nameslist(line[2], line[3], line[4]) /\ UNCHANGED serv
    \/ line[1] = "366" /\ inbound_nameslist_end(line[2]) /\ UNCHANGED serv
    \/ line[1] = "376" /\ inbound_login_end
    \/ /\ line[1] = "433"
       /\ IF serv.end_of_motd THEN UNCHANGED <<tabs, serv, notify, fast, slow>> ELSE inbound_next_nick

process_named_msg(line) ==
    \/ /\ line[1] = "JOIN" /\ UNCHANGED serv
       /\ IF IsMe(line[2]) THEN inbound_ujoin(line[3]) ELSE inbound_join(line[3], line[2])
    \/ /\ line[1] = "PART" /\ UNCHANGED serv
       /\ IF IsMe(line[2]) THEN inbound_upart(line[3]) ELSE inbound_part(line[3], line[2])
    \/ /\ line[1] = "KICK" /\ UNCHANGED serv
       /\ IF IsMe(line[2]) THEN inbound_ukick(line[3]) ELSE inbound_part(line[3], line[2])
    \/ line[1] = "QUIT" /\ inbound_quit(line[2]) /\ UNCHANGED serv
    \/ /\ line[1] = "NICK" /\ Silent /\ UNCHANGED notify
       /\ inbound_newnick(line[2], line[3])
       /\ serv' = IF IsMe(line[2]) THEN [serv EXCEPT !.nick = line[3]] ELSE serv
    \/ line[1] = "MODE" /\ line[2] \notin Chans /\ IsMe(line[2]) /\ inbound_identified
    \/ line[1] = "MODE" /\ line[2] \in Chans /\ line[4] \in Modes /\ ChanMode(line[2], line[3], line[4]) /\ UNCHANGED serv
    \/ line[1] = "OP" /\ NickMode(line[2], line[3], line[4]) /\ UNCHANGED serv

\* irc_inline
Receive ==
    /\ inbox # <<>>
    /\ inbox' = Tail(inbox)
    /\ process_numeric(Head(inbox)) \/ process_named_msg(Head(inbox))
    /\ UNCHANGED <<irc, left, kept>>

-----------------------------------------------------------------------------
(* Timers.                                                                 *)
JoinTimeout ==
    /\ serv.joindelay
    /\ serv' = [serv EXCEPT !.joindelay = FALSE, !.autojoin = <<>>]
    /\ check_autojoin_channels(<<>>)
    /\ UNCHANGED <<notify, inbox, irc, left, kept>>

Uses(kind) == left[kind] > 0 /\ left' = [left EXCEPT ![kind] = @ - 1]
LoggedIn == serv.state = "connected" /\ serv.end_of_motd

\* Every 30 seconds: ask who is away, on channels that were not asked since all were.
away_check ==
    LET joined == {i \in DOMAIN tabs : tabs[i].channel # None}
        rest == {i \in joined : ~tabs[i].done_away_check}
        due == {i \in IF rest = {} THEN joined ELSE rest : ~tabs[i].doing_who}
        asked == Named([i \in DOMAIN tabs |-> IF i \in due THEN tabs[i].channel ELSE None])
    IN  /\ serv.state = "connected" /\ Uses("check")
        /\ tabs' = [i \in DOMAIN tabs |->
                        [tabs[i] EXCEPT !.done_away_check = i \in due \/ (@ /\ rest # {}),
                                        !.doing_who = i \in due \/ @]]
        /\ SendLines(<<>>, irc_away_status(asked))
        /\ UNCHANGED <<serv, notify, inbox, irc, kept>>

\* Every 15 seconds: ask for the listed nicks, where the server does not tell by itself.
Asks == LoggedIn /\ ~serv.supports_watch
notify_checklist ==
    /\ Asks /\ notify.listed /\ Uses("poll")
    /\ SendLines(notify_ison, <<>>)
    /\ UNCHANGED <<tabs, serv, notify, inbox, irc, kept>>

-----------------------------------------------------------------------------
(* Commands of the user.                                                   *)
Command == UNCHANGED <<inbox, irc>>
cmd_join(c) ==
    /\ serv.state = "connected" /\ Uses("join") /\ SendLines(irc_join(c), <<>>)
    /\ \/ UNCHANGED tabs
       \/ \E i \in DOMAIN tabs : /\ tabs[i].channel = None /\ tabs[i].waitchannel # None
                                 /\ tabs' = [tabs EXCEPT ![i].waitchannel = c]
    /\ Command /\ UNCHANGED <<serv, notify, kept>>
cmd_part(c) ==
    /\ serv.state = "connected" /\ Uses("part") /\ SendLines(irc_part(c), <<>>) /\ kept' = kept \ {c}
    /\ Command /\ UNCHANGED <<tabs, serv, notify>>
cmd_cycle(c) ==
    /\ serv.state = "connected" /\ Uses("cycle") /\ SendLines(irc_cycle(c), <<>>)
    /\ Command /\ UNCHANGED <<tabs, serv, notify, kept>>
cmd_names(c) ==
    /\ serv.state = "connected" /\ Uses("names") /\ SendLines(irc_names(c), <<>>)
    /\ Command /\ UNCHANGED <<tabs, serv, notify, kept>>
cmd_nick(n) ==
    /\ Uses("nick") /\ Command /\ UNCHANGED <<notify, kept>>
    /\ IF serv.state = "connected" THEN SendLines(irc_change_nick(n), <<>>) /\ UNCHANGED <<tabs, serv>>
       ELSE Silent /\ serv' = [serv EXCEPT !.nick = n] /\ inbound_newnick(serv.nick, n)
cmd_away ==
    /\ serv.state = "connected" /\ Uses("away") /\ SendLines(irc_set_away(TRUE), <<>>)
    /\ Command /\ UNCHANGED <<tabs, serv, notify, kept>>
cmd_back ==
    /\ serv.state = "connected" /\ serv.is_away /\ Uses("away") /\ SendLines(irc_set_away(FALSE), <<>>)
    /\ kept' = kept \ {Away}
    /\ Command /\ UNCHANGED <<tabs, serv, notify>>
\* notify_adduser, notify_deluser
cmd_notify ==
    /\ Uses("notify") /\ notify' = [listed |-> ~notify.listed, ison |-> FALSE]
    /\ SendLines(IF LoggedIn /\ serv.supports_watch THEN notify_watch(~notify.listed)
            ELSE IF Asks /\ ~notify.listed THEN notify_ison ELSE <<>>, <<>>)
    /\ Command /\ UNCHANGED <<tabs, serv, kept>>
\* session_free: a closed tab parts its channel.
Close(i) ==
    /\ Uses("close") /\ tabs' = RemoveAt(tabs, i)
    /\ SendLines(IF tabs[i].channel # None THEN irc_part(tabs[i].channel) ELSE <<>>, <<>>)
    /\ kept' = kept \ {tabs[i].channel, tabs[i].waitchannel, tabs[i].willjoinchannel}
    /\ Command /\ UNCHANGED <<serv, notify>>

User == \/ \E c \in Chans : cmd_join(c) \/ cmd_part(c) \/ cmd_cycle(c) \/ cmd_names(c)
        \/ \E n \in ToSet(Nicks) : cmd_nick(n)
        \/ cmd_away \/ cmd_back \/ cmd_notify
        \/ \E i \in DOMAIN tabs : Close(i)

-----------------------------------------------------------------------------
(* The connection.                                                         *)
\* server_connect, of the timer or after a failed attempt; server_connected
Attempt ==
    /\ serv.state = "waiting"
    /\ serv' = [serv EXCEPT !.state = "connecting", !.nickcount = 1, !.end_of_motd = FALSE,
                            !.is_away = FALSE, !.supports_watch = FALSE]
    /\ fast' = <<>> /\ slow' = <<>>
    /\ UNCHANGED <<tabs, notify, inbox, irc, left, kept>>
server_connected ==
    /\ serv.state = "connecting"
    /\ serv' = [serv EXCEPT !.state = "connected"]
    /\ fast' = irc_change_nick(serv.nick) /\ UNCHANGED slow
    /\ UNCHANGED <<tabs, notify, inbox, irc, left, kept>>

\* auto_reconnect, which marks the channels of a client that has logged in, and server_disconnect,
\* which clears them
Marked(t) == IF t.channel = None \/ ~serv.end_of_motd THEN t ELSE [t EXCEPT !.willjoinchannel = t.channel]
Lose_ClearedFirst(t) == Marked(clear_channel(t))
Lose(t) == clear_channel(Marked(t))
WaitAgain == [serv EXCEPT !.state = "waiting", !.reconnect_away = serv.is_away, !.joindelay = FALSE]
auto_reconnect ==
    /\ InAll(Lose)
    /\ notify' = [notify EXCEPT !.ison = FALSE]
    /\ serv' = WaitAgain
Breaks ==
    /\ serv.state = "connected" /\ Uses("drop")
    /\ auto_reconnect
    /\ fast' = <<>> /\ slow' = <<>> /\ inbox' = <<>>
    /\ irc' = Cut(irc)
    /\ kept' = (IF serv.end_of_motd THEN {tabs[i].channel : i \in DOMAIN tabs} \ {None} ELSE {})
               \union ({tabs[i].willjoinchannel : i \in DOMAIN tabs} \ {None})
               \union (IF serv.is_away THEN {Away} ELSE {})
AttemptFails ==
    /\ serv.state = "connecting" /\ Uses("fail")
    /\ serv' = WaitAgain
    /\ UNCHANGED <<tabs, notify, fast, slow, inbox, irc, kept>>
Connection == Attempt \/ server_connected \/ Breaks \/ AttemptFails

-----------------------------------------------------------------------------
(* The server and the other users.                                         *)
Room == Len(inbox) < MaxLines
Reply(pair) == irc' = pair[1] /\ inbox' = inbox \o pair[2]
Rest == UNCHANGED <<tabs, serv, notify, kept>>
\* A line leaves the queue: a question only when nothing else waits.
Serve ==
    /\ serv.state = "connected" /\ Room /\ Rest /\ UNCHANGED left
    /\ \/ /\ fast # <<>> /\ Reply(Answer(irc, Head(fast)))
          /\ fast' = Tail(fast) /\ UNCHANGED slow
       \/ /\ fast = <<>> /\ slow # <<>> /\ Reply(Answer(irc, Head(slow)))
          /\ slow' = Tail(slow) /\ UNCHANGED fast

World(kind) == Uses(kind) /\ Room /\ Silent /\ Rest
Kick(c) ==
    /\ World("kick") /\ irc.nick # NoNick /\ On(irc, c, irc.nick)
    /\ Reply(<<Parted(irc, c, irc.nick), << <<"KICK", irc.nick, c>> >> >>)
SetMode(c, sign, m) ==
    /\ World("mode") /\ irc.members[c] # <<>> /\ (sign = "+") # (m \in irc.modes[c])
    /\ Reply(<<[irc EXCEPT !.modes[c] = IF sign = "+" THEN @ \union {m} ELSE @ \ {m}],
               Told(irc, c, <<"MODE", c, sign, m>>)>>)
SetOp(c, n) ==
    /\ World("mode") /\ On(irc, c, n)
    /\ Reply(<<[irc EXCEPT !.members[c][n] = ~@], Told(irc, c, <<"OP", c, n, ~irc.members[c][n]>>)>>)
FriendComes ==
    /\ World("friend") /\ ~irc.online
    /\ Reply(<<[irc EXCEPT !.online = TRUE, !.news = ~irc.watched], IF irc.watched THEN << <<"600">> >> ELSE <<>> >>)
FriendQuits ==
    /\ World("friend") /\ irc.online
    /\ Reply(<<[GoneFrom(irc, Friend) EXCEPT !.online = FALSE, !.news = ~irc.watched /\ ~CommonWith(irc, Friend)],
               (IF CommonWith(irc, Friend) THEN << <<"QUIT", Friend>> >> ELSE <<>>)
               \o (IF irc.watched THEN << <<"601">> >> ELSE <<>>)>>)
FriendJoins(c) ==
    /\ World("visit") /\ irc.online /\ ~On(irc, c, Friend)
    /\ Reply(<<[irc EXCEPT !.members[c] = With(@, Friend, @ = <<>>), !.news = @ /\ ~On(irc, c, irc.nick)],
               Told(irc, c, <<"JOIN", Friend, c>>)>>)
FriendParts(c) ==
    /\ World("visit") /\ On(irc, c, Friend)
    /\ Reply(<<Parted(irc, c, Friend), Told(irc, c, <<"PART", Friend, c>>)>>)
\* A ghost's connection times out.
GhostQuits(n) ==
    /\ World("ghost")
    /\ Reply(<<[GoneFrom(irc, n) EXCEPT !.ghosts = @ \ {n}],
               IF CommonWith(irc, n) THEN << <<"QUIT", n>> >> ELSE <<>> >>)

Others == \/ \E c \in Chans : Kick(c) \/ FriendJoins(c) \/ FriendParts(c)
          \/ \E c \in Chans, sign \in {"+", "-"}, m \in Modes : SetMode(c, sign, m)
          \/ \E c \in Chans, n \in ToSet(Nicks) \union {Friend} : SetOp(c, n)
          \/ FriendComes \/ FriendQuits
          \/ \E n \in irc.ghosts : GhostQuits(n)

Timers == JoinTimeout \/ away_check \/ notify_checklist
IrcNext == Receive \/ Serve \/ Timers \/ User \/ Connection \/ Others
IrcSpec == IrcInit /\ [][IrcNext]_irc_vars

-----------------------------------------------------------------------------
IrcTypeOK ==
    /\ tabs \in Seq([channel : Chans \union {None}, waitchannel : Chans \union {None},
                     willjoinchannel : Chans \union {None}, doing_who : BOOLEAN,
                     done_away_check : BOOLEAN, ignore_mode : BOOLEAN, end_of_names : BOOLEAN,
                     users : UNION {[N -> BOOLEAN] : N \in SUBSET (ToSet(Nicks) \union {Friend})},
                     modes : SUBSET Modes])
    /\ serv.nick \in ToSet(Nicks) /\ serv.state \in {"waiting", "connecting", "connected"}
    /\ kept \subseteq Chans \union {Away}

(* The client has read all the server said, and the server all the client  *)
(* asked.                                                                  *)
Settled == LoggedIn /\ fast = <<>> /\ slow = <<>> /\ inbox = <<>>

(* When all is read, the channels shown are those the client is on, each   *)
(* in one tab, with their users, who is an operator and the modes, whatever*)
(* kicks, rejoins, mode changes and answers crossed on the way.            *)
ChannelsFollow ==
    Settled => \A c \in Chans :
        LET shown == {i \in DOMAIN tabs : tabs[i].channel = c}
        IN  IF On(irc, c, irc.nick)
            THEN \E i \in DOMAIN tabs : /\ shown = {i}
                                        /\ tabs[i].users = irc.members[c]
                                        /\ tabs[i].modes = irc.modes[c]
            ELSE shown = {}

(* When all is read, the client knows its nick and whether it is away,     *)
(* whichever nicks were taken and whatever was asked for before and during *)
(* the login.                                                              *)
SelfFollows == Settled => serv.nick = irc.nick /\ serv.is_away = irc.gone

(* Together: when all is read, the client shows what the server has.       *)
ViewFollows == ChannelsFollow /\ SelfFollows

(* A tab that hides the answers to its own questions has such an answer    *)
(* coming: nothing the user asks later is taken for one, and the check who *)
(* is away, which leaves out tabs with an open WHO, gets to it again.      *)
Answered ==
    \A i \in DOMAIN tabs : LET c == tabs[i].channel IN
        c # None =>
            /\ tabs[i].doing_who => <<"WHO", c>> \in ToSet(slow) \/ <<"315", c>> \in ToSet(inbox)
            /\ tabs[i].ignore_mode =>
                   \/ <<"MODE", c>> \in ToSet(slow)
                   \/ \E k \in DOMAIN inbox : \/ inbox[k][1] = "324" /\ inbox[k][2] = c
                                              \/ inbox[k][1] \in {"PART", "KICK"} /\ inbox[k][3] = c

(* A client that logged in again after a broken connection is back on the  *)
(* channels it was on, if the user has not left them since.                *)
Rejoined == Settled /\ ~serv.joindelay => \A c \in kept \ {Away} : On(irc, c, irc.nick)

(* When all is read, a listed nick is shown as online if and only if it is,*)
(* if the server tells by itself or it was asked since the nick came or    *)
(* left.                                                                   *)
NotifyFollows == Settled /\ notify.listed /\ ~irc.news => notify.ison = irc.online

(* A client that was away when its connection broke is away again when it  *)
(* has logged in, unless the user came back ("reconnect_away: whether to   *)
(* reconnect in is_away state").                                           *)
AwayRestored == Settled /\ Away \in kept => irc.gone
=============================================================================
