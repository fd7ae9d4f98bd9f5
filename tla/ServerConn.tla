----------------------------- MODULE ServerConn -----------------------------
(***************************************************************************)
(* The life of one IRC connection: src/src/common/server.cpp, with the     *)
(* commands (outbound.cpp), the network cycling (servlist.cpp), the ping   *)
(* timeout (xchat.cpp) and the end of login (inbound.cpp) that drive it.   *)
(*                                                                         *)
(* The program is one thread around a GLib main loop.  `st' is one         *)
(* `server' structure together with the main-loop sources (timeouts and    *)
(* watches) whose user data is that structure; a handler is one atomic     *)
(* action.  The handlers call each other, so what each function does is an *)
(* operator from a state to a state and an action composes them in the     *)
(* order of the calls.                                                     *)
(*                                                                         *)
(* The build is the default one: OpenSSL, no IPv6, no MS proxy, fork().    *)
(***************************************************************************)
EXTENDS Naturals, FiniteSets

CONSTANTS
    Tags,             \* main-loop source ids
    NoTag,            \* 0: "no source" in a *_tag field
    UserActions,      \* what the user does, of AllUserActions
    ConnectOutcomes,  \* how pipe() and fork() end, of AllConnectOutcomes
    EomCommands       \* the network's end-of-motd command, of AllEomCommands

AllUserActions     == {"server", "discon", "reconnect", "close", "netremove",
                       "set"}
AllConnectOutcomes == {"ok", "pipe", "fork"}
AllEomCommands     == {"none", "discon"}

\* A tag field is 0 or the id of a source, and ids are never 0.
ASSUME NoTagAssumption == NoTag \notin Tags

ASSUME SwitchAssumption ==
    /\ UserActions \subseteq AllUserActions
    /\ ConnectOutcomes \subseteq AllConnectOutcomes
    /\ EomCommands \subseteq AllEomCommands

VARIABLES
    st,     \* the server structure and its sources
    prefs,  \* the two reconnect preferences
    goal    \* history: who decided last whether the server should be online

vars == <<st, prefs, goal>>

Callbacks == {"server_read_child", "server_read", "ssl_do_connect",
              "timeout_auto_reconnect", "servlist_cycle_cb",
              "check_autojoin_channels"}

TagOrNone == Tags \cup {NoTag}

Prefs == [autoreconnect : BOOLEAN, autoreconnectonfail : BOOLEAN]

State == [alive      : BOOLEAN,  \* is_server()
          host       : BOOLEAN,  \* hostname[0] # 0
          net        : BOOLEAN,  \* network set and it lists a server
          useSsl     : BOOLEAN,
          connecting : BOOLEAN,
          connected  : BOOLEAN,
          endOfMotd  : BOOLEAN,
          outq       : BOOLEAN,  \* outbound_queue is not empty
          iotag      : TagOrNone,
          recondelay : TagOrNone,
          joindelay  : TagOrNone,
          sslTag     : TagOrNone,
          src        : [Tags -> Callbacks \cup {"none"}],
          \* what childpid, childread/childwrite and sok4 = sok name now
          child      : {"none", "running", "done"},
          pipe       : {"none", "open"},
          sok        : {"none", "open", "closing"},
          report     : {"none", "1", "2", "4", "8"}]  \* unread line in the pipe

-----------------------------------------------------------------------------
(* Main-loop sources.                                                      *)

\* GLib hands out ids in increasing order: a new id is that of no source and
\* of no stale copy kept in a tag field.
Fresh(s) == {t \in Tags : s.src[t] = "none"}
                \ {s.iotag, s.recondelay, s.joindelay, s.sslTag}

SrcWithout(s, ts) == [t \in Tags |-> IF t \in ts THEN "none" ELSE s.src[t]]
SrcWith(s, f, cb) == [t \in Tags |-> IF t = f THEN cb ELSE s.src[t]]

\* The source is gone, the field that named it is left alone.
Ended(s, t) == [s EXCEPT !.src = SrcWithout(s, {t})]

-----------------------------------------------------------------------------
(* What the functions of server.cpp do to the structure.                   *)

\* Mutant: `connecting' is not cleared.
server_stopconnecting_StillConnecting(s) ==
    [s EXCEPT !.src = SrcWithout(s, {s.iotag, s.joindelay, s.sslTag}),
              !.iotag = NoTag, !.joindelay = NoTag, !.sslTag = NoTag,
              !.child = "none", !.pipe = "none", !.report = "none"]

\* Mutant: the USE_OPENSSL block is missing.
server_stopconnecting_SslForgotten(s) ==
    [s EXCEPT !.src = SrcWithout(s, {s.iotag, s.joindelay}),
              !.iotag = NoTag, !.joindelay = NoTag,
              !.child = "none", !.pipe = "none", !.report = "none",
              !.connecting = FALSE]

server_stopconnecting(s) ==
    [s EXCEPT !.src = SrcWithout(s, {s.iotag, s.joindelay, s.sslTag}),
              !.iotag = NoTag, !.joindelay = NoTag, !.sslTag = NoTag,
              !.child = "none", !.pipe = "none", !.report = "none",
              !.connecting = FALSE]

\* Mutant: closesocket(serv->sok4) is missing.
CloseSok4_Forgotten(s) == s

CloseSok4(s) == [s EXCEPT !.sok = "none"]

\* Mutant: the reconnect delay is left running.
server_cleanup_DelayForgotten(s) ==
    LET c == [s EXCEPT !.src = SrcWithout(s, {s.iotag, s.joindelay}),
                       !.iotag = NoTag, !.joindelay = NoTag]
    IN IF s.connecting THEN CloseSok4(server_stopconnecting(c))
       ELSE IF s.connected THEN [c EXCEPT !.sok = "closing",
                                          !.connected = FALSE,
                                          !.endOfMotd = FALSE]
       ELSE c

\* Stop a connection attempt, else disconnect, else give up a reconnect
\* delay: only one of the three, whatever else is pending.
server_cleanup(s) ==
    LET c == [s EXCEPT !.src = SrcWithout(s, {s.iotag, s.joindelay}),
                       !.iotag = NoTag, !.joindelay = NoTag]
    IN IF s.connecting THEN CloseSok4(server_stopconnecting(c))
       ELSE IF s.connected THEN [c EXCEPT !.sok = "closing",
                                          !.connected = FALSE,
                                          !.endOfMotd = FALSE]
       ELSE [c EXCEPT !.src = SrcWithout(c, {s.recondelay}),
                      !.recondelay = NoTag]

server_flush_queue(s) == [s EXCEPT !.outq = FALSE]

\* The queue is flushed when cleanup answered 2 or 3.
server_disconnect(s) ==
    LET c == server_cleanup(s)
    IN IF ~s.connecting /\ (s.connected \/ s.recondelay # NoTag)
       THEN server_flush_queue(c) ELSE c

\* Mutant: recondelay_tag is not part of the test.
server_connect_DelayIgnored(s, f, o) ==
    LET d == IF s.connected \/ s.connecting THEN server_disconnect(s) ELSE s
        e == [server_flush_queue(d) EXCEPT !.connecting = TRUE,
                                           !.endOfMotd = FALSE]
        p == [e EXCEPT !.pipe = "open", !.sok = "open"]
    IN IF ~s.host THEN s
       ELSE IF o = "pipe" THEN e
       ELSE IF o = "fork" THEN p
       ELSE [p EXCEPT !.child = "running", !.iotag = f,
                      !.src = SrcWith(p, f, "server_read_child")]

\* o is how pipe() and fork() end, f the id of the watch on the child's pipe.
server_connect(s, f, o) ==
    LET d == IF s.connected \/ s.connecting \/ s.recondelay # NoTag
             THEN server_disconnect(s) ELSE s
        e == [server_flush_queue(d) EXCEPT !.connecting = TRUE,
                                           !.endOfMotd = FALSE]
        p == [e EXCEPT !.pipe = "open", !.sok = "open"]
    IN IF ~s.host THEN s
       ELSE IF o = "pipe" THEN e
       ELSE IF o = "fork" THEN p
       ELSE [p EXCEPT !.child = "running", !.iotag = f,
                      !.src = SrcWith(p, f, "server_read_child")]

auto_reconnect(s, f) ==
    LET d == IF s.connected THEN server_disconnect(s) ELSE s
        r == Ended(d, d.recondelay)
    IN [r EXCEPT !.recondelay = f,
                 !.src = SrcWith(r, f, "timeout_auto_reconnect")]

\* The tag of an earlier delay is overwritten, its source is not removed.
servlist_cycle(s, f) ==
    [s EXCEPT !.recondelay = f, !.src = SrcWith(s, f, "servlist_cycle_cb")]

server_connected(s, f) ==
    [s EXCEPT !.connected = TRUE, !.iotag = f,
              !.src = SrcWith(s, f, "server_read")]

server_free(s) == [server_flush_queue(server_cleanup(s)) EXCEPT !.alive = FALSE]

-----------------------------------------------------------------------------
(* The user.                                                               *)

User(a) == a \in UserActions /\ st.alive

\* /server: n says whether the host belongs to a listed network.
UserServer ==
    /\ User("server")
    /\ \E n, ssl \in BOOLEAN, o \in ConnectOutcomes, f \in Fresh(st) :
          st' = [server_connect([st EXCEPT !.host = TRUE, !.useSsl = ssl], f, o)
                   EXCEPT !.net = n]
    /\ goal' = "online"
    /\ UNCHANGED prefs

\* /discon, /quit
UserDiscon ==
    /\ User("discon")
    /\ st' = server_disconnect(st)
    /\ goal' = "offline"
    /\ UNCHANGED prefs

\* /reconnect [host]: also accepted while an attempt is under way.
UserReconnect ==
    /\ User("reconnect")
    /\ \E h, ssl \in BOOLEAN, f \in Fresh(st) :
          LET s == [st EXCEPT !.host = @ \/ h,
                              !.useSsl = IF h THEN ssl ELSE @]
          IN /\ st' = auto_reconnect(s, f)
             /\ goal' = IF s.host THEN "online" ELSE goal
    /\ UNCHANGED prefs

\* Closing the last window of the server.
UserClose ==
    /\ User("close")
    /\ st' = server_free(st)
    /\ goal' = "offline"
    /\ UNCHANGED prefs

\* Deleting the network in the server list editor.
NetRemoved ==
    /\ User("netremove")
    /\ st.net
    /\ st' = [st EXCEPT !.net = FALSE]
    /\ UNCHANGED <<prefs, goal>>

\* /set net_auto_reconnect, /set net_auto_reconnectonfail
UserSet ==
    /\ User("set")
    /\ prefs' \in Prefs
    /\ UNCHANGED <<st, goal>>

-----------------------------------------------------------------------------
(* The child process that resolves, connects and talks to the proxy.  Its  *)
(* informational lines (0, 3, 5, 7, 9) change no state here.               *)

ChildReports ==
    /\ st.child = "running"
    /\ \E r \in {"1", "2", "4", "8"} :
          st' = [st EXCEPT !.report = r, !.child = "done"]
    /\ UNCHANGED <<prefs, goal>>

Dispatch(t, cb) == st.src[t] = cb

\* Mutant: the case of an unknown host is missing.
ConnectFailed_KnownHost(t) ==
    /\ Dispatch(t, "server_read_child")
    /\ st.report = "2"
    /\ LET s == CloseSok4(server_stopconnecting(st))
       IN IF st.net \/ prefs.autoreconnectonfail
          THEN /\ \E f \in Fresh(st) :
                     st' = IF st.net THEN servlist_cycle(s, f)
                                     ELSE auto_reconnect(s, f)
               /\ UNCHANGED <<prefs, goal>>
          ELSE st' = s /\ goal' = "gaveup" /\ UNCHANGED prefs

ConnectFailed(t) ==
    /\ Dispatch(t, "server_read_child")
    /\ st.report \in {"1", "2"}
    /\ LET s == CloseSok4(server_stopconnecting(st))
       IN IF st.net \/ prefs.autoreconnectonfail
          THEN /\ \E f \in Fresh(st) :
                     st' = IF st.net THEN servlist_cycle(s, f)
                                     ELSE auto_reconnect(s, f)
               /\ UNCHANGED <<prefs, goal>>
          ELSE st' = s /\ goal' = "gaveup" /\ UNCHANGED prefs

ProxyFailed(t) ==
    /\ Dispatch(t, "server_read_child")
    /\ st.report = "8"
    /\ st' = server_disconnect(st)
    /\ goal' = "gaveup"
    /\ UNCHANGED prefs

\* server_connect_success: plain connections are up, SSL starts a poll.
ConnectSucceeded(t) ==
    /\ Dispatch(t, "server_read_child")
    /\ st.report = "4"
    /\ \E f \in Fresh(st) :
          st' = IF st.useSsl
                THEN [st EXCEPT !.report = "none", !.sslTag = f,
                                !.src = SrcWith(st, f, "ssl_do_connect")]
                ELSE server_connected(server_stopconnecting(st), f)
    /\ UNCHANGED <<prefs, goal>>

\* _SSL_set_verify refused: the attempt is dropped, nothing retries it.
SslSetupFailed(t) ==
    /\ Dispatch(t, "server_read_child")
    /\ st.report = "4" /\ st.useSsl
    /\ st' = server_cleanup(st)
    /\ goal' = "gaveup"
    /\ UNCHANGED prefs

SslUp(t) ==
    /\ Dispatch(t, "ssl_do_connect")
    /\ \E f \in Fresh(st) :
          st' = Ended(server_connected(server_stopconnecting(st), f), t)
    /\ UNCHANGED <<prefs, goal>>

\* SSL_connect failed, or the handshake took more than SSLTMOUT seconds.
SslFailed(t) ==
    /\ Dispatch(t, "ssl_do_connect")
    /\ LET s == Ended(server_cleanup(st), t)
       IN IF prefs.autoreconnectonfail
          THEN /\ \E f \in Fresh(st) : st' = auto_reconnect(s, f)
               /\ UNCHANGED <<prefs, goal>>
          ELSE st' = s /\ goal' = "gaveup" /\ UNCHANGED prefs

SslBadCert(t) ==
    /\ Dispatch(t, "ssl_do_connect")
    /\ st' = Ended(server_cleanup(st), t)
    /\ goal' = "gaveup"
    /\ UNCHANGED prefs

-----------------------------------------------------------------------------
(* The connected server.                                                   *)

\* server_read: recv returned 0 or an error other than "would block".
ConnectionLost(t) ==
    /\ Dispatch(t, "server_read")
    /\ LET cycle == ~st.endOfMotd /\ st.net
       IN IF cycle \/ prefs.autoreconnect
          THEN /\ \E f \in Fresh(st) :
                     st' = IF cycle THEN servlist_cycle(server_disconnect(st), f)
                                    ELSE auto_reconnect(st, f)
               /\ UNCHANGED <<prefs, goal>>
          ELSE st' = server_disconnect(st) /\ goal' = "gaveup" /\ UNCHANGED prefs

\* lag_check, every 30 seconds: no PONG for prefs.pingtimeout seconds.
PingTimeout ==
    /\ st.alive /\ st.connected /\ st.endOfMotd /\ prefs.autoreconnect
    /\ \E f \in Fresh(st) : st' = auto_reconnect(st, f)
    /\ UNCHANGED <<prefs, goal>>

\* inbound_login_end (376, 422): run the network's command, then join the
\* channels now, or after irc_join_delay if a nickserv password was sent.
MotdEnd(t) ==
    /\ Dispatch(t, "server_read")
    /\ ~st.endOfMotd
    /\ \E cmd \in EomCommands, f \in Fresh(st), delay \in BOOLEAN :
          /\ delay => st.net
          /\ cmd = "discon" => st.net
          /\ LET s == IF cmd = "discon" THEN server_disconnect(st) ELSE st
                 e == [s EXCEPT !.endOfMotd = TRUE]
             IN st' = IF delay
                      THEN [e EXCEPT !.joindelay = f,
                              !.src = SrcWith(e, f, "check_autojoin_channels")]
                      ELSE e
          /\ goal' = IF cmd = "discon" THEN "offline" ELSE goal
    /\ UNCHANGED prefs

\* inbound_identified: services recognised us, join without waiting.
Identified(t) ==
    /\ Dispatch(t, "server_read")
    /\ st.joindelay # NoTag
    /\ st' = [Ended(st, st.joindelay) EXCEPT !.joindelay = NoTag, !.outq = TRUE]
    /\ UNCHANGED <<prefs, goal>>

\* Commands and replies queue lines while connected; tcp_send_queue, which
\* returns at once for a freed server, empties the queue.
QueueFills ==
    /\ st.connected /\ ~st.outq
    /\ st' = [st EXCEPT !.outq = TRUE]
    /\ UNCHANGED <<prefs, goal>>

QueueDrains ==
    /\ st.alive /\ st.outq
    /\ st' = [st EXCEPT !.outq = FALSE]
    /\ UNCHANGED <<prefs, goal>>

-----------------------------------------------------------------------------
(* Timeouts.                                                               *)

\* The channels joined go out through the queue.
FireAutojoin(t) ==
    /\ Dispatch(t, "check_autojoin_channels")
    /\ st' = IF st.alive
             THEN [Ended(st, t) EXCEPT !.joindelay = NoTag, !.outq = TRUE]
             ELSE Ended(st, t)
    /\ UNCHANGED <<prefs, goal>>

\* Mutant: the timeout forgets to connect.
FireReconnect_NoConnect(t) ==
    /\ Dispatch(t, "timeout_auto_reconnect")
    /\ st' = IF st.alive THEN [Ended(st, t) EXCEPT !.recondelay = NoTag]
                         ELSE Ended(st, t)
    /\ UNCHANGED <<prefs, goal>>

FireReconnect(t) ==
    /\ Dispatch(t, "timeout_auto_reconnect")
    /\ LET s == [Ended(st, t) EXCEPT !.recondelay = NoTag]
       IN IF ~st.alive THEN st' = Ended(st, t)
          ELSE IF st.connected \/ st.connecting THEN st' = s
          ELSE \E f \in Fresh(st), o \in ConnectOutcomes :
                  st' = server_connect(s, f, o)
    /\ UNCHANGED <<prefs, goal>>

\* No is_server() here: on a freed server this reads freed memory, and the
\* model goes no further.  A network the user has deleted is given up.
FireCycle(t) ==
    /\ Dispatch(t, "servlist_cycle_cb")
    /\ st.alive
    /\ IF st.net
       THEN \E f \in Fresh(st), o \in ConnectOutcomes, ssl \in BOOLEAN :
               st' = server_connect([Ended(st, t) EXCEPT !.useSsl = ssl,
                                                         !.host = TRUE], f, o)
       ELSE st' = Ended(st, t)
    /\ goal' = IF ~st.net /\ goal = "online" THEN "gaveup" ELSE goal
    /\ UNCHANGED prefs

-----------------------------------------------------------------------------
Init ==
    /\ st = [alive |-> TRUE, host |-> FALSE, net |-> FALSE, useSsl |-> FALSE,
             connecting |-> FALSE, connected |-> FALSE, endOfMotd |-> FALSE,
             outq |-> FALSE, iotag |-> NoTag, recondelay |-> NoTag,
             joindelay |-> NoTag, sslTag |-> NoTag,
             src |-> [t \in Tags |-> "none"],
             child |-> "none", pipe |-> "none", sok |-> "none",
             report |-> "none"]
    /\ prefs \in Prefs
    /\ goal = "offline"

UserStep == \/ UserServer \/ UserDiscon \/ UserReconnect \/ UserClose
            \/ NetRemoved \/ UserSet

ReadChild(t) == \/ ConnectFailed(t) \/ ProxyFailed(t)
                \/ ConnectSucceeded(t) \/ SslSetupFailed(t)

SslEnds(t) == SslUp(t) \/ SslFailed(t) \/ SslBadCert(t)

ServerTalks(t) == ConnectionLost(t) \/ MotdEnd(t) \/ Identified(t)

Fire(t) == FireAutojoin(t) \/ FireReconnect(t) \/ FireCycle(t)

LoopStep == \E t \in Tags : ReadChild(t) \/ SslEnds(t) \/ ServerTalks(t) \/ Fire(t)

Next == \/ UserStep \/ ChildReports \/ LoopStep
        \/ PingTimeout \/ QueueFills \/ QueueDrains

Spec == Init /\ [][Next]_vars

\* The main loop dispatches every source that stays ready, the child's
\* connect() ends (the system gives up on it after a while), and the SSL poll
\* ends within SSLTMOUT.  Nothing is assumed of the user or of the server.
Fairness == /\ WF_vars(ChildReports)
            /\ \A t \in Tags : WF_vars(ReadChild(t)) /\ WF_vars(SslEnds(t))
                                 /\ WF_vars(Fire(t))

FairSpec == Spec /\ Fairness
-----------------------------------------------------------------------------
(* Properties.                                                             *)

\* Type correctness of the server structure and of its sources.
TypeOK == st \in State /\ prefs \in Prefs /\ goal \in {"online", "offline", "gaveup"}

Idle == ~st.connecting /\ ~st.connected

Pending(cb) == {t \in Tags : st.src[t] = cb}

\* The I/O sources of a server are exactly those its fields name, in the
\* state they belong to: the socket is watched while connected and only then,
\* the child's pipe and the SSL poll only while connecting, and a login delay
\* is never left behind (server_stopconnecting and server_cleanup remove them
\* by tag, so a tag overwritten or cleared too early would leave a callback
\* that runs on the next connection).
Owned(s) ==
    /\ ~(s.connecting /\ s.connected)
    /\ s.connected => s.iotag \in Tags /\ s.src[s.iotag] = "server_read"
    /\ s.iotag # NoTag => s.src[s.iotag] \in {"server_read", "server_read_child"}
    /\ s.sslTag # NoTag => s.src[s.sslTag] = "ssl_do_connect"
    /\ s.joindelay # NoTag => s.src[s.joindelay] = "check_autojoin_channels"
    /\ s.recondelay # NoTag =>
          s.src[s.recondelay] \in {"none", "timeout_auto_reconnect",
                                  "servlist_cycle_cb"}
    /\ \A t \in Tags :
          /\ s.src[t] = "server_read" => s.connected /\ s.iotag = t
          /\ s.src[t] = "server_read_child" => s.connecting /\ s.iotag = t
          /\ s.src[t] = "ssl_do_connect" => s.connecting /\ s.sslTag = t
          /\ s.src[t] = "check_autojoin_channels" => s.joindelay = t

WatchesOwned == Owned(st)

\* Once server_free has run, no I/O callback or JOIN timer of the
\* server is left.
Deaf(s) ==
    ~s.alive =>
        \A t \in Tags : s.src[t] \notin {"server_read", "server_read_child",
                                         "ssl_do_connect",
                                         "check_autojoin_channels"}

FreedIsDeaf == Deaf(st)

\* The main loop calls back exactly what the server's tags name, and nothing
\* of a server that is freed.
CallbacksOwned == WatchesOwned /\ FreedIsDeaf

\* Overwriting ssl_do_connect_tag or joindelay_tag loses no source: when the
\* child's success line is read no SSL poll is under way, and no JOIN timer is
\* pending before the MOTD of a connection.
Spare(s) ==
    /\ s.child # "none" => s.connecting
    /\ s.report # "none" => s.child = "done"
    /\ s.sslTag # NoTag => s.child = "done" /\ s.report = "none"
    /\ s.connected /\ ~s.endOfMotd =>
          \A t \in Tags : s.src[t] # "check_autojoin_channels"

\* The inductive invariant from which ServerConnProofs derives TypeOK,
\* WatchesOwned and FreedIsDeaf.
IInv(s) == s \in State /\ Owned(s) /\ Deaf(s) /\ Spare(s)

\* A descriptor or a child that server_cleanup could close or kill exists
\* only in the state in which it will: nothing is leaked by any path out of
\* connecting or connected.
NothingLeaked ==
    /\ st.sok = "open" => ~Idle
    /\ st.pipe = "open" => st.connecting
    /\ st.child # "none" => st.connecting

\* While connecting, the child, the pipe and the socket that
\* server_stopconnecting kills and closes are those of this attempt.
AttemptOwnsItsResources ==
    st.connecting => st.child # "none" /\ st.pipe = "open" /\ st.sok = "open"

\* Login state does not outlive the connection: a connection starts before
\* its MOTD, with no JOIN timer and no line of an earlier one in the queue.
NothingCarriedOver ==
    /\ st.endOfMotd => st.connected
    /\ st.joindelay # NoTag => st.connected /\ st.endOfMotd
    /\ st.outq => st.connected

\* A connection, and an attempt at one, is its own: nothing of an earlier one
\* is killed, closed, sent or waited for in its name.
ConnectionIsOwn == AttemptOwnsItsResources /\ NothingCarriedOver

\* A reconnect delay is pending only while there is no connection, at most
\* one at a time, and recondelay_tag names it ("is this server in a reconnect
\* delay? remove it!", server_cleanup); the delay of a cycle, whose callback
\* does not ask is_server(), does not outlive the server.
Reconnects == Pending("timeout_auto_reconnect") \cup Pending("servlist_cycle_cb")

ReconnectOwned ==
    /\ Reconnects \subseteq {st.recondelay}
    /\ Reconnects # {} => Idle
    /\ ~st.alive => Pending("servlist_cycle_cb") = {}

\* After /discon, /quit or a close, no step of the program starts a
\* connection attempt until the user asks for one.
DisconnectIsFinal ==
    [][goal = "offline" /\ goal' = "offline"
         => ~(st'.connecting /\ ~st.connecting)]_vars

\* Every attempt ends, unless the user keeps starting new ones.
AttemptEnds ==
    []<><<UserServer>>_vars \/ (st.connecting ~> ~st.connecting)

\* A server the user wants online and that has no connection tries again,
\* unless a preference, the proxy, a certificate or the user, who deleted the
\* network it belongs to, told the program to give up.
ComesBack == (goal = "online" /\ Idle) ~> (st.connecting \/ goal # "online")
=============================================================================
