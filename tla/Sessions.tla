------------------------------ MODULE Sessions ------------------------------
(***************************************************************************)
(* Windows (sessions) and the servers they use: session_new,               *)
(* new_ircwindow, session_free, xchat_exit (src/src/common/xchat.cpp) and  *)
(* what opens and closes windows, with the text front end.                 *)
(*                                                                         *)
(* A server lives as long as it has a window.  Pointers to windows are     *)
(* kept in four places: server_session and front_session of every server,  *)
(* which the rest of the program follows without looking, current_sess and *)
(* current_tab.  Loops that close several windows are one step per window: *)
(* nothing else of this module runs until such a job is over.              *)
(***************************************************************************)
EXTENDS Naturals, Sequences, FiniteSets

CONSTANTS
    Windows,      \* addresses of session structures
    Servers,      \* addresses of server structures
    NoWindow, NoServer

ASSUME NullAssumption == NoWindow \notin Windows /\ NoServer \notin Servers

VARIABLES
    sess_list,       \* the windows, the newest first
    serv_list,       \* the servers
    server,          \* sess->server
    kind,            \* sess->type
    named,           \* the windows whose channel[0] # 0
    server_session, front_session,
    current_tab, current_sess,
    connected,       \* the servers that are
    sent_quit,       \* the servers whose sent_quit is set
    said,            \* history: the farewells on a server's connection
    on,              \* external: the windows whose channel the IRC server has
                     \* us on
    quitting,        \* xchat_is_quitting and in_xchat_exit
    job,             \* the loop that is under way
    next             \* cmd_close: the window it goes on with

windows == <<sess_list, server, kind>>
pointers == <<server_session, front_session, current_tab, current_sess>>
network == <<connected, sent_quit, said>>
vars == <<windows, serv_list, named, pointers, network, on, quitting, job, next>>

Kinds == {"server", "channel", "dialog"}

Ptr == Windows \cup {NoWindow}

Open == {sess_list[i] : i \in DOMAIN sess_list}

Of(v) == {w \in Open : server[w] = v}

Free == job = "none"

-----------------------------------------------------------------------------
(* Opening windows.                                                        *)

\* session_new and fe_new_window, for the window w of the server v.
session_new(w, v, k, focus) ==
    /\ w \notin Open
    /\ sess_list' = <<w>> \o sess_list
    /\ server' = [server EXCEPT ![w] = v]
    /\ kind' = [kind EXCEPT ![w] = k]
    /\ current_sess' = w
    /\ current_tab' = IF focus \/ current_tab = NoWindow THEN w ELSE current_tab

\* /newserver, or a network connected to in a new window: a server is made,
\* both of its pointers name the window.  prefs.use_server_tab decides what
\* kind of window it is; /newserver -noconnect gives it a name.
NewServer ==
    /\ Free
    /\ \E v \in Servers \ serv_list, w \in Windows, focus, name \in BOOLEAN,
          k \in {"server", "channel"} :
          /\ session_new(w, v, k, focus)
          /\ serv_list' = serv_list \cup {v}
          /\ server_session' = [server_session EXCEPT ![v] = w]
          /\ front_session' = [front_session EXCEPT ![v] = w]
          /\ connected' = connected \ {v}
          /\ sent_quit' = sent_quit \ {v}
          /\ said' = [said EXCEPT ![v] = "nothing"]
          /\ named' = IF name THEN named \cup {w} ELSE named \ {w}
    /\ UNCHANGED <<on, quitting, job, next>>

\* /query, or a message that opens a dialog.
NewDialog ==
    /\ Free
    /\ \E v \in serv_list, w \in Windows, focus \in BOOLEAN :
          /\ session_new(w, v, "dialog", focus)
          /\ named' = named \cup {w}
    /\ UNCHANGED <<serv_list, server_session, front_session, network, on,
                   quitting, job, next>>

\* inbound_ujoin: an empty channel window of the server is used, or a new one
\* opened.  An empty window may be waiting for another channel (waitchannel),
\* so a new one may be opened beside it.
Join ==
    /\ Free
    /\ \E v \in connected, w \in Windows :
          /\ \/ /\ w \in Of(v) /\ kind[w] = "channel" /\ w \notin named
                /\ UNCHANGED <<windows, current_tab, current_sess>>
             \/ session_new(w, v, "channel", TRUE)
          /\ named' = named \cup {w}
          /\ on' = on \cup {w}
    /\ UNCHANGED <<serv_list, server_session, front_session, network, quitting,
                   job, next>>

\* fe_ctrl_gui(FE_GUI_FOCUS): /gui focus, /query to an open dialog.
Focus ==
    /\ Free
    /\ \E w \in Open :
          /\ current_sess' = w /\ current_tab' = w
          /\ front_session' = [front_session EXCEPT ![server[w]] = w]
    /\ UNCHANGED <<windows, serv_list, named, server_session, network, on,
                   quitting, job, next>>

-----------------------------------------------------------------------------
(* Connections.                                                            *)

\* "Empty" and channel windows lose their channel (clear_channel).
Cleared(v) == {w \in Of(v) : kind[w] = "channel"}

Connect ==
    /\ Free
    /\ \E v \in serv_list \ connected :
          /\ connected' = connected \cup {v}
          /\ said' = [said EXCEPT ![v] = "nothing"]
    /\ UNCHANGED <<windows, serv_list, named, pointers, sent_quit, on, quitting,
                   job, next>>

Said(v, word) ==
    IF said[v] \in {"quit", "more"} THEN "more" ELSE word

\* server_disconnect: with a QUIT (/quit, /discon) or without (lost).
Disconnect ==
    /\ Free
    /\ \E v \in connected, quit \in BOOLEAN :
          /\ connected' = connected \ {v}
          /\ said' = IF quit THEN [said EXCEPT ![v] = Said(v, "quit")] ELSE said
          /\ named' = named \ Cleared(v)
          /\ on' = on \ Of(v)
    /\ UNCHANGED <<windows, serv_list, pointers, sent_quit, quitting, job, next>>

\* inbound_ukick, inbound_upart
LeftChannel ==
    /\ Free
    /\ \E w \in on :
          /\ named' = named \ {w}
          /\ on' = on \ {w}
    /\ UNCHANGED <<windows, serv_list, pointers, network, quitting, job, next>>

-----------------------------------------------------------------------------
(* Closing windows.                                                        *)

Others(w) == Of(server[w]) \ {w}

Position(w) == CHOOSE i \in DOMAIN sess_list : sess_list[i] = w

Without(w) == SubSeq(sess_list, 1, Position(w) - 1)
                  \o SubSeq(sess_list, Position(w) + 1, Len(sess_list))

\* The first of some windows, in the order of sess_list.
First(ws) ==
    CHOOSE w \in ws : \A x \in ws : Position(w) <= Position(x)

\* Mutant: sent_quit is not looked at.
send_quit_or_part_Again(w) ==
    LET v == server[w]
        part == kind[w] = "channel" /\ w \in named /\ v \notin sent_quit
    IN IF v \notin connected THEN UNCHANGED <<sent_quit, said, on>>
       ELSE IF Others(w) = {} \/ quitting
       THEN /\ sent_quit' = sent_quit \cup {v}
            /\ said' = [said EXCEPT ![v] = Said(v, "quit")]
            /\ on' = on \ Of(v)
       ELSE /\ said' = IF part THEN [said EXCEPT ![v] = Said(v, "part")] ELSE said
            /\ on' = IF part THEN on \ {w} ELSE on
            /\ UNCHANGED sent_quit

\* Mutant: no PART for a window whose server goes on.
send_quit_or_part_NoPart(w) ==
    LET v == server[w]
    IN IF v \notin connected THEN UNCHANGED <<sent_quit, said, on>>
       ELSE IF Others(w) = {} \/ quitting
       THEN /\ sent_quit' = sent_quit \cup {v}
            /\ said' = IF v \in sent_quit THEN said
                       ELSE [said EXCEPT ![v] = Said(v, "quit")]
            /\ on' = on \ Of(v)
       ELSE UNCHANGED <<sent_quit, said, on>>

\* QUIT, once, if this is the last window of the server or the program ends;
\* else PART, if this is a channel.
send_quit_or_part(w) ==
    LET v == server[w]
        part == kind[w] = "channel" /\ w \in named /\ v \notin sent_quit
    IN IF v \notin connected THEN UNCHANGED <<sent_quit, said, on>>
       ELSE IF Others(w) = {} \/ quitting
       THEN /\ sent_quit' = sent_quit \cup {v}
            /\ said' = IF v \in sent_quit THEN said
                       ELSE [said EXCEPT ![v] = Said(v, "quit")]
            /\ on' = on \ Of(v)
       ELSE /\ said' = IF part THEN [said EXCEPT ![v] = Said(v, "part")] ELSE said
            /\ on' = IF part THEN on \ {w} ELSE on
            /\ UNCHANGED sent_quit

\* The replacement of a pointer to the window w that is closed.
Replacement(w) == IF Others(w) = {} THEN NoWindow ELSE First(Others(w))

\* Mutant: server_session is only replaced together with front_session.
Repointed_FrontOnly(w) ==
    LET v  == server[w]
        f  == IF front_session[v] = w THEN Replacement(w) ELSE front_session[v]
        s  == IF server_session[v] = w THEN NoWindow ELSE server_session[v]
        s1 == IF s = NoWindow /\ front_session[v] = w THEN f ELSE s
    IN /\ front_session'  = [front_session EXCEPT ![v] = f]
       /\ server_session' = [server_session EXCEPT ![v] = s1]

\* server_session falls back on front_session, which falls back on the first
\* other window of the server.
Repointed(w) ==
    LET v  == server[w]
        f  == IF front_session[v] = w THEN Replacement(w) ELSE front_session[v]
        s  == IF server_session[v] = w THEN f ELSE server_session[v]
    IN /\ front_session'  = [front_session EXCEPT ![v] = f]
       /\ server_session' = [server_session EXCEPT ![v] = s]

session_free(w) ==
    LET v == server[w]
    IN /\ Repointed(w)
       /\ current_tab' = IF current_tab = w THEN NoWindow ELSE current_tab
       /\ sess_list' = Without(w)
       /\ send_quit_or_part(w)
       /\ current_sess' = IF current_sess # w THEN current_sess
                          ELSE IF Without(w) = <<>> THEN NoWindow ELSE Head(Without(w))
       /\ named' = named \ {w}
       \* xchat_exit: the last window ends the program
       /\ quitting' = (quitting \/ Without(w) = <<>>)
       \* server_free
       /\ serv_list' = IF Others(w) = {} THEN serv_list \ {v} ELSE serv_list
       /\ connected' = IF Others(w) = {} THEN connected \ {v} ELSE connected
       /\ UNCHANGED <<server, kind>>

AfterClose(j) == IF Without(j) = <<>> THEN "over" ELSE "none"

\* /close
Close ==
    /\ Free
    /\ \E w \in Open : session_free(w) /\ job' = AfterClose(w)
    /\ UNCHANGED next

\* /close -m
CloseDialogs ==
    /\ Free /\ Open # {}
    /\ job' = "dialogs"
    /\ next' = Head(sess_list)
    /\ UNCHANGED <<windows, serv_list, named, pointers, network, on, quitting>>

\* Mutant: the loop starts again after each window.
Successor_Again(w) == IF Len(sess_list) = 1 THEN NoWindow ELSE Head(Without(w))

\* list->next
Successor(w) ==
    IF Position(w) = Len(sess_list) THEN NoWindow ELSE sess_list[Position(w) + 1]

\* One turn of cmd_close's loop: the successor is taken first.
CloseDialog ==
    /\ job = "dialogs" /\ next # NoWindow
    /\ next' = Successor(next)
    /\ IF kind[next] = "dialog"
       THEN session_free(next)
       ELSE UNCHANGED <<windows, serv_list, named, pointers, network, on, quitting>>
    /\ UNCHANGED job

DialogsClosed ==
    /\ job = "dialogs" /\ next = NoWindow
    /\ job' = IF sess_list = <<>> THEN "over" ELSE "none"
    /\ UNCHANGED <<windows, serv_list, named, pointers, network, on, quitting, next>>

\* /killall, and nothing else but the last window: xchat_exit.
Exit ==
    /\ Free
    /\ quitting' = TRUE
    /\ job' = "exit"
    /\ UNCHANGED <<windows, serv_list, named, pointers, network, on, next>>

\* free_sessions: the head of the list until there is none, then fe_exit.
ExitCloses ==
    /\ job = "exit"
    /\ Open # {}
    /\ session_free(Head(sess_list))
    /\ UNCHANGED <<job, next>>

ExitEnds ==
    /\ job = "exit"
    /\ Open = {}
    /\ job' = "over"
    /\ UNCHANGED <<windows, serv_list, named, pointers, network, on, quitting, next>>

-----------------------------------------------------------------------------
\* xchat_init opens one server window.
Init ==
    \E v \in Servers, w \in Windows, k \in {"server", "channel"} :
        /\ sess_list = <<w>>
        /\ serv_list = {v}
        /\ server = [x \in Windows |-> IF x = w THEN v ELSE NoServer]
        /\ kind = [x \in Windows |-> IF x = w THEN k ELSE "channel"]
        /\ named = {}
        /\ server_session = [x \in Servers |-> IF x = v THEN w ELSE NoWindow]
        /\ front_session = server_session
        /\ current_tab = w /\ current_sess = w
        /\ connected = {} /\ sent_quit = {}
        /\ said = [x \in Servers |-> "nothing"]
        /\ on = {}
        /\ quitting = FALSE
        /\ job = "none" /\ next = NoWindow

Loop == CloseDialog \/ DialogsClosed \/ ExitCloses \/ ExitEnds

Next == \/ NewServer \/ NewDialog \/ Join \/ Focus
        \/ Connect \/ Disconnect \/ LeftChannel
        \/ Close \/ CloseDialogs \/ Exit
        \/ Loop

Spec == Init /\ [][Next]_vars
-----------------------------------------------------------------------------
(* Properties.                                                             *)

\* Type correctness of the lists, the pointers and the history.
TypeOK ==
    /\ sess_list \in Seq(Windows) /\ serv_list \subseteq Servers
    /\ server \in [Windows -> Servers \cup {NoServer}]
    /\ \A w \in Open : server[w] \in Servers
    /\ kind \in [Windows -> Kinds]
    /\ named \subseteq Windows /\ on \subseteq Windows
    /\ server_session \in [Servers -> Ptr] /\ front_session \in [Servers -> Ptr]
    /\ current_tab \in Ptr /\ current_sess \in Ptr
    /\ connected \subseteq Servers /\ sent_quit \subseteq Servers
    /\ said \in [Servers -> {"nothing", "part", "quit", "more"}]
    /\ quitting \in BOOLEAN
    /\ job \in {"none", "dialogs", "exit", "over"}
    /\ next \in Ptr

\* The two pointers of a server always name an open window of that server:
\* dozens of places in the program follow them without a test.
PointersValid ==
    \A v \in serv_list : /\ server_session[v] \in Of(v)
                         /\ front_session[v] \in Of(v)

\* current_sess is an open window while there is one, and current_tab never a
\* closed one.
CurrentValid ==
    /\ current_sess \in IF Open = {} THEN {NoWindow} ELSE Open
    /\ current_tab \in Open \cup {NoWindow}

\* A server exists exactly as long as it has a window: no window is left with
\* a freed server, no server without a window to reach it.
ServerPerWindow == serv_list = {server[w] : w \in Open}

\* Whatever is closed, every pointer between windows and servers can be
\* followed.
PointersFollowed == PointersValid /\ CurrentValid /\ ServerPerWindow

\* Nothing follows a QUIT on a connection: not a second one, not the PARTs of
\* the windows that are closed after it.
QuitOnce == \A v \in connected : said[v] # "more"

\* The IRC server has us on no channel that has no window: closing a window
\* leaves its channel.
NoGhost == on \subseteq Open

\* No connection is closed by closing windows without a QUIT.
QuitBeforeFree ==
    [][\A v \in serv_list \cap connected : v \notin serv_list' => said'[v] = "quit"]_vars

\* Every connection closed with its windows gets one QUIT, as its last line.
OneQuitEach == []QuitOnce /\ QuitBeforeFree

\* The link saved by /close -m is in the list whatever was closed meanwhile.
NextIsOpen == job = "dialogs" => next \in Open \cup {NoWindow}

\* The turns that the loop in progress has still to make.
Remaining ==
    CASE job = "exit"                          -> Len(sess_list)
      [] job = "dialogs" /\ next # NoWindow    -> Len(sess_list) - Position(next) + 1
      [] OTHER                                 -> 0

\* The loops that close windows end, and not too early: with each turn less
\* remains, and they stop when nothing does.  The program ends without servers.
LoopsShrink ==
    [][/\ job \in {"exit", "dialogs"} =>
            IF job' = job THEN Remaining' < Remaining ELSE Remaining = 0
       /\ job' = "over" => serv_list' = {}]_vars
=============================================================================
