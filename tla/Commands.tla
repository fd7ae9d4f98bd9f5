------------------------------ MODULE Commands ------------------------------
(***************************************************************************)
(* What the user types: lines, text, commands, user commands that call     *)
(* other commands, /allchan, /exec and /timer (outbound.cpp,               *)
(* plugin-timer.cpp, session_free of xchat.cpp). One thread runs it all,   *)
(* yet every command and every text is first shown to the plugins, and a   *)
(* plugin or a command may close the window that a caller up the stack     *)
(* still works on. The C stack is modelled as a sequence of frames, one for*)
(* each suspended function; the children of /exec run concurrently.        *)
(* A window that is used after it was freed leaves its place in "stale" and*)
(* ends the behaviour: what the program does from there is undefined.      *)
(***************************************************************************)
EXTENDS Integers, Sequences, FiniteSets, SequencesExt

CONSTANTS
    Tabs,        \* the windows, in the order of sess_list
    Cmds,        \* what may be typed, called by a user command, or called by one of these
    CommandList, \* command_list: the user commands, each with the arguments it needs
    Limit,       \* the command_level from which on commands are refused (99)
    MaxText,     \* the longest text that a message to the channel holds
    Wide,        \* the characters of two bytes
    Newline,     \* the character that ends a line
    Output,      \* what a child of /exec writes
    MaxRead,     \* how much exec_data reads at a time (2048)
    Scripts      \* bounds: what is typed, how often plugins act, how often timers fire

ASSUME SizesAssumption == Limit \in Nat /\ MaxRead \in Nat \ {0} /\ MaxText \in Nat /\ MaxText > 2
ASSUME TabsAssumption == Tabs \in Seq(ToSet(Tabs)) /\ IsInjective(Tabs)
ASSUME OutputAssumption == Output \in Seq(ToSet(Output))
ASSUME CmdsAssumption ==
    /\ \A c \in Cmds : c.op = "allchan" => c.body \in Cmds
    /\ \A c \in Cmds : c.op = "timer" => c.body \in Cmds /\ c.repeat \in Int
    /\ \A c \in Cmds : c.op \in {"say", "text"} => c.text \in Seq(ToSet(c.text))
    /\ CommandList \in Seq(ToSet(CommandList)) /\ \A u \in ToSet(CommandList) : u.body \in Cmds
    /\ Scripts \subseteq [script : Seq(Seq(Cmds)), hooks : Nat, fires : Nat, acted : BOOLEAN]

VARIABLES
    sess_list,     \* the open windows, in order
    connected,     \* the server is connected, its windows in their channels
    stack,         \* the suspended functions, the running one first
    command_level, \* how many handle_command are running
    stale,         \* where a closed window or a freed record was used, or None
    exec,          \* per window: running_exec, the record of its child, or NoChild
    child,         \* the children: processes and the pipes to them
    timers,        \* timer_list
    hooked,        \* the timers that have a hook, and so a timeout in the main loop
    sent,          \* history: per window the text sent to the channel
    owed,          \* history: per window the text handle_say took on
    fired,         \* history: per timer how often it was to run, has run, and whether it was cut short
    left           \* bounds: what may still be typed, done by plugins, fired

windows == <<sess_list, connected>>
depth == <<stack, command_level, stale>>
children == <<exec, child>>
ticking == <<timers, hooked, fired>>
talk == <<sent, owed>>
vars == <<windows, depth, children, ticking, talk, left>>

None == "none"
NoChild == [pid |-> 0, tochannel |-> FALSE, linebuf |-> <<>>]
Open == ToSet(sess_list)
Top == Head(stack)
Below == Tail(stack)
Running == stack # <<>> /\ stale = None

Init ==
    /\ sess_list = Tabs
    /\ connected = TRUE
    /\ stack = <<>> /\ command_level = 0 /\ stale = None
    /\ exec = [t \in ToSet(Tabs) |-> NoChild]
    /\ child = <<>>
    /\ timers = <<>> /\ hooked = {} /\ fired = <<>>
    /\ sent = [t \in ToSet(Tabs) |-> <<>>] /\ owed = sent
    /\ left \in Scripts

-----------------------------------------------------------------------------
(* The stack *)

Goto(frames) == stack' = frames /\ UNCHANGED <<command_level, stale>>
Return == stack' = Below /\ UNCHANGED <<command_level, stale>>
\* A freed window or record is used.
Crash(where) == stale' = where /\ UNCHANGED <<stack, command_level>>
\* handle_command is entered from the frames "from", unless too many of it are running.
Enter(tab, cmd, from) ==
    /\ IF command_level > Limit
       THEN stack' = from /\ UNCHANGED command_level
       ELSE /\ stack' = <<[at |-> "command", tab |-> tab, cmd |-> cmd]>> \o from
            /\ command_level' = command_level + 1
    /\ UNCHANGED stale
\* handle_command is left, as every path through it is: with its level given back.
Leave == stack' = Below /\ command_level' = command_level - 1 /\ UNCHANGED stale

\* What session_free does to the child of /exec: exec_notify_kill.
exec_notify_kill(t) ==
    /\ exec' = [exec EXCEPT ![t] = NoChild]
    /\ child' = IF exec[t] = NoChild THEN child
                ELSE [child EXCEPT ![exec[t].pid].alive = FALSE, ![exec[t].pid].watched = FALSE]
Position(t) == CHOOSE i \in DOMAIN sess_list : sess_list[i] = t
session_free(t) == sess_list' = RemoveAt(sess_list, Position(t)) /\ exec_notify_kill(t)

-----------------------------------------------------------------------------
(* Text *)

Size(text) ==
    LET size[i \in 0..Len(text)] == IF i = 0 THEN 0 ELSE size[i-1] + (IF text[i] \in Wide THEN 2 ELSE 1)
    IN size[Len(text)]
\* How many characters of a text go into the next message: all of a text that fits, else
\* those that end before the last byte of the room.
Cut(text) ==
    IF Size(text) <= MaxText THEN Len(text)
    ELSE CHOOSE n \in 0..Len(text) : /\ Size(SubSeq(text, 1, n)) < MaxText
                                     /\ Size(SubSeq(text, 1, n + 1)) >= MaxText
Rest_Skips(text) == SubSeq(text, Cut(text) + 2, Len(text)) \* mutant: the character under the terminator is lost
Rest(text) == SubSeq(text, Cut(text) + 1, Len(text))

\* handle_say, once the plugins have seen the text and if its window is still there: the first
\* part is printed as sent; "first" tells a text from the rest of one that was split.
handle_say ==
    /\ Top.at = "take"
    /\ IF Top.tab \notin Open \/ ~connected
       THEN Return /\ UNCHANGED talk
       ELSE /\ Goto(<<[Top EXCEPT !.at = "printed"]>> \o Below)
            /\ owed' = IF Top.first THEN [owed EXCEPT ![Top.tab] = @ \o Top.text] ELSE owed
            /\ UNCHANGED sent
    /\ UNCHANGED <<windows, children, ticking, left>>

\* inbound_chanmsg has printed it, before the plugins' eyes: the message goes out.
p_message ==
    /\ Top.at = "send"
    /\ IF Top.tab \notin Open THEN Crash("message") /\ UNCHANGED talk
       ELSE /\ sent' = [sent EXCEPT ![Top.tab] = Append(@, SubSeq(Top.text, 1, Cut(Top.text)))]
            /\ UNCHANGED owed
            /\ IF Rest(Top.text) = <<>> THEN Return
               ELSE Goto(<<[at |-> "say", tab |-> Top.tab, text |-> Rest(Top.text), first |-> FALSE]>> \o Below)
    /\ UNCHANGED <<windows, children, ticking, left>>

\* handle_multiline and handle_user_input: the next line, text or command, of what was typed.
handle_multiline ==
    /\ Top.at = "lines"
    /\ IF Top.rest = <<>> THEN Return
       ELSE IF Top.tab \notin Open THEN Crash("lines")
       ELSE LET line == Head(Top.rest)
                on == <<[Top EXCEPT !.rest = Tail(@)]>> \o Below
            IN IF line.op = "text"
               THEN Goto(<<[at |-> "say", tab |-> Top.tab, text |-> line.text, first |-> TRUE]>> \o on)
               ELSE Enter(Top.tab, line, on)
    /\ UNCHANGED <<windows, children, ticking, talk, left>>

-----------------------------------------------------------------------------
(* The children of /exec *)

Watch(p, on) == [child EXCEPT ![p].watched = on]
exec_check_process_Early(t) == \* mutant: a child that is still running is taken for a dead one
    IF exec[t] # NoChild
    THEN [rec |-> [exec EXCEPT ![t] = NoChild], child |-> Watch(exec[t].pid, FALSE)]
    ELSE [rec |-> exec, child |-> child]
\* Children that are done are taken off their window, with what they wrote and nobody read.
exec_check_process(t) ==
    IF exec[t] # NoChild /\ ~child[exec[t].pid].alive
    THEN [rec |-> [exec EXCEPT ![t] = NoChild], child |-> Watch(exec[t].pid, FALSE)]
    ELSE [rec |-> exec, child |-> child]

cmd_exec(t, cmd) ==
    LET was == exec_check_process(t) IN
    \/ \* one is running already, or there can be no pipe and no process
       exec' = was.rec /\ child' = was.child
    \/ /\ was.rec[t] = NoChild
       /\ exec' = [was.rec EXCEPT ![t] = [pid |-> Len(child) + 1, tochannel |-> cmd.tochannel, linebuf |-> <<>>]]
       /\ child' = Append(was.child, [alive |-> TRUE, stopped |-> FALSE, watched |-> TRUE, out |-> Output,
                                      pipe |-> <<>>, wrote |-> <<>>, shown |-> <<>>, eof |-> FALSE])

\* /execs, /execc and /execk: a signal to the child, if there is one.
cmd_execk(t, cmd) ==
    LET was == exec_check_process(t) IN
    /\ exec' = was.rec
    /\ child' = IF was.rec[t] = NoChild THEN was.child
                ELSE LET p == was.rec[t].pid IN
                     CASE cmd.op = "execs" -> [was.child EXCEPT ![p].stopped = TRUE]
                       [] cmd.op = "execc" -> [was.child EXCEPT ![p].stopped = FALSE]
                       [] cmd.op = "execk" -> [was.child EXCEPT ![p].alive = FALSE]

-----------------------------------------------------------------------------
(* /timer, a command of the timer plugin *)

Listed == {timers[i].id : i \in DOMAIN timers}
Place(id) == CHOOSE i \in DOMAIN timers : timers[i].id = id
timer_del(id) ==
    /\ timers' = RemoveAt(timers, Place(id))
    /\ hooked' = hooked \ {id}

\* How often a timer is to run: less than once is once, 0 for ever.
Meant(repeat) == IF repeat < 0 THEN 1 ELSE repeat
\* A number above all others, if none is asked for.
NextRef == Max({0} \union {timers[i].ref : i \in DOMAIN timers}) + 1
timer_add(t, cmd) ==
    LET id == Len(fired) + 1 IN
    /\ timers' = Append(timers, [id |-> id, ref |-> IF cmd.ref = 0 THEN NextRef ELSE cmd.ref,
                                 repeat |-> cmd.repeat, forever |-> cmd.repeat = 0, tab |-> t, cmd |-> cmd.body])
    /\ hooked' = hooked \union {id}
    /\ fired' = Append(fired, [asked |-> Meant(cmd.repeat), runs |-> 0, cut |-> FALSE])

\* The first timer of that number.
timer_del_ref(ref) ==
    LET found == {i \in DOMAIN timers : timers[i].ref = ref} IN
    IF found = {} THEN UNCHANGED ticking
    ELSE LET id == timers[Min(found)].id IN timer_del(id) /\ fired' = [fired EXCEPT ![id].cut = TRUE]

timer_cb(t, cmd) ==
    CASE cmd.op = "timer" -> timer_add(t, cmd)
      [] cmd.op = "untimer" -> timer_del_ref(cmd.ref)
      [] OTHER -> UNCHANGED ticking

-----------------------------------------------------------------------------
(* Commands *)

\* The user commands of that name, from the i-th of the list.
Named(cmd, i) == {j \in i..Len(CommandList) : CommandList[j].name = cmd.op}

\* The plugins are shown a command, a text or what is printed. The timer plugin takes its own
\* commands; another plugin may eat what it is shown, or close a window.
plugin_emit ==
    /\ Top.at \in {"command", "say", "printed"}
    /\ LET on == <<[Top EXCEPT !.at = CASE @ = "command" -> "run" [] @ = "say" -> "take" [] @ = "printed" -> "send"]>> \o Below
           Pass == IF Top.at = "command" /\ Top.cmd.op \in {"timer", "untimer"}
                   THEN Leave /\ timer_cb(Top.tab, Top.cmd)
                   ELSE Goto(on) /\ UNCHANGED ticking
           Eat == (IF Top.at = "command" THEN Leave ELSE IF Top.at = "say" THEN Return ELSE Goto(on)) /\ UNCHANGED ticking
       IN IF Top.at = "say" /\ Top.tab \notin Open
          THEN Crash("say") /\ UNCHANGED <<windows, children, ticking, left>>
          ELSE \/ Pass /\ UNCHANGED <<windows, children, left>>
               \/ /\ left.hooks > 0
                  /\ left' = [left EXCEPT !.hooks = @ - 1, !.acted = TRUE]
                  /\ \/ Eat /\ UNCHANGED <<windows, children>>
                     \/ \E x \in Open : session_free(x) /\ Pass /\ UNCHANGED connected
    /\ UNCHANGED talk

Internal_Returns(cmd, t) == \* mutant: /quit returns without giving its level back
    IF cmd.op = "quit" THEN connected' = FALSE /\ Return /\ UNCHANGED <<sess_list, children>>
    ELSE IF cmd.op = "say"
    THEN /\ Goto(<<[at |-> "say", tab |-> t, text |-> cmd.text, first |-> TRUE], [at |-> "return"]>> \o Below)
         /\ UNCHANGED <<windows, children>>
    ELSE Leave /\ UNCHANGED <<windows, children>>
\* The client's own commands, and what they do with the window they are called for.
Internal(cmd, t) ==
    CASE cmd.op = "say" -> \* cmd_say
            /\ Goto(<<[at |-> "say", tab |-> t, text |-> cmd.text, first |-> TRUE], [at |-> "return"]>> \o Below)
            /\ UNCHANGED <<windows, children>>
      [] cmd.op = "allchan" ->
            /\ Goto(<<[at |-> "all", tab |-> Head(sess_list), body |-> cmd.body, called |-> FALSE]>> \o Below)
            /\ UNCHANGED <<windows, children>>
      [] cmd.op = "close" -> session_free(t) /\ Leave /\ UNCHANGED connected
      [] cmd.op = "quit" -> \* and no more lines of what was typed
            /\ connected' = FALSE
            /\ stack' = IF Below # <<>> /\ Head(Below).at = "lines" THEN Tail(Below) ELSE Below
            /\ command_level' = command_level - 1
            /\ UNCHANGED <<stale, sess_list, children>>
      [] cmd.op = "exec" -> cmd_exec(t, cmd) /\ Leave /\ UNCHANGED windows
      [] cmd.op \in {"execs", "execc", "execk"} -> cmd_execk(t, cmd) /\ Leave /\ UNCHANGED windows
      [] OTHER -> Leave /\ UNCHANGED <<windows, children>>

\* handle_command, once the plugins have seen it and if the window is still there: the user
\* commands of that name, or else the client's own.
handle_command ==
    /\ Top.at = "run"
    /\ IF Top.tab \notin Open THEN Leave /\ UNCHANGED <<windows, children>>
       ELSE IF Named(Top.cmd, 1) # {}
            THEN Goto(<<[at |-> "usercmds", tab |-> Top.tab, cmd |-> Top.cmd, i |-> 1]>> \o Below) /\ UNCHANGED <<windows, children>>
            ELSE Internal(Top.cmd, Top.tab)
    /\ UNCHANGED <<ticking, talk, left>>

\* One user command of the name after the other, each with the window the first was called for.
user_command ==
    /\ Top.at = "usercmds"
    /\ LET more == Named(Top.cmd, Top.i) j == Min(more) IN
       IF more = {} THEN Leave
       ELSE IF Top.tab \notin Open THEN Crash("usercmds")
       ELSE LET on == <<[Top EXCEPT !.i = j + 1]>> \o Below IN
            IF Top.cmd.args < CommandList[j].needs THEN Goto(on)
            ELSE Enter(Top.tab, CommandList[j].body, on)
    /\ UNCHANGED <<windows, children, ticking, talk, left>>

\* /allchannels and /allchannelslocal: the command in one window after the other. The next is
\* found by the place of the last one in the list, which may have been closed meanwhile.
cmd_allchannels ==
    /\ Top.at = "all"
    /\ IF ~Top.called
       THEN LET on == <<[Top EXCEPT !.called = TRUE]>> \o Below IN
            IF connected THEN Enter(Top.tab, Top.body, on) ELSE Goto(on)
       ELSE IF Top.tab \notin Open THEN Crash("all")
       ELSE LET i == Position(Top.tab) IN
            IF i = Len(sess_list) THEN Leave
            ELSE Goto(<<[Top EXCEPT !.tab = sess_list[i + 1], !.called = FALSE]>> \o Below)
    /\ UNCHANGED <<windows, children, ticking, talk, left>>

\* A command that called handle_say is done.
Done == Top.at = "return" /\ Leave /\ UNCHANGED <<windows, children, ticking, talk, left>>

-----------------------------------------------------------------------------
(* What the main loop calls *)

Idle == stack = <<>> /\ stale = None /\ sess_list # <<>>

Type ==
    /\ Idle /\ left.script # <<>>
    /\ \E t \in Open : stack' = <<[at |-> "lines", tab |-> t, rest |-> Head(left.script)]>>
    /\ left' = [left EXCEPT !.script = Tail(@)]
    /\ UNCHANGED <<command_level, stale, windows, children, ticking, talk>>

\* Whole lines, as handle_multiline and PrintText find them: empty ones are left out.
Ended(split) == IF split.open = <<>> THEN split.lines ELSE Append(split.lines, split.open)
\* The lines that a text has ended, and what comes after them.
Split(text) ==
    LET split[i \in 0..Len(text)] ==
            IF i = 0 THEN [lines |-> <<>>, open |-> <<>>]
            ELSE IF text[i] = Newline THEN [lines |-> Ended(split[i-1]), open |-> <<>>]
            ELSE [lines |-> split[i-1].lines, open |-> Append(split[i-1].open, text[i])]
    IN split[Len(text)]
LinesOf(text) == Ended(Split(text))
Complete_Whatever(buf) == buf \* mutant: what was read is printed, ended or not
\* Up to the last newline.
Complete(buf) ==
    SubSeq(buf, 1, Max({0} \union {i \in DOMAIN buf : buf[i] = Newline}))
Typed(lines) == [i \in DOMAIN lines |-> [op |-> "text", text |-> lines[i]]]

\* Something to read from the child of window t: whole lines are printed, or said on the
\* channel, and the beginning of the next is kept.
exec_data(t) ==
    LET s == exec[t] p == s.pid
        n == Min({MaxRead, Len(child[p].pipe)})
        buf == s.linebuf \o SubSeq(child[p].pipe, 1, n)
        lines == LinesOf(Complete(buf))
    IN /\ Idle /\ s # NoChild /\ n > 0
       /\ exec' = [exec EXCEPT ![t].linebuf = SubSeq(buf, Len(Complete(buf)) + 1, Len(buf))]
       /\ child' = [child EXCEPT ![p].pipe = SubSeq(@, n + 1, Len(@)), ![p].shown = @ \o lines]
       /\ stack' = IF s.tochannel THEN <<[at |-> "lines", tab |-> t, rest |-> Typed(lines)]>> ELSE <<>>
       /\ UNCHANGED <<command_level, stale, windows, ticking, talk, left>>

\* Nothing more to read: the line that was never ended is printed or said as well, and then the
\* child is done with.
exec_eof(t) ==
    LET s == exec[t] p == s.pid lines == LinesOf(s.linebuf)
    IN /\ Idle /\ s # NoChild /\ child[p].pipe = <<>> /\ ~child[p].alive
       /\ child' = [child EXCEPT ![p].shown = @ \o lines, ![p].eof = TRUE]
       /\ stack' = (IF s.tochannel THEN <<[at |-> "lines", tab |-> t, rest |-> Typed(lines)]>> ELSE <<>>)
                      \o <<[at |-> "eof", tab |-> t, pid |-> p]>>
       /\ UNCHANGED <<exec, command_level, stale, windows, ticking, talk, left>>
exec_done ==
    /\ Top.at = "eof"
    /\ IF exec[Top.tab] = NoChild \/ Top.tab \notin Open THEN Crash("exec_data") /\ UNCHANGED children
       ELSE exec' = [exec EXCEPT ![Top.tab] = NoChild] /\ child' = Watch(Top.pid, FALSE) /\ Return
    /\ UNCHANGED <<windows, ticking, talk, left>>

Spent_Late(tim) == tim.repeat <= 0 \* mutant: looked at before it is counted down
Spent(tim) == tim.repeat <= 1
\* The timeout of a timer: its command runs if its window is still there.
timeout_cb(i) ==
    LET tim == timers[i] IN
    /\ Idle /\ tim.id \in hooked
    /\ IF tim.tab \in Open
       THEN /\ left.fires > 0 /\ left' = [left EXCEPT !.fires = @ - 1]
            /\ fired' = [fired EXCEPT ![tim.id].runs = @ + 1]
            /\ Enter(tim.tab, tim.cmd, <<[at |-> "timer", id |-> tim.id]>>)
            /\ UNCHANGED <<timers, hooked>>
       ELSE /\ timer_del(tim.id)
            /\ fired' = [fired EXCEPT ![tim.id].cut = TRUE]
            /\ UNCHANGED <<depth, left>>
    /\ UNCHANGED <<windows, children, talk>>
timer_done ==
    /\ Top.at = "timer"
    /\ IF Top.id \notin Listed THEN Crash("timer") /\ UNCHANGED ticking
       ELSE LET i == Place(Top.id) IN
            /\ IF timers[i].forever THEN UNCHANGED ticking
               ELSE IF Spent(timers[i]) THEN timer_del(Top.id) /\ UNCHANGED fired
               ELSE timers' = [timers EXCEPT ![i].repeat = @ - 1] /\ UNCHANGED <<hooked, fired>>
            /\ Return
    /\ UNCHANGED <<windows, children, talk, left>>

\* A child writes some of what it has to write, or ends.
ChildWrites(p) ==
    /\ child[p].alive /\ ~child[p].stopped /\ child[p].watched
    /\ \E n \in 1..Len(child[p].out) :
         LET text == SubSeq(child[p].out, 1, n) IN
         child' = [child EXCEPT ![p].out = SubSeq(@, n + 1, Len(@)), ![p].pipe = @ \o text, ![p].wrote = @ \o text]
    /\ UNCHANGED <<exec, windows, depth, ticking, talk, left>>
ChildEnds(p) ==
    /\ child[p].alive /\ ~child[p].stopped
    /\ child' = [child EXCEPT ![p].alive = FALSE]
    /\ UNCHANGED <<exec, windows, depth, ticking, talk, left>>

Step == Running /\ (plugin_emit \/ handle_multiline \/ handle_say \/ p_message \/ handle_command \/ user_command
                     \/ cmd_allchannels \/ Done \/ exec_done \/ timer_done)
MainLoop == Type \/ (\E t \in Open : exec_data(t) \/ exec_eof(t)) \/ (\E i \in DOMAIN timers : timeout_cb(i))
Child == \E p \in DOMAIN child : stale = None /\ (ChildWrites(p) \/ ChildEnds(p))
Next == Step \/ MainLoop \/ Child

Spec == Init /\ [][Next]_vars

-----------------------------------------------------------------------------
(* Properties *)

\* However commands call commands, are eaten, or close the windows of those that wait for
\* them, command_level is the number of handle_command that are running, and no more than
\* Limit + 1 of them ever run (outbound.cpp:4131, "anything below MUST DEC command_level").
LevelKept ==
    /\ command_level = Cardinality({i \in DOMAIN stack : stack[i].at \in {"command", "run", "usercmds", "all", "return"}})
    /\ command_level <= Limit + 1

\* Messages put together again.
Joined(messages) ==
    LET joined[i \in 0..Len(messages)] == IF i = 0 THEN <<>> ELSE joined[i-1] \o messages[i]
    IN joined[Len(messages)]

\* A text too long for one message goes out in several, none of them too long and none of its
\* characters lost, doubled or out of order, in every window it was said in, unless a plugin
\* stepped in (handle_say, outbound.cpp:3984).
SayWhole ==
    /\ \A t \in DOMAIN sent : \A i \in DOMAIN sent[t] : Size(sent[t][i]) <= MaxText
    /\ stack = <<>> /\ ~left.acted => \A t \in DOMAIN sent : Joined(sent[t]) = owed[t]

\* However a child's output is cut into reads, its lines are printed or said whole, in order
\* and once; and when it was read to the end, all of them were (exec_data, outbound.cpp:1638).
LinesWhole ==
    \A p \in DOMAIN child :
      /\ IsPrefix(child[p].shown, LinesOf(child[p].wrote))
      /\ child[p].eof => child[p].shown = LinesOf(child[p].wrote)

\* The main loop watches a child's pipe exactly as long as an open window has the child, and a
\* child without a window is never left running (cmd_exec, exec_check_process, exec_data,
\* exec_notify_kill).
ChildrenOwned ==
    \A p \in DOMAIN child :
      /\ child[p].watched <=> \E t \in Open : exec[t].pid = p
      /\ child[p].alive => child[p].watched

\* A timer runs its command as often as it was asked to, and no timer fires that is not listed,
\* whatever its commands do to the windows and to the timers (plugin-timer.cpp).
TimersExact ==
    /\ hooked = Listed
    /\ \A id \in DOMAIN fired :
         LET f == fired[id]
             running == \E i \in DOMAIN stack : stack[i].at = "timer" /\ stack[i].id = id
         IN /\ f.asked > 0 => f.runs <= f.asked
            /\ id \notin Listed /\ ~f.cut => f.asked > 0 /\ f.runs = f.asked
            /\ id \in Listed /\ f.asked > 0 /\ ~running => f.runs < f.asked

\* "incase a plugin did /close" (outbound.cpp:4170): a window that was closed while it was
\* worked on is looked up before it is used again. The code does so after a plugin saw a
\* command or a text, and nowhere else.
ClosedUntouched == stale = None
=============================================================================
