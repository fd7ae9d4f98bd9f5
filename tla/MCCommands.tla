----------------------------- MODULE MCCommands -----------------------------
EXTENDS Commands

MyTabs == <<"t1", "t2">>
Cmd(o) == [op |-> o, args |-> 0]
Text(t) == [op |-> "text", text |-> t]
Say(t) == [op |-> "say", text |-> t, args |-> 1]
AllChan(b) == [op |-> "allchan", body |-> b, args |-> 1]
Exec(to) == [op |-> "exec", tochannel |-> to, args |-> 1]
Timer(ref, repeat, b) == [op |-> "timer", ref |-> ref, repeat |-> repeat, body |-> b, args |-> 2]
Untimer(ref) == [op |-> "untimer", ref |-> ref, args |-> 1]
User(name, args) == [op |-> name, args |-> args]

\* "bye" closes the window, "twice" is two commands, "loop" calls itself.
MyCommands == << [name |-> "bye",   needs |-> 0, body |-> Cmd("close")],
                 [name |-> "amsg",  needs |-> 1, body |-> AllChan(Say(<<1, 2>>))],
                 [name |-> "twice", needs |-> 0, body |-> Say(<<1, 2>>)],
                 [name |-> "loop",  needs |-> 0, body |-> User("loop", 0)],
                 [name |-> "twice", needs |-> 1, body |-> Say(<<3>>)],
                 [name |-> "loop",  needs |-> 0, body |-> Say(<<4>>)] >>
MyOutput == <<1, 2, 9, 9, 3, 9, 4>>
Long == <<1, 2, 3, 7, 4, 5, 7, 8>>

Typing(lines, hooks, fires) == [script |-> lines, hooks |-> hooks, fires |-> fires, acted |-> FALSE]
TypedScripts ==
    { \* texts, user commands, all windows
      Typing(<< <<Text(Long), User("twice", 1)>>, <<User("amsg", 1), Text(Long)>> >>, 1, 0),
      Typing(<< <<User("twice", 0), Cmd("quit"), Text(<<1>>)>>, <<Text(<<2>>)>> >>, 1, 0),
      Typing(<< <<User("loop", 0), AllChan(User("twice", 1))>> >>, 1, 0),
      Typing(<< <<AllChan(User("bye", 0))>> >>, 0, 0),
      Typing(<< <<Text(Long), Cmd("raw"), User("amsg", 1)>> >>, 2, 0),
      Typing(<< <<User("bye", 0)>>, <<Text(Long)>> >>, 2, 0),
      \* children
      Typing(<< <<Exec(TRUE)>>, <<Cmd("execs")>>, <<Cmd("execc")>>, <<Cmd("execk")>> >>, 0, 0),
      Typing(<< <<Exec(FALSE)>>, <<Exec(TRUE)>> >>, 0, 0),
      Typing(<< <<AllChan(Exec(TRUE))>>, <<Cmd("close")>> >>, 0, 0),
      Typing(<< <<Exec(TRUE)>> >>, 1, 0),
      \* timers
      Typing(<< <<Timer(0, 2, Say(<<1>>)), Timer(0, 0, Untimer(1))>>, <<Timer(1, -1, Cmd("close"))>> >>, 1, 4),
      Typing(<< <<Timer(0, 3, Say(<<1>>)), Timer(0, 1, Timer(0, 2, Say(<<2>>)))>>, <<Untimer(1)>> >>, 0, 6) }
\* All that is typed or called.
CommandsOf(scripts) == UNION {UNION {ToSet(line) : line \in ToSet(s.script)} : s \in scripts}
Within(cmds) == {c.body : c \in {c \in cmds : c.op \in {"allchan", "timer"}}}
MyCmds ==
    LET outer == CommandsOf(TypedScripts) \cup {c.body : c \in ToSet(MyCommands)}
    IN outer \cup Within(outer) \cup Within(Within(outer))
PastedScripts == {Typing(<< <<User("bye", 0), Text(<<1>>)>> >>, 0, 0)}
=============================================================================
