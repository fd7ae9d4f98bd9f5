# A verification development for libPChat

libPChat is the core of an IRC client (a descendant of XChat) turned into a library, with a
text front end. These modules model the parts of it that keep state and can get it wrong, check
them with TLC on small instances, and prove the properties that matter most with TLAPS.
`PROJECT.json` lists the runs, maps every definition to the lines it models, and lists what is
hard to test in this code (hazards) with the properties that watch it.

## The system

One process, one thread, around a GLib main loop. All concurrency is that of *callbacks*: what a
handler does is atomic, but between two handlers anything may happen, and a callback runs with a
pointer given to it long ago. The connecting child process, the IRC server and the clock are the
environment. The components, their state and how they meet:

| component (src/src/common) | state | operations | talks to |
|---|---|---|---|
| server connection (server.cpp) | `server`: connecting / connected / end_of_motd, iotag, joindelay_tag, recondelay_tag, ssl_do_connect_tag, child, pipe, sockets | connect, cleanup, disconnect, auto_reconnect, server_read, timeouts | child process, main loop, windows, server list |
| send queue (server.cpp) | outbound_queue, sendq_len, next_send, prev_now | tcp_send_len, tcp_send_queue, flush | connection, main loop |
| windows (xchat.cpp) | sess_list, serv_list, server_session, front_session, current_sess, current_tab | session_new, session_free, new_ircwindow, xchat_exit | everything: most code starts from a window |
| nick lists (userlist.cpp, tree.cpp) | usertree, usertree_alpha, ops/hops/voices/total, me | add, remove, change, update_mode, find | inbound, modes |
| plugins (plugin.cpp, plugin-timer.cpp) | hook_list, plugin_list, sources of timers and descriptors | hook, unhook, walk, load, unload | every event |
| direct connections (dcc.cpp) | dcc_list, per DCC: stat, sockets, tags, positions | offer, accept, resume, send, timeout, close | main loop, inbound, ctcp |
| notify list (notify.cpp) | notify_list, per server: ison, laston, ... | add, delete, ISON/WATCH answers, poll | connection, main loop |
| channels (inbound.cpp, proto-irc.cpp) | waitchannel, willjoinchannel, channel names, the flags that hide answers | login, nicks, join, part, kick, names, rejoin | windows, nick lists, the IRC server |
| modes (modes.cpp) | nick_modes, chanmodes, current_modes, key, limit | parsing and grouping of mode changes | nick lists, queue |
| commands (outbound.cpp, plugin-timer.cpp) | command_level, user commands, /exec children, timers | about a hundred commands | all of it |
| messages, CTCP, ignores, floods (inbound.cpp, ctcp.cpp, ignore.cpp) | ctcp and message counters, ignore_list | check, ignore, open a dialog | windows, text |
| text, preferences (text.cpp, cfgfiles.cpp) | scrollback files, pchat.conf, ignore.conf | append, shrink, replay, save, load | file system |
| proxies (server.cpp, dcc.cpp) | phase of a dialogue | traverse | connection, direct connections |
| server list (servlist.cpp) | network_list, selected server | connect, cycle, add, remove | connection |
| options, history, URLs, utilities | files and strings | formatting, reading, writing | - |

What makes it hard: *source tags* (a timeout or a watch is removed by an id kept in one field;
overwrite the field and the callback can never be removed), *pointers that outlive what they
point to* (windows, servers, users are freed by calls deep inside handlers), *re-entrance* (a
plugin's callback may run commands that walk, change and free what its caller is walking), *order inside a
handler* (disconnect, then flush what was just queued), *retries* (reconnect delays, cycling
through a network's servers, queue timeouts), and *sorted arrays searched with a comparison that
depends on mutable data*.

What makes each component correct:
- connection: every source is owned by exactly one field of a live structure; a disconnect is
  final; a lost connection comes back; nothing of one connection reaches the next.
- queue: lines leave in the order of their lane; what waits has a timeout; the IRC server's
  flood limit is never run into; a QUIT is not lost.
- windows: no pointer dangles; servers live exactly as long as their windows; a connection
  closed with its windows is sent one QUIT and nothing after.
- nick lists: both trees hold the same users, lookups find them, counters agree.
- plugin hooks: every hook that is there is called, once, however deep the walks are nested;
  nothing of an unloaded plugin is called; sources live as long as their hooks.
- direct connections: a closed transfer is never called back; a file called complete is whole,
  and what is sent follows on what the peer has; the sums that throttle are exact.
- channels, modes: when everything on the way has been read, the client shows what the server
  has; a hidden answer is always one that is coming; after a broken connection it is back.
- commands: levels, texts, children and timers are accounted for, whatever happens inside.
- messages and files: what is not ignored is shown once, in its place; what was saved is read
  back, wherever the program ended.

## Modules

| module | models |
|---|---|
| `ServerConn` | one `server` structure and its main-loop sources, and everything that drives it |
| `ServerConnProofs` | ownership of watches, pipes, children and delays; a disconnect is final |
| `PriorityLanes` | what the send queue promises: three FIFO lanes |
| `SendQueue` | tcp_send_len / tcp_send_queue with the clock; refines `PriorityLanes` |
| `SortedTree` | the sorted arrays of tree.cpp, as pure operators |
| `Userlist` | the nick list of one channel on two such arrays |
| `ChannelProofs` | of `Userlist`: the searches end at the right place in any array in order, both trees hold the same users, counters agree; of `Modes`: a command reaches every target, the client knows what the server has |
| `Sessions` | windows, servers, the pointers between them and the loops that close windows |
| `Hooks` | plugins, their hooks, the walks of the hook list and the sources of the main loop |
| `WalksProofs` | of `Hooks`: sources, unloaded plugins, no hook missed; of `Sessions`: validity of all pointers, lifetime of servers, one QUIT, the end of the loops |
| `Proxies` | the dialogues with Wingate, SOCKS4, SOCKS5 and HTTP proxies, as sequences of steps |
| `Dcc` | transfers and chats with a peer: main loop, user, peer and the check of every second; uses `Proxies` |
| `DccProofs` | sources, proxies, sums, streams and completed files, for any number of transfers |
| `IrcServer` | the IRC server the client relies on (external) |
| `Irc` | login, nicks, channels, users, away, notify list: client and `IrcServer` side by side |
| `LinesProofs` | of `SendQueue`: timeouts, flood limit, and that it implements `PriorityLanes`; of `IrcServer`: what the server says of a change brings a client to what it is after it |
| `IrcProofs` | of `Irc`: answers awaited are coming, what the client shows is what the server has |
| `Modes` | mode commands, the lines they become, and what the client keeps of the channel's modes |
| `Commands` | the stack of command handlers, /exec children, timers |
| `CommandsProofs` | levels, ownership of children, lines of children, timers, texts |
| `Texts` | messages, ignores, floods, dialogs, scrollback files, preferences, exit, crash and start |
| `TextsProofs` | messages shown once, files read back, for any table of preferences and any bounds |
| `MC*` | model values and symmetry of each of these |

`Dcc` composes with `Proxies`, `Irc` with `IrcServer`, `SendQueue` with `PriorityLanes`,
`Userlist` with `SortedTree`. The others share no variable: what one component sees of another
is what its environment may do at any time.

How to read them. Each module begins with what it abstracts. Names are those of the source: an
operator `server_cleanup(s)` is what the function of that name does to the structure, an action
named after a handler is that whole handler with all it calls. Operators named
`<definition>_<Word>` are deliberate mistakes that the properties must catch; no specification
uses them. A property that joins parts (`CallbacksOwned == WatchesOwned /\ FreedIsDeaf`) is what
the runs list; the parts are named for the proofs and for reading.

### ServerConn

`st` is the structure: flags, the four tag fields, and `src`, which gives for each source id the
callback it runs. Handlers call each other, so functions are operators from state to state and an
action composes them in the order of the calls (`server_connect` = disconnect, flush, mark,
fork). The child's outcome, the SSL handshake, the arrival of the end of the MOTD, the loss of the
connection, the user's commands and the preferences are environment choices. `goal` is a history
variable: who decided last whether this server should be online.

Left out: the bytes read (server_read's loop is a sequence of handlers), the dialogue with a proxy
(only how it ends), the delays' lengths (a timeout is pending until it fires).

### SendQueue

One element of `outbound_queue` is a record with its priority byte and the seconds its parameters
add. The clock is kept as differences (`ahead` = next_send - now, `back` = prev_now - now), which
is all the code looks at. The loop of tcp_send_queue is one step per line; `job` says on whose
behalf it runs and what follows, so that no other handler interferes. `since` is external: the IRC
server's own counter, as ircu keeps it. `meddled` counts how often the clock was set back or
throttling switched: before the first time `NeverFloods` holds, everything else always. Lines
that are sent while throttling is off do not wait, so `PriorityLanes` has a `bypass` that follows
the preference, and promises the order of lanes for what does wait. What is in a lane is defined
by a recursive function on the queue (`OfPriority`), so that the refinement can be proved.

### SortedTree, Userlist

The trees are sequences, their searches the code's own halving, including its special cases for
arrays of no or one element and for both ends; a search is a recursive function of the pair of
places it is between, and gives `Lost` where the code's loop would not end or would leave the array.
`Userlist` allocates and frees user structures by address, so that a structure left in a tree after
it is freed is visible as such.

### Sessions

Windows are addresses in `sess_list` (newest first, as the code prepends). `session_free` is one
action with everything it calls, in its order: pointers, list, QUIT or PART, current_sess,
program exit, server_free. The loops of /close -m and of xchat_exit are one step per window with
the saved link in `next`; nothing else runs meanwhile. `LoopsShrink` says that each step leaves
the loop fewer windows to go (`Remaining`): it ends, without any assumption of fairness. `on` is
external: the windows whose channel the IRC server has us on.

### Hooks

A plugin's callback may do anything a plugin can, so the C stack is a variable: `stack` holds the
walkers of the list and the plugin code that they, the main loop, `plugin_add` and `plugin_free`
are calling. `plugin_hook_run` is cut where it calls a plugin (`CallNext`, then `CallReturns`) and
once for each hook it frees at its end (`Expunge`); what the plugin does meanwhile are the other
actions, from hooking to a walk of its own. Each address is used once, so that a freed hook stays
visible as one. Where the code would follow a freed link or return into an unloaded plugin its
behaviour is undefined, and the model stops. `due` and `called` of a walk are history: the hooks
it owes a call and those it called.

Left out: what callbacks are passed, names of hooks (all hooks of a type have one name here), the
delay of timers.

### Proxies, Dcc

A dialogue is a sequence of writes and reads; the child of a server connection holds it with
blocking calls, a direct connection in callbacks, one phase after another, so `Proxies` gives both
and `ProxyAsked` compares what was asked (`Asked`, by a recursive function on the steps, as is the
sum `Total`). In `Dcc` handlers are functions on the state `st`, as
they call each other (the check of every second lifts a throttle, which reads, which closes). A
file is a sequence of numbered blocks, so one put together from the wrong blocks shows as such.
The peer is external and keeps to the protocol: it resumes, acknowledges, breaks off and
disappears when it likes. Timeouts may come at any time. Left out: several peers, limits per
transfer, partial acknowledgements, wildcards. `Mixed` allows offers of one file, or passive
ones, to coexist; the run has it FALSE, because the code then confuses them (Observations).

### IrcServer, Irc

Lines wait in the send queue (JOIN, PART, ... in `fast`; the client's own WHO and MODE questions in
`slow`, overtaken by all others), then reach the server, whose answers wait in `inbox`. So every
answer is late, and kicks, mode changes, other users and broken connections come between. `Receive`
is one line handled as irc_inline does, with all it calls; the client's record of the server
(`serv`) goes through login, rejoin delay, NickServ and reconnection. A scenario says how often each kind of
event may happen: all interleavings of one scenario are explored, and scenarios are chosen so that
events that meet in the code meet in one of them. `kept` is history: what a broken connection
should come back to.

### Modes

A change is a sign, a letter and an argument. Commands become lines by number and by length, the
server (external) applies what it accepts and tells everybody, and handle_mode gives arguments to
letters by counting. `current` is current_modes as the code keeps it, letters and arguments by
position. `asked` and `done` are history: the changes commands were to make and those the server
took, so what is lost, doubled or put on a line too long shows.

### Commands

handle_command calls itself, plugins see every command and text and may run others or close
windows, so the C stack is a sequence of frames, one action per function between two calls. Children
of /exec are concurrent and write, stop and die when they like; the main loop's timers fire between
two commands. Where a freed window would be used, `stale` says where and the behaviour ends. What a
child writes is cut by `Split`, read by read, into the lines that are ended and what comes after
them; `LinesWhole` compares what was shown with what was written.

### Texts

Messages are printed window by window, and a line of a scrollback file takes three writes (its time,
its text, its end), so a crash comes between any two of them, or before the rest of a message is
shown; `scrollback_save` and `LineSaved` are the two ends of the function. Other files are changed
one write at a time as well (`Rewrite` after a truncation, a line of the new configuration, its
rename). `Crash` loses what is in memory and keeps the files; `Start` reads them. What a crash leaves
of a line gets no end, so the next line is read together with it: the line counts, but only for the
later of the two. `max_lines` is any number, and stays; text_replay is on. Preferences are numbers, in
the order of vars[], as cfg_get_str finds a line by how it begins; `VarsAssumption` says that a name
which another begins with comes before it, as in the 178 names of vars[]. load_config then changes
some: windows have a smallest size, and where gui_ulist_pos is 0 the list of users and the tabs get
the places that older settings mean, which `ConfigWhole` allows for. (A space in the user name cuts
it off; strings are not modelled.) The history `mixed` names the scrollback files of which
`ReplayRecent` says nothing: that of a window which got its count of lines from another name's file,
that of another name a window writes to, and one that was being shrunk in a crash; `torn` has the
lines that were begun and not ended.

## Runs

| run | what it checks | bounds |
|---|---|---|
| `usual` | ConnectionIsOwn, ReconnectOwned, DisconnectIsFinal, AttemptEnds, ComesBack | 4 source ids: an attempt needs 2 (pipe, SSL poll), a connection 2 (socket, JOIN delay), a delay 1, and one to spare. Without /reconnect and with system calls that succeed; what these do to the properties is under Observations |
| `wild` | CallbacksOwned, NothingLeaked | 5 ids, every user action, failing pipe() and fork(), a network command that disconnects |
| `queue` | TimerWhenQueued, ImplementsLanes, NeverFloods, UrgentLeaves | 2 lines at a time and QUIT, of 2 and 10 seconds, the IRC server's counter up to 11, 2 timeouts at once, clock set back or throttling switched up to twice: all three lanes, partial drains, throttled and not |
| `joined` | SameUsers, FindsEveryUser, BooksAgree | 4 nicks, two ranks, the 4 orders the preference offers, one address to spare: arrays of 0 to 4 elements take every branch of the searches |
| `windows` | PointersFollowed, NoGhost, OneQuitEach, LoopsShrink | 3 windows, 2 servers: one server with two windows beside one with one, or one with three |
| `hooks` | CallbacksOwned, EveryHookCalled | 3 hooks in a life, 2 plugins, 2 priorities, a stack of 2 frames: a walk, or a timer, in whose callback another walk, a load or an unload runs. A third frame meets nothing new, as an invariant of one frame depends on the list and not on the frames above it (the proof goes that way, for any depth) |
| `dcc` | SourcesOwned, ReceivedWhole, StreamUnbroken, SumsExact, ProxyAsked | 2 transfers or chats in a life, 1 file of 2 blocks that is there in part when the program starts, SOCKS5 or no proxy: a transfer beside another, resumed in the middle, throttled by the other's rate; rates 0 and 1, for chats too, and a limit of 1 |
| `irc` | ViewFollows, Answered, Rejoined, NotifyFollows | 13 scenarios of up to 8 events: 2 channels, 3 nicks, one other user, up to 3 tabs, up to 8 lines on the way, up to 2 broken connections |
| `away` | AwayRestored (finding) | being away, one broken connection, one failed attempt |
| `commands` | LevelKept, SayWhole, LinesWhole, ChildrenOwned, TimersExact | 2 windows, level limit 2, messages of 4 bytes, texts of up to 8 characters with one of two bytes, reads of 3 bytes; 12 scripts of 1 to 4 lines with up to 2 plugin actions and 6 timer firings |
| `modes` | TargetsReached, ModesAgree | 3 users, 2 levels, all four kinds of modes, lines of 11 bytes and 4 modes, 2 commands, 1 change by others: lists are cut by number, by length, and by both |
| `texts` | ShownOnce, ConfigWhole, IgnoresKept, ReplayRecent | 2 people, 3 messages, 1 act of the user, floods of 2, 2 exits or crashes (an exit cut short by a crash), 6 preferences, a limit of 2 lines in place of 32000; at first either max_lines 2 and the channel's file as long as a file gets, so that the next line shrinks it, or max_lines 0, one line per file, a window too small and tabs and list placed by older settings |

Deadlock is checked in `queue` and `joined`. Elsewhere the system may stop: the structure is freed,
the program over, all addresses of a life or all bounded events used up, or undefined behaviour
ends the model.

Symmetry is used for addresses, plugins, transfers and source ids, which the code only compares
for equality, and never in a run with a liveness property.

## Fairness

`ServerConn`: the main loop dispatches sources that stay ready, the child's connect() ends, and
the SSL poll ends within SSLTMOUT. Nothing is assumed of the user or of the IRC server.
`SendQueue`: a handler that runs returns; time passes however often lines are sent (strong, since
handlers interrupt it); the main loop gets to each due timeout. The other modules assume none and
state no liveness: a peer, a server, a plugin or a child may stop answering for ever, and the
properties that speak of an end (`Settled`, `completed`, an empty stack) say what holds if it comes.

## Proofs

TLAPS proves, for every value of the constants (and, where a theorem says so, under a hypothesis on
them that the run which checks the property satisfies):

- `ServerConnProofs`: `TypeOK`, `CallbacksOwned`, and `TagsAreNotOverwritten`, the inductive
  invariant itself. The ownership of the watches alone is not inductive: reading the child's success
  line sets ssl_do_connect_tag without looking, and the end of the MOTD joindelay_tag. `IInv` adds
  `Spare`, which says both are clear then, because of how child, report and end_of_motd go together.
  The lemmas are one per function: cleanup, stopconnecting and disconnect leave a structure `Quiet`;
  connect and the delays add one source to a quiet one; a step composes them. In the same way
  `NothingLeaked`, always; the two halves of `ConnectionIsOwn`, one as long as pipe() and fork()
  succeed, the other as long as the network's command does not disconnect; `ReconnectOwned` and
  `DisconnectIsFinal` where /reconnect is not typed, from `Delays` (a delay is pending only where
  there is neither a connection nor an attempt) and `Offline` (nothing is pending while the user wants
  the server offline). That the properties fail without these hypotheses TLC shows (Observations).
- `LinesProofs`, send queue: `TypeOK`, `TimerWhenQueued`, `QueueNeedsConnection` with `TimerInv`, which says
  what holds while a handler runs; `NeverFloods` with `since <= ahead`: as long as nobody has
  meddled, the client is never behind the IRC server's counter; and `ImplementsLanes`, the refinement
  of `PriorityLanes`: lemmas, by induction on the places of a queue, say what appending, inserting
  and removing a line make of each of its lanes, and each step of the loop maps to a line sent from
  the first lane that has one, or to a stutter.
- `ChannelProofs`, nick lists: in an array that is in order the search by halving finds what is there
  (`SearchFinds`), and the search for a place ends at the right one (`InsertionPos`), by induction on
  the distance of its two bounds. Both comparisons of the code are lexicographic orders of a `Key` of
  two numbers, and the special cases of the code agree with it. `ListInv` keeps each tree in the
  order of its keys, with every allocated user once; `Books` adds the counters and our own entry.
  Hypotheses: the orders the preference offers, nicks listed twice only in the two that notice it, no
  change of the order on a channel, and no letter twice among the prefixes. Without the first three
  `SameUsers` fails (Observations).
- `ChannelProofs`, modes: `TargetsReached`, `ModesAgree` and `ModesTypeOK`, for any number of users,
  levels and modes, any lengths of words, and any number of lines on the way. Both properties speak
  of moments when nothing is on the way, so neither is inductive. `ModesInv` says what holds in
  between: `Asks`, that what the server has taken, followed by what it will take of the lines
  on their way to it, is what the commands were to do; and `Reads`, that the client, after the
  lines on their way to it, will `Agree` with the server, and that its text agrees with some
  channel after each of them on the way. `SendsAll` says that send_channel_modes, wherever it cuts
  a list, asks for every target once and in order; `PairedBack`, that however handle_mode counts, by all letters or by
  those that take an argument, it gives each argument of a line the server sends back to its letter; and the lemmas on `current_modes` say
  what adding a letter, replacing its argument and taking it out make of the pairs that letters and
  arguments form by position. What follows one step of the server, a change of the list of users or
  one line read is one lemma each.
- `WalksProofs`, windows: `TypeOK`, `PointersFollowed`, `OneQuitEach`, `NoGhost`, `NextIsOpen` and
  `LoopsShrink`. They need each other: `IInv`
  adds that a window is listed once (else removing it leaves it), that the windows of `on` are
  named channels of live connections whose sent_quit is not set (else closing one would send no
  PART), that sent_quit means a QUIT was said, and that sent_quit survives only while the program
  ends. `session_free` has three lemmas (list, pointers, farewells) that every closing step cites.
  The end of the loops rests on lemmas about the list without one of its windows: what is behind
  the saved link gets shorter by at least that window.
- `WalksProofs`, hooks: `HooksTypeOK`, `CallbacksOwned` and `EveryHookCalled`, for any number of
  hooks, plugins, priorities and frames. The invariant, `HooksInv`, is `Registry` (the list names no hook twice
  nor a freed one, sources and plugins match it) and `Walkers`: each frame `Follows` the list, that
  is, every hook it still owes a call is at or behind its saved link, or that link is freed (and
  then the walk never goes on). Every step makes the list only `Older`: hooks are added that no
  walker owes anything, marked, or taken out, and those that stay keep their order; lemmas on
  RemoveAt and InsertAt show that much. `Older` preserves `Follows`, so the frames below the top
  need no further look, and each action is left with what it does to the top.
- `IrcProofs`, with the second part of `LinesProofs`: `ViewFollows`, `Answered` and `IrcTypeOK`, for
  any channels, users, modes, tabs and numbers of lines. `ViewFollows` speaks of moments when all is
  read, `Answered` of the lines on their way, and neither is inductive. The invariant says of the
  moments in between what a client that stopped acting would come to: `Step` is what a line makes of
  what the client shows of a channel, `Walk` the views along a sequence of lines, and `Follows` that
  the walk along the lines in `inbox` ends where the channel as the server has it is shown, or, if it
  is not shown though we are on it, where a PART is on its way; and if its modes are still hidden,
  where the question for them is asked or will be. With that, a step of the server or of others adds
  lines at the end, and one lemma for each kind of answer and event shows that they lead (`Leads`)
  from a client that agrees with the server before to one that agrees after; a step of the client
  takes the first line, and one lemma for each handler shows that it makes of the tabs what `Step`
  says (`Reads`). `IrcInv` adds `Linked` (a nick is held only on a live connection, the away state is
  that of the last 305 or 306 on its way) and `Waited` (a WHO not answered is queued, or its answer is
  on its way).
- `DccProofs`: `SourcesOwned`, `ProxyAsked` and `SumsExact`; `StreamUnbroken`,
  `ReceivedWhole` and `TypeOK` where offers of one file do not coexist (without these, see
  Observations). As handlers call each other, the invariant has two layers. `Core` holds inside them,
  after each change of one entry: sources are those the tags name, sums those of the entries (less what `left` says chats have left there), each
  file that a download `Claims` has the blocks it counts on, and no two claim one file. `TagsOk` holds
  when a handler has returned: which callbacks an entry of each state has, and what the dialogue with
  its proxy has asked so far. There is one lemma per function (`ReadRests`, `SendDataRests`,
  `CalcRests`, `TraverseRests`, ...): from `Core`, and what its caller knows of the entry, it
  reaches a state in which the entry `Rests`; each action composes them.
- `CommandsProofs`: `LevelKept`, `ChildrenOwned`, `LinesWhole`, `TimersExact` and `SayWhole`. `StackInv` says what
  the C stack may look like (the main loop's frames lie at its bottom, only talk lies above the end of
  a child) and that the levels count its command frames. `ChildInv` says which window has which child
  and where its output stands; `Split` of a text in two parts is `Split` of the first, and of its
  open rest with the second; so what is shown, with what is kept, is what was read. `TimerInv` counts the firings. `SayInv`
  says that only the running function is ever at work on a text, that its window is open and
  connected once the text was taken on, and that the messages sent to a window, followed by what is
  still due of that one text, are what handle_say took on for it.
- `TextsProofs`: `ShownOnce`, `ConfigWhole`, `IgnoresKept` and `ReplayRecent`, for any table of
  preferences that satisfies `VarsAssumption`, any integer max_lines and any limit in place of 32000.
  `TextsInv` has one part each: where what is left to print of a message at work will have it shown;
  how much of the new file is written while the old one is whole (and lemmas say what load_config
  makes of each preference); how long ignore.conf got; and that a window's count of lines bounds its
  scrollback file from both sides, while a line is open and when it is ended (`FileOk`). `Shrunk` is
  the lemma about scrollback_shrink.

The inductive invariants of `Userlist`, `Commands`, `Texts` and `Dcc` were first checked by TLC on
the instances of the runs, which is where most of their parts come from. One was a finding about a
model: the history `mixed` of `Texts` had forgotten a case (a dialog that has just been shrunk takes
the name of one with a long file), which only a larger max_lines than that of the run would show.

Induction: the theorems of the library that take an operator cannot be used with the installed
provers, but the least-element principle over *sets* of numbers can (`NatMin`, `NatInduct`, from
the well-foundedness of `<`). So the models define what is computed step by step by recursive
functions of one argument, and what these compute is proved for every input.

The assumptions are those the modules state: a null value is not one of the set it is null for,
the three kinds of hook types are distinct, bounds are natural numbers, there are finitely many
addresses of transfers, tables are sequences, the commands of the model contain those they lead to,
and a preference comes before those whose names begin with its name. `Irc` takes it that channels,
nicks and the null values are told apart, as CHANTYPES= does, and that a scenario counts each kind of
event. `Modes` assumes besides that
MODES= is neither 1 nor 2, that bans, key and limit are the letters the code has for them, that a
line has room for any single target and its letter, and that what is typed after /mode is accepted
by the server as it stands. The first and the third exclude what Observations says of such servers and
lists.

Only model-checked: liveness (TLAPS has neither fairness nor ENABLED in reach here), and two
invariants of `Irc`. `Rejoined` would need, for every broken connection, how the channels of `kept`
wait in tabs and in the list for the login, and `NotifyFollows` a `Follows` of its own for 600, 601,
303, JOINs and QUITs.

## Findings

A run whose one property TLC refutes, with the text of the repository it contradicts in
`PROJECT.json`.

- `away`: "reconnect_away: whether to reconnect in is_away state". auto_reconnect takes it from
  is_away, which the first attempt has reset: after a failed attempt the user is back
  without having said so.

## Observations

What the code also does, met by the same modules under other constants, by a property no run
lists, or while reading. Those marked * contradict a comment or the evident intention.

Server connection and queue:
- * servlist_cycle overwrites recondelay_tag without removing the delay already there
  (servlist.cpp:685; auto_reconnect does, server.cpp:797). With "reconnect" in `UserActions`:
  /reconnect while connecting, the attempt fails, the network cycles: two delays, one tag;
  `DisconnectIsFinal` and `ReconnectOwned` fail, and servlist_cycle_cb, which does not test
  is_server(), runs for a freed server.
- `ConnectionIsOwn` fails with "fork" or "pipe" in `ConnectOutcomes`: the server stays
  `connecting` without a child, and nothing ends that attempt but the user.
- * server_disconnect flushes the queue in which a throttled QUIT waits (server.cpp:1071;
  server.cpp:291 "so the QUIT message is not lost").
- Turning throttling off while lines wait lets new lines overtake them.
- auto_reconnect (server.cpp:768) marks the channels of all servers; a second loss before the
  JOINs are answered loses those channels, and one before the end of the MOTD clears without
  marking (server.cpp:428).

Windows and plugins:
- current_tab is left null when the window typed into is closed while others are open
  (xchat.cpp:477).
- * A walk of the hook list within a walk frees the link at which the outer one goes on
  (plugin.cpp:512; plugin.cpp:758 "expunge later"): a hook runs a command (the nested walk), and
  the next hook in the list, called by that walk, unhooks itself. A plugin may unload itself from
  its own callback.
- * handle_multiline goes on in a window that the line before has closed (outbound.cpp:4289;
  outbound.cpp:4170 "incase a plugin did /close"): `ClosedUntouched` of `Commands` fails with
  `PastedScripts`. So do user commands, /allchan, exec_data at the end of output and a timer that
  deletes itself, as /close answers as if the window were there.

Nick lists, channels and modes:
- * In the default order a nick listed as nick and as @nick is inserted twice in one tree
  (userlist.cpp:370, 372 "duplicate? some broken servers trigger this"): `SameUsers` fails with
  that order in `DupSorts`. It fails also with `SortModes = {4}` and `DupSorts = {}` (a value the
  preference may hold, which is no order) and with `MaySwitch = TRUE` (the preference changes on a channel).
- 433 for the user's own /nick before the end of the MOTD takes the next nick of the preferences;
  own PART and KICK are compared with strcmp, JOIN and NICK with the server's p_cmp.
- cmd_away and cmd_back need a connection, so that setting reconnect_away there is without effect.
- ISON is as fresh as the last poll; WATCH lists are flushed with nicks of other networks.
- /kickban of a user whose address is not known yet bans the nick, and takes no operator's mode first
  (outbound.cpp:425).
- Servers that announce MODES=1 or 2 are sent 3; send_channel_modes drops the rest of a list from a
  target on that is too long; when a server hides the key in 324, -k removes another mode's
  argument.

Direct connections:
- * dcc_unthrottle treats a throttled chat as a file to send; its watch is never restored
  (dcc.cpp:125; dcc.cpp:120 "delegate to funcs"): `ChatHeard` fails.
- The rate of a chat goes into dcc_getcpssum (dcc.cpp:149-176) and, as dcc_remove_from_sum knows
  only transfers, stays there when the chat ends: downloads are throttled as if it still received,
  and with enough of them for good. `SumsExact` counts these rates in `left`; without that it fails.
- With `Mixed = TRUE` an ACCEPT or a late RESUME finds another offer of the same port, or one that
  has started (dcc.cpp:2420-2437): `StreamUnbroken` fails.
- A fast send that was sent to the end and throttled fails at the end of the file when the throttle is
  lifted; an attempt that failed keeps its socket until it is removed; offers of files to
  receive and throttled transfers never time out; the Wingate dialogue waits for input to write.

Commands, messages and files:
- The room for text is an unsigned difference of lengths the server chooses (outbound.cpp:4059); the
  rest of a split text goes again through nick completion.
- exec_check_process loses output not read yet.
- The private message that trips the flood protection is shown nowhere, an action that does in the
  server tab; after a first window of time without a flood none is detected any more
  (ignore.cpp:353); autodialog, off during a flood, is saved as off, and the timeout turns it on
  though the user turned it off.
- scrollfd and the line count stay with the old name when a tab changes its name: lines go to the old
  name's file, and a shrink may empty the new name's. A file of one line is emptied by a shrink.
- With max_lines 0 a scrollback file grows to 32000 lines and is emptied by the next; with more than
  64000 it is the limit that decides when it is shrunk.
- A line that a crash tears is joined by the next one, and shown as one with it.
- cfg_put_int saves -1 as 1. With gui_ulist_pos saved as 0 the next start has another tab_pos.
  ignore.conf changes its order at each start, and a crash while it is overwritten loses ignores.

## Not modelled, and what could follow

`PROJECT.json` lists every component with its status. Left out for good: formatting of text events
and logs, strings, wrappers of the resolver, sockets and TLS, the D-Bus plugin (a client of
the plugin interface), vendored coroutines and Windows-only threads: they keep no state that another
part relies on, or are not built.

What could be modelled next: the buffer of received bytes in server_read, with a server freed by what a
line does; the order of the servers of a network and its lists; the ring of the input history;
several servers in `Irc`; plugin callbacks on top of `Sessions`.

Theorems worth proving next: `NotifyFollows` and `Rejoined` of `Irc`, in the way of `Follows`.
