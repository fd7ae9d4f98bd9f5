------------------------------- MODULE Texts -------------------------------
(***************************************************************************)
(* What others say, from the parsed message to the window, the files it is *)
(* kept in and the preferences it may change (inbound.cpp, ctcp.cpp,       *)
(* ignore.cpp, text.cpp, cfgfiles.cpp): the ignore list and the protection *)
(* against floods, the dialogs that private messages open, the scrollback  *)
(* file of each window, and what is saved on exit and read on the next     *)
(* start. The program may crash between any two steps that touch a file.   *)
(* There is one server, with a server tab and a channel, which is in front.*)
(***************************************************************************)
EXTENDS Integers, Sequences, FiniteSets, SequencesExt

CONSTANTS
    Nicks, Members,  \* the people who talk; those of them in the channel
    Channel, Tab,    \* the channel's window and the server tab
    Matches,         \* the ignore masks, each with the nicks it matches
    HostMask,        \* *!*@host of each nick, as the flood protection makes it
    Vars,            \* the numeric preferences in the order of the table vars[]
    StartsWith,      \* the pairs of preferences whose names begin alike
    MaxWritten,      \* the lines after which a scrollback file is shrunk in any case, 32000
    NumberLimit, TimeLimit, Back, \* the flood limits; the time after which dialogs open again
    Starts,                       \* bounds: max_lines, the preferences and the lines per file at first
    Settable, Maskings,           \* bounds: what the user sets and ignores
    MaxMessages, MaxActs, MaxTime, MaxStops \* bounds

None == "none"

ASSUME TextsAssumption ==
    /\ MaxWritten \in Nat /\ NumberLimit \in Nat /\ TimeLimit \in Nat /\ Back \in Nat
    /\ Members \subseteq Nicks
    /\ Channel \notin Nicks /\ Tab \notin Nicks \cup {Channel}
    /\ None \notin Nicks \cup {Channel}
\* A name comes before those that begin with it.
ASSUME VarsAssumption ==
    /\ Vars \in Seq(STRING)
    /\ {"gui_auto_open_dialog", "gui_ulist_left", "gui_ulist_pos", "tab_pos", "tab_position"} \subseteq ToSet(Vars)
    /\ \A i, j \in 1..Len(Vars) : <<Vars[i], Vars[j]>> \in StartsWith => i < j

Named == Nicks \cup {Channel}
\* The lines a window may add to a file before it shrinks the file, and the most a file has.
Gap(max) == IF max > 0 /\ max \div 2 < MaxWritten THEN max \div 2 ELSE MaxWritten
Most(max) == Gap(max) + IF max > 0 THEN max ELSE 0
ASSUME StartsAssumption == \A s \in Starts :
    /\ s.max_lines \in Int /\ DOMAIN s.prefs = ToSet(Vars)
    /\ s.lines \in [Named -> Nat] /\ \A f \in Named : s.lines[f] <= Most(s.max_lines)

VARIABLES
    phase,    \* "up", where the exit has got to, or "down"
    prefs,    \* the preferences
    flood,    \* ctcp_last_time, ctcp_counter, msg_last_time, msg_counter
    pending,  \* when the timeouts that turn autodialog on again are due
    ignores,  \* ignore_list
    windows,  \* the open windows: the file a window's scrollfd is open on, scrollwritten
    printing, \* what the function at work still has to print: the windows, and whether it is the message
    saving,   \* what scrollback_save has written of a line: None, its time, or its text as well
    shrinking, \* the file scrollback_shrink has truncated, with what it will write, or NoShrink
    max_lines, \* prefs.max_lines, which stays
    conf, newconf, ignoreconf, scroll, \* files: pchat.conf, its .new, ignore.conf, the scrollback files
    now,
    last,     \* history: the last message since the start, whether its sender had a dialog, and where it was shown
    saved,    \* history: the preferences of the last save_config that ended well
    kept,     \* history: the ignores of the last exit, and whether it was cut short
    written,  \* history: per scrollback file the lines ever begun, which are numbered
    torn,     \* history: those of them that are not ended, or that a crash cut short
    mixed,    \* history: files of two windows' lines or with another file's count, or lost in a crash
    left      \* bounds

memory == <<prefs, flood, pending, ignores, windows>>
files == <<conf, newconf, ignoreconf>>
storing == <<saving, shrinking, max_lines, scroll, written, torn>>
vars == <<phase, memory, printing, storing, files, now, last, saved, kept, mixed, left>>

NoShrink == [file |-> None, rest |-> <<>>]
Quiet == phase = "up" /\ printing = <<>> /\ shrinking = NoShrink \* so that nothing is being saved
NoMessage == [kind |-> None, nick |-> None, silent |-> TRUE, flooding |-> FALSE, dialog |-> FALSE, where |-> <<>>]
NoFlood == [ctcp_last |-> 0, ctcp_counter |-> 0, msg_last |-> 0, msg_counter |-> 0]
With(f, x, v) == [y \in DOMAIN f \cup {x} |-> IF y = x THEN v ELSE f[y]]
Without(f, x) == [y \in DOMAIN f \ {x} |-> f[y]]
Least(S) == CHOOSE x \in S : \A y \in S : x <= y
\* What is left of a list when only what is in S is kept.
Only(list, S) ==
    LET upto[i \in 0..Len(list)] ==
            IF i = 0 THEN <<>>
            ELSE IF list[i] \in S THEN Append(upto[i-1], list[i]) ELSE upto[i-1]
    IN upto[Len(list)]

-----------------------------------------------------------------------------
(* The scrollback of a window.                                             *)

\* session_new and scrollback_load
Opened(name) == [fd |-> None, written |-> Len(scroll[name])]

\* Drops all but max_lines, and at least one line.
scrollback_shrink_Keep(lines) ==
    LET n == Len(lines)
        line == IF n - max_lines - 1 > 1 THEN n - max_lines - 1 ELSE 1
    IN IF line >= n THEN <<>> ELSE SubSeq(lines, line + 1, n)
scrollback_shrink(lines) ==
    LET n == Len(lines)
        line == IF n - max_lines > 1 THEN n - max_lines ELSE 1
    IN IF line >= n THEN <<>> ELSE SubSeq(lines, line + 1, n)

\* A line is three writes: the time, which opens the file, the text, and the end
\* of the line if the text has none. What a crash leaves of a line is read as the
\* front of the next one, which keeps its number.
scrollback_save(name) ==
    LET w == windows[name]
        file == IF w.fd = None THEN name ELSE w.fd
    IN /\ saving' = "time"
       /\ written' = [written EXCEPT ![file] = @ + 1]
       /\ torn' = [torn EXCEPT ![file] = @ \cup {written[file] + 1}]
       /\ windows' = [windows EXCEPT ![name].fd = file]
       /\ mixed' = IF file = name THEN mixed ELSE mixed \cup {file}
       /\ UNCHANGED <<shrinking, scroll>>

\* The line is ended, and every so often the file of the window's present name,
\* if there is one, is shrunk.
LineSaved(name) ==
    LET file == windows[name].fd
        count == windows[name].written + 1
        text == [scroll EXCEPT ![file] = Append(@, written[file])]
        full == (max_lines > 0 /\ count * 2 > max_lines) \/ count > MaxWritten
    IN /\ saving' = None
       /\ torn' = [torn EXCEPT ![file] = @ \ {written[file]}]
       /\ windows' = [windows EXCEPT ![name] = IF full THEN [fd |-> None, written |-> 0]
                                               ELSE [fd |-> file, written |-> count]]
       /\ IF full /\ written[name] # 0
          THEN /\ scroll' = [text EXCEPT ![name] = <<>>]
               /\ shrinking' = [file |-> name, rest |-> scrollback_shrink(text[name])]
          ELSE /\ scroll' = text
               /\ UNCHANGED shrinking
       /\ UNCHANGED <<written, mixed>>

\* PrintText saves the line and shows it.
Shown ==
    /\ printing' = Tail(printing)
    /\ last' = IF Head(printing).message THEN [last EXCEPT !.where = Append(@, Head(printing).window)] ELSE last
PrintText ==
    /\ phase = "up" /\ printing # <<>> /\ shrinking = NoShrink
    /\ LET name == Head(printing).window IN
       \/ /\ saving = None /\ name = Tab
          /\ Shown
          /\ UNCHANGED <<windows, mixed, saving, shrinking, scroll, written, torn>>
       \/ /\ saving = None /\ name # Tab
          /\ scrollback_save(name)
          /\ UNCHANGED <<printing, last>>
       \/ /\ saving = "time"
          /\ saving' = "text"
          /\ UNCHANGED <<printing, last, windows, mixed, shrinking, scroll, written, torn>>
       \/ /\ saving # None \* in the second write, if the text ends in a newline
          /\ LineSaved(name)
          /\ Shown
    /\ UNCHANGED <<phase, prefs, flood, pending, ignores, max_lines, files, now, saved, kept, left>>

Rewrite ==
    /\ shrinking # NoShrink
    /\ scroll' = [scroll EXCEPT ![shrinking.file] = shrinking.rest]
    /\ shrinking' = NoShrink
    /\ UNCHANGED <<phase, memory, printing, saving, max_lines, written, torn, files, now, last, saved, kept, mixed, left>>

-----------------------------------------------------------------------------
(* The ignore list and the protection against floods.                      *)

ignore_check(list, nick, type) ==
    LET fitting == {i \in DOMAIN list : type \in list[i].types /\ nick \in Matches[list[i].mask]}
    IN fitting # {} /\ \A i \in fitting : "UNIG" \notin list[i].types

ignore_add(list, mask, types) ==
    IF \E i \in DOMAIN list : list[i].mask = mask
    THEN [i \in DOMAIN list |-> IF list[i].mask = mask THEN [mask |-> mask, types |-> types] ELSE list[i]]
    ELSE <<[mask |-> mask, types |-> types]>> \o list

ignore_del(list, mask) == Only(list, {ig \in ToSet(list) : ig.mask # mask})

\* Within the time since the first, or since the last flood.
Within(time) == now - time < TimeLimit
ctcp_flood ==
    LET f == flood.ctcp_counter + 1 IN
    CASE flood.ctcp_last = 0 -> [f |-> [flood EXCEPT !.ctcp_last = now, !.ctcp_counter = f], trips |-> FALSE]
      [] flood.ctcp_last # 0 /\ Within(flood.ctcp_last) /\ f = NumberLimit ->
           [f |-> [flood EXCEPT !.ctcp_last = now, !.ctcp_counter = 0], trips |-> TRUE]
      [] flood.ctcp_last # 0 /\ Within(flood.ctcp_last) /\ f # NumberLimit ->
           [f |-> [flood EXCEPT !.ctcp_counter = f], trips |-> FALSE]
      [] OTHER -> [f |-> flood, trips |-> FALSE]
\* The first private message is counted with the CTCPs.
msg_flood ==
    LET f == flood.msg_counter + 1 IN
    CASE flood.msg_last = 0 -> [f |-> [flood EXCEPT !.msg_last = now, !.ctcp_counter = @ + 1], trips |-> FALSE]
      [] flood.msg_last # 0 /\ Within(flood.msg_last) /\ f = NumberLimit ->
           [f |-> [flood EXCEPT !.msg_last = now, !.msg_counter = 0], trips |-> TRUE]
      [] flood.msg_last # 0 /\ Within(flood.msg_last) /\ f # NumberLimit ->
           [f |-> [flood EXCEPT !.msg_counter = f], trips |-> FALSE]
      [] OTHER -> [f |-> flood, trips |-> FALSE]

flood_autodialog_timeout ==
    /\ Quiet /\ pending # {} /\ Least(pending) <= now
    /\ pending' = pending \ {Least(pending)}
    /\ prefs' = [prefs EXCEPT !["gui_auto_open_dialog"] = 1]
    /\ UNCHANGED <<phase, flood, ignores, windows, printing, storing, files, now, last, saved, kept, mixed, left>>

-----------------------------------------------------------------------------
(* Messages.                                                               *)

\* find_session_from_nick, and the tab in front when there is none
WindowOf_Front(nick) == Channel
WindowOf(nick) == IF nick \in DOMAIN windows THEN nick ELSE Channel

Text(window) == <<[window |-> window, message |-> TRUE]>>
Warning == <<[window |-> Channel, message |-> FALSE]>>
Heard(kind, nick, silent, flooding) ==
    last' = [kind |-> kind, nick |-> nick, silent |-> silent, flooding |-> flooding,
             dialog |-> nick \in DOMAIN windows, where |-> <<>>]

\* A private message or action: to its dialog, which it opens unless it is one of
\* a flood. The message that trips the protection is shown nowhere, an action
\* that does is shown in the server tab.
Private(kind, nick) ==
    LET flooding == nick \notin DOMAIN windows /\ prefs["gui_auto_open_dialog"] # 0
        check == msg_flood
    IN \/ /\ ~flooding
          /\ printing' = Text(WindowOf(nick))
          /\ Heard(kind, nick, FALSE, FALSE)
          /\ UNCHANGED <<flood, windows, prefs, pending>>
       \/ /\ flooding /\ ~check.trips
          /\ flood' = check.f
          /\ windows' = With(windows, nick, Opened(nick))
          /\ printing' = Text(nick)
          /\ Heard(kind, nick, FALSE, FALSE)
          /\ UNCHANGED <<prefs, pending>>
       \/ /\ flooding /\ check.trips
          /\ flood' = check.f
          /\ printing' = Warning \o (IF kind = "action" THEN Text(Tab) ELSE <<>>)
          /\ Heard(kind, nick, FALSE, TRUE)
          /\ prefs' = [prefs EXCEPT !["gui_auto_open_dialog"] = 0]
          /\ pending' = pending \cup {now + Back}
          /\ UNCHANGED windows

Ignored(kind, nick) ==
    /\ Heard(kind, nick, TRUE, FALSE)
    /\ UNCHANGED <<memory, printing>>

\* process_named_msg
inbound_privmsg == \E nick \in Nicks, kind \in {"priv", "action"} :
    IF ignore_check(ignores, nick, "PRIV") THEN Ignored(kind, nick)
    ELSE Private(kind, nick) /\ UNCHANGED ignores

inbound_chanmsg == \E nick \in Members :
    IF ignore_check(ignores, nick, "CHAN") THEN Ignored("chan", nick)
    ELSE /\ printing' = Text(Channel)
         /\ Heard("chan", nick, FALSE, FALSE)
         /\ UNCHANGED memory

inbound_notice == \E nick \in Nicks :
    IF ignore_check(ignores, nick, "NOTI") THEN Ignored("notice", nick)
    ELSE /\ printing' = Text(WindowOf(nick))
         /\ Heard("notice", nick, FALSE, FALSE)
         /\ UNCHANGED memory

\* Every request counts, ignored ones too; one that trips the protection adds to
\* the ignore list before it is looked up there.
ctcp_handle == \E nick \in Nicks :
    LET check == ctcp_flood
        list == IF check.trips THEN ignore_add(ignores, HostMask[nick], {"CTCP"}) ELSE ignores
        silent == ignore_check(list, nick, "CTCP")
    IN /\ flood' = check.f
       /\ ignores' = list
       /\ printing' = (IF check.trips THEN Warning ELSE <<>>) \o (IF silent THEN <<>> ELSE Text(Channel))
       /\ Heard("ctcp", nick, silent, check.trips)
       /\ UNCHANGED <<prefs, pending, windows>>

Receive ==
    /\ Quiet /\ left.messages > 0
    /\ left' = [left EXCEPT !.messages = @ - 1]
    /\ inbound_privmsg \/ inbound_chanmsg \/ inbound_notice \/ ctcp_handle
    /\ UNCHANGED <<phase, storing, files, now, saved, kept, mixed>>

-----------------------------------------------------------------------------
(* The user.                                                               *)

Acting == Quiet /\ left.acts > 0 /\ left' = [left EXCEPT !.acts = @ - 1]

cmd_query == \E nick \in Nicks \ DOMAIN windows :
    windows' = With(windows, nick, Opened(nick)) /\ UNCHANGED <<prefs, ignores, mixed>>
CloseDialog == \E nick \in DOMAIN windows \ {Channel, Tab} :
    windows' = Without(windows, nick) /\ UNCHANGED <<prefs, ignores, mixed>>
\* The partner of a dialog changes nick: the dialog is renamed, its file stays
\* open, and its count of lines is that of the old name's file.
inbound_newnick == \E nick \in DOMAIN windows \ {Channel, Tab} : \E new \in Nicks \ DOMAIN windows :
    /\ windows' = Without(With(windows, new, windows[nick]), nick)
    /\ mixed' = IF windows[nick] # Opened(new) THEN mixed \cup {new} ELSE mixed
    /\ UNCHANGED <<prefs, ignores>>
cmd_set == \E s \in Settable :
    prefs' = [prefs EXCEPT ![s.var] = s.value] /\ UNCHANGED <<windows, ignores, mixed>>
cmd_ignore == \E m \in Maskings :
    ignores' = ignore_add(ignores, m.mask, m.types) /\ UNCHANGED <<windows, prefs, mixed>>
cmd_unignore == \E i \in DOMAIN ignores :
    ignores' = ignore_del(ignores, ignores[i].mask) /\ UNCHANGED <<windows, prefs, mixed>>

User ==
    /\ Acting
    /\ cmd_query \/ CloseDialog \/ inbound_newnick \/ cmd_set \/ cmd_ignore \/ cmd_unignore
    /\ UNCHANGED <<phase, flood, pending, printing, storing, files, now, last, saved, kept>>

Tick ==
    /\ Quiet /\ now < MaxTime
    /\ now' = now + 1
    /\ UNCHANGED <<phase, memory, printing, storing, files, last, saved, kept, mixed, left>>

-----------------------------------------------------------------------------
(* Saving and starting.                                                    *)

cfg_put_int(v) == IF v = -1 THEN 1 ELSE v
Image(p) == [i \in DOMAIN Vars |-> <<Vars[i], cfg_put_int(p[Vars[i]])>>]

\* The first line that begins with the variable's name; of another variable's line
\* the rest of the name is read as the value, and makes 0.
Default(var) ==
    CASE var = "gui_auto_open_dialog" -> 1 [] var = "tab_position" -> 2
      [] var = "gui_win_height" -> 400 [] var = "gui_win_width" -> 640 [] OTHER -> 0
cfg_get_int(file, var) ==
    LET begins == {i \in DOMAIN file : file[i][1] = var \/ <<var, file[i][1]>> \in StartsWith}
    IN IF begins = {} THEN Default(var) ELSE IF file[Least(begins)][1] = var THEN file[Least(begins)][2] ELSE 0
\* Windows have a smallest size.
Smallest == [v \in {"gui_win_height", "gui_win_width"} |-> IF v = "gui_win_height" THEN 138 ELSE 106]
Sized(v, size) == IF v \in DOMAIN Smallest /\ size < Smallest[v] THEN Smallest[v] ELSE size
\* The places of the user list and of the tabs that old settings mean.
ListPlace(p) == IF p["gui_ulist_left"] # 0 THEN 2 ELSE IF p["tab_position"] = 5 THEN 4 ELSE 3
TabPlace(p) ==
    CASE p["tab_position"] \in 0..4 -> <<6, 5, 1, 4, 1>>[p["tab_position"] + 1]
      [] p["tab_position"] = 5 -> IF p["gui_ulist_left"] # 0 THEN 1 ELSE 3
      [] OTHER -> p["tab_pos"]
load_config(file) ==
    LET read == [v \in ToSet(Vars) |-> cfg_get_int(file, v)] IN
    [v \in ToSet(Vars) |->
        IF v = "gui_ulist_pos" /\ read["gui_ulist_pos"] = 0 THEN ListPlace(read)
        ELSE IF v = "tab_pos" /\ read["gui_ulist_pos"] = 0 THEN TabPlace(read)
        ELSE Sized(v, read[v])]

\* xchat_exit: save_config, if auto_save is on, then ignore_save
xchat_exit ==
    /\ Quiet /\ left.stops > 0
    /\ \/ phase' = "config" /\ newconf' = <<>>
       \/ phase' = "ignores" /\ UNCHANGED newconf \* the new file cannot be made, or auto_save is off
    /\ left' = [left EXCEPT !.stops = @ - 1]
    /\ UNCHANGED <<memory, printing, storing, conf, ignoreconf, now, last, saved, kept, mixed>>

\* A line of the new file, or the rename at its end; a write that fails ends save_config.
save_config_InPlace ==
    /\ phase = "config"
    /\ \/ /\ Len(newconf) < Len(Vars)
          /\ newconf' = Append(newconf, Image(prefs)[Len(newconf) + 1])
          /\ conf' = newconf'
          /\ UNCHANGED <<phase, saved>>
       \/ /\ Len(newconf) = Len(Vars)
          /\ phase' = "ignores" /\ saved' = prefs
          /\ UNCHANGED <<conf, newconf>>
       \/ /\ phase' = "ignores" /\ newconf' = <<>>
          /\ UNCHANGED <<conf, saved>>
    /\ UNCHANGED <<memory, printing, storing, ignoreconf, now, last, kept, mixed, left>>
save_config ==
    /\ phase = "config"
    /\ \/ /\ Len(newconf) < Len(Vars)
          /\ newconf' = Append(newconf, Image(prefs)[Len(newconf) + 1])
          /\ UNCHANGED <<phase, conf, saved>>
       \/ /\ Len(newconf) = Len(Vars)
          /\ conf' = newconf /\ newconf' = <<>>
          /\ phase' = "ignores" /\ saved' = prefs
       \/ /\ phase' = "ignores" /\ newconf' = <<>>
          /\ UNCHANGED <<conf, saved>>
    /\ UNCHANGED <<memory, printing, storing, ignoreconf, now, last, kept, mixed, left>>

\* ignore.conf is truncated and written anew, but for the ignores not to be saved.
Lasting_All == ignores
ToLast == {ig \in ToSet(ignores) : "NOSAVE" \notin ig.types}
Lasting == Only(ignores, ToLast)
ignore_save ==
    /\ \/ /\ phase = "ignores"
          /\ phase' = "writing" /\ ignoreconf' = <<>> /\ kept' = [kept EXCEPT !.whole = FALSE]
          /\ UNCHANGED windows
       \/ /\ phase = "writing" /\ Len(ignoreconf) < Len(Lasting)
          /\ ignoreconf' = Append(ignoreconf, Lasting[Len(ignoreconf) + 1])
          /\ UNCHANGED <<phase, kept, windows>>
       \/ /\ phase = "writing" /\ Len(ignoreconf) = Len(Lasting)
          /\ phase' = "down" /\ kept' = [whole |-> TRUE, ignores |-> ToLast]
          /\ windows' = <<>> \* free_sessions
          /\ UNCHANGED ignoreconf
    /\ UNCHANGED <<prefs, flood, pending, ignores, printing, storing, conf, newconf, now, last, saved, mixed, left>>

Crash ==
    /\ phase # "down" /\ left.stops > 0
    /\ left' = [left EXCEPT !.stops = @ - 1]
    /\ phase' = "down"
    /\ printing' = <<>> /\ shrinking' = NoShrink /\ saving' = None
    /\ last' = NoMessage /\ newconf' = <<>> \* what there is of the new file is not read
    /\ mixed' = IF shrinking = NoShrink THEN mixed ELSE mixed \cup {shrinking.file}
    /\ UNCHANGED <<memory, conf, ignoreconf, max_lines, scroll, written, torn, now, saved, kept>>

ignore_load == Reverse(ignoreconf)
\* The channel is joined anew, in a new window.
Start ==
    /\ phase = "down"
    /\ phase' = "up"
    /\ prefs' = load_config(conf)
    /\ ignores' = ignore_load
    /\ flood' = NoFlood /\ pending' = {}
    /\ windows' = [w \in {Channel, Tab} |-> IF w = Tab THEN [fd |-> None, written |-> 0] ELSE Opened(w)]
    /\ last' = NoMessage
    /\ UNCHANGED <<printing, storing, files, now, saved, kept, mixed, left>>

\* A pchat.conf of the defaults is read like none.
Init == \E s \in Starts :
    /\ phase = "down"
    /\ saved = s.prefs
    /\ conf = Image(saved) /\ newconf = <<>>
    /\ ignoreconf = <<>> /\ kept = [whole |-> TRUE, ignores |-> {}]
    /\ prefs = saved /\ flood = NoFlood /\ pending = {} /\ ignores = <<>> /\ windows = <<>>
    /\ printing = <<>> /\ saving = None /\ shrinking = NoShrink
    /\ max_lines = s.max_lines
    /\ scroll = [f \in Named |-> [i \in 1..s.lines[f] |-> i]]
    /\ written = s.lines /\ torn = [f \in Named |-> {}] /\ mixed = {}
    /\ now = 1
    /\ last = NoMessage
    /\ left = [messages |-> MaxMessages, acts |-> MaxActs, stops |-> MaxStops]

Next ==
    \/ Receive \/ PrintText \/ Rewrite \/ flood_autodialog_timeout \/ User \/ Tick
    \/ xchat_exit \/ save_config \/ ignore_save \/ Crash \/ Start
Spec == Init /\ [][Next]_vars

-----------------------------------------------------------------------------
\* What is said by somebody who is not ignored is shown, once, and private
\* things in the dialog with the sender if there was one. Only the private
\* message that trips the protection against floods is not shown
\* (inbound_privmsg, inbound_action, inbound_notice, flood_check).
ShownOnce == printing = <<>> /\ phase = "up" =>
    /\ last.silent => last.where = <<>>
    /\ ~last.silent /\ ~(last.flooding /\ last.kind = "priv") => Len(last.where) = 1
    /\ ~last.silent /\ last.dialog /\ last.kind \in {"priv", "action", "notice"} => last.where = <<last.nick>>

\* What the variables hold.
TypeOK ==
    /\ phase \in {"up", "config", "ignores", "writing", "down"}
    /\ DOMAIN prefs = ToSet(Vars)
    /\ phase = "up" => {Channel, Tab} \subseteq DOMAIN windows
    /\ \A i \in DOMAIN printing : printing[i].window \in DOMAIN windows

\* What is read on the next start is what the last save that went well has
\* written, every preference of it, wherever a save was cut short; but a window
\* is not smaller than the smallest, and where the place of the user list was
\* saved as 0 it gets a place, and with it the tabs may get another
\* (save_config, cfg_put_int, load_config, cfg_get_str).
ConfigWhole ==
    LET next == load_config(conf)
        old == cfg_put_int(saved["gui_ulist_pos"]) = 0
    IN /\ DOMAIN next = DOMAIN saved
       /\ \A v \in DOMAIN saved :
            \/ next[v] = cfg_put_int(saved[v])
            \/ v \in DOMAIN Smallest /\ cfg_put_int(saved[v]) < Smallest[v] /\ next[v] = Smallest[v]
            \/ v \in {"gui_ulist_pos", "tab_pos"} /\ old
       /\ \A v \in DOMAIN saved \cap DOMAIN Smallest : ~(next[v] < Smallest[v])
       /\ old => next["gui_ulist_pos"] \in 2..4
       /\ old /\ next["tab_pos"] # cfg_put_int(saved["tab_pos"]) => cfg_put_int(saved["tab_position"]) \in 0..5

\* Ignores live through a restart, each with its types, unless the program
\* ended while they were written (ignore_save, ignore_load).
IgnoresKept == kept.whole /\ phase = "down" => ToSet(ignore_load) = kept.ignores

\* A scrollback file holds the last lines of its window in their order, without
\* the one that is being written and those that a crash cut short: at least half
\* of max_lines if there were as many (or the limit of MaxWritten, if that is
\* less), and never more than that besides max_lines, whether max_lines is a
\* number of lines or 0. It is so unless a window with another file's count of
\* lines got the file's name, a window wrote to it after a change of name, or the
\* program ended while it was shrunk (scrollback_save, scrollback_shrink,
\* scrollback_load).
ReplayRecent == \A f \in Named \ mixed : shrinking.file # f =>
    LET lines == scroll[f]
        n == Len(lines)
        whole == (1..written[f]) \ torn[f]
    IN /\ \A i \in 1..n : lines[i] \in whole
       /\ \A i, j \in 1..n : i < j => lines[i] < lines[j]
       /\ \A k \in whole, i \in 1..n : lines[i] < k => \E j \in 1..n : lines[j] = k
       /\ n <= Most(max_lines)
       /\ (\A k \in whole : \E j \in 1..n : lines[j] = k) \/ (max_lines > 0 => n >= Gap(max_lines))
=============================================================================
