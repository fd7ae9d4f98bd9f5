-------------------------------- MODULE Hooks --------------------------------
(***************************************************************************)
(* Plugins and their hooks: hook_list, plugin_hook_run, xchat_hook_* and   *)
(* xchat_unhook, plugin_add and plugin_free (src/src/common/plugin.cpp).   *)
(*                                                                         *)
(* A plugin's callback may hook, unhook, load and unload plugins, and run  *)
(* commands and print events, that is walk the list again while it is      *)
(* being walked.  The C stack is `stack', its top the head: walkers of the *)
(* list and the plugin code they, the main loop and plugin_add call.  A    *)
(* walker that would follow a freed link, or a return into an unloaded     *)
(* plugin, is undefined: there the model stops.                            *)
(*                                                                         *)
(* Timers and watched descriptors are treated alike by the code, and are   *)
(* the type "source" here.  All hooks of a type have the same name.        *)
(***************************************************************************)
EXTENDS Integers, Sequences, FiniteSets, SequencesExt

CONSTANTS
    Hooks,        \* addresses of hook structures; malloc() repeats none
    NoHook,       \* NULL
    Plugins,
    NoPlugin,
    Events,       \* the types that are walked: "command", "server", "print"
    Pris,         \* priorities
    MaxDepth      \* bound on the depth of the stack

ASSUME HooksAssumption == NoHook \notin Hooks /\ NoPlugin \notin Plugins
ASSUME EventAssumption == Events \cap {"source", "deleted"} = {}
ASSUME BoundAssumption == Pris \subseteq Int /\ 0 \in Pris /\ MaxDepth \in Nat

VARIABLES
    hook_list,    \* the hooks of all plugins
    hook,         \* the structures
    freed,        \* the addresses that were given back
    sources,      \* external: the hooks the main loop has a source for
    plugin_list,  \* the plugins that are loaded
    stack

hook_vars == <<hook_list, hook, freed, sources, plugin_list, stack>>

Types == Events \cup {"source", "deleted"}

HookData == [type: Types, pri: Pris, pl: Plugins \cup {NoPlugin}]

\* What is on the stack: plugin_hook_run between two callbacks ("walk"), in a
\* callback ("call") and at its end ("expunge"); plugin_timeout_cb or
\* plugin_fd_cb in a callback ("source"); plugin_add in the plugin's init and
\* plugin_free in its deinit routine.  `due' and `called' are history: the
\* hooks a walk must not miss, and those it called.
Frame ==
    [what: {"walk", "call", "expunge", "source", "init", "deinit"},
     type: Types, hook: Hooks \cup {NoHook}, next: Hooks \cup {NoHook},
     pl: Plugins \cup {NoPlugin}, due: SUBSET Hooks, called: Seq(Hooks)]

Listed == ToSet(hook_list)

Live == {h \in Listed : hook[h].type # "deleted"}

Top == Head(stack)

Push(f) == stack' = <<f>> \o stack

Pop == stack' = Tail(stack)

Become(f) == stack' = <<f>> \o Tail(stack)

RunsPlugin(f) == f.what \in {"call", "source", "init", "deinit"}

\* Plugin code is running, and still there.
InPlugin ==
    stack # <<>> /\ RunsPlugin(Top) /\ Top.pl \in plugin_list

\* The main loop, or a plugin, may do anything.
MayEnter ==
    /\ stack = <<>> \/ InPlugin
    /\ Len(stack) < MaxDepth

HookPosition(h) == CHOOSE i \in DOMAIN hook_list : hook_list[i] = h

\* list->next
NextHook(h) ==
    IF HookPosition(h) = Len(hook_list) THEN NoHook ELSE hook_list[HookPosition(h) + 1]

-----------------------------------------------------------------------------
(* Walking the list.                                                       *)

\* The first hook from h on of the type; NoHook if there is none.
plugin_hook_find(h, type) ==
    LET found == {i \in DOMAIN hook_list :
                     i >= HookPosition(h) /\ hook[hook_list[i]].type = type}
    IN IF h = NoHook \/ found = {} THEN NoHook
       ELSE hook_list[CHOOSE i \in found : \A j \in found : i <= j]

\* A command, a line from a server or a text event, from the main loop or
\* from within a plugin.
plugin_hook_run ==
    /\ MayEnter
    /\ \E type \in Events :
          Push([what |-> "walk", type |-> type, hook |-> NoHook,
                next |-> IF hook_list = <<>> THEN NoHook ELSE Head(hook_list),
                pl |-> NoPlugin,
                due |-> {h \in Live : hook[h].type = type}, called |-> <<>>])
    /\ UNCHANGED <<hook_list, hook, freed, sources, plugin_list>>

\* The next callback is called; its successor is looked up before.
CallNext ==
    /\ stack # <<>> /\ Top.what = "walk"
    /\ Top.next \in Listed \cup {NoHook}    \* else undefined
    /\ LET h == plugin_hook_find(Top.next, Top.type)
       IN Become(IF h = NoHook
                 THEN [Top EXCEPT !.what = "expunge"]
                 ELSE [Top EXCEPT !.what = "call", !.hook = h,
                          !.next = NextHook(h), !.pl = hook[h].pl,
                          !.called = Append(Top.called, h)])
    /\ UNCHANGED <<hook_list, hook, freed, sources, plugin_list>>

\* Mutant: XCHAT_EAT_XCHAT ends the walk.
CallReturns_EatsAll ==
    /\ InPlugin /\ Top.what = "call"
    /\ \E eat \in {"none", "xchat", "plugin"} :
          Become(IF eat # "none"
                 THEN [Top EXCEPT !.what = "expunge",
                          !.due = IF eat = "plugin" THEN {} ELSE Top.due]
                 ELSE [Top EXCEPT !.what = "walk"])
    /\ UNCHANGED <<hook_list, hook, freed, sources, plugin_list>>

\* A callback returns.  Only XCHAT_EAT_PLUGIN hides the event from the rest,
\* of which then none is due.
CallReturns ==
    /\ InPlugin /\ Top.what = "call"
    /\ \E eat \in {"none", "xchat", "plugin"} :
          Become(IF eat = "plugin"
                 THEN [Top EXCEPT !.what = "expunge", !.due = {}]
                 ELSE [Top EXCEPT !.what = "walk"])
    /\ UNCHANGED <<hook_list, hook, freed, sources, plugin_list>>

\* "really remove deleted hooks now", one after the other, then return.
Expunge ==
    /\ stack # <<>> /\ Top.what = "expunge"
    /\ IF Live = Listed
       THEN Pop /\ UNCHANGED <<hook_list, freed>>
       ELSE \E h \in Listed \ Live :
               /\ \A g \in Listed \ Live : HookPosition(h) <= HookPosition(g)
               /\ hook_list' = RemoveAt(hook_list, HookPosition(h))
               /\ freed' = freed \cup {h}
               /\ UNCHANGED stack
    /\ UNCHANGED <<hook, sources, plugin_list>>

-----------------------------------------------------------------------------
(* What plugins call.                                                      *)

\* Before the first hook of its type whose priority is not higher, else last.
plugin_insert_hook(h, data) ==
    LET lower == {i \in DOMAIN hook_list :
                     /\ hook[hook_list[i]].type = data.type
                     /\ hook[hook_list[i]].pri <= data.pri}
        at == IF lower = {} THEN Len(hook_list) + 1
              ELSE CHOOSE i \in lower : \A j \in lower : i <= j
    IN hook_list' = InsertAt(hook_list, at, h)

\* xchat_hook_command, _server, _print, _timer and _fd.
plugin_add_hook ==
    /\ InPlugin
    /\ \E h \in Hooks \ (Listed \cup freed), type \in Events \cup {"source"}, pri \in Pris :
          LET data == [type |-> type, pri |-> pri, pl |-> Top.pl]
          IN /\ type = "source" => pri = 0
             /\ plugin_insert_hook(h, data)
             /\ hook' = [hook EXCEPT ![h] = data]
             /\ sources' = IF type = "source" THEN sources \cup {h} ELSE sources
    /\ UNCHANGED <<freed, plugin_list, stack>>

\* A plugin unhooks one of its hooks, perhaps the one that is called: it is
\* marked, its source removed.  A hook that is marked or gone is ignored.
xchat_unhook ==
    /\ InPlugin
    /\ \E h \in Live :
          /\ hook[h].pl = Top.pl
          /\ hook' = [hook EXCEPT ![h].type = "deleted"]
          /\ sources' = sources \ {h}
    /\ UNCHANGED <<hook_list, freed, plugin_list, stack>>

-----------------------------------------------------------------------------
(* Timers and descriptors.                                                 *)

\* The main loop dispatches a source.
SourceFires ==
    /\ stack = <<>> /\ MaxDepth > 0
    /\ \E h \in sources :
          Push([what |-> "source", type |-> "source", hook |-> h, next |-> NoHook,
                pl |-> hook[h].pl, due |-> {}, called |-> <<>>])
    /\ UNCHANGED <<hook_list, hook, freed, sources, plugin_list>>

\* plugin_timeout_cb, plugin_fd_cb: "the callback might have already unhooked
\* it", else a hook whose callback answers 0 is unhooked, its source ends.
SourceReturns ==
    /\ InPlugin /\ Top.what = "source"
    /\ \E again \in BOOLEAN :
          IF Top.hook \in Live /\ ~again
          THEN /\ hook' = [hook EXCEPT ![Top.hook].type = "deleted"]
               /\ sources' = sources \ {Top.hook}
          ELSE UNCHANGED <<hook, sources>>
    /\ Pop
    /\ UNCHANGED <<hook_list, freed, plugin_list>>

-----------------------------------------------------------------------------
(* Loading and unloading.                                                  *)

\* plugin_load, plugin_add: the plugin's init routine runs.  A plugin that
\* still has frames on the stack is not taken for the one loaded anew.
plugin_add ==
    /\ MayEnter
    /\ \E p \in Plugins \ plugin_list :
          /\ \A i \in DOMAIN stack : stack[i].pl # p
          /\ plugin_list' = plugin_list \cup {p}
          /\ Push([what |-> "init", type |-> "deleted", hook |-> NoHook,
                   next |-> NoHook, pl |-> p, due |-> {}, called |-> <<>>])
    /\ UNCHANGED <<hook_list, hook, freed, sources>>

\* Mutant: its timers and descriptors are forgotten.
plugin_free_EventsOnly(p) ==
    LET mine == {h \in Live : hook[h].pl = p /\ hook[h].type \in Events}
    IN /\ hook' = [h \in Hooks |-> IF h \in mine THEN [hook[h] EXCEPT !.type = "deleted"]
                                   ELSE hook[h]]
       /\ sources' = sources \ mine
       /\ plugin_list' = plugin_list \ {p}

\* All of the plugin's hooks are unhooked, then it goes.
plugin_free(p) ==
    LET mine == {h \in Live : hook[h].pl = p}
    IN /\ hook' = [h \in Hooks |-> IF h \in mine THEN [hook[h] EXCEPT !.type = "deleted"]
                                   ELSE hook[h]]
       /\ sources' = sources \ mine
       /\ plugin_list' = plugin_list \ {p}

\* The init routine returns; 0 means that the plugin is not wanted.
InitReturns ==
    /\ InPlugin /\ Top.what = "init"
    /\ \/ UNCHANGED <<hook, sources, plugin_list>>
       \/ plugin_free(Top.pl)
    /\ Pop
    /\ UNCHANGED <<hook_list, freed>>

\* /unload, and the program's exit: the plugin's deinit routine runs.
plugin_kill ==
    /\ MayEnter
    /\ \E p \in plugin_list :
          Push([what |-> "deinit", type |-> "deleted", hook |-> NoHook,
                next |-> NoHook, pl |-> p, due |-> {}, called |-> <<>>])
    /\ UNCHANGED <<hook_list, hook, freed, sources, plugin_list>>

\* The deinit routine returns; it may refuse, except at exit.
DeinitReturns ==
    /\ InPlugin /\ Top.what = "deinit"
    /\ \/ UNCHANGED <<hook, sources, plugin_list>>
       \/ plugin_free(Top.pl)
    /\ Pop
    /\ UNCHANGED <<hook_list, freed>>

-----------------------------------------------------------------------------
HooksInit ==
    /\ hook_list = <<>>
    /\ hook = [h \in Hooks |-> [type |-> "deleted", pri |-> 0, pl |-> NoPlugin]]
    /\ freed = {} /\ sources = {} /\ plugin_list = {}
    /\ stack = <<>>

HooksNext ==
    \/ plugin_hook_run \/ CallNext \/ CallReturns \/ Expunge
    \/ plugin_add_hook \/ xchat_unhook
    \/ SourceFires \/ SourceReturns
    \/ plugin_add \/ InitReturns \/ plugin_kill \/ DeinitReturns

HooksSpec == HooksInit /\ [][HooksNext]_hook_vars

-----------------------------------------------------------------------------
(* Properties.                                                             *)

\* Type correctness of the list, the structures and the stack.
HooksTypeOK ==
    /\ hook_list \in Seq(Hooks)
    /\ hook \in [Hooks -> HookData]
    /\ freed \subseteq Hooks /\ sources \subseteq Hooks
    /\ plugin_list \subseteq Plugins
    /\ stack \in Seq(Frame)

\* The main loop has a source for every timer and descriptor that is hooked,
\* and calls no hook back that is unhooked, freed or of an unloaded plugin:
\* whoever unhooks it, a callback, a nested walk, the main loop or an unload.
SourcesOwned == sources = {h \in Live : hook[h].type = "source"}

\* Every hook that may be called belongs to a plugin that is loaded.
HooksOfLoaded == \A h \in Live : hook[h].pl \in plugin_list

\* Nothing that is unhooked or unloaded is called back by the main loop or by
\* a walk that begins.
CallbacksOwned == SourcesOwned /\ HooksOfLoaded

\* A walk that is not stopped by a callback has called every hook that was
\* there when it began and still is, whatever callbacks and the walks within
\* them hooked and unhooked meanwhile.
EveryHookCalled ==
    \A i \in DOMAIN stack :
        stack[i].what = "expunge" => stack[i].due \cap Live \subseteq ToSet(stack[i].called)
=============================================================================
