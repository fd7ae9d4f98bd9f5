------------------------------ MODULE Userlist ------------------------------
(***************************************************************************)
(* The nicks of one channel: src/src/common/userlist.cpp, on the sorted    *)
(* arrays of SortedTree.  Every user is in two of them: usertree, in the   *)
(* order the preference userlist_sort asks for, and usertree_alpha, in the *)
(* order of the nicks, in which every lookup is done.  Beside them the     *)
(* session counts ops, half-ops, voices and users, and points to our own   *)
(* entry (me).  Users are allocated and freed, and the trees hold          *)
(* pointers: an id that is not in `live' is freed memory.                  *)
(*                                                                         *)
(* Nicks are numbers in the order of serv->p_cmp.  A user's access is the  *)
(* set of positions in serv->nick_prefixes.                                *)
(***************************************************************************)
EXTENDS Integers, Sequences, FiniteSets, SequencesExt, SortedTree

CONSTANTS
    Ids,        \* addresses of User structures
    NoUser,     \* NULL
    Nicks,
    NickPrefixes,   \* nick_prefixes, the highest first
    SortModes,  \* the values of userlist_sort
    MaySwitch,  \* may the user change it while on the channel?
    DupSorts    \* the sort modes in which the server may list a nick twice

ASSUME NoUserAssumption == NoUser \notin Ids
ASSUME NickAssumption == Nicks \subseteq Nat /\ NickPrefixes \in Seq({"&", "@", "%", "+"})
ASSUME SortAssumption == DupSorts \subseteq SortModes /\ SortModes \subseteq 0..4

VARIABLES
    user,      \* the User structures
    live,      \* those allocated
    usertree, usertree_alpha,
    count,     \* sess->ops, hops, voices
    total,
    me,        \* sess->me
    nick,      \* serv->nick
    sort       \* prefs.userlist_sort

vars == <<user, live, usertree, usertree_alpha, count, total, me, nick, sort>>

Levels == DOMAIN NickPrefixes

Counted == {"@", "%", "+"}

User == [nick : Nicks, access : SUBSET Levels, flags : SUBSET Counted, me : BOOLEAN]

Blank == [nick |-> CHOOSE n \in Nicks : TRUE, access |-> {}, flags |-> {}, me |-> FALSE]

-----------------------------------------------------------------------------
(* Comparisons: the user with nick n and access a against the user u.      *)

Sign(i) == IF i < 0 THEN -1 ELSE IF i > 0 THEN 1 ELSE 0

Highest(a) == CHOOSE l \in a : \A k \in a : l <= k

\* By the highest level on which the two differ, unless they share a higher one.
nick_cmp_az_ops(n, a, u) ==
    LET b == u.access
    IN IF a = b \/ (a \cap b # {} /\ Highest(a \cap b) = Highest(a \cup b))
       THEN Sign(n - u.nick)
       ELSE IF Highest(a \cup b) \in a THEN -1 ELSE 1

nick_cmp(n, a, u) ==
    CASE sort = 0 -> nick_cmp_az_ops(n, a, u)
      [] sort = 1 -> Sign(n - u.nick)
      [] sort = 2 -> -nick_cmp_az_ops(n, a, u)
      [] sort = 3 -> -Sign(n - u.nick)
      [] OTHER    -> -1

\* A key with nick n and access a, in the one tree and in the other.
ByPreference(us, n, a) == [x \in Ids |-> nick_cmp(n, a, us[x])]
ByNick(us, n)          == [x \in Ids |-> Sign(n - us[x].nick)]

Inserted(us, t, id) ==
    tree_insert(t, id, ByPreference(us, us[id].nick, us[id].access))

InsertedAlpha(us, t, id) ==
    tree_insert(t, id, ByNick(us, us[id].nick))

\* Out of a tree: by search, with the structures as they are.
Removed(t, id) ==
    tree_remove(t, ByPreference(user, user[id].nick, user[id].access))

RemovedAlpha(t, id) == tree_remove(t, ByNick(user, user[id].nick))

userlist_find(n) ==
    LET pos == mybsearch(usertree_alpha, ByNick(user, n))
    IN IF pos = NotFound THEN NoUser ELSE usertree_alpha[pos + 1]

-----------------------------------------------------------------------------
(* Operations.                                                             *)

\* The prefixes of the given levels that are counted.
Flags(levels) == {NickPrefixes[l] : l \in levels} \cap Counted

\* A line of NAMES, or a JOIN: a structure is allocated and put in both trees;
\* only usertree tells whether it was a duplicate, to be freed again.
userlist_add ==
    \E id \in Ids \ (live \cup ToSet(usertree) \cup ToSet(usertree_alpha)),
       n \in Nicks, a \in SUBSET Levels :
        LET us == [user EXCEPT ![id] = [nick |-> n, access |-> a,
                                        flags |-> Flags(a), me |-> n = nick]]
            dup == Inserted(us, usertree, id) = usertree
        IN /\ sort \notin DupSorts => \A x \in live : user[x].nick # n
           /\ usertree' = Inserted(us, usertree, id)
           /\ usertree_alpha' = InsertedAlpha(us, usertree_alpha, id)
           /\ IF dup THEN UNCHANGED <<user, live, count, total, me>>
              ELSE /\ user' = us
                   /\ live' = live \cup {id}
                   /\ count' = [p \in Counted |->
                                  IF p \in Flags(a) THEN count[p] + 1 ELSE count[p]]
                   /\ total' = total + 1
                   /\ me' = IF n = nick THEN id ELSE me
           /\ UNCHANGED <<nick, sort>>

\* Mutant: sess->me is left alone.
userlist_remove_KeepsMe(n) ==
    LET id == userlist_find(n)
    IN /\ id # NoUser
       /\ count' = [p \in Counted |->
                      IF p \in user[id].flags THEN count[p] - 1 ELSE count[p]]
       /\ total' = total - 1
       /\ usertree' = Removed(usertree, id)
       /\ usertree_alpha' = RemovedAlpha(usertree_alpha, id)
       /\ live' = live \ {id}
       /\ user' = [user EXCEPT ![id] = Blank]
       /\ UNCHANGED <<me, nick, sort>>

\* PART, KICK, QUIT
userlist_remove(n) ==
    LET id == userlist_find(n)
    IN /\ id # NoUser
       /\ count' = [p \in Counted |->
                      IF p \in user[id].flags THEN count[p] - 1 ELSE count[p]]
       /\ total' = total - 1
       /\ me' = IF me = id THEN NoUser ELSE me
       /\ usertree' = Removed(usertree, id)
       /\ usertree_alpha' = RemovedAlpha(usertree_alpha, id)
       /\ live' = live \ {id}
       /\ user' = [user EXCEPT ![id] = IF id \in ToSet(usertree') THEN @ ELSE Blank]
       /\ UNCHANGED <<nick, sort>>

\* Mutant: the user is taken out of the trees after the change.
userlist_update_mode_LooseTrack(n, l, plus) ==
    LET id  == userlist_find(n)
        old == user[id]
        new == [old EXCEPT !.access = IF plus THEN @ \cup {l} ELSE @ \ {l},
                           !.flags  = IF plus THEN @ \cup Flags({l}) ELSE @ \ Flags({l})]
        us  == [user EXCEPT ![id] = new]
        c   == ByPreference(us, new.nick, new.access)
    IN /\ id # NoUser
       /\ user' = us
       /\ count' = [p \in Counted |->
                      IF p \notin Flags({l}) \/ (l \in old.access <=> plus)
                      THEN count[p]
                      ELSE IF plus THEN count[p] + 1 ELSE count[p] - 1]
       /\ usertree' = Inserted(us, tree_remove(usertree, c), id)
       /\ usertree_alpha' = InsertedAlpha(us, RemovedAlpha(usertree_alpha, id), id)
       /\ UNCHANGED <<live, total, me, nick, sort>>

\* MODE +o nick etc.: out of both trees, changed, and in again.
userlist_update_mode(n, l, plus) ==
    LET id  == userlist_find(n)
        old == user[id]
        new == [old EXCEPT !.access = IF plus THEN @ \cup {l} ELSE @ \ {l},
                           !.flags  = IF plus THEN @ \cup Flags({l}) ELSE @ \ Flags({l})]
        us  == [user EXCEPT ![id] = new]
    IN /\ id # NoUser
       /\ user' = us
       /\ count' = [p \in Counted |->
                      IF p \notin Flags({l}) \/ (l \in old.access <=> plus)
                      THEN count[p]
                      ELSE IF plus THEN count[p] + 1 ELSE count[p] - 1]
       /\ usertree' = Inserted(us, Removed(usertree, id), id)
       /\ usertree_alpha' = InsertedAlpha(us, RemovedAlpha(usertree_alpha, id), id)
       /\ UNCHANGED <<live, total, me, nick, sort>>

\* userlist_change: the entry renamed, if there is one.
userlist_change(n, m) ==
    LET id == userlist_find(n)
        us == [user EXCEPT ![id].nick = m]
    IN IF id = NoUser THEN UNCHANGED <<user, usertree, usertree_alpha>>
       ELSE /\ user' = us
            /\ usertree' = Inserted(us, Removed(usertree, id), id)
            /\ usertree_alpha' = InsertedAlpha(us, RemovedAlpha(usertree_alpha, id), id)

\* NICK: the server sees to it that nobody has the new nick.
inbound_newnick(n, m) ==
    /\ m # nick /\ n # m
    /\ \A x \in live : user[x].nick # m
    /\ nick' = IF n = nick THEN m ELSE nick
    /\ userlist_change(n, m)
    /\ UNCHANGED <<live, count, total, me, sort>>

\* Joining, leaving, a new NAMES list, a lost connection: what usertree lists
\* is freed.
userlist_clear ==
    /\ live' = live \ ToSet(usertree)
    /\ user' = [id \in Ids |-> IF id \in ToSet(usertree) THEN Blank ELSE user[id]]
    /\ usertree' = <<>> /\ usertree_alpha' = <<>>
    /\ count' = [p \in Counted |-> 0] /\ total' = 0
    /\ me' = NoUser
    /\ UNCHANGED <<nick, sort>>

\* /set gui_ulist_sort: the trees are left as they are.  Unless MaySwitch, the
\* user only does so off the channel.
SetSort ==
    /\ MaySwitch \/ live = {}
    /\ sort' \in SortModes
    /\ UNCHANGED <<user, live, usertree, usertree_alpha, count, total, me, nick>>

-----------------------------------------------------------------------------
Init ==
    /\ user = [id \in Ids |-> Blank] /\ live = {}
    /\ usertree = <<>> /\ usertree_alpha = <<>>
    /\ count = [p \in Counted |-> 0] /\ total = 0
    /\ me = NoUser
    /\ nick \in Nicks
    /\ sort \in SortModes

Next ==
    \/ userlist_add
    \/ \E n \in Nicks : userlist_remove(n)
    \/ \E n \in Nicks, l \in Levels, plus \in BOOLEAN : userlist_update_mode(n, l, plus)
    \/ \E n, m \in Nicks : inbound_newnick(n, m)
    \/ userlist_clear
    \/ SetSort

Spec == Init /\ [][Next]_vars
-----------------------------------------------------------------------------
(* Properties.                                                             *)

\* Type correctness of the structures, the trees and the counters.
TypeOK ==
    /\ user \in [Ids -> User] /\ live \subseteq Ids
    /\ usertree \in Seq(Ids) /\ usertree_alpha \in Seq(Ids)
    /\ count \in [Counted -> Nat] /\ total \in Nat
    /\ me \in Ids \cup {NoUser}
    /\ nick \in Nicks /\ sort \in SortModes

\* Both trees hold every allocated user exactly once and nothing freed: each
\* removal finds the user where the insertion put it, by comparisons alone,
\* though its place depends on its access, which changes.
SameUsers ==
    \A t \in {usertree, usertree_alpha} : ToSet(t) = live /\ IsInjective(t)

\* The lookup finds every user by nick, and nobody else.
FindsEveryUser ==
    \A n \in Nicks :
        LET found == userlist_find(n)
        IN IF \E x \in live : user[x].nick = n
           THEN found \in live /\ user[found].nick = n
           ELSE found = NoUser

\* The counters in the channel's title are those of the list, through
\* duplicates, repeated modes and renames.
CountsExact ==
    /\ total = Cardinality(live)
    /\ \A p \in Counted :
          count[p] = Cardinality({x \in live : p \in Flags(user[x].access)})

\* sess->me is the entry with our nick, whatever we or others are renamed to;
\* it is never a freed one.
MeIsOwnEntry ==
    LET own == {x \in live : user[x].nick = nick}
    IN IF own = {} THEN me = NoUser ELSE me \in own

\* What is kept beside the list is what the list says.
BooksAgree == CountsExact /\ MeIsOwnEntry
=============================================================================
