-------------------------------- MODULE Dcc ---------------------------------
(***************************************************************************)
(* Direct connections: file transfers and chats with one peer              *)
(* (src/src/common/dcc.cpp).                                               *)
(*                                                                         *)
(* The main loop, the user's /DCC, the peer's CTCP DCC messages and the    *)
(* check that runs every second all work on dcc_list and on the source     *)
(* tags, the socket and the file of its entries.  A handler that calls     *)
(* another (the check, that lifts a throttle, that reads, that closes) is  *)
(* one action: handlers are functions on the state St, so that they        *)
(* compose.  A file is a sequence of Size blocks, numbered, so that a file *)
(* put together from the wrong ones shows.  An offer's port or passive id  *)
(* is the offer itself.  The dialogue with a proxy is that of Proxies.     *)
(* The peer keeps to the protocol; plugins run between handlers.           *)
(***************************************************************************)
EXTENDS Integers, Sequences, FiniteSets, SequencesExt, Proxies

CONSTANTS
    Dccs,         \* addresses of DCC structures
    Files,        \* names of files; the names "file.n" are Dccs
    NoFile,       \* NULL
    Size,         \* blocks of a file
    ProxyKinds,   \* settings of proxy_type, "none" among them
    FastSends,    \* settings of fastdccsend
    Limit,        \* dcc_global_max_send_cps and _get_cps, 0 for none
    ChatRates,    \* cps of a chat, as measured
    Mixed,        \* offers of one file, or passive offers, may coexist
    Given         \* blocks a file already on disk may have

ASSUME DccAssumption ==
    /\ IsFiniteSet(Dccs) /\ Size \in Nat \ {0} /\ Limit \in Nat /\ ChatRates \subseteq Nat
    /\ FastSends \subseteq BOOLEAN /\ ProxyKinds \subseteq {"none"} \cup Kinds
    /\ Dccs \cap Files = {} /\ NoFile \notin Files \cup Dccs
    /\ Mixed \in BOOLEAN /\ Given \subseteq 0..Size

VARIABLES st, used

vars == <<st, used>>

Live == {"queued", "connecting", "active"}

Dead == {"failed", "done", "aborted"}

\* struct DCC.  How long it has waited is not kept: timeouts may always come.
\* `peer' is external: the block before the next one the peer sends or awaits.
NewDcc ==
    [type |-> "send", stat |-> "queued", sok |-> FALSE, iotag |-> "none",
     wiotag |-> "none", fp |-> FALSE, passive |-> FALSE, port |-> FALSE,
     pos |-> 0, ack |-> 0, resumable |-> 0, resume_sent |-> 0,
     fast |-> FALSE, throttled |-> FALSE, cps |-> 0,
     file |-> NoFile, dest |-> NoFile, peer |-> 0, proxy |-> NoProxy]

Paths == Files \cup Dccs

Absent == <<-1>>

Blocks(m, n) == [i \in 1..(n - m) |-> m + i]

Whole == Blocks(0, Size)

\* `sources' is external: the callbacks the main loop holds for a structure.
\* `completed': what files were moved to dcc_completed_dir.  `left' is history:
\* the rates that chats had when they ended.
Init ==
    /\ \E given \in [Files -> Given] :
          st = [dcc |-> [d \in {} |-> NewDcc], list |-> <<>>, sources |-> {},
                sum |-> [send |-> 0, get |-> 0, left |-> 0], completed |-> {},
                disk |-> [p \in Paths |->
                            IF p \in Files /\ given[p] # 0
                            THEN Blocks(0, given[p]) ELSE Absent]]
    /\ used = {}

Listed == ToSet(st.list)

Sum(D) == IF D.type = "send" THEN "send" ELSE "get"

-----------------------------------------------------------------------------
(* Tags, closing.                                                          *)

Unwatch(s, d, tag) ==
    [s EXCEPT !.sources = @ \ {<<d, s.dcc[d][tag]>>}, !.dcc[d][tag] = "none"]

Watch(s, d, tag, cb) ==
    [s EXCEPT !.sources = @ \cup {<<d, cb>>}, !.dcc[d][tag] = cb]

\* The rate of a chat is counted in dcc_getcpssum, and stays there.
dcc_remove_from_sum(s, d) ==
    LET D == s.dcc[d]
    IN IF D.stat # "active" THEN s
       ELSE IF D.type \in {"send", "recv"} THEN [s EXCEPT !.sum[Sum(D)] = @ - D.cps]
       ELSE [s EXCEPT !.sum["left"] = @ + D.cps]

\* A completed file is moved out of dccdir.
Moved(s, d, stat) ==
    LET D == s.dcc[d]
    IN IF D.fp /\ stat = "done" /\ D.type = "recv"
       THEN [s EXCEPT !.completed = @ \cup {s.disk[D.dest]}, !.disk[D.dest] = Absent]
       ELSE s

\* Mutant: the rate is taken off after the state has changed.
dcc_close_SumAfter(s, d, stat) ==
    LET t == Moved(Unwatch(Unwatch(s, d, "wiotag"), d, "iotag"), d, stat)
    IN [t EXCEPT !.dcc[d].sok = FALSE, !.dcc[d].fp = FALSE, !.dcc[d].stat = stat]

\* Mutant: the tag for writing is forgotten.
dcc_close_KeepsWatch(s, d, stat) ==
    LET t == Moved(dcc_remove_from_sum(Unwatch(s, d, "iotag"), d), d, stat)
    IN [t EXCEPT !.dcc[d].sok = FALSE, !.dcc[d].fp = FALSE, !.dcc[d].stat = stat]

\* dcc_close(dcc, stat, FALSE)
dcc_close(s, d, stat) ==
    LET t == Moved(dcc_remove_from_sum(
                     Unwatch(Unwatch(s, d, "wiotag"), d, "iotag"), d), d, stat)
    IN [t EXCEPT !.dcc[d].sok = FALSE, !.dcc[d].fp = FALSE, !.dcc[d].stat = stat]

\* g_slist_remove
Without(list, d) == RemoveAt(list, CHOOSE i \in DOMAIN list : list[i] = d)

\* dcc_close(dcc, 0, TRUE)
Destroy(s, d) ==
    LET t == dcc_close(s, d, "queued")
    IN [t EXCEPT !.list = Without(@, d), !.dcc = [e \in DOMAIN @ \ {d} |-> @[e]]]

dcc_abort(s, d) ==
    IF s.dcc[d].stat \in Live THEN dcc_close(s, d, "aborted") ELSE Destroy(s, d)

\* new_dcc; an address is handed out once.
new_dcc(s, d, D) ==
    [s EXCEPT !.list = <<d>> \o @,
              !.dcc = [e \in DOMAIN @ \cup {d} |-> IF e = d THEN D ELSE @[e]]]

-----------------------------------------------------------------------------
(* Receiving and sending.                                                  *)

\* The download is opened: the file on disk if it is resumed, else a new one,
\* under another name if there is one.
Opened(s, d) ==
    LET D == s.dcc[d]
        dest == IF s.disk[D.file] = Absent THEN D.file ELSE d
    IN IF D.fp THEN s
       ELSE IF D.resumable > 0
       THEN [s EXCEPT !.dcc[d] = [D EXCEPT !.fp = TRUE, !.dest = D.file,
                                     !.pos = D.resumable, !.ack = D.resumable]]
       ELSE [s EXCEPT !.dcc[d] = [D EXCEPT !.fp = TRUE, !.dest = dest],
                      !.disk[dest] = <<>>]

\* dcc_read: n blocks are there, and then "nothing", or a broken connection
\* or a full disk ("broken").  open() may fail, too.
dcc_read(s, d, n, then) ==
    LET o == Opened(s, d)
        D == o.dcc[d]
        r == [(IF D.iotag = "none" THEN Watch(o, d, "iotag", "read") ELSE o)
              EXCEPT !.dcc[d].pos = @ + n, !.dcc[d].peer = @ + n,
                     !.disk[D.dest] = @ \o Blocks(D.peer, D.peer + n)]
        lost == ~s.dcc[d].fp /\ s.dcc[d].resumable > 0
                  /\ s.disk[s.dcc[d].file] = Absent
    IN IF then = "unopened" \/ lost THEN dcc_close(s, d, "failed")
       ELSE IF D.throttled THEN Unwatch(o, d, "iotag")
       ELSE IF r.dcc[d].pos >= Size THEN dcc_close(r, d, "done")
       ELSE IF then = "broken" THEN dcc_close(r, d, "failed")
       ELSE r

\* dcc_send_data: n = 0 if the socket would block.  Without a file, or at its
\* end, read() gives nothing, and the transfer fails.
dcc_send_data(s, d, n, then) ==
    LET D == s.dcc[d]
        w == IF D.fast /\ D.wiotag = "none" THEN Watch(s, d, "wiotag", "data") ELSE s
        t == [w EXCEPT !.dcc[d].pos = @ + n, !.dcc[d].peer = @ + n]
    IN IF D.throttled THEN Unwatch(s, d, "wiotag")
       ELSE IF ~D.fast /\ D.ack < D.pos THEN s
       ELSE IF ~D.fp \/ D.pos >= Size \/ then = "broken" THEN dcc_close(w, d, "failed")
       ELSE IF t.dcc[d].pos >= Size THEN Unwatch(t, d, "wiotag") ELSE t

\* dcc_unthrottle; a chat is handled as a send.
dcc_unthrottle(s, d, n, then) ==
    IF s.dcc[d].type = "recv" THEN dcc_read(s, d, n, then)
    ELSE dcc_send_data(s, d, n, then)

\* dcc_calc_cps: the rate was measured anew.
dcc_calc_cps(s, d, cps, n, then) ==
    LET D == s.dcc[d]
        sum == s.sum[Sum(D)] + cps - D.cps
        t == [s EXCEPT !.dcc[d].cps = cps, !.sum[Sum(D)] = sum,
                       !.dcc[d].throttled = Limit > 0 /\ sum >= Limit]
    IN IF D.throttled /\ ~t.dcc[d].throttled THEN dcc_unthrottle(t, d, n, then) ELSE t

-----------------------------------------------------------------------------
(* Connecting.  ok: what the system calls answer.                          *)

Listening(s, d) ==
    [Watch(s, d, "iotag", "accept") EXCEPT !.dcc[d].sok = TRUE, !.dcc[d].port = TRUE]

\* An accepted passive offer listens for the peer; all else calls it.
dcc_connect(s, d, ok, kind) ==
    LET c == [s EXCEPT !.dcc[d].stat = "connecting"]
    IN IF s.dcc[d].stat = "connecting" THEN s
       ELSE IF s.dcc[d].passive /\ ~s.dcc[d].port
       THEN IF ok THEN Listening(c, d) ELSE dcc_close(c, d, "failed")
       ELSE IF ~ok THEN [s EXCEPT !.dcc[d].stat = "failed"]
       ELSE [Watch(c, d, "iotag", IF kind = "none" THEN "connected" ELSE "proxy_connect")
             EXCEPT !.dcc[d].sok = TRUE, !.dcc[d].proxy.kind = kind]

\* The type's callbacks are set; a send sends its first block at once.
Started(s, d, fast, n, then) ==
    LET a == [s EXCEPT !.dcc[d].stat = "active"]
        w == IF fast THEN Watch(a, d, "wiotag", "data") ELSE a
        f == [Watch(w, d, "iotag", "ack") EXCEPT !.dcc[d].fast = fast]
    IN CASE s.dcc[d].type = "recv" -> Watch(a, d, "iotag", "read")
         [] s.dcc[d].type = "send" -> dcc_send_data(f, d, n, then)
         [] OTHER -> Watch(a, d, "iotag", "chat")

\* dcc_connect_finished; a connection that failed keeps its socket.
dcc_connect_finished(s, d, ok, fast, n, then) ==
    LET u == Unwatch(s, d, "iotag")
    IN IF ok THEN Started(u, d, fast, n, then)
       ELSE [u EXCEPT !.dcc[d].stat = "failed"]

dcc_accept(s, d, ok, fast, n, then) ==
    IF ok THEN Started(Unwatch(s, d, "iotag"), d, fast, n, then)
    ELSE dcc_close(s, d, "failed")

\* The dialogue's next phase watches the socket for what it does.
Phase(s, d, p) ==
    LET tag == IF Step(p).do = "write" THEN "wiotag" ELSE "iotag"
        t == [s EXCEPT !.dcc[d].proxy = p]
    IN IF s.dcc[d][tag] = "none" THEN Watch(t, d, tag, "traverse") ELSE t

\* dcc_proxy_connect.  (The Wingate one sets the tag for writing.)
dcc_proxy_connect(s, d, ok) ==
    LET u == Unwatch(s, d, "iotag")
        p == NewProxy(s.dcc[d].proxy.kind)
    IN IF ~ok THEN [u EXCEPT !.dcc[d].stat = "failed"]
       ELSE IF p.kind = "wingate"
       THEN [Watch(u, d, "wiotag", "traverse") EXCEPT !.dcc[d].proxy = p]
       ELSE Phase(u, d, p)

\* A phase is done, or the proxy refuses ("no"), or the connection breaks:
\* read_proxy and write_proxy remove only the tag of their own direction.
dcc_proxy_traverse(s, d, answer, ok, fast, n, then) ==
    LET p == s.dcc[d].proxy
        tag == IF Step(p).do = "write" THEN "wiotag" ELSE "iotag"
        q == Advanced(p)
        stays == ~IsLast(p) /\ Step(q).do = Step(p).do
        u == IF stays THEN s ELSE Unwatch(s, d, IF p.kind = "wingate" THEN "wiotag" ELSE tag)
    IN IF answer \in {"no", "broken"}
       THEN [Unwatch(s, d, tag) EXCEPT !.dcc[d].stat = "failed"]
       ELSE IF IsLast(p)
       THEN dcc_connect_finished([u EXCEPT !.dcc[d].proxy = q], d, ok, fast, n, then)
       ELSE Phase(u, d, q)

-----------------------------------------------------------------------------
(* The user's and the peer's requests.                                     *)

\* The first entry that satisfies P, if one does.
First(P(_)) ==
    {st.list[i] : i \in {i \in DOMAIN st.list :
        P(st.list[i]) /\ \A j \in 1..(i-1) : ~P(st.list[j])}}

Of(d) == st.dcc[d]

Becomes(s) == st' = s

New == {d \in Dccs : d \notin used}

\* No address is handed out.
Kept == UNCHANGED used

\* /DCC SEND: a file is not sent that cannot be opened; an offer that cannot
\* listen is taken back.
dcc_send ==
    \E d \in New, f \in Files, passive, ok \in BOOLEAN :
      /\ used' = used \cup {d}
      /\ Mixed \/ \A e \in Listed : Of(e).type # "send" \/ Of(e).file # f
      /\ LET s == new_dcc(st, d, [NewDcc EXCEPT !.fp = TRUE, !.file = f,
                                                !.passive = passive])
         IN Becomes(IF passive THEN s
                    ELSE IF ok THEN Listening(s, d) ELSE Destroy(s, d))

\* /DCC CHAT: an old offer is repeated, one of the peer's is accepted.
dcc_chat ==
    LET mine == First(LAMBDA e : Of(e).type = "chatsend")
        theirs == First(LAMBDA e : Of(e).type = "chatrecv")
        s == IF \E e \in mine : Of(e).stat \in {"aborted", "failed"}
             THEN Destroy(st, CHOOSE e \in mine : TRUE) ELSE st
    IN /\ \A e \in mine : Of(e).stat \notin Live
       /\ \/ \E e \in theirs, ok \in BOOLEAN, kind \in ProxyKinds :
               /\ Becomes(CASE Of(e).stat = "queued" -> dcc_connect(s, e, ok, kind)
                            [] Of(e).stat \in {"failed", "aborted"} -> Destroy(s, e)
                            [] OTHER -> s)
               /\ Kept
          \/ /\ theirs = {}
             /\ \E d \in New, passive, ok \in BOOLEAN :
                  LET t == new_dcc(s, d, [NewDcc EXCEPT !.type = "chatsend",
                                                        !.passive = passive])
                  IN /\ used' = used \cup {d}
                     /\ Becomes(IF passive THEN t
                                ELSE IF ok THEN Listening(t, d) ELSE Destroy(t, d))

\* /DCC CLOSE
UserAbort == \E d \in Listed : Becomes(dcc_abort(st, d)) /\ Kept

\* Is another download into the same file on the way?
is_same_file(s, d, e) == e # d /\ s.dcc[e].dest = s.dcc[d].dest

\* The part of the file that is there, if no other download may write to it.
is_resumable(s, d) ==
    LET D == s.dcc[d]
        busy == \E e \in ToSet(s.list) : /\ s.dcc[e].type = "recv"
                                         /\ s.dcc[e].stat \in Live
                                         /\ is_same_file(s, d, e)
        n == IF s.disk[D.dest] = Absent \/ busy \/ Len(s.disk[D.dest]) >= Size THEN 0
             ELSE Len(s.disk[D.dest])
    IN [s EXCEPT !.dcc[d].resumable = n, !.dcc[d].pos = n]

\* The peer is asked to start at that place.
dcc_resume(s, d) == [s EXCEPT !.dcc[d].resume_sent = s.dcc[d].resumable]

\* Mutant: the place to resume at is not forgotten.
dcc_get_StaleResume(s, d, autoresume, ok, kind) ==
    CASE s.dcc[d].stat = "queued" /\ s.dcc[d].type # "chatsend" ->
           IF s.dcc[d].type = "recv" /\ autoresume /\ s.dcc[d].resumable > 0
           THEN dcc_resume(s, d)
           ELSE dcc_connect(s, d, ok, kind)
      [] s.dcc[d].stat \in Dead -> Destroy(s, d)
      [] OTHER -> s

\* dcc_get and dcc_resume: ask to resume, or get the file from its start.
dcc_get(s, d, autoresume, ok, kind) ==
    CASE s.dcc[d].stat = "queued" /\ s.dcc[d].type # "chatsend" ->
           IF s.dcc[d].type = "recv" /\ autoresume /\ s.dcc[d].resumable > 0
           THEN dcc_resume(s, d)
           ELSE dcc_connect([s EXCEPT !.dcc[d].resumable = 0, !.dcc[d].pos = 0],
                            d, ok, kind)
      [] s.dcc[d].stat \in Dead -> Destroy(s, d)
      [] OTHER -> s

\* /DCC GET nick file; of one that is under way nothing.
UserGet ==
    \E f \in Files : \E d \in First(LAMBDA e : Of(e).type = "recv" /\ Of(e).file = f) :
      /\ \/ /\ Of(d).stat = "queued"
            /\ \E autoresume, ok \in BOOLEAN, kind \in ProxyKinds :
                  Becomes(dcc_get(st, d, autoresume, ok, kind))
         \/ Of(d).stat \in Dead /\ Becomes(dcc_get(st, d, FALSE, FALSE, "none"))
      /\ Kept

\* /DCC GET nick
dcc_get_nick ==
    \E ok \in BOOLEAN, kind \in ProxyKinds :
      \E d \in First(LAMBDA e : Of(e).type = "recv" /\ Of(e).stat = "queued") :
        /\ Becomes(dcc_connect([st EXCEPT !.dcc[d].resumable = 0, !.dcc[d].pos = 0,
                                          !.dcc[d].ack = 0], d, ok, kind))
        /\ Kept

\* The peer offers a file; it may be accepted at once (autodccsend).
dcc_add_file ==
    \E d \in New, f \in Files, passive, auto, autoresume, ok \in BOOLEAN, kind \in ProxyKinds :
      LET s == is_resumable(new_dcc(st, d, [NewDcc EXCEPT
                  !.type = "recv", !.file = f, !.dest = f,
                  !.passive = passive, !.port = ~passive]), d)
      IN /\ Mixed \/ ~passive \/ \A e \in Listed : ~Of(e).passive
         /\ used' = used \cup {d}
         /\ Becomes(IF auto THEN dcc_get(s, d, autoresume, ok, kind) ELSE s)

\* An entry that was found is closed for good.
Gone(s, found) == IF found = {} THEN s ELSE Destroy(s, CHOOSE d \in found : TRUE)

\* The peer offers a chat, which takes the place of others with it.
dcc_add_chat ==
    \E d \in New, passive, auto, ok \in BOOLEAN, kind \in ProxyKinds :
      LET mine == First(LAMBDA e : Of(e).type = "chatsend")
          theirs == First(LAMBDA e : Of(e).type = "chatrecv")
          s == Gone(Gone(st, mine), theirs)
          t == new_dcc(s, d, [NewDcc EXCEPT !.type = "chatrecv",
                                 !.passive = passive, !.port = ~passive])
      IN /\ used' = used \cup {d}
         /\ Becomes(IF auto THEN dcc_connect(t, d, ok, kind) ELSE t)

\* The peer answers a passive offer with its address (find_dcc_from_id).
PassiveAnswered ==
    \E d \in Listed, ok \in BOOLEAN, kind \in ProxyKinds :
      /\ Of(d).type \in {"send", "chatsend"} /\ Of(d).passive
      /\ Of(d).stat = "queued"
      /\ Becomes(dcc_connect([st EXCEPT !.dcc[d].port = TRUE], d, ok, kind))
      /\ Kept

\* The peer asks to resume an offer before it takes it; it finds the offer by
\* its port or id while it is queued, else the first of the same file.
HandleResume ==
    \E r \in 1..(Size - 1), f \in Files :
      LET asked == {d \in Listed : Of(d).type = "send" /\ Of(d).file = f}
          found == {d \in asked : Of(d).stat = "queued" /\ ~(Of(d).passive /\ Of(d).port)}
          other == First(LAMBDA e : Of(e).type = "send" /\ Of(e).file = f)
      IN /\ Mixed \/ \A d \in asked : Of(d).stat \in {"queued", "aborted", "failed"}
         /\ \E d \in (IF found # {} /\ ~Mixed THEN found ELSE found \cup other) :
              /\ Becomes([st EXCEPT !.dcc[d].resumable = r, !.dcc[d].pos = r,
                             !.dcc[d].ack = r,
                             !.dcc[d].peer = IF d \in found THEN r ELSE @])
              /\ Kept

\* The peer agrees to resume d, and goes to that place; its ACCEPT is taken
\* for the first offer with the port, which is 0 for all the passive ones.
HandleAccept ==
    \E d \in Listed, ok \in BOOLEAN, kind \in ProxyKinds :
      LET s == [st EXCEPT !.dcc[d].peer = Of(d).resume_sent]
          found == First(LAMBDA e : /\ Of(e).type = "recv" /\ Of(e).stat = "queued"
                                    /\ IF Of(d).port THEN e = d ELSE ~Of(e).port)
      IN /\ Of(d).resume_sent > 0 /\ Of(d).stat \in {"queued", "connecting"}
         /\ \/ \E e \in found : Becomes(dcc_connect(s, e, ok, kind))
            \/ found = {} /\ Becomes(s)
         /\ Kept

-----------------------------------------------------------------------------
(* The main loop.                                                          *)

\* What a callback may find: blocks, and how its last call ends.
Arriving(d) == 0..(Size - Of(d).peer)

Sendable(d) == 0..(Size - Of(d).pos)

Reading == {"nothing", "broken", "unopened"}

Sending == {"nothing", "broken"}

Calls(d, cb) == <<d, cb>> \in st.sources

\* A send that starts sends at once, fast or not.
Starting(d, ok) ==
    IF Of(d).type = "send" /\ ok THEN [fast : FastSends, n : Sendable(d), then : Sending]
    ELSE {[fast |-> FALSE, n |-> 0, then |-> "nothing"]}

Connected ==
    \E d \in Listed, ok \in BOOLEAN : \E o \in Starting(d, ok) :
        /\ \/ /\ Calls(d, "connected")
              /\ Becomes(dcc_connect_finished(st, d, ok, o.fast, o.n, o.then))
           \/ /\ Calls(d, "accept")
              /\ Becomes(dcc_accept(st, d, ok, o.fast, o.n, o.then))
           \/ /\ Calls(d, "proxy_connect") /\ Becomes(dcc_proxy_connect(st, d, ok))
           \/ /\ Calls(d, "traverse")
              /\ \E answer \in {"yes", "no", "broken"} :
                   /\ answer = "no" => Step(Of(d).proxy).do = "read"
                   /\ Of(d).stat = "failed" => answer = "broken"
                   /\ Becomes(dcc_proxy_traverse(st, d, answer, ok, o.fast, o.n, o.then))
        /\ Kept

Reads ==
    \E d \in Listed, then \in Reading : \E n \in Arriving(d) :
      /\ Calls(d, "read")
      /\ then = "unopened" => ~Of(d).fp
      /\ Becomes(dcc_read(st, d, n, then)) /\ Kept

\* dcc_read_chat
ReadsChat ==
    \E d \in Listed, then \in {"lines", "broken"} :
      /\ Calls(d, "chat")
      /\ Becomes(IF Of(d).throttled THEN Unwatch(st, d, "iotag")
                 ELSE IF then = "broken" THEN dcc_close(st, d, "failed")
                 ELSE [st EXCEPT !.dcc[d].pos = 1])
      /\ Kept

Sends ==
    \E d \in Listed, then \in Sending : \E n \in Sendable(d) :
      Calls(d, "data") /\ Becomes(dcc_send_data(st, d, n, then)) /\ Kept

\* Mutant: a transfer is done when everything was sent.
dcc_handle_new_ack_Sent(d, a, n, then) ==
    LET s == [st EXCEPT !.dcc[d].ack = a]
    IN IF Of(d).pos >= Size THEN dcc_close(s, d, "done")
       ELSE IF ~Of(d).fast /\ a >= Of(d).pos THEN dcc_send_data(s, d, n, then)
       ELSE s

\* The peer has acknowledged a blocks.
dcc_handle_new_ack(d, a, n, then) ==
    LET s == [st EXCEPT !.dcc[d].ack = a]
    IN IF Of(d).pos >= Size /\ a >= Size THEN dcc_close(s, d, "done")
       ELSE IF ~Of(d).fast /\ a >= Of(d).pos THEN dcc_send_data(s, d, n, then)
       ELSE s

\* dcc_read_ack
ReadsAck ==
    \E d \in Listed :
      /\ Calls(d, "ack")
      /\ \/ \E a \in Of(d).ack..Of(d).peer, n \in Sendable(d), then \in Sending :
               Becomes(dcc_handle_new_ack(d, a, n, then))
         \/ Becomes(dcc_close(st, d, "failed"))
      /\ Kept

\* No data for dccstalltimeout seconds; a throttled transfer never stalls.
MayStall(s, d) == s.dcc[d].type \in {"send", "recv"} /\ ~s.dcc[d].throttled

\* What a transfer finds whose throttle a new rate lifts.
Going(d, cps) ==
    IF ~Of(d).throttled \/ (Limit > 0 /\ st.sum[Sum(Of(d))] + cps - Of(d).cps >= Limit)
    THEN {[n |-> 0, then |-> "nothing"]}
    ELSE IF Of(d).type # "recv" THEN [n : Sendable(d), then : Sending]
    ELSE [n : Arriving(d), then : IF Of(d).fp THEN Sending ELSE Reading]

\* dcc_check_timeouts, at one entry of the list.
Check(d) ==
    /\ \/ /\ Of(d).stat = "active"
          /\ \E cps \in (IF Of(d).type \in {"send", "recv"} THEN {0, 1} ELSE ChatRates) :
             \E o \in Going(d, cps) :
                 LET s == dcc_calc_cps(st, d, cps, o.n, o.then)
                 IN Becomes(s) \/ (MayStall(s, d) /\ Becomes(dcc_close(s, d, "aborted")))
       \/ /\ Of(d).stat = "queued" /\ Of(d).type \in {"send", "chatsend"}
          /\ Becomes(dcc_close(st, d, "aborted"))
       \/ Of(d).stat \in Dead /\ Becomes(Destroy(st, d))    \* dcc_remove
    /\ Kept

dcc_check_timeouts == \E d \in Listed : Check(d)

User == dcc_send \/ dcc_chat \/ UserAbort \/ UserGet \/ dcc_get_nick

Peer ==
    \/ dcc_add_file \/ dcc_add_chat \/ PassiveAnswered
    \/ HandleResume \/ HandleAccept

Loop == Connected \/ Reads \/ ReadsChat \/ Sends \/ ReadsAck

Next == User \/ Peer \/ Loop \/ dcc_check_timeouts

Spec == Init /\ [][Next]_vars

-----------------------------------------------------------------------------
(* Correctness.                                                            *)

TypeOK ==
    /\ Listed = DOMAIN st.dcc /\ Listed \subseteq used /\ used \subseteq Dccs
    /\ \A d \in Listed : /\ Of(d).stat \in Live \cup Dead
                         /\ Of(d).pos \in 0..Size /\ Of(d).ack \in 0..Size
                         /\ Of(d).peer \in 0..Size

\* The main loop calls back for exactly the entries whose tags say so: none
\* is called back that was freed, and no source is lost to a second one.
SourcesOwned ==
    st.sources = (UNION {{<<d, Of(d).iotag>>, <<d, Of(d).wiotag>>} : d \in Listed})
                   \ (Dccs \X {"none"})

\* What is moved to the completed files was received whole and in order,
\* however transfers of the same name were resumed, renamed and broken off.
ReceivedWhole == st.completed \subseteq {Whole}

\* The blocks that are sent follow on those the peer has, and "done" means
\* that it has acknowledged them all.
StreamUnbroken ==
    \A d \in Listed : Of(d).type = "send" =>
        /\ Of(d).stat = "active" => Of(d).peer = Of(d).pos
        /\ Of(d).stat = "done" => Of(d).peer = Size /\ Of(d).ack = Size

\* The sum of what the entries of D have.
Total(cps, D) ==
    LET sum[E \in SUBSET Dccs] ==
            IF E = {} THEN 0
            ELSE LET d == CHOOSE d \in E : TRUE IN cps[d] + sum[E \ {d}]
    IN sum[D]

Rate(x) ==
    Total([d \in Listed |-> Of(d).cps],
          {d \in Listed : Of(d).stat = "active" /\ Sum(Of(d)) = x})

\* The sums that throttle transfers are those of what is active, but for the
\* chats that ended: what a transfer has added is taken off, once, however it
\* ends, and what a chat has is not (dcc_calc_cps, dcc_remove_from_sum).
SumsExact ==
    st.sum["send"] = Rate("send") /\ st.sum["get"] = Rate("get") + st.sum["left"]

\* A transfer that goes through a proxy has asked it for what the child that
\* connects to a server asks for, and read the answers; but for Wingate.
ProxyAsked ==
    \A d \in Listed : Of(d).stat = "active" =>
        LET p == Of(d).proxy
        IN p.kind \notin {"none", "wingate"} => p.asked = Asked(Traverse[p.kind])

\* "don't unthrottle here, but delegate to funcs": a chat whose throttle was
\* lifted is read again.
ChatHeard ==
    \A d \in Listed :
        Of(d).stat = "active" /\ Of(d).type \in {"chatsend", "chatrecv"} =>
            Of(d).throttled \/ Of(d).iotag = "chat"
=============================================================================
