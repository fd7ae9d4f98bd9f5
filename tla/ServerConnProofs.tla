-------------------------- MODULE ServerConnProofs --------------------------
(***************************************************************************)
(* Proofs about ServerConn.  IInv is inductive.  The lemmas say, one per   *)
(* function of server.cpp, what it makes of a structure that satisfies     *)
(* IInv: cleanup, stopconnecting and disconnect leave it Quiet, with no    *)
(* I/O source at all, and connect, connected and the two delays add one    *)
(* source to it.  A step of the specification composes them.  The second   *)
(* half does the same for the fields that say who owns a connection: its   *)
(* sockets, its end of the MOTD and the delay of a reconnect, each under   *)
(* the one restriction of the environment it needs.                        *)
(***************************************************************************)
EXTENDS ServerConn, TLAPS

DelayCallbacks == {"timeout_auto_reconnect", "servlist_cycle_cb"}

\* No I/O source at all, and the fields say so.
Quiet(s) ==
    /\ s \in State
    /\ ~s.connecting /\ ~s.connected
    /\ s.iotag = NoTag /\ s.joindelay = NoTag /\ s.sslTag = NoTag
    /\ s.child = "none" /\ s.report = "none"
    /\ \A t \in Tags : s.src[t] \in DelayCallbacks \cup {"none"}

\* A quiet structure satisfies the invariant.
LEMMA QuietInv ==
    ASSUME NEW s, Quiet(s)
    PROVE  IInv(s)
<1>1. s.recondelay \in Tags \cup {NoTag}
  BY DEF Quiet, State, TagOrNone
<1>2. Owned(s)
  BY <1>1 DEF Quiet, Owned, DelayCallbacks
<1> QED BY <1>2 DEF IInv, Deaf, Spare, Quiet, DelayCallbacks

\* Removing sources leaves a table of sources, and so does adding one.
LEMMA SrcType ==
    ASSUME NEW s \in State, NEW ts, NEW f, NEW cb \in Callbacks
    PROVE  /\ SrcWithout(s, ts) \in [Tags -> Callbacks \cup {"none"}]
           /\ SrcWith(s, f, cb) \in [Tags -> Callbacks \cup {"none"}]
BY DEF SrcWithout, SrcWith, State

\* server_stopconnecting removes every I/O source of a structure that is not
\* connected.
LEMMA StopConnectingQuiet ==
    ASSUME NEW s, IInv(s), ~s.connected
    PROVE  /\ Quiet(server_stopconnecting(s))
           /\ server_stopconnecting(s).alive = s.alive
<1> DEFINE r == server_stopconnecting(s)
<1>1. s \in State /\ Owned(s)
  BY DEF IInv
<1>2. SrcWithout(s, {s.iotag, s.joindelay, s.sslTag}) \in [Tags -> Callbacks \cup {"none"}]
  BY <1>1, SrcType DEF Callbacks
<1>3. r \in State
  BY <1>1, <1>2 DEF server_stopconnecting, State, TagOrNone
<1>4. /\ r.connecting = FALSE /\ r.connected = s.connected /\ r.alive = s.alive
      /\ r.iotag = NoTag /\ r.joindelay = NoTag /\ r.sslTag = NoTag
      /\ r.child = "none" /\ r.report = "none"
      /\ r.src = SrcWithout(s, {s.iotag, s.joindelay, s.sslTag})
  BY <1>1 DEF server_stopconnecting, State
<1>5. ASSUME NEW t \in Tags
      PROVE  r.src[t] \in DelayCallbacks \cup {"none"}
  <2>1. r.src[t] = IF t \in {s.iotag, s.joindelay, s.sslTag} THEN "none" ELSE s.src[t]
    BY <1>4 DEF SrcWithout
  <2>2. s.src[t] \in Callbacks \cup {"none"}
    BY <1>1 DEF State
  <2> QED BY <1>1, <2>1, <2>2 DEF Owned, Callbacks, DelayCallbacks
<1> QED BY <1>3, <1>4, <1>5 DEF Quiet

\* Closing the socket or flushing the queue touches no source.
LEMMA CloseFlushQuiet ==
    ASSUME NEW s, Quiet(s)
    PROVE  /\ Quiet(CloseSok4(s)) /\ CloseSok4(s).alive = s.alive
           /\ Quiet(server_flush_queue(s)) /\ server_flush_queue(s).alive = s.alive
BY DEF Quiet, CloseSok4, server_flush_queue, State

\* server_cleanup leaves no I/O source, whichever of its three branches runs.
LEMMA CleanupQuiet ==
    ASSUME NEW s, IInv(s)
    PROVE  Quiet(server_cleanup(s)) /\ server_cleanup(s).alive = s.alive
<1> DEFINE c == [s EXCEPT !.src = SrcWithout(s, {s.iotag, s.joindelay}),
                          !.iotag = NoTag, !.joindelay = NoTag]
<1>1. s \in State /\ Owned(s)
  BY DEF IInv
<1>2. SrcWithout(s, {s.iotag, s.joindelay}) \in [Tags -> Callbacks \cup {"none"}]
  BY <1>1, SrcType DEF Callbacks
<1>3. c \in State
  BY <1>1, <1>2 DEF State, TagOrNone
<1>4. /\ c.connecting = s.connecting /\ c.connected = s.connected /\ c.alive = s.alive
      /\ c.iotag = NoTag /\ c.joindelay = NoTag /\ c.sslTag = s.sslTag
      /\ c.child = s.child /\ c.report = s.report /\ c.endOfMotd = s.endOfMotd
      /\ c.recondelay = s.recondelay
      /\ c.src = SrcWithout(s, {s.iotag, s.joindelay})
  BY <1>1 DEF State
<1>5. ASSUME NEW t \in Tags
      PROVE  /\ c.src[t] = IF t \in {s.iotag, s.joindelay} THEN "none" ELSE s.src[t]
             /\ s.src[t] \in Callbacks \cup {"none"}
  BY <1>1, <1>4 DEF SrcWithout, State
<1>6. ASSUME NEW t \in Tags
      PROVE  c.src[t] \in DelayCallbacks \cup {"none", "ssl_do_connect"}
  BY <1>1, <1>5 DEF Owned, Callbacks, DelayCallbacks
<1> HIDE DEF c
<1>7. CASE s.connecting
  <2>1. Owned(c) /\ ~c.connected
    BY <1>1, <1>4, <1>5, <1>6, <1>7, NoTagAssumption
       DEF Owned, DelayCallbacks, State, TagOrNone
  <2>2. IInv(c)
    <3>1. Deaf(c)
      BY <1>1, <1>4, <1>5, <1>6 DEF IInv, Deaf, Callbacks, DelayCallbacks
    <3>2. Spare(c)
      BY <1>4, <2>1 DEF IInv, Spare
    <3> QED BY <1>3, <2>1, <3>1, <3>2 DEF IInv
  <2>3. Quiet(server_stopconnecting(c)) /\ server_stopconnecting(c).alive = s.alive
    BY <2>1, <2>2, <1>4, StopConnectingQuiet
  <2> QED BY <1>7, <2>3, CloseFlushQuiet DEF server_cleanup, c
<1>8. CASE ~s.connecting /\ s.connected
  <2> DEFINE r == [c EXCEPT !.sok = "closing", !.connected = FALSE, !.endOfMotd = FALSE]
  <2>1. server_cleanup(s) = r
    BY <1>8 DEF server_cleanup, c
  <2>2. r \in State
    BY <1>3 DEF State
  <2>3. /\ r.connecting = c.connecting /\ r.connected = FALSE /\ r.alive = c.alive
        /\ r.iotag = c.iotag /\ r.joindelay = c.joindelay /\ r.sslTag = c.sslTag
        /\ r.src = c.src /\ r.child = c.child /\ r.report = c.report
    BY <1>3 DEF State
  <2>4. ASSUME NEW t \in Tags PROVE c.src[t] # "ssl_do_connect"
    BY <1>1, <1>5, <1>8 DEF Owned
  <2>5. s.sslTag = NoTag /\ s.child = "none" /\ s.report = "none"
    BY <1>1, <1>8 DEF IInv, Spare, Owned, State, TagOrNone
  <2> HIDE DEF r
  <2> QED BY <1>4, <1>6, <1>8, <2>1, <2>2, <2>3, <2>4, <2>5 DEF Quiet
<1>9. CASE ~s.connecting /\ ~s.connected
  <2> DEFINE r == [c EXCEPT !.src = SrcWithout(c, {c.recondelay}), !.recondelay = NoTag]
  <2>1. server_cleanup(s) = r
    BY <1>4, <1>9 DEF server_cleanup, c
  <2>2. SrcWithout(c, {c.recondelay}) \in [Tags -> Callbacks \cup {"none"}]
    BY <1>3, SrcType DEF Callbacks
  <2>3. r \in State
    BY <1>3, <2>2 DEF State, TagOrNone
  <2>4. /\ r.connecting = c.connecting /\ r.connected = c.connected /\ r.alive = c.alive
        /\ r.iotag = c.iotag /\ r.joindelay = c.joindelay /\ r.sslTag = c.sslTag
        /\ r.src = SrcWithout(c, {c.recondelay})
        /\ r.child = c.child /\ r.report = c.report
    BY <1>3 DEF State
  <2>5. ASSUME NEW t \in Tags
        PROVE  r.src[t] \in DelayCallbacks \cup {"none"}
    <3>1. c.src[t] # "ssl_do_connect"
      BY <1>1, <1>5, <1>9 DEF Owned
    <3> QED BY <1>6, <2>4, <3>1 DEF SrcWithout
  <2>6. s.sslTag = NoTag /\ s.child = "none" /\ s.report = "none"
    BY <1>1, <1>9 DEF IInv, Spare, Owned, State, TagOrNone
  <2> HIDE DEF r
  <2> QED BY <1>4, <1>9, <2>1, <2>3, <2>4, <2>5, <2>6 DEF Quiet
<1> QED BY <1>7, <1>8, <1>9

\* So does server_disconnect.
LEMMA DisconnectQuiet ==
    ASSUME NEW s, IInv(s)
    PROVE  Quiet(server_disconnect(s)) /\ server_disconnect(s).alive = s.alive
BY CleanupQuiet, CloseFlushQuiet DEF server_disconnect

\* A fresh id is that of no source and is named by no field.
LEMMA FreshFacts ==
    ASSUME NEW s, NEW f \in Fresh(s)
    PROVE  /\ f \in Tags /\ s.src[f] = "none" /\ f # NoTag
           /\ f # s.iotag /\ f # s.recondelay /\ f # s.joindelay /\ f # s.sslTag
BY NoTagAssumption DEF Fresh

\* A delay adds a source, but no I/O source.
LEMMA DelayQuiet ==
    ASSUME NEW s, Quiet(s), NEW f \in Tags, NEW cb \in DelayCallbacks
    PROVE  Quiet([s EXCEPT !.recondelay = f, !.src = SrcWith(s, f, cb)])
<1> DEFINE r == [s EXCEPT !.recondelay = f, !.src = SrcWith(s, f, cb)]
<1>1. s \in State
  BY DEF Quiet
<1>2. SrcWith(s, f, cb) \in [Tags -> Callbacks \cup {"none"}]
  BY <1>1, SrcType DEF Callbacks, DelayCallbacks
<1>3. r \in State
  BY <1>1, <1>2 DEF State, TagOrNone
<1>4. /\ r.connecting = s.connecting /\ r.connected = s.connected
      /\ r.iotag = s.iotag /\ r.joindelay = s.joindelay /\ r.sslTag = s.sslTag
      /\ r.child = s.child /\ r.report = s.report /\ r.src = SrcWith(s, f, cb)
  BY <1>1 DEF State
<1>5. ASSUME NEW t \in Tags PROVE r.src[t] \in DelayCallbacks \cup {"none"}
  BY <1>4 DEF Quiet, SrcWith
<1> QED BY <1>3, <1>4, <1>5 DEF Quiet

LEMMA CycleQuiet ==
    ASSUME NEW s, Quiet(s), NEW f \in Tags
    PROVE  Quiet(servlist_cycle(s, f))
BY DelayQuiet DEF servlist_cycle, DelayCallbacks

\* A delay under a fresh id disturbs no other source.
LEMMA DelayInv ==
    ASSUME NEW s, IInv(s), NEW f \in Tags, s.src[f] = "none", NEW cb \in DelayCallbacks
    PROVE  IInv([s EXCEPT !.recondelay = f, !.src = SrcWith(s, f, cb)])
<1> DEFINE r == [s EXCEPT !.recondelay = f, !.src = SrcWith(s, f, cb)]
<1>1. s \in State
  BY DEF IInv
<1>2. SrcWith(s, f, cb) \in [Tags -> Callbacks \cup {"none"}]
  BY <1>1, SrcType DEF Callbacks, DelayCallbacks
<1>3. r \in State
  BY <1>1, <1>2 DEF State, TagOrNone
<1>4. /\ r.connecting = s.connecting /\ r.connected = s.connected /\ r.alive = s.alive
      /\ r.iotag = s.iotag /\ r.joindelay = s.joindelay /\ r.sslTag = s.sslTag
      /\ r.child = s.child /\ r.report = s.report /\ r.endOfMotd = s.endOfMotd
      /\ r.src = SrcWith(s, f, cb) /\ r.recondelay = f
  BY <1>1 DEF State
<1>5. ASSUME NEW t \in Tags PROVE r.src[t] = IF t = f THEN cb ELSE s.src[t]
  BY <1>4 DEF SrcWith
<1>6. /\ s.iotag \in Tags \cup {NoTag} /\ s.sslTag \in Tags \cup {NoTag}
      /\ s.joindelay \in Tags \cup {NoTag} /\ s.recondelay \in Tags \cup {NoTag}
  BY <1>1 DEF State, TagOrNone
<1> HIDE DEF r
<1>7. Owned(r)
  BY <1>4, <1>5, <1>6 DEF IInv, Owned, DelayCallbacks
<1>8. Deaf(r)
  BY <1>4, <1>5 DEF IInv, Deaf, DelayCallbacks
<1>9. Spare(r)
  BY <1>4, <1>5 DEF IInv, Spare, DelayCallbacks
<1> QED BY <1>3, <1>7, <1>8, <1>9 DEF r, IInv

\* A source that has ended was none of those a quiet structure names.
LEMMA EndedQuiet ==
    ASSUME NEW s, Quiet(s), NEW t
    PROVE  Quiet(Ended(s, t))
<1> DEFINE r == Ended(s, t)
<1>1. s \in State
  BY DEF Quiet
<1>2. SrcWithout(s, {t}) \in [Tags -> Callbacks \cup {"none"}]
  BY <1>1, SrcType DEF Callbacks
<1>3. r \in State
  BY <1>1, <1>2 DEF Ended, State
<1>4. /\ r.connecting = s.connecting /\ r.connected = s.connected
      /\ r.iotag = s.iotag /\ r.joindelay = s.joindelay /\ r.sslTag = s.sslTag
      /\ r.child = s.child /\ r.report = s.report /\ r.src = SrcWithout(s, {t})
  BY <1>1 DEF Ended, State
<1>5. ASSUME NEW u \in Tags PROVE r.src[u] \in DelayCallbacks \cup {"none"}
  BY <1>4 DEF Quiet, SrcWithout, DelayCallbacks
<1> QED BY <1>3, <1>4, <1>5 DEF Quiet

\* A source that is no watch of a connection and is named by no I/O field may
\* end.
LEMMA EndedInv ==
    ASSUME NEW s, IInv(s), NEW t, t # s.iotag, t # s.sslTag, t # s.joindelay
    PROVE  IInv(Ended(s, t))
<1> DEFINE r == Ended(s, t)
<1>1. s \in State
  BY DEF IInv
<1>2. SrcWithout(s, {t}) \in [Tags -> Callbacks \cup {"none"}]
  BY <1>1, SrcType DEF Callbacks
<1>3. r \in State
  BY <1>1, <1>2 DEF Ended, State
<1>4. /\ r.connecting = s.connecting /\ r.connected = s.connected /\ r.alive = s.alive
      /\ r.iotag = s.iotag /\ r.joindelay = s.joindelay /\ r.sslTag = s.sslTag
      /\ r.child = s.child /\ r.report = s.report /\ r.endOfMotd = s.endOfMotd
      /\ r.src = SrcWithout(s, {t}) /\ r.recondelay = s.recondelay
  BY <1>1 DEF Ended, State
<1>5. ASSUME NEW u \in Tags PROVE r.src[u] = IF u = t THEN "none" ELSE s.src[u]
  BY <1>4 DEF SrcWithout
<1>6. /\ s.iotag \in Tags \cup {NoTag} /\ s.sslTag \in Tags \cup {NoTag}
      /\ s.joindelay \in Tags \cup {NoTag} /\ s.recondelay \in Tags \cup {NoTag}
  BY <1>1 DEF State, TagOrNone
<1> HIDE DEF r
<1>7. Owned(r)
  BY <1>4, <1>5, <1>6 DEF IInv, Owned
<1>8. Deaf(r)
  BY <1>4, <1>5 DEF IInv, Deaf
<1>9. Spare(r)
  BY <1>4, <1>5 DEF IInv, Spare
<1> QED BY <1>3, <1>7, <1>8, <1>9 DEF IInv, r

\* auto_reconnect, in whatever state it is called.
LEMMA AutoReconnectInv ==
    ASSUME NEW s, IInv(s), NEW f \in Fresh(s)
    PROVE  IInv(auto_reconnect(s, f))
<1> DEFINE d == IF s.connected THEN server_disconnect(s) ELSE s
           e == Ended(d, d.recondelay)
<1>1. auto_reconnect(s, f) =
        [e EXCEPT !.recondelay = f, !.src = SrcWith(e, f, "timeout_auto_reconnect")]
  BY DEF auto_reconnect
<1>2. f \in Tags /\ s.src[f] = "none"
  BY FreshFacts
<1>3. CASE s.connected
  <2>1. Quiet(e)
    BY <1>3, DisconnectQuiet, EndedQuiet
  <2> HIDE DEF e
  <2> QED BY <2>1, <1>1, <1>2, DelayQuiet, QuietInv DEF DelayCallbacks
<1>4. CASE ~s.connected
  <2>1. d = s
    BY <1>4
  <2>2. /\ s.recondelay = NoTag \/ s.recondelay # s.iotag
        /\ s.recondelay = NoTag \/ s.recondelay # s.sslTag
        /\ s.recondelay = NoTag \/ s.recondelay # s.joindelay
    BY DEF IInv, Owned
  <2>3. s \in State
    BY DEF IInv
  <2>4. IInv(e) /\ e.src[f] = "none"
    <3>1. e.src = SrcWithout(s, {s.recondelay})
      BY <2>1, <2>3 DEF Ended, State
    <3>2. e.src[f] = "none"
      BY <1>2, <3>1 DEF SrcWithout
    <3>3. CASE s.recondelay # NoTag
      BY <2>1, <2>2, <3>2, <3>3, EndedInv
    <3>4. CASE s.recondelay = NoTag
      <4>1. s.src \in [Tags -> Callbacks \cup {"none"}]
        BY <2>3 DEF State
      <4>2. SrcWithout(s, {s.recondelay}) = s.src
        BY <4>1, <3>4, NoTagAssumption DEF SrcWithout
      <4>3. e = s
        BY <2>1, <2>3, <4>2 DEF Ended, State
      <4> QED BY <3>2, <4>3
    <3> QED BY <3>3, <3>4
  <2> HIDE DEF e
  <2> QED BY <1>1, <1>2, <2>4, DelayInv DEF DelayCallbacks
<1> QED BY <1>3, <1>4
\* What server_connect starts from: no connection, no attempt, f still fresh.
LEMMA ConnectStart ==
    ASSUME NEW s, IInv(s), s.alive, ~s.connecting, ~s.connected, s.sslTag = NoTag,
           NEW f \in Tags, s.src[f] = "none", s.recondelay # f, NEW o
    PROVE  LET e == [server_flush_queue(s) EXCEPT !.connecting = TRUE,
                                                  !.endOfMotd = FALSE]
               p == [e EXCEPT !.pipe = "open", !.sok = "open"]
           IN /\ IInv(e) /\ IInv(p)
              /\ IInv([p EXCEPT !.child = "running", !.iotag = f,
                                !.src = SrcWith(p, f, "server_read_child")])
<1> DEFINE e == [server_flush_queue(s) EXCEPT !.connecting = TRUE, !.endOfMotd = FALSE]
           p == [e EXCEPT !.pipe = "open", !.sok = "open"]
           w == [p EXCEPT !.child = "running", !.iotag = f,
                          !.src = SrcWith(p, f, "server_read_child")]
<1>1. s \in State
  BY DEF IInv
<1>2. /\ s.iotag \in Tags \cup {NoTag} /\ s.sslTag \in Tags \cup {NoTag}
      /\ s.joindelay \in Tags \cup {NoTag} /\ s.recondelay \in Tags \cup {NoTag}
  BY <1>1 DEF State, TagOrNone
<1>3. e \in State /\ p \in State
  BY <1>1 DEF server_flush_queue, State
<1>4. /\ e.connecting = TRUE /\ e.connected = s.connected /\ e.alive = s.alive
      /\ e.iotag = s.iotag /\ e.joindelay = s.joindelay /\ e.sslTag = s.sslTag
      /\ e.recondelay = s.recondelay /\ e.src = s.src
      /\ e.child = s.child /\ e.report = s.report
  BY <1>1 DEF server_flush_queue, State
<1>5. /\ p.connecting = TRUE /\ p.connected = s.connected /\ p.alive = s.alive
      /\ p.iotag = s.iotag /\ p.joindelay = s.joindelay /\ p.sslTag = s.sslTag
      /\ p.recondelay = s.recondelay /\ p.src = s.src
      /\ p.child = s.child /\ p.report = s.report
  BY <1>1 DEF server_flush_queue, State
<1>6. IInv(e) /\ IInv(p)
  <2> HIDE DEF e, p
  <2>1. Owned(e) /\ Owned(p)
    BY <1>2, <1>4, <1>5 DEF IInv, Owned
  <2> QED BY <1>3, <1>4, <1>5, <2>1, NoTagAssumption DEF IInv, Deaf, Spare
<1>7. SrcWith(p, f, "server_read_child") \in [Tags -> Callbacks \cup {"none"}]
  BY <1>3, SrcType DEF Callbacks
<1> HIDE DEF p
<1>8. w \in State
  BY <1>3, <1>7 DEF State, TagOrNone
<1>9. /\ w.connecting = TRUE /\ w.connected = p.connected /\ w.alive = p.alive
      /\ w.iotag = f /\ w.joindelay = p.joindelay /\ w.sslTag = p.sslTag
      /\ w.recondelay = p.recondelay /\ w.src = SrcWith(p, f, "server_read_child")
      /\ w.child = "running" /\ w.report = p.report
  BY <1>3, <1>5 DEF State
<1>10. ASSUME NEW t \in Tags
       PROVE  w.src[t] = IF t = f THEN "server_read_child" ELSE s.src[t]
  BY <1>5, <1>9 DEF SrcWith
<1> HIDE DEF w
<1>11. ASSUME NEW t \in Tags PROVE s.src[t] # "server_read_child"
  BY DEF IInv, Owned
<1>12. Owned(w)
  BY <1>2, <1>5, <1>9, <1>10, <1>11, NoTagAssumption DEF IInv, Owned
<1>13. IInv(w)
  <2>1. Deaf(w) /\ Spare(w)
    BY <1>5, <1>9 DEF IInv, Deaf, Spare
  <2> QED BY <1>8, <1>12, <2>1 DEF IInv
<1> QED BY <1>6, <1>13 DEF w, p

\* An id that was fresh before server_disconnect still is.
LEMMA DisconnectFresh ==
    ASSUME NEW s, IInv(s), NEW f \in Fresh(s)
    PROVE  server_disconnect(s).src[f] = "none" /\ server_disconnect(s).recondelay # f
<1>1. f \in Tags /\ s.src[f] = "none" /\ f # NoTag /\ f # s.recondelay
  BY FreshFacts
<1>2. s \in State
  BY DEF IInv
<1>3. ASSUME NEW c, c.src[f] = "none", NEW ts
      PROVE  SrcWithout(c, ts)[f] = "none"
  BY <1>1, <1>3 DEF SrcWithout
<1> DEFINE c == [s EXCEPT !.src = SrcWithout(s, {s.iotag, s.joindelay}),
                          !.iotag = NoTag, !.joindelay = NoTag]
<1>4. server_cleanup(s).src[f] = "none" /\ server_cleanup(s).recondelay # f
  <2>1. c \in State
    BY <1>2, SrcType DEF State, TagOrNone, Callbacks
  <2>2. c.src[f] = "none" /\ c.recondelay = s.recondelay
    BY <1>1, <1>2, <1>3 DEF State
  <2> DEFINE R(ts) == SrcWithout(c, ts)
  <2>3. server_cleanup(s) =
          IF s.connecting THEN CloseSok4(server_stopconnecting(c))
          ELSE IF s.connected
               THEN [c EXCEPT !.sok = "closing", !.connected = FALSE, !.endOfMotd = FALSE]
          ELSE [c EXCEPT !.src = R({s.recondelay}), !.recondelay = NoTag]
    BY DEF server_cleanup
  <2>4. \A ts : R(ts)[f] = "none"
    BY <2>2, <1>3
  <2>5. CloseSok4(server_stopconnecting(c)).src = R({c.iotag, c.joindelay, c.sslTag})
    BY <2>1 DEF CloseSok4, server_stopconnecting, State
  <2>6. CloseSok4(server_stopconnecting(c)).recondelay = c.recondelay
    BY <2>1 DEF CloseSok4, server_stopconnecting, State
  <2> HIDE DEF c, R
  <2> QED BY <1>1, <2>1, <2>2, <2>3, <2>4, <2>5, <2>6 DEF State
<1>5. server_cleanup(s) \in State
  BY CleanupQuiet DEF Quiet
<1> QED BY <1>4, <1>5 DEF server_disconnect, server_flush_queue, State

\* server_connect.
LEMMA ConnectInv ==
    ASSUME NEW s, IInv(s), s.alive, NEW f \in Fresh(s), NEW o
    PROVE  IInv(server_connect(s, f, o))
<1> DEFINE d == IF s.connected \/ s.connecting \/ s.recondelay # NoTag
                THEN server_disconnect(s) ELSE s
<1>1. f \in Tags /\ s.src[f] = "none" /\ f # NoTag /\ f # s.recondelay
  BY FreshFacts
<1>2. s \in State
  BY DEF IInv
<1>3. CASE s.connected \/ s.connecting \/ s.recondelay # NoTag
  <2>1. Quiet(d) /\ d.alive
    BY <1>3, DisconnectQuiet
  <2>2. IInv(d) /\ ~d.connecting /\ ~d.connected /\ d.sslTag = NoTag
    BY <2>1, QuietInv DEF Quiet
  <2>3. d.src[f] = "none" /\ d.recondelay # f
    BY <1>3, DisconnectFresh
  <2> HIDE DEF d
  <2> QED BY <1>1, <2>1, <2>2, <2>3, ConnectStart DEF server_connect, d
<1>4. CASE ~(s.connected \/ s.connecting \/ s.recondelay # NoTag)
  <2>1. d = s
    BY <1>4
  <2>2. s.sslTag = NoTag
    BY <1>2, <1>4 DEF IInv, Owned, State, TagOrNone
  <2> QED BY <1>1, <1>4, <2>1, <2>2, ConnectStart DEF server_connect
<1> QED BY <1>3, <1>4

\* server_connected, on a structure whose attempt has been cleaned up.
LEMMA ConnectedInv ==
    ASSUME NEW s, Quiet(s), s.alive, NEW f \in Tags, s.recondelay # f
    PROVE  IInv(server_connected(s, f))
<1> DEFINE r == server_connected(s, f)
<1>1. s \in State
  BY DEF Quiet
<1>2. SrcWith(s, f, "server_read") \in [Tags -> Callbacks \cup {"none"}]
  BY <1>1, SrcType DEF Callbacks
<1>3. r \in State
  BY <1>1, <1>2 DEF server_connected, State, TagOrNone
<1>4. /\ r.connecting = s.connecting /\ r.connected = TRUE /\ r.alive = s.alive
      /\ r.iotag = f /\ r.joindelay = s.joindelay /\ r.sslTag = s.sslTag
      /\ r.recondelay = s.recondelay /\ r.src = SrcWith(s, f, "server_read")
      /\ r.child = s.child /\ r.report = s.report
  BY <1>1 DEF server_connected, State
<1>5. ASSUME NEW t \in Tags PROVE r.src[t] = IF t = f THEN "server_read" ELSE s.src[t]
  BY <1>4 DEF SrcWith
<1>6. s.recondelay \in Tags \cup {NoTag}
  BY <1>1 DEF State, TagOrNone
<1> HIDE DEF r
<1>7. Owned(r)
  BY <1>4, <1>5, <1>6 DEF Quiet, Owned, DelayCallbacks
<1>8. Deaf(r) /\ Spare(r)
  BY <1>4, <1>5 DEF Quiet, Deaf, Spare, DelayCallbacks
<1> QED BY <1>3, <1>7, <1>8 DEF IInv, r
\* The invariant does not depend on the host, the network, the queue, the
\* socket or the pipe.
LEMMA SameInv ==
    ASSUME NEW s, IInv(s), NEW r \in State,
           r.alive = s.alive, r.connecting = s.connecting, r.connected = s.connected,
           r.endOfMotd = s.endOfMotd, r.iotag = s.iotag, r.recondelay = s.recondelay,
           r.joindelay = s.joindelay, r.sslTag = s.sslTag, r.src = s.src,
           r.child = s.child, r.report = s.report
    PROVE  IInv(r)
BY DEF IInv, Owned, Deaf, Spare

-----------------------------------------------------------------------------
(* One lemma per action.                                                   *)

LEMMA UserServerInv == IInv(st) /\ UserServer => IInv(st')
<1> SUFFICES ASSUME IInv(st), st.alive,
                    NEW n \in BOOLEAN, NEW ssl \in BOOLEAN, NEW o, NEW f \in Fresh(st),
                    st' = [server_connect([st EXCEPT !.host = TRUE, !.useSsl = ssl], f, o)
                             EXCEPT !.net = n]
             PROVE  IInv(st')
  BY DEF UserServer, User
<1> DEFINE s == [st EXCEPT !.host = TRUE, !.useSsl = ssl]
           r == server_connect(s, f, o)
<1>1. st \in State
  BY DEF IInv
<1>2. s \in State
  BY <1>1 DEF State
<1>3. IInv(s) /\ s.alive /\ f \in Fresh(s)
  <2>1. /\ s.alive = st.alive /\ s.connecting = st.connecting
        /\ s.connected = st.connected /\ s.endOfMotd = st.endOfMotd
        /\ s.iotag = st.iotag /\ s.recondelay = st.recondelay
        /\ s.joindelay = st.joindelay /\ s.sslTag = st.sslTag /\ s.src = st.src
        /\ s.child = st.child /\ s.report = st.report
    BY <1>1 DEF State
  <2> HIDE DEF s
  <2> QED BY <1>2, <2>1, SameInv DEF Fresh
<1> HIDE DEF s
<1>4. IInv(r)
  BY <1>3, ConnectInv
<1>5. st' = [r EXCEPT !.net = n]
  BY DEF s
<1> HIDE DEF r
<1>6. r \in State
  BY <1>4 DEF IInv
<1>7. [r EXCEPT !.net = n] \in State
  BY <1>6 DEF State
<1>8. /\ st'.alive = r.alive /\ st'.connecting = r.connecting
      /\ st'.connected = r.connected /\ st'.endOfMotd = r.endOfMotd
      /\ st'.iotag = r.iotag /\ st'.recondelay = r.recondelay
      /\ st'.joindelay = r.joindelay /\ st'.sslTag = r.sslTag /\ st'.src = r.src
      /\ st'.child = r.child /\ st'.report = r.report
  BY <1>5, <1>6 DEF State
<1> QED BY <1>4, <1>5, <1>7, <1>8, SameInv

LEMMA UserDisconInv == IInv(st) /\ UserDiscon => IInv(st')
BY DisconnectQuiet, QuietInv DEF UserDiscon

LEMMA UserReconnectInv == IInv(st) /\ UserReconnect => IInv(st')
<1> SUFFICES ASSUME IInv(st), NEW h \in BOOLEAN, NEW ssl \in BOOLEAN,
                    NEW f \in Fresh(st),
                    st' = auto_reconnect([st EXCEPT !.host = @ \/ h,
                                           !.useSsl = IF h THEN ssl ELSE @], f)
             PROVE  IInv(st')
  BY DEF UserReconnect
<1> DEFINE s == [st EXCEPT !.host = @ \/ h,
                          !.useSsl = IF h THEN ssl ELSE @]
<1>1. st \in State
  BY DEF IInv
<1>2. s \in State
  BY <1>1 DEF State
<1>3. /\ s.alive = st.alive /\ s.connecting = st.connecting
      /\ s.connected = st.connected /\ s.endOfMotd = st.endOfMotd
      /\ s.iotag = st.iotag /\ s.recondelay = st.recondelay
      /\ s.joindelay = st.joindelay /\ s.sslTag = st.sslTag /\ s.src = st.src
      /\ s.child = st.child /\ s.report = st.report
  BY <1>1 DEF State
<1>4. st' = auto_reconnect(s, f)
  OBVIOUS
<1> HIDE DEF s
<1> QED BY <1>2, <1>3, <1>4, SameInv, AutoReconnectInv DEF Fresh

LEMMA UserCloseInv == IInv(st) /\ UserClose => IInv(st')
<1> SUFFICES ASSUME IInv(st), st' = server_free(st)
             PROVE  IInv(st')
  BY DEF UserClose
<1> DEFINE c == server_flush_queue(server_cleanup(st))
<1>1. Quiet(c)
  BY CleanupQuiet, CloseFlushQuiet
<1>2. st' = [c EXCEPT !.alive = FALSE]
  BY DEF server_free
<1> HIDE DEF c
<1>3. Quiet(st')
  BY <1>1, <1>2 DEF Quiet, State
<1> QED BY <1>3, QuietInv

LEMMA NetRemovedInv == IInv(st) /\ NetRemoved => IInv(st')
<1> SUFFICES ASSUME IInv(st), st' = [st EXCEPT !.net = FALSE]
             PROVE  IInv(st')
  BY DEF NetRemoved
<1>1. st \in State
  BY DEF IInv
<1>2. st' \in State
  BY <1>1 DEF State
<1>3. /\ st'.alive = st.alive /\ st'.connecting = st.connecting
      /\ st'.connected = st.connected /\ st'.endOfMotd = st.endOfMotd
      /\ st'.iotag = st.iotag /\ st'.recondelay = st.recondelay
      /\ st'.joindelay = st.joindelay /\ st'.sslTag = st.sslTag /\ st'.src = st.src
      /\ st'.child = st.child /\ st'.report = st.report
  BY <1>1 DEF State
<1> QED BY <1>2, <1>3, SameInv

LEMMA QueueInv == IInv(st) /\ (QueueFills \/ QueueDrains) => IInv(st')
<1> SUFFICES ASSUME IInv(st), NEW b \in BOOLEAN, st' = [st EXCEPT !.outq = b]
             PROVE  IInv(st')
  BY DEF QueueFills, QueueDrains
<1>1. st \in State
  BY DEF IInv
<1>2. st' \in State
  BY <1>1 DEF State
<1>3. /\ st'.alive = st.alive /\ st'.connecting = st.connecting
      /\ st'.connected = st.connected /\ st'.endOfMotd = st.endOfMotd
      /\ st'.iotag = st.iotag /\ st'.recondelay = st.recondelay
      /\ st'.joindelay = st.joindelay /\ st'.sslTag = st.sslTag /\ st'.src = st.src
      /\ st'.child = st.child /\ st'.report = st.report
  BY <1>1 DEF State
<1> QED BY <1>2, <1>3, SameInv

\* The child can only report while it runs, so no SSL poll is under way.
LEMMA ChildReportsInv == IInv(st) /\ ChildReports => IInv(st')
<1> SUFFICES ASSUME IInv(st), st.child = "running", NEW x \in {"1", "2", "4", "8"},
                    st' = [st EXCEPT !.report = x, !.child = "done"]
             PROVE  IInv(st')
  BY DEF ChildReports
<1>1. st \in State /\ st.sslTag = NoTag
  BY DEF IInv, Spare
<1>2. st' \in State
  BY <1>1 DEF State
<1>3. /\ st'.alive = st.alive /\ st'.connecting = st.connecting
      /\ st'.connected = st.connected /\ st'.endOfMotd = st.endOfMotd
      /\ st'.iotag = st.iotag /\ st'.recondelay = st.recondelay
      /\ st'.joindelay = st.joindelay /\ st'.sslTag = st.sslTag /\ st'.src = st.src
  BY <1>1 DEF State
<1>4. Owned(st')
  BY <1>3 DEF IInv, Owned
<1> QED BY <1>1, <1>2, <1>3, <1>4 DEF IInv, Deaf, Spare

\* auto_reconnect of an idle structure; f need not be fresh.
LEMMA AutoReconnectQuiet ==
    ASSUME NEW s, Quiet(s), NEW f \in Tags
    PROVE  Quiet(auto_reconnect(s, f))
<1>1. ~s.connected
  BY DEF Quiet
<1>2. Quiet(Ended(s, s.recondelay))
  BY EndedQuiet
<1> QED BY <1>1, <1>2, DelayQuiet DEF auto_reconnect, DelayCallbacks

LEMMA ConnectFailedInv ==
    ASSUME IInv(st), NEW t \in Tags, ConnectFailed(t)
    PROVE  IInv(st')
<1> DEFINE s == CloseSok4(server_stopconnecting(st))
<1>1. ~st.connected
  BY DEF ConnectFailed, Dispatch, IInv, Owned
<1>2. Quiet(s)
  BY <1>1, StopConnectingQuiet, CloseFlushQuiet
<1>3. \/ \E f \in Fresh(st) : st' = servlist_cycle(s, f) \/ st' = auto_reconnect(s, f)
      \/ st' = s
  BY DEF ConnectFailed
<1> HIDE DEF s
<1>4. Quiet(st')
  BY <1>2, <1>3, FreshFacts, CycleQuiet, AutoReconnectQuiet
<1> QED BY <1>4, QuietInv

LEMMA DropInv ==
    ASSUME IInv(st), NEW t \in Tags, ProxyFailed(t) \/ SslSetupFailed(t) \/ SslBadCert(t)
    PROVE  IInv(st')
<1>1. Quiet(server_disconnect(st)) /\ Quiet(server_cleanup(st))
  BY DisconnectQuiet, CleanupQuiet
<1>2. Quiet(st')
  BY <1>1, EndedQuiet DEF ProxyFailed, SslSetupFailed, SslBadCert
<1> QED BY <1>2, QuietInv

\* The connection is up: the attempt is cleaned up, then the socket watched.
LEMMA UpInv ==
    ASSUME IInv(st), st.connecting, st.alive, NEW f \in Fresh(st)
    PROVE  LET r == server_connected(server_stopconnecting(st), f)
           IN IInv(r) /\ r.iotag = f /\ r.sslTag = NoTag /\ r.joindelay = NoTag
<1> DEFINE q == server_stopconnecting(st)
<1>1. ~st.connected /\ st \in State
  BY DEF IInv, Owned
<1>2. Quiet(q) /\ q.alive
  BY <1>1, StopConnectingQuiet
<1>3. q.recondelay = st.recondelay
  BY <1>1 DEF server_stopconnecting, State
<1> HIDE DEF q
<1>4. f \in Tags /\ q.recondelay # f
  BY <1>3, FreshFacts
<1>5. IInv(server_connected(q, f))
  BY <1>2, <1>4, ConnectedInv
<1>6. q \in State /\ q.sslTag = NoTag /\ q.joindelay = NoTag
  BY <1>2 DEF Quiet
<1>7. /\ server_connected(q, f).iotag = f /\ server_connected(q, f).sslTag = NoTag
      /\ server_connected(q, f).joindelay = NoTag
  BY <1>6 DEF server_connected, State
<1> QED BY <1>5, <1>7 DEF q

LEMMA ConnectSucceededInv ==
    ASSUME IInv(st), NEW t \in Tags, ConnectSucceeded(t)
    PROVE  IInv(st')
<1>1. st \in State /\ st.connecting /\ ~st.connected /\ st.alive /\ st.report = "4"
  BY DEF IInv, Owned, Deaf, ConnectSucceeded, Dispatch
<1>2. PICK f \in Fresh(st) :
         st' = IF st.useSsl
               THEN [st EXCEPT !.report = "none", !.sslTag = f,
                               !.src = SrcWith(st, f, "ssl_do_connect")]
               ELSE server_connected(server_stopconnecting(st), f)
  BY DEF ConnectSucceeded
<1>3. CASE ~st.useSsl
  BY <1>1, <1>2, <1>3, UpInv
<1>4. CASE st.useSsl
  <2>1. st' = [st EXCEPT !.report = "none", !.sslTag = f,
                         !.src = SrcWith(st, f, "ssl_do_connect")]
    BY <1>2, <1>4
  <2>2. SrcWith(st, f, "ssl_do_connect") \in [Tags -> Callbacks \cup {"none"}]
    BY <1>1, SrcType DEF Callbacks
  <2>3. /\ f \in Tags /\ st.src[f] = "none" /\ f # NoTag
        /\ f # st.iotag /\ f # st.recondelay /\ f # st.joindelay
    BY FreshFacts
  <2>4. st' \in State
    BY <1>1, <2>1, <2>2, <2>3 DEF State, TagOrNone
  <2>5. /\ st'.alive = st.alive /\ st'.connecting = st.connecting
        /\ st'.connected = st.connected /\ st'.endOfMotd = st.endOfMotd
        /\ st'.iotag = st.iotag /\ st'.recondelay = st.recondelay
        /\ st'.joindelay = st.joindelay /\ st'.sslTag = f
        /\ st'.src = SrcWith(st, f, "ssl_do_connect")
        /\ st'.child = st.child /\ st'.report = "none"
    BY <1>1, <2>1 DEF State
  <2>6. ASSUME NEW u \in Tags
        PROVE  st'.src[u] = IF u = f THEN "ssl_do_connect" ELSE st.src[u]
    BY <2>5 DEF SrcWith
  <2>7. st.sslTag = NoTag /\ st.child = "done"
    BY <1>1 DEF IInv, Spare
  <2>8. ASSUME NEW u \in Tags PROVE st.src[u] # "ssl_do_connect"
    BY <2>7, NoTagAssumption DEF IInv, Owned
  <2>9. /\ st.iotag \in Tags \cup {NoTag} /\ st.joindelay \in Tags \cup {NoTag}
        /\ st.recondelay \in Tags \cup {NoTag}
    BY <1>1 DEF State, TagOrNone
  <2>10. Owned(st')
    BY <1>1, <2>3, <2>5, <2>6, <2>8, <2>9 DEF IInv, Owned
  <2>11. Deaf(st')
    BY <1>1, <2>5 DEF Deaf
  <2>12. Spare(st')
    BY <1>1, <2>5, <2>7 DEF Spare
  <2> QED BY <2>4, <2>10, <2>11, <2>12 DEF IInv
<1> QED BY <1>3, <1>4

LEMMA SslUpInv ==
    ASSUME IInv(st), NEW t \in Tags, SslUp(t)
    PROVE  IInv(st')
<1>1. PICK f \in Fresh(st) :
         st' = Ended(server_connected(server_stopconnecting(st), f), t)
  BY DEF SslUp
<1>2. st.connecting /\ st.alive /\ st.src[t] = "ssl_do_connect"
  BY DEF IInv, Owned, Deaf, SslUp, Dispatch
<1> DEFINE r == server_connected(server_stopconnecting(st), f)
<1>3. IInv(r) /\ r.iotag = f /\ r.sslTag = NoTag /\ r.joindelay = NoTag
  BY <1>2, UpInv
<1>4. t # f /\ t # NoTag
  BY <1>2, FreshFacts, NoTagAssumption
<1> HIDE DEF r
<1>5. IInv(Ended(r, t))
  BY <1>3, <1>4, EndedInv
<1> QED BY <1>1, <1>5 DEF r

LEMMA SslFailedInv ==
    ASSUME IInv(st), NEW t \in Tags, SslFailed(t)
    PROVE  IInv(st')
<1> DEFINE s == Ended(server_cleanup(st), t)
<1>1. Quiet(s)
  BY CleanupQuiet, EndedQuiet
<1>2. (\E f \in Fresh(st) : st' = auto_reconnect(s, f)) \/ st' = s
  BY DEF SslFailed
<1> HIDE DEF s
<1>3. Quiet(st')
  BY <1>1, <1>2, FreshFacts, AutoReconnectQuiet
<1> QED BY <1>3, QuietInv

LEMMA ConnectionLostInv ==
    ASSUME IInv(st), NEW t \in Tags, ConnectionLost(t)
    PROVE  IInv(st')
<1>1. \/ \E f \in Fresh(st) : \/ st' = servlist_cycle(server_disconnect(st), f)
                              \/ st' = auto_reconnect(st, f)
      \/ st' = server_disconnect(st)
  BY DEF ConnectionLost
<1>2. CASE \E f \in Fresh(st) : st' = auto_reconnect(st, f)
  BY <1>2, AutoReconnectInv
<1>3. CASE \E f \in Fresh(st) : st' = servlist_cycle(server_disconnect(st), f)
  BY <1>3, DisconnectQuiet, CycleQuiet, QuietInv, FreshFacts
<1>4. CASE st' = server_disconnect(st)
  BY <1>4, DisconnectQuiet, QuietInv
<1> QED BY <1>1, <1>2, <1>3, <1>4

LEMMA PingTimeoutInv == IInv(st) /\ PingTimeout => IInv(st')
BY AutoReconnectInv DEF PingTimeout

\* The end of the MOTD, with or without the JOIN timer, on a structure that
\* has none.
LEMMA LoginEndInv ==
    ASSUME NEW s, IInv(s), s.alive, NEW f \in Tags, s.src[f] = "none", s.recondelay # f,
           \A t \in Tags : s.src[t] # "check_autojoin_channels"
    PROVE  LET e == [s EXCEPT !.endOfMotd = TRUE]
           IN /\ IInv(e)
              /\ IInv([e EXCEPT !.joindelay = f,
                                !.src = SrcWith(e, f, "check_autojoin_channels")])
<1> DEFINE e == [s EXCEPT !.endOfMotd = TRUE]
           j == [e EXCEPT !.joindelay = f,
                          !.src = SrcWith(e, f, "check_autojoin_channels")]
<1>1. s \in State
  BY DEF IInv
<1>2. e \in State
  BY <1>1 DEF State
<1>3. /\ e.alive = s.alive /\ e.connecting = s.connecting /\ e.connected = s.connected
      /\ e.iotag = s.iotag /\ e.recondelay = s.recondelay /\ e.endOfMotd = TRUE
      /\ e.joindelay = s.joindelay /\ e.sslTag = s.sslTag /\ e.src = s.src
      /\ e.child = s.child /\ e.report = s.report
  BY <1>1 DEF State
<1> HIDE DEF e
<1>4. IInv(e)
  BY <1>2, <1>3 DEF IInv, Owned, Deaf, Spare
<1>5. SrcWith(e, f, "check_autojoin_channels") \in [Tags -> Callbacks \cup {"none"}]
  BY <1>2, SrcType DEF Callbacks
<1>6. j \in State
  BY <1>2, <1>5 DEF State, TagOrNone
<1>7. /\ j.alive = e.alive /\ j.connecting = e.connecting /\ j.connected = e.connected
      /\ j.iotag = e.iotag /\ j.recondelay = e.recondelay /\ j.endOfMotd = TRUE
      /\ j.joindelay = f /\ j.sslTag = e.sslTag
      /\ j.src = SrcWith(e, f, "check_autojoin_channels")
      /\ j.child = e.child /\ j.report = e.report
  BY <1>2, <1>3 DEF State
<1>8. ASSUME NEW t \in Tags
      PROVE  j.src[t] = IF t = f THEN "check_autojoin_channels" ELSE s.src[t]
  BY <1>3, <1>7 DEF SrcWith
<1>9. /\ s.iotag \in Tags \cup {NoTag} /\ s.sslTag \in Tags \cup {NoTag}
      /\ s.recondelay \in Tags \cup {NoTag}
  BY <1>1 DEF State, TagOrNone
<1> HIDE DEF j
<1>10. Owned(j)
  BY <1>3, <1>7, <1>8, <1>9 DEF IInv, Owned
<1>11. Deaf(j) /\ Spare(j)
  BY <1>3, <1>7 DEF IInv, Deaf, Spare
<1> QED BY <1>4, <1>6, <1>10, <1>11 DEF IInv, j, e

LEMMA MotdEndInv ==
    ASSUME IInv(st), NEW t \in Tags, MotdEnd(t)
    PROVE  IInv(st')
<1>1. PICK cmd \in EomCommands, f \in Fresh(st), delay \in BOOLEAN :
         LET s == IF cmd = "discon" THEN server_disconnect(st) ELSE st
             e == [s EXCEPT !.endOfMotd = TRUE]
         IN st' = IF delay
                  THEN [e EXCEPT !.joindelay = f,
                          !.src = SrcWith(e, f, "check_autojoin_channels")]
                  ELSE e
  BY DEF MotdEnd
<1> DEFINE s == IF cmd = "discon" THEN server_disconnect(st) ELSE st
<1>2. st.alive /\ st.connected /\ ~st.endOfMotd
  BY DEF IInv, Owned, Deaf, MotdEnd, Dispatch
<1>3. f \in Tags /\ st.src[f] = "none" /\ st.recondelay # f
  BY FreshFacts
<1>4. /\ IInv(s) /\ s.alive /\ s.src[f] = "none" /\ s.recondelay # f
      /\ \A u \in Tags : s.src[u] # "check_autojoin_channels"
  <2>1. CASE cmd = "discon"
    <3>1. Quiet(s) /\ s.alive
      BY <1>2, <2>1, DisconnectQuiet
    <3>2. s.src[f] = "none" /\ s.recondelay # f
      BY <2>1, DisconnectFresh
    <3> HIDE DEF s
    <3> QED BY <3>1, <3>2, QuietInv DEF Quiet, DelayCallbacks
  <2>2. CASE cmd # "discon"
    BY <1>2, <1>3, <2>2 DEF IInv, Spare
  <2> QED BY <2>1, <2>2
<1> HIDE DEF s
<1> QED BY <1>1, <1>3, <1>4, LoginEndInv DEF s

\* The JOIN timer is used up, by firing or by an early identification.
LEMMA JoinDoneInv ==
    ASSUME NEW s, IInv(s), NEW t \in Tags, s.joindelay = t
    PROVE  IInv([Ended(s, t) EXCEPT !.joindelay = NoTag, !.outq = TRUE])
<1> DEFINE r == [Ended(s, t) EXCEPT !.joindelay = NoTag, !.outq = TRUE]
<1>1. s \in State
  BY DEF IInv
<1>2. SrcWithout(s, {t}) \in [Tags -> Callbacks \cup {"none"}]
  BY <1>1, SrcType DEF Callbacks
<1>3. r \in State
  BY <1>1, <1>2 DEF Ended, State, TagOrNone
<1>4. /\ r.connecting = s.connecting /\ r.connected = s.connected /\ r.alive = s.alive
      /\ r.iotag = s.iotag /\ r.joindelay = NoTag /\ r.sslTag = s.sslTag
      /\ r.child = s.child /\ r.report = s.report /\ r.endOfMotd = s.endOfMotd
      /\ r.src = SrcWithout(s, {t}) /\ r.recondelay = s.recondelay
  BY <1>1 DEF Ended, State
<1>5. ASSUME NEW u \in Tags PROVE r.src[u] = IF u = t THEN "none" ELSE s.src[u]
  BY <1>4 DEF SrcWithout
<1>6. /\ s.iotag \in Tags \cup {NoTag} /\ s.sslTag \in Tags \cup {NoTag}
      /\ s.recondelay \in Tags \cup {NoTag} /\ t # NoTag
      /\ s.src[t] = "check_autojoin_channels"
  BY <1>1, NoTagAssumption DEF IInv, Owned, State, TagOrNone
<1> HIDE DEF r
<1>7. Owned(r)
  BY <1>4, <1>5, <1>6 DEF IInv, Owned
<1>8. Deaf(r) /\ Spare(r)
  BY <1>4, <1>5 DEF IInv, Deaf, Spare
<1> QED BY <1>3, <1>7, <1>8 DEF IInv, r

LEMMA IdentifiedInv ==
    ASSUME IInv(st), NEW t \in Tags, Identified(t)
    PROVE  IInv(st')
<1>1. st.joindelay \in Tags
  BY DEF Identified, IInv, State, TagOrNone
<1> QED BY <1>1, JoinDoneInv DEF Identified

LEMMA FireAutojoinInv ==
    ASSUME IInv(st), NEW t \in Tags, FireAutojoin(t)
    PROVE  IInv(st')
<1>1. st.joindelay = t /\ st.alive
  BY DEF FireAutojoin, Dispatch, IInv, Owned, Deaf
<1> QED BY <1>1, JoinDoneInv DEF FireAutojoin

\* A reconnect source ends, its tag cleared or not; a connection follows or
\* not.
LEMMA DelayEndsInv ==
    ASSUME IInv(st), NEW t \in Tags, st.src[t] \in DelayCallbacks
    PROVE  IInv(Ended(st, t)) /\ IInv([Ended(st, t) EXCEPT !.recondelay = NoTag])
<1>1. /\ st.iotag = NoTag \/ st.iotag # t
      /\ st.sslTag = NoTag \/ st.sslTag # t
      /\ st.joindelay = NoTag \/ st.joindelay # t
  BY DEF IInv, Owned, DelayCallbacks
<1>2. IInv(Ended(st, t))
  BY <1>1, EndedInv, NoTagAssumption
<1> DEFINE e == Ended(st, t)
           r == [e EXCEPT !.recondelay = NoTag]
<1> HIDE DEF e
<1>3. e \in State
  BY <1>2 DEF IInv, e
<1>4. r \in State
  BY <1>3 DEF State, TagOrNone
<1>5. /\ r.connecting = e.connecting /\ r.connected = e.connected /\ r.alive = e.alive
      /\ r.iotag = e.iotag /\ r.joindelay = e.joindelay /\ r.sslTag = e.sslTag
      /\ r.child = e.child /\ r.report = e.report /\ r.endOfMotd = e.endOfMotd
      /\ r.src = e.src /\ r.recondelay = NoTag
  BY <1>3 DEF State
<1> HIDE DEF r
<1>6. IInv(r)
  BY <1>2, <1>4, <1>5 DEF IInv, Owned, Deaf, Spare, e
<1> QED BY <1>2, <1>6 DEF r, e

LEMMA FireReconnectInv ==
    ASSUME IInv(st), NEW t \in Tags, FireReconnect(t)
    PROVE  IInv(st')
<1> DEFINE e == Ended(st, t)
           s == [e EXCEPT !.recondelay = NoTag]
<1>1. st.src[t] \in DelayCallbacks /\ st \in State
  BY DEF FireReconnect, Dispatch, DelayCallbacks, IInv
<1>2. IInv(e) /\ IInv(s)
  BY <1>1, DelayEndsInv
<1>3. ASSUME NEW f \in Fresh(st) PROVE f \in Fresh(s)
  <2>1. /\ s.iotag = st.iotag /\ s.joindelay = st.joindelay /\ s.sslTag = st.sslTag
        /\ s.recondelay = NoTag /\ s.src = SrcWithout(st, {t}) /\ s.alive = st.alive
    BY <1>1 DEF Ended, State
  <2>2. /\ f \in Tags /\ st.src[f] = "none" /\ f # NoTag
        /\ f # st.iotag /\ f # st.joindelay /\ f # st.sslTag
    BY FreshFacts
  <2> HIDE DEF s
  <2> QED BY <2>1, <2>2 DEF Fresh, SrcWithout
<1>4. s.alive = st.alive
  BY <1>1 DEF Ended, State
<1>5. \/ st' = e \/ st' = s
      \/ st.alive /\ \E f \in Fresh(st), o \in ConnectOutcomes :
                        st' = server_connect(s, f, o)
  BY DEF FireReconnect
<1> HIDE DEF s, e
<1> QED BY <1>2, <1>3, <1>4, <1>5, ConnectInv

LEMMA FireCycleInv ==
    ASSUME IInv(st), NEW t \in Tags, FireCycle(t)
    PROVE  IInv(st')
<1> DEFINE e == Ended(st, t)
<1>1. st.src[t] \in DelayCallbacks /\ st \in State /\ st.alive
  BY DEF FireCycle, Dispatch, DelayCallbacks, IInv
<1>2. IInv(e) /\ e \in State
  BY <1>1, DelayEndsInv DEF IInv
<1>3. /\ e.iotag = st.iotag /\ e.joindelay = st.joindelay /\ e.sslTag = st.sslTag
      /\ e.recondelay = st.recondelay /\ e.src = SrcWithout(st, {t})
      /\ e.alive = st.alive
  BY <1>1 DEF Ended, State
<1>4. \/ st' = e
      \/ \E f \in Fresh(st), o \in ConnectOutcomes, ssl \in BOOLEAN :
            st' = server_connect([e EXCEPT !.useSsl = ssl, !.host = TRUE], f, o)
  BY DEF FireCycle
<1> HIDE DEF e
<1>5. CASE st' = e
  BY <1>2, <1>5
<1>6. CASE \E f \in Fresh(st), o \in ConnectOutcomes, ssl \in BOOLEAN :
             st' = server_connect([e EXCEPT !.useSsl = ssl, !.host = TRUE], f, o)
  <2>1. PICK f \in Fresh(st), o \in ConnectOutcomes, ssl \in BOOLEAN :
             st' = server_connect([e EXCEPT !.useSsl = ssl, !.host = TRUE], f, o)
    BY <1>6
  <2> DEFINE s == [e EXCEPT !.useSsl = ssl, !.host = TRUE]
  <2>2. s \in State
    BY <1>2 DEF State
  <2>3. /\ s.alive = e.alive /\ s.connecting = e.connecting
        /\ s.connected = e.connected /\ s.endOfMotd = e.endOfMotd
        /\ s.iotag = e.iotag /\ s.recondelay = e.recondelay
        /\ s.joindelay = e.joindelay /\ s.sslTag = e.sslTag /\ s.src = e.src
        /\ s.child = e.child /\ s.report = e.report
    BY <1>2 DEF State
  <2>4. st' = server_connect(s, f, o)
    BY <2>1
  <2> HIDE DEF s
  <2>5. IInv(s)
    BY <1>2, <2>2, <2>3, SameInv
  <2>6. f \in Fresh(s)
    BY <1>3, <2>3 DEF Fresh, SrcWithout
  <2> QED BY <1>1, <1>3, <2>3, <2>4, <2>5, <2>6, ConnectInv
<1> QED BY <1>4, <1>5, <1>6

-----------------------------------------------------------------------------
(* What the functions make of the fields the invariant does not speak of:  *)
(* the descriptors, the queue, the login state and the reconnect delay.    *)

\* server_cleanup.
LEMMA CleanupFields ==
    ASSUME NEW s, IInv(s)
    PROVE  LET r == server_cleanup(s)
           IN /\ Quiet(r)
              /\ r.alive = s.alive /\ r.host = s.host /\ r.net = s.net /\ r.outq = s.outq
              /\ r.endOfMotd => s.endOfMotd /\ ~s.connected
              /\ r.pipe = IF s.connecting THEN "none" ELSE s.pipe
              /\ r.sok = IF s.connecting THEN "none"
                         ELSE IF s.connected THEN "closing" ELSE s.sok
              /\ \A t \in Tags : r.src[t] \in {s.src[t], "none"}
              /\ IF s.connecting \/ s.connected THEN r.recondelay = s.recondelay
                 ELSE /\ r.recondelay = NoTag
                      /\ s.recondelay \in Tags => r.src[s.recondelay] = "none"
<1> DEFINE c == [s EXCEPT !.src = SrcWithout(s, {s.iotag, s.joindelay}),
                          !.iotag = NoTag, !.joindelay = NoTag]
           r == server_cleanup(s)
<1>1. s \in State /\ ~(s.connecting /\ s.connected)
  BY DEF IInv, Owned
<1>2. Quiet(r) /\ r.alive = s.alive
  BY CleanupQuiet
<1>3. c \in State
  BY <1>1, SrcType DEF State, TagOrNone, Callbacks
<1>4. /\ c.host = s.host /\ c.net = s.net /\ c.outq = s.outq /\ c.pipe = s.pipe
      /\ c.sok = s.sok /\ c.endOfMotd = s.endOfMotd /\ c.recondelay = s.recondelay
      /\ c.src = SrcWithout(s, {s.iotag, s.joindelay})
  BY <1>1 DEF State
<1>5. ASSUME NEW t \in Tags PROVE c.src[t] \in {s.src[t], "none"}
  BY <1>4 DEF SrcWithout
<1>6. r = IF s.connecting THEN CloseSok4(server_stopconnecting(c))
          ELSE IF s.connected
               THEN [c EXCEPT !.sok = "closing", !.connected = FALSE, !.endOfMotd = FALSE]
          ELSE [c EXCEPT !.src = SrcWithout(c, {s.recondelay}), !.recondelay = NoTag]
  BY DEF server_cleanup
<1> HIDE DEF c, r
<1>7. CASE s.connecting
  <2>1. /\ r.host = c.host /\ r.net = c.net /\ r.outq = c.outq /\ r.pipe = "none"
        /\ r.sok = "none" /\ r.endOfMotd = c.endOfMotd /\ r.recondelay = c.recondelay
        /\ r.src = SrcWithout(c, {c.iotag, c.joindelay, c.sslTag})
    BY <1>3, <1>6, <1>7 DEF CloseSok4, server_stopconnecting, State
  <2>2. ASSUME NEW t \in Tags PROVE r.src[t] \in {c.src[t], "none"}
    BY <2>1 DEF SrcWithout
  <2> QED BY <1>1, <1>2, <1>4, <1>5, <1>7, <2>1, <2>2 DEF r, State
<1>8. CASE ~s.connecting /\ s.connected
  <2>1. /\ r.host = c.host /\ r.net = c.net /\ r.outq = c.outq /\ r.pipe = c.pipe
        /\ r.sok = "closing" /\ r.endOfMotd = FALSE /\ r.recondelay = c.recondelay
        /\ r.src = c.src
    BY <1>3, <1>6, <1>8 DEF State
  <2> QED BY <1>1, <1>2, <1>4, <1>5, <1>8, <2>1 DEF r, State
<1>9. CASE ~s.connecting /\ ~s.connected
  <2>1. /\ r.host = c.host /\ r.net = c.net /\ r.outq = c.outq /\ r.pipe = c.pipe
        /\ r.sok = c.sok /\ r.endOfMotd = c.endOfMotd /\ r.recondelay = NoTag
        /\ r.src = SrcWithout(c, {s.recondelay})
    BY <1>3, <1>6, <1>9 DEF State
  <2>2. ASSUME NEW t \in Tags
        PROVE r.src[t] = IF t = s.recondelay THEN "none" ELSE c.src[t]
    BY <2>1 DEF SrcWithout
  <2> QED BY <1>1, <1>2, <1>4, <1>5, <1>9, <2>1, <2>2 DEF r, State
<1> QED BY <1>7, <1>8, <1>9

\* server_disconnect flushes the queue of a connection that was up.
LEMMA DisconnectFields ==
    ASSUME NEW s, IInv(s)
    PROVE  LET r == server_disconnect(s)
           IN /\ Quiet(r)
              /\ r.alive = s.alive /\ r.host = s.host /\ r.net = s.net
              /\ r.outq => s.outq /\ ~s.connected
              /\ r.endOfMotd => s.endOfMotd /\ ~s.connected
              /\ r.pipe = IF s.connecting THEN "none" ELSE s.pipe
              /\ r.sok = IF s.connecting THEN "none"
                         ELSE IF s.connected THEN "closing" ELSE s.sok
              /\ \A t \in Tags : r.src[t] \in {s.src[t], "none"}
              /\ IF s.connecting \/ s.connected THEN r.recondelay = s.recondelay
                 ELSE /\ r.recondelay = NoTag
                      /\ s.recondelay \in Tags => r.src[s.recondelay] = "none"
<1> DEFINE c == server_cleanup(s)
           r == server_disconnect(s)
<1>1. ~(s.connecting /\ s.connected)
  BY DEF IInv, Owned
<1>2. Quiet(r)
  BY DisconnectQuiet
<1>3. c \in State
  BY CleanupQuiet DEF Quiet
<1>4. r = c \/ r = [c EXCEPT !.outq = FALSE]
  BY DEF server_disconnect, server_flush_queue
<1>5. s.connected => r = [c EXCEPT !.outq = FALSE]
  BY <1>1 DEF server_disconnect, server_flush_queue
<1> HIDE DEF r, c
<1>6. /\ r.alive = c.alive /\ r.host = c.host /\ r.net = c.net
      /\ r.endOfMotd = c.endOfMotd /\ r.pipe = c.pipe /\ r.sok = c.sok
      /\ r.src = c.src /\ r.recondelay = c.recondelay /\ r.outq \in {c.outq, FALSE}
  BY <1>3, <1>4 DEF State
<1>7. s.connected => ~r.outq
  BY <1>3, <1>5 DEF State
<1>8. /\ c.alive = s.alive /\ c.host = s.host /\ c.net = s.net /\ c.outq = s.outq
      /\ c.endOfMotd => s.endOfMotd /\ ~s.connected
      /\ c.pipe = IF s.connecting THEN "none" ELSE s.pipe
      /\ c.sok = IF s.connecting THEN "none"
                 ELSE IF s.connected THEN "closing" ELSE s.sok
      /\ \A t \in Tags : c.src[t] \in {s.src[t], "none"}
      /\ IF s.connecting \/ s.connected THEN c.recondelay = s.recondelay
         ELSE /\ c.recondelay = NoTag
              /\ s.recondelay \in Tags => c.src[s.recondelay] = "none"
  BY CleanupFields DEF c
<1>9. r.outq => s.outq /\ ~s.connected
  BY <1>6, <1>7, <1>8
<1> QED BY <1>2, <1>6, <1>8, <1>9 DEF r

\* server_connect: an attempt starts from nothing, or nothing happens.
LEMMA ConnectFields ==
    ASSUME NEW s, IInv(s), NEW f \in Fresh(s), NEW o
    PROVE  LET r == server_connect(s, f, o)
           IN /\ ~s.host => r = s
              /\ s.host =>
                    /\ r.alive = s.alive
                    /\ r.connecting /\ ~r.connected /\ ~r.endOfMotd /\ ~r.outq
                    /\ o \notin {"pipe", "fork"} =>
                          r.child = "running" /\ r.pipe = "open" /\ r.sok = "open"
                    /\ s.joindelay = NoTag \/ s.connected => r.joindelay = NoTag
                    /\ \A t \in Tags : r.src[t] \in {s.src[t], "none", "server_read_child"}
                    /\ ~s.connecting /\ ~s.connected /\ s.recondelay \in Tags =>
                          r.src[s.recondelay] \in {"none", "server_read_child"}
<1> DEFINE d == IF s.connected \/ s.connecting \/ s.recondelay # NoTag
                THEN server_disconnect(s) ELSE s
           e == [server_flush_queue(d) EXCEPT !.connecting = TRUE, !.endOfMotd = FALSE]
           p == [e EXCEPT !.pipe = "open", !.sok = "open"]
           w == [p EXCEPT !.child = "running", !.iotag = f,
                          !.src = SrcWith(p, f, "server_read_child")]
           r == server_connect(s, f, o)
<1>1. r = IF ~s.host THEN s ELSE IF o = "pipe" THEN e ELSE IF o = "fork" THEN p ELSE w
  BY DEF server_connect
<1>2. d \in State /\ d.alive = s.alive /\ ~d.connected
  BY DisconnectFields DEF Quiet, IInv
<1>3. s.joindelay = NoTag \/ s.connected => d.joindelay = NoTag
  BY DisconnectQuiet DEF Quiet
<1>4. /\ \A t \in Tags : d.src[t] \in {s.src[t], "none"}
      /\ ~s.connecting /\ ~s.connected /\ s.recondelay \in Tags =>
            d.src[s.recondelay] = "none"
  BY DisconnectFields, NoTagAssumption
<1> HIDE DEF d
<1>5. /\ e \in State /\ e.alive = d.alive /\ e.connecting /\ ~e.connected
      /\ ~e.endOfMotd /\ ~e.outq /\ e.joindelay = d.joindelay /\ e.src = d.src
  BY <1>2 DEF server_flush_queue, State
<1> HIDE DEF e
<1>6. /\ p \in State /\ p.alive = d.alive /\ p.connecting /\ ~p.connected
      /\ ~p.endOfMotd /\ ~p.outq /\ p.joindelay = d.joindelay /\ p.src = d.src
      /\ p.pipe = "open" /\ p.sok = "open"
  BY <1>5 DEF State
<1> HIDE DEF p
<1>7. /\ w.alive = d.alive /\ w.connecting /\ ~w.connected
      /\ ~w.endOfMotd /\ ~w.outq /\ w.joindelay = d.joindelay
      /\ w.pipe = "open" /\ w.sok = "open" /\ w.child = "running"
      /\ w.src = SrcWith(p, f, "server_read_child")
  BY <1>6 DEF State
<1>8. ASSUME NEW t \in Tags PROVE w.src[t] \in {d.src[t], "server_read_child"}
  BY <1>6, <1>7 DEF SrcWith
<1> HIDE DEF w, r
<1>9. CASE s.host
  <2>1. \/ r = e /\ o = "pipe"
        \/ r = p /\ o = "fork"
        \/ r = w
    BY <1>1, <1>9
  <2>2. /\ r.alive = s.alive
        /\ r.connecting /\ ~r.connected /\ ~r.endOfMotd /\ ~r.outq
        /\ o \notin {"pipe", "fork"} =>
              r.child = "running" /\ r.pipe = "open" /\ r.sok = "open"
        /\ s.joindelay = NoTag \/ s.connected => r.joindelay = NoTag
    BY <1>2, <1>3, <1>5, <1>6, <1>7, <2>1
  <2>3. ASSUME NEW t \in Tags PROVE r.src[t] \in {d.src[t], "server_read_child"}
    BY <1>5, <1>6, <1>8, <2>1
  <2>4. \A t \in Tags : r.src[t] \in {s.src[t], "none", "server_read_child"}
    BY <1>4, <2>3
  <2>5. ~s.connecting /\ ~s.connected /\ s.recondelay \in Tags =>
           r.src[s.recondelay] \in {"none", "server_read_child"}
    BY <1>4, <2>3
  <2> QED BY <1>9, <2>2, <2>4, <2>5 DEF r
<1> QED BY <1>1, <1>9 DEF r

\* A source ends.
LEMMA EndedFields ==
    ASSUME NEW s \in State, NEW t
    PROVE  LET r == Ended(s, t)
           IN /\ r \in State
              /\ r.alive = s.alive /\ r.host = s.host /\ r.net = s.net
              /\ r.connecting = s.connecting /\ r.connected = s.connected
              /\ r.endOfMotd = s.endOfMotd /\ r.outq = s.outq
              /\ r.iotag = s.iotag /\ r.sslTag = s.sslTag
              /\ r.recondelay = s.recondelay /\ r.joindelay = s.joindelay
              /\ r.child = s.child /\ r.pipe = s.pipe /\ r.sok = s.sok
              /\ \A u \in Tags : r.src[u] = IF u = t THEN "none" ELSE s.src[u]
<1> DEFINE r == Ended(s, t)
<1>1. SrcWithout(s, {t}) \in [Tags -> Callbacks \cup {"none"}]
  BY SrcType DEF Callbacks
<1>2. r.src = SrcWithout(s, {t})
  BY DEF Ended, State
<1>3. \A u \in Tags : r.src[u] = IF u = t THEN "none" ELSE s.src[u]
  BY <1>2 DEF SrcWithout
<1> QED BY <1>1, <1>3 DEF Ended, State

\* What servlist_cycle and the end of auto_reconnect do.
Delayed(s, f, cb) == [s EXCEPT !.recondelay = f, !.src = SrcWith(s, f, cb)]

LEMMA DelayFields ==
    ASSUME NEW s \in State, NEW f \in Tags, NEW cb \in DelayCallbacks
    PROVE  LET r == Delayed(s, f, cb)
           IN /\ r \in State
              /\ r.alive = s.alive /\ r.host = s.host /\ r.net = s.net
              /\ r.connecting = s.connecting /\ r.connected = s.connected
              /\ r.endOfMotd = s.endOfMotd /\ r.outq = s.outq
              /\ r.recondelay = f /\ r.joindelay = s.joindelay
              /\ r.child = s.child /\ r.pipe = s.pipe /\ r.sok = s.sok
              /\ \A u \in Tags : r.src[u] = IF u = f THEN cb ELSE s.src[u]
<1> DEFINE r == Delayed(s, f, cb)
<1>1. SrcWith(s, f, cb) \in [Tags -> Callbacks \cup {"none"}]
  BY SrcType DEF Callbacks, DelayCallbacks
<1>2. r.src = SrcWith(s, f, cb)
  BY DEF Delayed, State
<1>3. \A u \in Tags : r.src[u] = IF u = f THEN cb ELSE s.src[u]
  BY <1>2 DEF SrcWith
<1> QED BY <1>1, <1>3 DEF Delayed, State, TagOrNone

\* auto_reconnect drops a connection, but not an attempt, and leaves the
\* delay f.
LEMMA AutoReconnectFields ==
    ASSUME NEW s, IInv(s), NEW f \in Tags
    PROVE  LET r == auto_reconnect(s, f)
           IN /\ r.alive = s.alive
              /\ r.connecting = s.connecting /\ ~r.connected
              /\ r.endOfMotd => s.endOfMotd /\ ~s.connected
              /\ r.outq => s.outq /\ ~s.connected
              /\ r.joindelay = IF s.connected THEN NoTag ELSE s.joindelay
              /\ r.recondelay = f
              /\ r.child = s.child /\ r.pipe = s.pipe
              /\ r.sok = IF s.connected THEN "closing" ELSE s.sok
              /\ r.src[f] = "timeout_auto_reconnect"
              /\ \A t \in Tags \ {f} : /\ r.src[t] \in {s.src[t], "none"}
                                       /\ t = s.recondelay => r.src[t] = "none"
<1> DEFINE d == IF s.connected THEN server_disconnect(s) ELSE s
           e == Ended(d, d.recondelay)
           r == auto_reconnect(s, f)
<1>1. r = Delayed(e, f, "timeout_auto_reconnect")
  BY DEF auto_reconnect, Delayed
<1>2. s \in State /\ (s.connected => ~s.connecting /\ s.child = "none")
  BY DEF IInv, Owned, Spare
<1>3. /\ d \in State /\ d.alive = s.alive /\ d.connecting = s.connecting /\ ~d.connected
      /\ d.endOfMotd => s.endOfMotd /\ ~s.connected
      /\ d.outq => s.outq /\ ~s.connected
      /\ d.joindelay = IF s.connected THEN NoTag ELSE s.joindelay
      /\ d.recondelay = s.recondelay /\ d.child = s.child /\ d.pipe = s.pipe
      /\ d.sok = IF s.connected THEN "closing" ELSE s.sok
      /\ \A t \in Tags : d.src[t] \in {s.src[t], "none"}
  <2>1. CASE s.connected
    <3>1. d = server_disconnect(s)
      BY <2>1
    <3>2. Quiet(d) /\ d.alive = s.alive /\ d.recondelay = s.recondelay
          /\ (d.outq => s.outq /\ ~s.connected)
          /\ (d.endOfMotd => s.endOfMotd /\ ~s.connected)
          /\ d.pipe = s.pipe /\ d.sok = "closing"
          /\ \A t \in Tags : d.src[t] \in {s.src[t], "none"}
      BY <1>2, <2>1, <3>1, DisconnectFields
    <3> HIDE DEF d
    <3> QED BY <1>2, <2>1, <3>2 DEF Quiet, State
  <2>2. CASE ~s.connected
    BY <1>2, <2>2
  <2> QED BY <2>1, <2>2
<1> HIDE DEF d
<1>4. /\ e \in State /\ e.alive = d.alive /\ e.connecting = d.connecting
      /\ e.connected = d.connected /\ e.endOfMotd = d.endOfMotd /\ e.outq = d.outq
      /\ e.joindelay = d.joindelay /\ e.child = d.child /\ e.pipe = d.pipe
      /\ e.sok = d.sok
      /\ \A t \in Tags : e.src[t] = IF t = d.recondelay THEN "none" ELSE d.src[t]
  BY <1>3, EndedFields
<1> HIDE DEF e, r
<1>5. /\ r.alive = e.alive /\ r.connecting = e.connecting
      /\ r.connected = e.connected /\ r.endOfMotd = e.endOfMotd /\ r.outq = e.outq
      /\ r.recondelay = f /\ r.joindelay = e.joindelay /\ r.child = e.child
      /\ r.pipe = e.pipe /\ r.sok = e.sok
      /\ \A t \in Tags : r.src[t] = IF t = f THEN "timeout_auto_reconnect" ELSE e.src[t]
  <2>1. "timeout_auto_reconnect" \in DelayCallbacks
    BY DEF DelayCallbacks
  <2> QED BY <1>1, <1>4, <2>1, DelayFields
<1>6. /\ r.src[f] = "timeout_auto_reconnect"
      /\ \A t \in Tags \ {f} : /\ r.src[t] \in {s.src[t], "none"}
                               /\ t = s.recondelay => r.src[t] = "none"
  BY <1>3, <1>4, <1>5
<1> QED BY <1>3, <1>4, <1>5, <1>6 DEF r

\* An attempt that has failed: the child, its pipe and the socket are gone.
LEMMA StoppedFields ==
    ASSUME NEW s, IInv(s), ~s.connected
    PROVE  LET r == CloseSok4(server_stopconnecting(s))
           IN /\ Quiet(r)
              /\ r.alive = s.alive
              /\ r.endOfMotd = s.endOfMotd /\ r.outq = s.outq
              /\ r.recondelay = s.recondelay
              /\ r.pipe = "none" /\ r.sok = "none"
              /\ \A t \in Tags : r.src[t] \in {s.src[t], "none"}
<1> DEFINE r == CloseSok4(server_stopconnecting(s))
<1>1. s \in State
  BY DEF IInv
<1>2. Quiet(r)
  BY StopConnectingQuiet, CloseFlushQuiet
<1>3. /\ r.alive = s.alive /\ r.endOfMotd = s.endOfMotd /\ r.outq = s.outq
      /\ r.recondelay = s.recondelay /\ r.pipe = "none" /\ r.sok = "none"
      /\ r.src = SrcWithout(s, {s.iotag, s.joindelay, s.sslTag})
  BY <1>1 DEF CloseSok4, server_stopconnecting, State
<1> HIDE DEF r
<1>4. \A t \in Tags : r.src[t] \in {s.src[t], "none"}
  BY <1>3 DEF SrcWithout
<1> QED BY <1>2, <1>3, <1>4 DEF r

\* An attempt that has succeeded: the child and its pipe are gone, the socket
\* is watched.
LEMMA UpFields ==
    ASSUME NEW s, IInv(s), ~s.connected, NEW f \in Tags
    PROVE  LET r == server_connected(server_stopconnecting(s), f)
           IN /\ r \in State
              /\ r.alive = s.alive /\ ~r.connecting /\ r.connected
              /\ r.endOfMotd = s.endOfMotd /\ r.outq = s.outq
              /\ r.recondelay = s.recondelay /\ r.joindelay = NoTag
              /\ r.child = "none" /\ r.pipe = "none" /\ r.sok = s.sok
              /\ \A t \in Tags : r.src[t] \in {s.src[t], "none", "server_read"}
<1> DEFINE q == server_stopconnecting(s)
           r == server_connected(q, f)
<1>1. s \in State
  BY DEF IInv
<1>2. Quiet(q) /\ q \in State
  BY StopConnectingQuiet DEF Quiet
<1>3. /\ q.alive = s.alive /\ q.endOfMotd = s.endOfMotd /\ q.outq = s.outq
      /\ q.recondelay = s.recondelay /\ q.pipe = "none" /\ q.sok = s.sok
      /\ q.connecting = FALSE /\ q.joindelay = NoTag /\ q.child = "none"
      /\ q.src = SrcWithout(s, {s.iotag, s.joindelay, s.sslTag})
  BY <1>1 DEF server_stopconnecting, State
<1>4. \A t \in Tags : q.src[t] \in {s.src[t], "none"}
  BY <1>3 DEF SrcWithout
<1> HIDE DEF q
<1>5. SrcWith(q, f, "server_read") \in [Tags -> Callbacks \cup {"none"}]
  BY <1>2, SrcType DEF Callbacks
<1>6. /\ r \in State
      /\ r.alive = q.alive /\ r.connecting = q.connecting /\ r.connected = TRUE
      /\ r.endOfMotd = q.endOfMotd /\ r.outq = q.outq
      /\ r.recondelay = q.recondelay /\ r.joindelay = q.joindelay
      /\ r.child = q.child /\ r.pipe = q.pipe /\ r.sok = q.sok
      /\ r.src = SrcWith(q, f, "server_read")
  BY <1>2, <1>5 DEF server_connected, State, TagOrNone
<1>7. \A t \in Tags : r.src[t] \in {q.src[t], "server_read"}
  BY <1>6 DEF SrcWith
<1> HIDE DEF r
<1>8. \A t \in Tags : r.src[t] \in {s.src[t], "none", "server_read"}
  BY <1>4, <1>7
<1> QED BY <1>3, <1>6, <1>8 DEF r, q

-----------------------------------------------------------------------------
(* The remaining invariants, of a structure s: which descriptors it holds, *)
(* what an attempt owns, what a connection may find, and which delays are  *)
(* pending.  Delays and Offline need each other and a user who does not    *)
(* type /reconnect; each of the others is inductive beside IInv.           *)

Held(s) == /\ s.sok = "open" => s.connecting \/ s.connected
           /\ s.pipe = "open" => s.connecting

OwnAttempt(s) == s.connecting => s.child # "none" /\ s.pipe = "open" /\ s.sok = "open"

NotCarried(s) == /\ s.endOfMotd => s.connected
                 /\ s.joindelay # NoTag => s.connected /\ s.endOfMotd
                 /\ s.outq => s.connected

NoDelay(s) == \A t \in Tags : s.src[t] \notin DelayCallbacks

Delays(s) == \A t \in Tags :
                s.src[t] \in DelayCallbacks =>
                   /\ s.recondelay = t /\ ~s.connecting /\ ~s.connected
                   /\ s.src[t] = "servlist_cycle_cb" => s.alive

\* After /discon there is nothing that could connect.
Offline(s, g) == g = "offline" => ~s.connecting /\ ~s.connected /\ NoDelay(s)

ReconnectTyped == "reconnect" \in UserActions
OnlyOk         == ConnectOutcomes \subseteq {"ok"}
OnlyNone       == EomCommands \subseteq {"none"}

\* What every step keeps.
Keeps == /\ Held(st) => Held(st')
         /\ OnlyOk /\ OwnAttempt(st) => OwnAttempt(st')
         /\ OnlyNone /\ NotCarried(st) => NotCarried(st')
         /\ ~ReconnectTyped /\ Delays(st) /\ Offline(st, goal) =>
               /\ Delays(st') /\ Offline(st', goal')
               /\ goal = "offline" /\ goal' = "offline" =>
                     ~(st'.connecting /\ ~st.connecting)

\* server_cleanup and server_disconnect leave nothing behind, when what they
\* clean up is in order.
LEMMA DropFields ==
    ASSUME NEW s, IInv(s), NEW r, r = server_cleanup(s) \/ r = server_disconnect(s)
    PROVE  /\ Quiet(r)
           /\ Held(s) => Held(r)
           /\ NotCarried(s) /\ (s.connected => r = server_disconnect(s)) => NotCarried(r)
           /\ Delays(s) => NoDelay(r)
<1>1. /\ Quiet(r)
      /\ r.pipe = IF s.connecting THEN "none" ELSE s.pipe
      /\ r.sok = IF s.connecting THEN "none" ELSE IF s.connected THEN "closing" ELSE s.sok
      /\ r.endOfMotd => s.endOfMotd /\ ~s.connected
      /\ \A t \in Tags : r.src[t] \in {s.src[t], "none"}
      /\ ~s.connecting /\ ~s.connected /\ s.recondelay \in Tags =>
            r.src[s.recondelay] = "none"
  BY CleanupFields, DisconnectFields
<1>2. /\ r.outq => s.outq
      /\ r = server_disconnect(s) => (r.outq => ~s.connected)
  BY CleanupFields, DisconnectFields
<1>3. Held(s) => Held(r)
  BY <1>1 DEF Held
<1>4. NotCarried(s) /\ (s.connected => r = server_disconnect(s)) => NotCarried(r)
  BY <1>1, <1>2 DEF NotCarried, Quiet
<1>5. ASSUME Delays(s), NEW t \in Tags PROVE r.src[t] \notin DelayCallbacks
  <2>1. CASE s.src[t] \notin DelayCallbacks
    BY <1>1, <2>1 DEF DelayCallbacks
  <2>2. CASE s.src[t] \in DelayCallbacks
    <3>1. s.recondelay = t /\ ~s.connecting /\ ~s.connected
      BY <1>5, <2>2 DEF Delays
    <3> QED BY <1>1, <3>1 DEF DelayCallbacks
  <2> QED BY <2>1, <2>2
<1> QED BY <1>1, <1>3, <1>4, <1>5 DEF NoDelay

\* A structure with no delay has its delays in order.
LEMMA NoDelayDelays == ASSUME NEW s, NoDelay(s) PROVE Delays(s)
BY DEF NoDelay, Delays

\* Everything the invariants read of a structure.
LEMMA SameKeeps ==
    ASSUME IInv(st), goal' = goal \/ goal' # "offline",
           st'.alive = st.alive, st'.connecting = st.connecting,
           st'.connected = st.connected, st'.endOfMotd = st.endOfMotd,
           st'.outq => st.outq \/ st.connected \/ st.joindelay # NoTag,
           st'.recondelay = st.recondelay,
           st'.joindelay = st.joindelay \/ st'.joindelay = NoTag,
           \A t \in Tags : /\ st'.src[t] = st.src[t]
                           \/ st'.src[t] \notin DelayCallbacks,
           st'.child = "none" => st.child = "none",
           st'.pipe = st.pipe, st'.sok = st.sok
    PROVE  Keeps
<1>1. Held(st) => Held(st')
  BY DEF Held
<1>2. OwnAttempt(st) => OwnAttempt(st')
  BY DEF OwnAttempt
<1>3. NotCarried(st) => NotCarried(st')
  BY DEF NotCarried
<1>4. Delays(st) => Delays(st')
  BY DEF Delays
<1>5. Offline(st, goal) => Offline(st', goal')
  BY DEF Offline, NoDelay
<1> QED BY <1>1, <1>2, <1>3, <1>4, <1>5 DEF Keeps

\* A step that ends idle and holds nothing, whoever wanted what.
LEMMA IdleKeeps ==
    ASSUME IInv(st), Quiet(st'), Held(st) => Held(st'),
           NotCarried(st) => NotCarried(st'), Delays(st) => NoDelay(st')
    PROVE  Keeps
<1>1. ~st'.connecting /\ ~st'.connected
  BY DEF Quiet
<1> QED BY <1>1 DEF Keeps, OwnAttempt, Delays, NoDelay, Offline

\* A step that drops an attempt or a connection, then waits to reconnect.
LEMMA DelayedKeeps ==
    ASSUME IInv(st), st.connecting \/ st.connected, goal' = goal,
           NEW s, Quiet(s), s.alive = TRUE, Held(st) => Held(s),
           NotCarried(st) => NotCarried(s), Delays(st) => NoDelay(s),
           NEW f \in Tags, NEW cb \in DelayCallbacks, st' = Delayed(s, f, cb)
    PROVE  Keeps
<1>0. s \in State
  BY DEF Quiet
<1>1. ~s.connecting /\ ~s.connected
  BY DEF Quiet
<1>2. /\ st'.alive = s.alive /\ st'.connecting = s.connecting
      /\ st'.connected = s.connected /\ st'.endOfMotd = s.endOfMotd
      /\ st'.outq = s.outq /\ st'.recondelay = f /\ st'.joindelay = s.joindelay
      /\ st'.pipe = s.pipe /\ st'.sok = s.sok
      /\ \A u \in Tags : st'.src[u] = IF u = f THEN cb ELSE s.src[u]
  <2> DEFINE r == Delayed(s, f, cb)
  <2>1. /\ r.alive = s.alive /\ r.connecting = s.connecting
        /\ r.connected = s.connected /\ r.endOfMotd = s.endOfMotd
        /\ r.outq = s.outq /\ r.recondelay = f /\ r.joindelay = s.joindelay
        /\ r.pipe = s.pipe /\ r.sok = s.sok
        /\ \A u \in Tags : r.src[u] = IF u = f THEN cb ELSE s.src[u]
    BY <1>0, DelayFields
  <2>2. st' = r
    OBVIOUS
  <2> HIDE DEF r
  <2> QED BY <2>1, <2>2
<1>3. Held(st) => Held(st')
  BY <1>2 DEF Held
<1>4. OwnAttempt(st')
  BY <1>1, <1>2 DEF OwnAttempt
<1>5. NotCarried(st) => NotCarried(st')
  BY <1>2 DEF NotCarried
<1>6. Delays(st) => Delays(st')
  BY <1>1, <1>2 DEF Delays, NoDelay
<1>7. Offline(st, goal) => goal # "offline"
  BY DEF Offline
<1> QED BY <1>3, <1>4, <1>5, <1>6, <1>7 DEF Keeps, Offline

\* auto_reconnect of the structure as it is, when it is connected.
LEMMA AutoReconnectKeeps ==
    ASSUME IInv(st), st.connected, st.alive, goal' = goal, NEW f \in Fresh(st),
           st' = auto_reconnect(st, f)
    PROVE  Keeps
<1> DEFINE d == server_disconnect(st)
           e == Ended(d, d.recondelay)
<1>1. /\ Quiet(d) /\ d.alive = st.alive
      /\ Held(st) => Held(d)
      /\ NotCarried(st) => NotCarried(d)
      /\ Delays(st) => NoDelay(d)
  BY DropFields, DisconnectQuiet
<1>2. st' = Delayed(e, f, "timeout_auto_reconnect")
  BY DEF auto_reconnect, Delayed
<1> HIDE DEF d
<1>3. Quiet(e) /\ d \in State
  BY <1>1, EndedQuiet DEF Quiet
<1>4. /\ e.alive = d.alive /\ e.connecting = d.connecting /\ e.connected = d.connected
      /\ e.endOfMotd = d.endOfMotd /\ e.outq = d.outq /\ e.joindelay = d.joindelay
      /\ e.pipe = d.pipe /\ e.sok = d.sok
      /\ \A u \in Tags : e.src[u] = IF u = d.recondelay THEN "none" ELSE d.src[u]
  BY <1>3, EndedFields
<1> HIDE DEF e
<1>5. /\ Held(d) => Held(e)
      /\ NotCarried(d) => NotCarried(e)
      /\ NoDelay(d) => NoDelay(e)
  BY <1>4 DEF Held, NotCarried, NoDelay, DelayCallbacks
<1>6. f \in Tags /\ "timeout_auto_reconnect" \in DelayCallbacks
  BY FreshFacts DEF DelayCallbacks
<1>7. e.alive = TRUE
  BY <1>1, <1>4 DEF IInv, State
<1> QED BY <1>1, <1>2, <1>3, <1>5, <1>6, <1>7, DelayedKeeps

LEMMA UserServerKeeps == ASSUME IInv(st), UserServer PROVE Keeps
<1>1. PICK n \in BOOLEAN, ssl \in BOOLEAN, o \in ConnectOutcomes, f \in Fresh(st) :
         st' = [server_connect([st EXCEPT !.host = TRUE, !.useSsl = ssl], f, o)
                  EXCEPT !.net = n]
  BY DEF UserServer
<1> DEFINE s == [st EXCEPT !.host = TRUE, !.useSsl = ssl]
           r == server_connect(s, f, o)
<1>2. st \in State /\ st.alive /\ goal' = "online"
  BY DEF IInv, UserServer, User
<1>3. /\ s \in State /\ s.alive = st.alive /\ s.connecting = st.connecting
      /\ s.connected = st.connected /\ s.endOfMotd = st.endOfMotd
      /\ s.iotag = st.iotag /\ s.recondelay = st.recondelay
      /\ s.joindelay = st.joindelay /\ s.sslTag = st.sslTag /\ s.src = st.src
      /\ s.child = st.child /\ s.report = st.report /\ s.host
  BY <1>2 DEF State
<1>4. st' = [r EXCEPT !.net = n]
  BY <1>1
<1> HIDE DEF s
<1>5. IInv(s) /\ f \in Fresh(s)
  BY <1>3, SameInv DEF Fresh
<1>6. /\ r \in State /\ r.connecting /\ ~r.connected /\ ~r.endOfMotd /\ ~r.outq
      /\ o \notin {"pipe", "fork"} =>
            r.child = "running" /\ r.pipe = "open" /\ r.sok = "open"
      /\ s.joindelay = NoTag \/ s.connected => r.joindelay = NoTag
      /\ \A t \in Tags : r.src[t] \in {s.src[t], "none", "server_read_child"}
      /\ ~s.connecting /\ ~s.connected /\ s.recondelay \in Tags =>
            r.src[s.recondelay] \in {"none", "server_read_child"}
  <2>1. r \in State
    BY <1>2, <1>3, <1>5, ConnectInv DEF IInv
  <2> QED BY <1>3, <1>5, <2>1, ConnectFields
<1> HIDE DEF r
<1>7. /\ st'.connecting /\ ~st'.connected /\ ~st'.endOfMotd /\ ~st'.outq
      /\ st'.child = r.child /\ st'.pipe = r.pipe /\ st'.sok = r.sok
      /\ st'.joindelay = r.joindelay /\ st'.src = r.src
  BY <1>4, <1>6 DEF State
<1>8. OnlyOk => OwnAttempt(st')
  BY <1>6, <1>7 DEF OnlyOk, OwnAttempt
<1>9. NotCarried(st) => NotCarried(st')
  BY <1>3, <1>6, <1>7 DEF NotCarried
<1>10. Delays(st) => NoDelay(st')
  BY <1>3, <1>6, <1>7 DEF Delays, NoDelay, DelayCallbacks
<1> QED BY <1>2, <1>7, <1>8, <1>9, <1>10, NoDelayDelays DEF Keeps, Held, Offline

LEMMA UserDisconKeeps == ASSUME IInv(st), UserDiscon PROVE Keeps
BY DropFields, IdleKeeps DEF UserDiscon

LEMMA UserReconnectKeeps == ASSUME IInv(st), UserReconnect PROVE Keeps
<1>1. PICK h \in BOOLEAN, ssl \in BOOLEAN, f \in Fresh(st) :
         st' = auto_reconnect([st EXCEPT !.host = @ \/ h,
                                         !.useSsl = IF h THEN ssl ELSE @], f)
  BY DEF UserReconnect
<1> DEFINE s == [st EXCEPT !.host = @ \/ h, !.useSsl = IF h THEN ssl ELSE @]
<1>2. st \in State /\ ReconnectTyped
  BY DEF IInv, UserReconnect, User, ReconnectTyped
<1>3. s \in State
  BY <1>2 DEF State
<1>4. /\ s.alive = st.alive /\ s.connecting = st.connecting
      /\ s.connected = st.connected /\ s.endOfMotd = st.endOfMotd
      /\ s.iotag = st.iotag /\ s.recondelay = st.recondelay
      /\ s.joindelay = st.joindelay /\ s.sslTag = st.sslTag /\ s.src = st.src
      /\ s.child = st.child /\ s.report = st.report
      /\ s.outq = st.outq /\ s.pipe = st.pipe /\ s.sok = st.sok
  BY <1>2 DEF State
<1>5. st' = auto_reconnect(s, f)
  BY <1>1
<1> HIDE DEF s
<1>6. IInv(s) /\ f \in Tags
  BY <1>3, <1>4, SameInv, FreshFacts
<1>7. /\ st'.connecting = s.connecting /\ ~st'.connected
      /\ st'.endOfMotd => s.endOfMotd /\ ~s.connected
      /\ st'.outq => s.outq /\ ~s.connected
      /\ st'.joindelay = IF s.connected THEN NoTag ELSE s.joindelay
      /\ st'.child = s.child /\ st'.pipe = s.pipe
      /\ st'.sok = IF s.connected THEN "closing" ELSE s.sok
  BY <1>5, <1>6, AutoReconnectFields
<1>8. Held(st) => Held(st')
  BY <1>4, <1>7 DEF Held
<1>9. OwnAttempt(st) => OwnAttempt(st')
  BY <1>4, <1>6, <1>7 DEF OwnAttempt, IInv, Owned
<1>10. NotCarried(st) => NotCarried(st')
  BY <1>4, <1>7 DEF NotCarried
<1> QED BY <1>2, <1>8, <1>9, <1>10 DEF Keeps

LEMMA UserCloseKeeps == ASSUME IInv(st), UserClose PROVE Keeps
<1> DEFINE c == server_cleanup(st)
<1>1. c \in State /\ Quiet(c)
  BY CleanupQuiet DEF Quiet
<1>2. /\ Held(st) => Held(c)
      /\ Delays(st) => NoDelay(c)
      /\ c.endOfMotd => st.endOfMotd /\ ~st.connected
  BY DropFields, CleanupFields
<1>3. st' = [server_flush_queue(c) EXCEPT !.alive = FALSE]
  BY DEF UserClose, server_free
<1> HIDE DEF c
<1>4. /\ st' \in State /\ st'.connecting = c.connecting /\ st'.connected = c.connected
      /\ st'.iotag = c.iotag /\ st'.joindelay = c.joindelay /\ st'.sslTag = c.sslTag
      /\ st'.child = c.child /\ st'.report = c.report /\ st'.src = c.src
      /\ st'.endOfMotd = c.endOfMotd /\ st'.outq = FALSE
      /\ st'.pipe = c.pipe /\ st'.sok = c.sok
  BY <1>1, <1>3 DEF server_flush_queue, State
<1>5. Quiet(st') /\ (Held(st) => Held(st')) /\ (Delays(st) => NoDelay(st'))
  BY <1>1, <1>2, <1>4 DEF Quiet, Held, NoDelay
<1>6. NotCarried(st) => NotCarried(st')
  BY <1>1, <1>2, <1>4 DEF NotCarried, Quiet
<1> QED BY <1>5, <1>6, IdleKeeps

\* The steps that touch neither a source nor a descriptor.
LEMMA PlainKeeps ==
    ASSUME IInv(st),
           \/ NetRemoved \/ UserSet \/ ChildReports \/ QueueFills \/ QueueDrains
           \/ UNCHANGED vars
    PROVE  Keeps
<1>1. st \in State
  BY DEF IInv
<1>2. /\ st'.alive = st.alive /\ st'.connecting = st.connecting
      /\ st'.connected = st.connected /\ st'.endOfMotd = st.endOfMotd
      /\ st'.recondelay = st.recondelay /\ st'.joindelay = st.joindelay
      /\ st'.src = st.src /\ st'.pipe = st.pipe /\ st'.sok = st.sok
      /\ st'.outq => st.outq \/ st.connected
      /\ st'.child = "none" => st.child = "none"
  <2>1. CASE NetRemoved
    BY <1>1, <2>1 DEF NetRemoved, State
  <2>2. CASE ChildReports
    BY <1>1, <2>2 DEF ChildReports, State
  <2>3. CASE QueueFills
    BY <1>1, <2>3 DEF QueueFills, State
  <2>4. CASE QueueDrains
    BY <1>1, <2>4 DEF QueueDrains, State
  <2>5. CASE UserSet \/ UNCHANGED vars
    BY <2>5 DEF UserSet, vars
  <2> QED BY <2>1, <2>2, <2>3, <2>4, <2>5
<1>3. goal' = goal
  BY DEF NetRemoved, UserSet, ChildReports, QueueFills, QueueDrains, vars
<1> QED BY <1>2, <1>3, SameKeeps

\* A source of an idle structure ends.
LEMMA IdleEnded ==
    ASSUME NEW s, Quiet(s), NEW t
    PROVE  LET e == Ended(s, t)
           IN /\ Quiet(e) /\ e.alive = s.alive
              /\ Held(s) => Held(e)
              /\ NotCarried(s) => NotCarried(e)
              /\ NoDelay(s) => NoDelay(e)
<1> DEFINE e == Ended(s, t)
<1>1. s \in State
  BY DEF Quiet
<1>2. /\ e.alive = s.alive /\ e.connecting = s.connecting /\ e.connected = s.connected
      /\ e.endOfMotd = s.endOfMotd /\ e.outq = s.outq /\ e.joindelay = s.joindelay
      /\ e.pipe = s.pipe /\ e.sok = s.sok
      /\ \A u \in Tags : e.src[u] = IF u = t THEN "none" ELSE s.src[u]
  BY <1>1, EndedFields
<1>3. Quiet(e)
  BY EndedQuiet
<1> HIDE DEF e
<1>4. /\ Held(s) => Held(e)
      /\ NotCarried(s) => NotCarried(e)
      /\ NoDelay(s) => NoDelay(e)
  BY <1>2 DEF Held, NotCarried, NoDelay, DelayCallbacks
<1> QED BY <1>2, <1>3, <1>4 DEF e

\* What was up has been dropped, and a delay starts one way or the other.
LEMMA AfterDropKeeps ==
    ASSUME IInv(st), st.connecting \/ st.connected, goal' = goal,
           NEW s, Quiet(s), s.alive = TRUE, Held(st) => Held(s),
           NotCarried(st) => NotCarried(s), Delays(st) => NoDelay(s),
           NEW f \in Tags, st' = servlist_cycle(s, f) \/ st' = auto_reconnect(s, f)
    PROVE  Keeps
<1> DEFINE e == Ended(s, s.recondelay)
<1>1. CASE st' = servlist_cycle(s, f)
  <2>1. "servlist_cycle_cb" \in DelayCallbacks /\ st' = Delayed(s, f, "servlist_cycle_cb")
    BY <1>1 DEF DelayCallbacks, servlist_cycle, Delayed
  <2> QED BY <2>1, DelayedKeeps
<1>2. CASE st' = auto_reconnect(s, f)
  <2>1. "timeout_auto_reconnect" \in DelayCallbacks /\ ~s.connected
    BY DEF DelayCallbacks, Quiet
  <2>2. st' = Delayed(e, f, "timeout_auto_reconnect")
    BY <1>2, <2>1 DEF auto_reconnect, Delayed
  <2>3. /\ Quiet(e) /\ e.alive = s.alive
        /\ Held(s) => Held(e)
        /\ NotCarried(s) => NotCarried(e)
        /\ NoDelay(s) => NoDelay(e)
    BY IdleEnded
  <2> HIDE DEF e
  <2> QED BY <2>1, <2>2, <2>3, DelayedKeeps
<1> QED BY <1>1, <1>2

LEMMA ConnectFailedKeeps ==
    ASSUME IInv(st), NEW t \in Tags, ConnectFailed(t)
    PROVE  Keeps
<1> DEFINE s == CloseSok4(server_stopconnecting(st))
<1>1. st.connecting /\ ~st.connected /\ st.alive = TRUE
  BY DEF ConnectFailed, Dispatch, IInv, Owned, Deaf, State
<1>2. /\ Quiet(s) /\ s.alive = st.alive
      /\ s.endOfMotd = st.endOfMotd /\ s.outq = st.outq
      /\ s.pipe = "none" /\ s.sok = "none"
      /\ \A u \in Tags : s.src[u] \in {st.src[u], "none"}
  BY <1>1, StoppedFields
<1>3. \/ \E f \in Fresh(st) : /\ st' = servlist_cycle(s, f) \/ st' = auto_reconnect(s, f)
                              /\ goal' = goal
      \/ st' = s
  BY DEF ConnectFailed
<1> HIDE DEF s
<1>4. Held(s) /\ (NotCarried(st) => NotCarried(s)) /\ (Delays(st) => NoDelay(s))
  BY <1>1, <1>2 DEF Held, NotCarried, Quiet, Delays, NoDelay, DelayCallbacks
<1>5. CASE st' = s
  BY <1>2, <1>4, <1>5, IdleKeeps
<1>6. CASE \E f \in Fresh(st) : /\ st' = servlist_cycle(s, f) \/ st' = auto_reconnect(s, f)
                                /\ goal' = goal
  <2>1. PICK f \in Fresh(st) : /\ st' = servlist_cycle(s, f) \/ st' = auto_reconnect(s, f)
                               /\ goal' = goal
    BY <1>6
  <2>2. f \in Tags /\ s.alive = TRUE
    BY <1>1, <1>2, FreshFacts
  <2> QED BY <1>1, <1>2, <1>4, <2>1, <2>2, AfterDropKeeps
<1> QED BY <1>3, <1>5, <1>6

\* The steps that end an attempt for good, by server_cleanup or
\* server_disconnect.
LEMMA DropKeeps ==
    ASSUME IInv(st), NEW t \in Tags, ProxyFailed(t) \/ SslSetupFailed(t) \/ SslBadCert(t)
    PROVE  Keeps
<1>1. ~st.connected
  BY DEF ProxyFailed, SslSetupFailed, SslBadCert, Dispatch, IInv, Owned
<1>2. CASE ProxyFailed(t) \/ SslSetupFailed(t)
  <2>1. st' = server_cleanup(st) \/ st' = server_disconnect(st)
    BY <1>2 DEF ProxyFailed, SslSetupFailed
  <2> QED BY <1>1, <2>1, DropFields, IdleKeeps
<1>3. CASE SslBadCert(t)
  <2> DEFINE c == server_cleanup(st)
  <2>1. st' = Ended(c, t)
    BY <1>3 DEF SslBadCert
  <2>2. /\ Quiet(c) /\ (Held(st) => Held(c))
        /\ NotCarried(st) => NotCarried(c)
        /\ Delays(st) => NoDelay(c)
    BY <1>1, DropFields
  <2> HIDE DEF c
  <2> QED BY <2>1, <2>2, IdleEnded, IdleKeeps
<1> QED BY <1>2, <1>3

LEMMA SslFailedKeeps ==
    ASSUME IInv(st), NEW t \in Tags, SslFailed(t)
    PROVE  Keeps
<1> DEFINE c == server_cleanup(st)
           s == Ended(c, t)
<1>1. st.connecting /\ ~st.connected /\ st.alive = TRUE
  BY DEF SslFailed, Dispatch, IInv, Owned, Deaf, State
<1>2. /\ Quiet(c) /\ c.alive = st.alive
      /\ Held(st) => Held(c)
      /\ NotCarried(st) => NotCarried(c)
      /\ Delays(st) => NoDelay(c)
  BY <1>1, DropFields, CleanupQuiet
<1>3. (\E f \in Fresh(st) : st' = auto_reconnect(s, f) /\ goal' = goal) \/ st' = s
  BY DEF SslFailed
<1> HIDE DEF c
<1>4. /\ Quiet(s) /\ s.alive = c.alive
      /\ Held(c) => Held(s)
      /\ NotCarried(c) => NotCarried(s)
      /\ NoDelay(c) => NoDelay(s)
  BY <1>2, IdleEnded
<1> HIDE DEF s
<1>5. CASE st' = s
  BY <1>2, <1>4, <1>5, IdleKeeps
<1>6. CASE \E f \in Fresh(st) : st' = auto_reconnect(s, f) /\ goal' = goal
  <2>1. PICK f \in Fresh(st) : st' = auto_reconnect(s, f) /\ goal' = goal
    BY <1>6
  <2>2. f \in Tags /\ s.alive = TRUE
    BY <1>1, <1>2, <1>4, FreshFacts
  <2> QED BY <1>1, <1>2, <1>4, <2>1, <2>2, AfterDropKeeps
<1> QED BY <1>3, <1>5, <1>6

LEMMA ConnectSucceededKeeps ==
    ASSUME IInv(st), NEW t \in Tags, ConnectSucceeded(t)
    PROVE  Keeps
<1>1. st \in State /\ st.connecting /\ ~st.connected /\ goal' = goal
  BY DEF IInv, Owned, ConnectSucceeded, Dispatch
<1>2. PICK f \in Fresh(st) :
         st' = IF st.useSsl
               THEN [st EXCEPT !.report = "none", !.sslTag = f,
                               !.src = SrcWith(st, f, "ssl_do_connect")]
               ELSE server_connected(server_stopconnecting(st), f)
  BY DEF ConnectSucceeded
<1>3. f \in Tags
  BY FreshFacts
<1>4. CASE st.useSsl
  <2>1. /\ st'.alive = st.alive /\ st'.connecting = st.connecting
        /\ st'.connected = st.connected /\ st'.endOfMotd = st.endOfMotd
        /\ st'.outq = st.outq
        /\ st'.recondelay = st.recondelay /\ st'.joindelay = st.joindelay
        /\ st'.child = st.child /\ st'.pipe = st.pipe /\ st'.sok = st.sok
        /\ st'.src = SrcWith(st, f, "ssl_do_connect")
    BY <1>1, <1>2, <1>4 DEF State
  <2>2. \A u \in Tags : st'.src[u] = st.src[u] \/ st'.src[u] \notin DelayCallbacks
    BY <2>1 DEF SrcWith, DelayCallbacks
  <2> QED BY <1>1, <2>1, <2>2, SameKeeps
<1>5. CASE ~st.useSsl
  <2>1. st' = server_connected(server_stopconnecting(st), f)
    BY <1>2, <1>5
  <2>2. /\ st'.alive = st.alive /\ ~st'.connecting /\ st'.connected
        /\ st'.endOfMotd = st.endOfMotd /\ st'.outq = st.outq
        /\ st'.joindelay = NoTag /\ st'.pipe = "none"
        /\ \A u \in Tags : st'.src[u] \in {st.src[u], "none", "server_read"}
    BY <1>1, <1>3, <2>1, UpFields
  <2>3. Held(st') /\ OwnAttempt(st') /\ (NotCarried(st) => NotCarried(st'))
    BY <1>1, <2>2 DEF Held, OwnAttempt, NotCarried
  <2>4. Delays(st) => NoDelay(st')
    BY <1>1, <2>2 DEF Delays, NoDelay, DelayCallbacks
  <2> QED BY <1>1, <2>2, <2>3, <2>4, NoDelayDelays DEF Keeps, Offline
<1> QED BY <1>4, <1>5

LEMMA SslUpKeeps ==
    ASSUME IInv(st), NEW t \in Tags, SslUp(t)
    PROVE  Keeps
<1>1. st.connecting /\ ~st.connected /\ goal' = goal
  BY DEF IInv, Owned, SslUp, Dispatch
<1>2. PICK f \in Fresh(st) :
         st' = Ended(server_connected(server_stopconnecting(st), f), t)
  BY DEF SslUp
<1> DEFINE r == server_connected(server_stopconnecting(st), f)
<1>3. f \in Tags
  BY FreshFacts
<1>4. /\ r \in State /\ ~r.connecting /\ r.connected
      /\ r.endOfMotd = st.endOfMotd /\ r.outq = st.outq
      /\ r.joindelay = NoTag /\ r.pipe = "none"
      /\ \A u \in Tags : r.src[u] \in {st.src[u], "none", "server_read"}
  BY <1>1, <1>3, UpFields
<1>5. st' = Ended(r, t)
  BY <1>2
<1> HIDE DEF r
<1>6. /\ st'.connecting = r.connecting /\ st'.connected = r.connected
      /\ st'.endOfMotd = r.endOfMotd /\ st'.outq = r.outq
      /\ st'.joindelay = r.joindelay /\ st'.pipe = r.pipe
      /\ \A u \in Tags : st'.src[u] = IF u = t THEN "none" ELSE r.src[u]
  <2>1. r \in State
    BY <1>4
  <2> QED BY <1>5, <2>1, EndedFields
<1>7. Held(st') /\ OwnAttempt(st') /\ (NotCarried(st) => NotCarried(st'))
  BY <1>1, <1>4, <1>6 DEF Held, OwnAttempt, NotCarried
<1>8. Delays(st) => NoDelay(st')
  BY <1>1, <1>4, <1>6 DEF Delays, NoDelay, DelayCallbacks
<1>9. ~st'.connecting /\ st'.connected
  BY <1>4, <1>6
<1> QED BY <1>1, <1>7, <1>8, <1>9, NoDelayDelays DEF Keeps, Offline

LEMMA ConnectionLostKeeps ==
    ASSUME IInv(st), NEW t \in Tags, ConnectionLost(t)
    PROVE  Keeps
<1> DEFINE d == server_disconnect(st)
<1>1. st.connected /\ st.alive = TRUE
  BY DEF ConnectionLost, Dispatch, IInv, Owned, Deaf, State
<1>2. /\ Quiet(d) /\ d.alive = st.alive
      /\ Held(st) => Held(d)
      /\ NotCarried(st) => NotCarried(d)
      /\ Delays(st) => NoDelay(d)
  BY DropFields, DisconnectQuiet
<1>3. \/ \E f \in Fresh(st) : /\ st' = servlist_cycle(d, f) \/ st' = auto_reconnect(st, f)
                              /\ goal' = goal
      \/ st' = d
  BY DEF ConnectionLost
<1> HIDE DEF d
<1>4. CASE st' = d
  BY <1>2, <1>4, IdleKeeps
<1>5. CASE \E f \in Fresh(st) : st' = servlist_cycle(d, f) /\ goal' = goal
  <2>1. PICK f \in Fresh(st) : st' = servlist_cycle(d, f) /\ goal' = goal
    BY <1>5
  <2>2. f \in Tags /\ d.alive = TRUE
    BY <1>1, <1>2, FreshFacts
  <2> QED BY <1>1, <1>2, <2>1, <2>2, AfterDropKeeps
<1>6. CASE \E f \in Fresh(st) : st' = auto_reconnect(st, f) /\ goal' = goal
  BY <1>1, <1>6, AutoReconnectKeeps
<1> QED BY <1>3, <1>4, <1>5, <1>6

LEMMA PingTimeoutKeeps == ASSUME IInv(st), PingTimeout PROVE Keeps
BY AutoReconnectKeeps DEF PingTimeout

LEMMA MotdEndKeeps ==
    ASSUME IInv(st), NEW t \in Tags, MotdEnd(t)
    PROVE  Keeps
<1>1. PICK cmd \in EomCommands, f \in Fresh(st), delay \in BOOLEAN :
         /\ LET s == IF cmd = "discon" THEN server_disconnect(st) ELSE st
                e == [s EXCEPT !.endOfMotd = TRUE]
            IN st' = IF delay
                     THEN [e EXCEPT !.joindelay = f,
                             !.src = SrcWith(e, f, "check_autojoin_channels")]
                     ELSE e
         /\ goal' = IF cmd = "discon" THEN "offline" ELSE goal
  BY DEF MotdEnd
<1> DEFINE s == IF cmd = "discon" THEN server_disconnect(st) ELSE st
           e == [s EXCEPT !.endOfMotd = TRUE]
<1>2. st.connected /\ ~st.connecting /\ st \in State
  BY DEF IInv, Owned, MotdEnd, Dispatch
<1>3. /\ st' = IF delay THEN [e EXCEPT !.joindelay = f,
                                !.src = SrcWith(e, f, "check_autojoin_channels")]
                        ELSE e
      /\ goal' = IF cmd = "discon" THEN "offline" ELSE goal
  BY <1>1
<1>4. CASE cmd = "discon"
  <2>1. s = server_disconnect(st)
    BY <1>4
  <2>2. Quiet(s) /\ (Held(st) => Held(s)) /\ (Delays(st) => NoDelay(s))
    BY <2>1, DropFields
  <2> HIDE DEF s
  <2>3. s \in State /\ ~s.connecting /\ ~s.connected
    BY <2>2 DEF Quiet
  <2>4. /\ st'.connecting = s.connecting /\ st'.connected = s.connected
        /\ st'.pipe = s.pipe /\ st'.sok = s.sok
        /\ st'.src \in {s.src, SrcWith(e, f, "check_autojoin_channels")}
        /\ e.src = s.src
    BY <1>3, <2>3 DEF State
  <2>5. \A u \in Tags : st'.src[u] \in {s.src[u], "check_autojoin_channels"}
    BY <2>4 DEF SrcWith
  <2>6. (Held(st) => Held(st')) /\ (Delays(st) => NoDelay(st'))
    BY <2>2, <2>4, <2>5 DEF Held, NoDelay, DelayCallbacks
  <2>7. ~OnlyNone
    BY <1>4 DEF OnlyNone
  <2>8. ~st'.connecting /\ ~st'.connected
    BY <2>3, <2>4
  <2> QED BY <2>6, <2>7, <2>8, NoDelayDelays DEF Keeps, OwnAttempt, Offline
<1>5. CASE cmd # "discon"
  <2>1. s = st /\ goal' = goal
    BY <1>3, <1>5
  <2>2. /\ st'.connecting = st.connecting /\ st'.connected = st.connected
        /\ st'.pipe = st.pipe /\ st'.sok = st.sok /\ st'.outq = st.outq
        /\ st'.endOfMotd = TRUE
        /\ st'.src \in {st.src, SrcWith(e, f, "check_autojoin_channels")}
        /\ e.src = st.src
    BY <1>2, <1>3, <2>1 DEF State
  <2>3. \A u \in Tags : st'.src[u] \in {st.src[u], "check_autojoin_channels"}
    BY <2>2 DEF SrcWith
  <2>4. Delays(st) => NoDelay(st')
    BY <1>2, <2>3 DEF Delays, NoDelay, DelayCallbacks
  <2>5. (Held(st) => Held(st')) /\ OwnAttempt(st') /\ (NotCarried(st) => NotCarried(st'))
    BY <1>2, <2>2 DEF Held, OwnAttempt, NotCarried
  <2>6. st'.connected /\ ~st'.connecting
    BY <1>2, <2>2
  <2> QED BY <1>2, <2>1, <2>4, <2>5, <2>6, NoDelayDelays DEF Keeps, Offline
<1> QED BY <1>4, <1>5

\* The JOIN timer is used up.
LEMMA JoinDoneKeeps ==
    ASSUME IInv(st), NEW t \in Tags, Identified(t) \/ FireAutojoin(t)
    PROVE  Keeps
<1>1. st \in State /\ st.joindelay # NoTag /\ st.joindelay \in Tags
  BY NoTagAssumption
     DEF IInv, Owned, State, TagOrNone, Identified, FireAutojoin, Dispatch
<1>2. /\ st' = [Ended(st, st.joindelay) EXCEPT !.joindelay = NoTag, !.outq = TRUE]
      /\ goal' = goal
  BY DEF Identified, FireAutojoin, Dispatch, IInv, Owned, Deaf
<1>3. /\ st'.alive = st.alive /\ st'.connecting = st.connecting
      /\ st'.connected = st.connected /\ st'.endOfMotd = st.endOfMotd
      /\ st'.recondelay = st.recondelay /\ st'.joindelay = NoTag
      /\ st'.child = st.child /\ st'.pipe = st.pipe /\ st'.sok = st.sok
      /\ st'.src = SrcWithout(st, {st.joindelay})
  BY <1>1, <1>2 DEF Ended, State
<1>4. \A u \in Tags : st'.src[u] = st.src[u] \/ st'.src[u] \notin DelayCallbacks
  BY <1>3 DEF SrcWithout, DelayCallbacks
<1> QED BY <1>1, <1>2, <1>3, <1>4, SameKeeps

\* A reconnect source has fired; s is the structure without it.
LEMMA FiredKeeps ==
    ASSUME IInv(st), goal' = goal \/ goal' # "offline",
           NEW t \in Tags, st.src[t] \in DelayCallbacks,
           NEW s, IInv(s), s.connecting = st.connecting, s.connected = st.connected,
           s.endOfMotd = st.endOfMotd, s.outq = st.outq, s.joindelay = st.joindelay,
           s.child = st.child, s.pipe = st.pipe, s.sok = st.sok,
           \A u \in Tags : s.src[u] = IF u = t THEN "none" ELSE st.src[u],
           \/ st' = s
           \/ \E f \in Fresh(s), o \in ConnectOutcomes : st' = server_connect(s, f, o)
    PROVE  Keeps
<1>1. Delays(st) => NoDelay(s)
  BY DEF Delays, NoDelay, DelayCallbacks
<1>2. (Held(st) => Held(s)) /\ (OwnAttempt(st) => OwnAttempt(s))
      /\ (NotCarried(st) => NotCarried(s))
  BY DEF Held, OwnAttempt, NotCarried
<1>3. Offline(st, goal) => goal # "offline"
  BY DEF Offline, NoDelay
<1>4. CASE st' = s
  BY <1>1, <1>2, <1>3, <1>4, NoDelayDelays DEF Keeps, Offline
<1>5. CASE \E f \in Fresh(s), o \in ConnectOutcomes : st' = server_connect(s, f, o)
  <2>1. PICK f \in Fresh(s), o \in ConnectOutcomes : st' = server_connect(s, f, o)
    BY <1>5
  <2>2. CASE ~s.host
    <3>1. st' = s
      BY <2>1, <2>2, ConnectFields
    <3> QED BY <3>1, <1>4
  <2>3. CASE s.host
    <3>1. /\ st'.connecting /\ ~st'.connected /\ ~st'.endOfMotd /\ ~st'.outq
          /\ o \notin {"pipe", "fork"} =>
                st'.child = "running" /\ st'.pipe = "open" /\ st'.sok = "open"
          /\ s.joindelay = NoTag \/ s.connected => st'.joindelay = NoTag
          /\ \A u \in Tags : st'.src[u] \in {s.src[u], "none", "server_read_child"}
      BY <2>1, <2>3, ConnectFields
    <3>2. OnlyOk => OwnAttempt(st')
      BY <3>1 DEF OnlyOk, OwnAttempt
    <3>3. NotCarried(s) => NotCarried(st')
      BY <3>1 DEF NotCarried
    <3>4. NoDelay(s) => NoDelay(st')
      BY <3>1 DEF NoDelay, DelayCallbacks
    <3>5. Held(st')
      BY <3>1 DEF Held
    <3> QED BY <1>1, <1>2, <1>3, <3>2, <3>3, <3>4, <3>5, NoDelayDelays DEF Keeps, Offline
  <2> QED BY <2>2, <2>3
<1> QED BY <1>4, <1>5

LEMMA FireReconnectKeeps ==
    ASSUME IInv(st), NEW t \in Tags, FireReconnect(t)
    PROVE  Keeps
<1> DEFINE e == Ended(st, t)
           s == [e EXCEPT !.recondelay = NoTag]
<1>1. st.src[t] \in DelayCallbacks /\ st \in State /\ goal' = goal
  BY DEF FireReconnect, Dispatch, DelayCallbacks, IInv
<1>2. IInv(e) /\ IInv(s) /\ e \in State
  BY <1>1, DelayEndsInv DEF IInv
<1>3. /\ e.connecting = st.connecting /\ e.connected = st.connected
      /\ e.endOfMotd = st.endOfMotd /\ e.outq = st.outq /\ e.joindelay = st.joindelay
      /\ e.child = st.child /\ e.pipe = st.pipe /\ e.sok = st.sok
      /\ e.iotag = st.iotag /\ e.sslTag = st.sslTag
      /\ \A u \in Tags : e.src[u] = IF u = t THEN "none" ELSE st.src[u]
  BY <1>1, EndedFields
<1>4. \/ st' = e \/ st' = s
      \/ \E f \in Fresh(st), o \in ConnectOutcomes : st' = server_connect(s, f, o)
  BY DEF FireReconnect
<1> HIDE DEF e
<1>5. /\ s.connecting = e.connecting /\ s.connected = e.connected
      /\ s.endOfMotd = e.endOfMotd /\ s.outq = e.outq /\ s.joindelay = e.joindelay
      /\ s.child = e.child /\ s.pipe = e.pipe /\ s.sok = e.sok
      /\ s.iotag = e.iotag /\ s.sslTag = e.sslTag /\ s.recondelay = NoTag
      /\ s.src = e.src
  BY <1>2 DEF State
<1> HIDE DEF s
<1>6. Fresh(st) \subseteq Fresh(s)
  BY <1>3, <1>5, NoTagAssumption DEF Fresh
<1>7. CASE st' = e
  BY <1>1, <1>2, <1>3, <1>7, FiredKeeps
<1>8. CASE \/ st' = s
           \/ \E f \in Fresh(s), o \in ConnectOutcomes : st' = server_connect(s, f, o)
  BY <1>1, <1>2, <1>3, <1>5, <1>8, FiredKeeps
<1> QED BY <1>4, <1>6, <1>7, <1>8

LEMMA FireCycleKeeps ==
    ASSUME IInv(st), NEW t \in Tags, FireCycle(t)
    PROVE  Keeps
<1> DEFINE e == Ended(st, t)
<1>1. /\ st.src[t] \in DelayCallbacks /\ st \in State
      /\ goal' = goal \/ goal' # "offline"
  BY DEF FireCycle, Dispatch, DelayCallbacks, IInv
<1>2. IInv(e) /\ e \in State
  BY <1>1, DelayEndsInv DEF IInv
<1>3. /\ e.connecting = st.connecting /\ e.connected = st.connected
      /\ e.endOfMotd = st.endOfMotd /\ e.outq = st.outq /\ e.joindelay = st.joindelay
      /\ e.child = st.child /\ e.pipe = st.pipe /\ e.sok = st.sok
      /\ e.iotag = st.iotag /\ e.sslTag = st.sslTag /\ e.recondelay = st.recondelay
      /\ \A u \in Tags : e.src[u] = IF u = t THEN "none" ELSE st.src[u]
  BY <1>1, EndedFields
<1>4. \/ st' = e
      \/ \E f \in Fresh(st), o \in ConnectOutcomes, ssl \in BOOLEAN :
            st' = server_connect([e EXCEPT !.useSsl = ssl, !.host = TRUE], f, o)
  BY DEF FireCycle
<1> HIDE DEF e
<1>5. CASE st' = e
  BY <1>1, <1>2, <1>3, <1>5, FiredKeeps
<1>6. CASE \E f \in Fresh(st), o \in ConnectOutcomes, ssl \in BOOLEAN :
             st' = server_connect([e EXCEPT !.useSsl = ssl, !.host = TRUE], f, o)
  <2>1. PICK f \in Fresh(st), o \in ConnectOutcomes, ssl \in BOOLEAN :
             st' = server_connect([e EXCEPT !.useSsl = ssl, !.host = TRUE], f, o)
    BY <1>6
  <2> DEFINE s == [e EXCEPT !.useSsl = ssl, !.host = TRUE]
  <2>2. s \in State
    BY <1>2 DEF State
  <2>3. /\ s.alive = e.alive /\ s.connecting = e.connecting
        /\ s.connected = e.connected /\ s.endOfMotd = e.endOfMotd
        /\ s.iotag = e.iotag /\ s.recondelay = e.recondelay
        /\ s.joindelay = e.joindelay /\ s.sslTag = e.sslTag /\ s.src = e.src
        /\ s.child = e.child /\ s.report = e.report
        /\ s.outq = e.outq /\ s.pipe = e.pipe /\ s.sok = e.sok
    BY <1>2 DEF State
  <2>4. st' = server_connect(s, f, o)
    BY <2>1
  <2> HIDE DEF s
  <2>5. IInv(s)
    BY <1>2, <2>2, <2>3, SameInv
  <2>6. f \in Fresh(s)
    BY <1>3, <2>3 DEF Fresh
  <2>7. \E g \in Fresh(s), u \in ConnectOutcomes : st' = server_connect(s, g, u)
    BY <2>4, <2>6
  <2> QED BY <1>1, <1>3, <2>3, <2>5, <2>7, FiredKeeps
<1> QED BY <1>4, <1>5, <1>6

LEMMA NextKeeps == ASSUME IInv(st), [Next]_vars PROVE Keeps
<1>1. CASE UserStep
  BY <1>1, UserServerKeeps, UserDisconKeeps, UserReconnectKeeps, UserCloseKeeps,
     PlainKeeps DEF UserStep
<1>2. CASE LoopStep
  <2>1. PICK t \in Tags : ReadChild(t) \/ SslEnds(t) \/ ServerTalks(t) \/ Fire(t)
    BY <1>2 DEF LoopStep
  <2>2. CASE ReadChild(t)
    BY <2>2, ConnectFailedKeeps, ConnectSucceededKeeps, DropKeeps DEF ReadChild
  <2>3. CASE SslEnds(t)
    BY <2>3, SslUpKeeps, SslFailedKeeps, DropKeeps DEF SslEnds
  <2>4. CASE ServerTalks(t)
    BY <2>4, ConnectionLostKeeps, MotdEndKeeps, JoinDoneKeeps DEF ServerTalks
  <2>5. CASE Fire(t)
    BY <2>5, JoinDoneKeeps, FireReconnectKeeps, FireCycleKeeps DEF Fire
  <2> QED BY <2>1, <2>2, <2>3, <2>4, <2>5
<1>3. CASE ChildReports \/ QueueFills \/ QueueDrains \/ UNCHANGED vars
  BY <1>3, PlainKeeps
<1>4. CASE PingTimeout
  BY <1>4, PingTimeoutKeeps
<1> QED BY <1>1, <1>2, <1>3, <1>4 DEF Next

-----------------------------------------------------------------------------
(* The theorems.                                                           *)

LEMMA InitInv == Init => IInv(st)
<1> SUFFICES ASSUME Init PROVE IInv(st)
  OBVIOUS
<1>1. st \in State
  BY DEF Init, State, TagOrNone, Callbacks
<1>2. Quiet(st)
  BY <1>1 DEF Init, Quiet, DelayCallbacks
<1> QED BY <1>2, QuietInv

LEMMA NextInv == IInv(st) /\ [Next]_vars => IInv(st')
<1> SUFFICES ASSUME IInv(st), [Next]_vars PROVE IInv(st')
  OBVIOUS
<1>1. CASE UserStep
  <2>1. CASE UserSet
    BY <2>1 DEF UserSet
  <2> QED BY <1>1, <2>1, UserServerInv, UserDisconInv, UserReconnectInv,
             UserCloseInv, NetRemovedInv DEF UserStep
<1>2. CASE ChildReports
  BY <1>2, ChildReportsInv
<1>3. CASE LoopStep
  <2>1. PICK t \in Tags : ReadChild(t) \/ SslEnds(t) \/ ServerTalks(t) \/ Fire(t)
    BY <1>3 DEF LoopStep
  <2>2. CASE ReadChild(t)
    BY <2>2, ConnectFailedInv, ConnectSucceededInv, DropInv DEF ReadChild
  <2>3. CASE SslEnds(t)
    BY <2>3, SslUpInv, SslFailedInv, DropInv DEF SslEnds
  <2>4. CASE ServerTalks(t)
    BY <2>4, ConnectionLostInv, MotdEndInv, IdentifiedInv DEF ServerTalks
  <2>5. CASE Fire(t)
    BY <2>5, FireAutojoinInv, FireReconnectInv, FireCycleInv DEF Fire
  <2> QED BY <2>1, <2>2, <2>3, <2>4, <2>5
<1>4. CASE PingTimeout
  BY <1>4, PingTimeoutInv
<1>5. CASE QueueFills \/ QueueDrains
  BY <1>5, QueueInv
<1>6. CASE UNCHANGED vars
  BY <1>6 DEF vars
<1> QED BY <1>1, <1>2, <1>3, <1>4, <1>5, <1>6 DEF Next

\* In every state of every run, no field that names a source is overwritten
\* while its source is pending: IInv is inductive.
THEOREM TagsAreNotOverwritten == Spec => []IInv(st)
<1>1. Init => IInv(st)
  BY InitInv
<1>2. IInv(st) /\ [Next]_vars => IInv(st)'
  BY NextInv
<1> QED BY <1>1, <1>2, PTL DEF Spec

\* The I/O sources of a server are those its tag fields name, however many
\* sources the main loop has and whatever pipe() and fork() answer.
THEOREM WatchesAreOwned == Spec => []WatchesOwned
<1>1. IInv(st) => WatchesOwned
  BY DEF IInv, WatchesOwned
<1> QED BY <1>1, TagsAreNotOverwritten, PTL

\* No watch, SSL poll or JOIN timer survives server_free.
THEOREM FreedServersAreDeaf == Spec => []FreedIsDeaf
<1>1. IInv(st) => FreedIsDeaf
  BY DEF IInv, FreedIsDeaf
<1> QED BY <1>1, TagsAreNotOverwritten, PTL

\* Both together: what the run `wild` checks on a small instance.
THEOREM CallbacksAreOwned == Spec => []CallbacksOwned
BY WatchesAreOwned, FreedServersAreDeaf, PTL DEF CallbacksOwned

\* Type correctness of the server structure, the preferences and the history.
THEOREM TypeCorrect == Spec => []TypeOK
<1> DEFINE Rest == prefs \in Prefs /\ goal \in {"online", "offline", "gaveup"}
<1>1. Init => Rest
  BY DEF Init
<1>2. Rest /\ [Next]_vars => Rest'
  <2> SUFFICES ASSUME Rest, [Next]_vars PROVE Rest'
    OBVIOUS
  <2>1. CASE UserStep
    BY <2>1 DEF UserStep, UserServer, UserDiscon, UserReconnect, UserClose,
                NetRemoved, UserSet
  <2>2. CASE LoopStep
    BY <2>2 DEF LoopStep, ReadChild, SslEnds, ServerTalks, Fire, ConnectFailed,
                ProxyFailed, ConnectSucceeded, SslSetupFailed, SslUp, SslFailed,
                SslBadCert, ConnectionLost, MotdEnd, Identified, FireAutojoin,
                FireReconnect, FireCycle
  <2>3. CASE ChildReports \/ PingTimeout \/ QueueFills \/ QueueDrains
    BY <2>3 DEF ChildReports, PingTimeout, QueueFills, QueueDrains
  <2>4. CASE UNCHANGED vars
    BY <2>4 DEF vars
  <2> QED BY <2>1, <2>2, <2>3, <2>4 DEF Next
<1>3. IInv(st) /\ Rest => TypeOK
  BY DEF IInv, TypeOK
<1> QED BY <1>1, <1>2, <1>3, TagsAreNotOverwritten, PTL DEF Spec

\* Whatever fails, and whatever the user does meanwhile, no socket, pipe or
\* child survives the state in which server_cleanup would close or kill it.
THEOREM NothingIsLeaked == Spec => []NothingLeaked
<1>1. Init => Held(st)
  BY DEF Init, Held
<1>2. IInv(st) /\ Held(st) /\ [Next]_vars => Held(st)'
  BY NextKeeps DEF Keeps
<1>3. IInv(st) /\ Held(st) => NothingLeaked
  BY DEF IInv, Spare, Held, NothingLeaked, Idle
<1> QED BY <1>1, <1>2, <1>3, TagsAreNotOverwritten, PTL DEF Spec

\* As long as pipe() and fork() succeed, an attempt has a child, a pipe and a
\* socket of its own until it ends, also when /reconnect is typed during it.
THEOREM AttemptsOwnTheirResources ==
    ASSUME OnlyOk PROVE Spec => []AttemptOwnsItsResources
<1>1. Init => OwnAttempt(st)
  BY DEF Init, OwnAttempt
<1>2. IInv(st) /\ OwnAttempt(st) /\ [Next]_vars => OwnAttempt(st)'
  BY NextKeeps DEF Keeps
<1>3. OwnAttempt(st) => AttemptOwnsItsResources
  BY DEF OwnAttempt, AttemptOwnsItsResources
<1> QED BY <1>1, <1>2, <1>3, TagsAreNotOverwritten, PTL DEF Spec

\* As long as the network's own command does not disconnect at the end of the
\* MOTD, no connection finds the login state, the JOIN timer or the queue of
\* an earlier one, whatever else fails.
THEOREM NothingIsCarriedOver ==
    ASSUME OnlyNone PROVE Spec => []NothingCarriedOver
<1>1. Init => NotCarried(st)
  BY DEF Init, NotCarried
<1>2. IInv(st) /\ NotCarried(st) /\ [Next]_vars => NotCarried(st)'
  BY NextKeeps DEF Keeps
<1>3. NotCarried(st) => NothingCarriedOver
  BY DEF NotCarried, NothingCarriedOver
<1> QED BY <1>1, <1>2, <1>3, TagsAreNotOverwritten, PTL DEF Spec

\* Both together: what the run `usual' checks on a small instance.
THEOREM ConnectionsAreTheirOwn ==
    ASSUME OnlyOk, OnlyNone PROVE Spec => []ConnectionIsOwn
<1>1. Spec => []AttemptOwnsItsResources
  BY AttemptsOwnTheirResources
<1>2. Spec => []NothingCarriedOver
  BY NothingIsCarriedOver
<1> QED BY <1>1, <1>2, PTL DEF ConnectionIsOwn

\* While no /reconnect is typed, a delay is pending only when there is no
\* connection and no attempt, and nothing at all is pending while the user
\* wants the server offline.
THEOREM DelaysInvariant ==
    ASSUME ~ReconnectTyped PROVE Spec => [](Delays(st) /\ Offline(st, goal))
<1>1. Init => Delays(st) /\ Offline(st, goal)
  BY DEF Init, Delays, Offline, NoDelay, DelayCallbacks
<1>2. IInv(st) /\ (Delays(st) /\ Offline(st, goal)) /\ [Next]_vars
        => (Delays(st) /\ Offline(st, goal))'
  BY NextKeeps DEF Keeps
<1> QED BY <1>1, <1>2, TagsAreNotOverwritten, PTL DEF Spec

\* recondelay_tag names the only delay, and the delay that does not ask
\* is_server() does not outlive the server.
THEOREM ReconnectsAreOwned ==
    ASSUME ~ReconnectTyped PROVE Spec => []ReconnectOwned
<1>1. Delays(st) => ReconnectOwned
  BY DEF Delays, ReconnectOwned, Reconnects, Pending, Idle, DelayCallbacks
<1>2. Spec => [](Delays(st) /\ Offline(st, goal))
  BY DelaysInvariant
<1> QED BY <1>1, <1>2, PTL

\* After /discon, /quit or a close, no step of the program connects until the
\* user asks for it.
THEOREM DisconnectsAreFinal ==
    ASSUME ~ReconnectTyped PROVE Spec => DisconnectIsFinal
<1> DEFINE Final == goal = "offline" /\ goal' = "offline"
                       => ~(st'.connecting /\ ~st.connecting)
<1>1. IInv(st) /\ (Delays(st) /\ Offline(st, goal)) /\ [Next]_vars => [Final]_vars
  BY NextKeeps DEF Keeps
<1>2. Spec => [](Delays(st) /\ Offline(st, goal))
  BY DelaysInvariant
<1> QED BY <1>1, <1>2, TagsAreNotOverwritten, PTL DEF Spec, DisconnectIsFinal
=============================================================================
