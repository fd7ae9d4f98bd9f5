----------------------------- MODULE SendQueue ------------------------------
(***************************************************************************)
(* The throttled send queue of a server: tcp_send_len, tcp_send_queue,     *)
(* server_flush_queue (server.cpp) and their callers that flush or         *)
(* disconnect.  `outbound_queue' is one list whose elements begin with a   *)
(* priority byte; every line sent costs 2 seconds plus one for 120         *)
(* characters of parameters, and sending stops when next_send is 10        *)
(* seconds ahead of the clock, "the same method as the Undernet ircu2.10   *)
(* server" (which is the external part: the IRC server's own counter).     *)
(*                                                                         *)
(* The clock is kept as differences: ahead = next_send - now, or 0 when    *)
(* next_send is past (the code then raises it to now before looking), and  *)
(* back = prev_now - now, or 0 when prev_now is past.  One step of the     *)
(* loop of tcp_send_queue is one action; nothing else runs until the loop  *)
(* returns (job = Idle).                                                   *)
(***************************************************************************)
EXTENDS Integers, Sequences, FiniteSets, SequencesExt

CONSTANTS
    Ids,       \* tells apart the lines that wait at the same time
    Quit,      \* the id of the QUIT line
    NoLine,
    Extras,    \* the possible i / 120, i the characters after the first word
    MaxTimers, \* bound on the timeouts that have tcp_send_queue as callback
    MaxSince,  \* bound: the IRC server's counter is followed up to this value
    MaxStep,   \* by how many seconds the system clock may be set back
    MaxMeddled \* bound: how often the clock is set back or throttling switched

ASSUME IdAssumption == Quit \notin Ids /\ NoLine \notin Ids \cup {Quit}
ASSUME BoundAssumption ==
    /\ Extras \subseteq Nat /\ 0 \in Extras
    /\ MaxTimers \in Nat \ {0} /\ MaxSince \in Nat /\ MaxStep \in Nat
    /\ MaxMeddled \in Nat

VARIABLES
    queue,      \* outbound_queue
    sendq_len,
    ahead, back,
    throttle,   \* prefs.throttle
    timers,     \* pending timeouts tcp_send_queue
    job,        \* the tcp_send_queue that runs, on whose behalf
    connected,
    alive,      \* is_server()
    quit,       \* where the QUIT line of this connection is
    wire,       \* the line given to the socket last
    since,      \* external: the IRC server's counter for this connection,
                \* minus its clock, at least 0; followed while meddled = 0
    meddled     \* history: how often the clock was set back or throttling
                \* switched

vars == <<queue, sendq_len, ahead, back, throttle, timers, job, connected,
          alive, quit, wire, since, meddled>>

Line == [id : Ids \cup {Quit}, pri : 0..2, extra : Extras]

Cost(l) == 2 + l.extra

\* strlen, told apart only as far as the lines' parameters differ.
Size(l) == 1 + l.extra

\* The priority byte: WHO and MODE queries 0, PRIVMSG and NOTICE 1, the rest 2.
Commands == {"WHO", "MODE?", "PRIVMSG", "NOTICE", "MODE+", "other"}

Priority(cmd) == CASE cmd \in {"PRIVMSG", "NOTICE"} -> 1
                   [] cmd \in {"WHO", "MODE?"}      -> 0
                   [] OTHER                         -> 2

\* The handler in progress: the tcp_send_queue that runs (by), and what is
\* done once it has returned (then).
Idle == [by |-> "none", noqueue |-> FALSE, then |-> "return"]

Job == [by      : {"none", "send", "timer"},
        noqueue : BOOLEAN,                     \* the queue was empty before
        then    : {"return", "sendquit", "disconnect", "free"}]

Queued == {queue[i].id : i \in DOMAIN queue}

-----------------------------------------------------------------------------
(* Parts of handlers.                                                      *)

\* server_send_real: the line goes to the socket, and so to the server.
server_send_real(l) ==
    /\ wire' = l.id
    /\ since' = CASE meddled > 0                 -> since
                  [] since + Cost(l) < MaxSince -> since + Cost(l)
                  [] OTHER                      -> MaxSince
    /\ quit' = IF l.id = Quit THEN "sent" ELSE quit

\* Mutant: the line is put at the head of the list (g_slist_prepend).
tcp_send_len_Prepends(l, then) ==
    IF throttle
    THEN /\ queue' = <<l>> \o queue
         /\ sendq_len' = sendq_len + Size(l)
         /\ job' = [by |-> "send", noqueue |-> queue = <<>>, then |-> then]
         /\ quit' = IF l.id = Quit THEN "queued" ELSE quit
         /\ UNCHANGED <<wire, since>>
    ELSE /\ server_send_real(l)
         /\ job' = [Idle EXCEPT !.then = then]
         /\ UNCHANGED <<queue, sendq_len>>

\* Mutant: noqueue is read after the line has been appended.
tcp_send_len_LateLook(l, then) ==
    IF throttle
    THEN /\ queue' = Append(queue, l)
         /\ sendq_len' = sendq_len + Size(l)
         /\ job' = [by |-> "send", noqueue |-> FALSE, then |-> then]
         /\ quit' = IF l.id = Quit THEN "queued" ELSE quit
         /\ UNCHANGED <<wire, since>>
    ELSE /\ server_send_real(l)
         /\ job' = [Idle EXCEPT !.then = then]
         /\ UNCHANGED <<queue, sendq_len>>

tcp_send_len(l, then) ==
    IF throttle
    THEN /\ queue' = Append(queue, l)
         /\ sendq_len' = sendq_len + Size(l)
         /\ job' = [by |-> "send", noqueue |-> queue = <<>>, then |-> then]
         /\ quit' = IF l.id = Quit THEN "queued" ELSE quit
         /\ UNCHANGED <<wire, since>>
    ELSE /\ server_send_real(l)
         /\ job' = [Idle EXCEPT !.then = then]
         /\ UNCHANGED <<queue, sendq_len>>

server_flush_queue ==
    /\ queue' = <<>>
    /\ sendq_len' = 0
    /\ quit' = IF quit = "queued" THEN "lost" ELSE quit

\* Bound: a timeout outlives a flush, so each flush may cost one more.
TimerRoom == queue = <<>> => timers < MaxTimers

QuitLine == [id |-> Quit, pri |-> 2, extra |-> 0]

-----------------------------------------------------------------------------
(* The callers.                                                            *)

\* Commands and replies to the server.
Send ==
    /\ job = Idle /\ connected /\ TimerRoom
    /\ \E i \in Ids \ Queued, p \in {Priority(cmd) : cmd \in Commands}, x \in Extras :
          tcp_send_len([id |-> i, pri |-> p, extra |-> x], "return")
    /\ UNCHANGED <<ahead, back, throttle, timers, connected, alive, meddled>>

\* /quit, /discon, /server, /reconnect: server_disconnect(sess, TRUE, -1).
UserQuit ==
    /\ job = Idle /\ connected /\ TimerRoom
    /\ tcp_send_len(QuitLine, "disconnect")
    /\ UNCHANGED <<ahead, back, throttle, timers, connected, alive, meddled>>

\* The last window of a connected server is closed: send_quit_or_part flushes
\* the queue and sends QUIT, then session_free frees the server.
CloseLast ==
    /\ job = Idle /\ connected
    /\ server_flush_queue
    /\ job' = [Idle EXCEPT !.then = "sendquit"]
    /\ UNCHANGED <<ahead, back, throttle, timers, connected, alive, wire,
                   since, meddled>>

SendQuit ==
    /\ job.by = "none" /\ job.then = "sendquit"
    /\ tcp_send_len(QuitLine, "free")
    /\ UNCHANGED <<ahead, back, throttle, timers, connected, alive, meddled>>

\* The connection is lost, or dropped without a QUIT.
Lost ==
    /\ job = Idle /\ connected
    /\ server_flush_queue
    /\ connected' = FALSE
    /\ UNCHANGED <<ahead, back, throttle, timers, job, alive, wire, since,
                   meddled>>

\* /flushq
FlushQ ==
    /\ job = Idle /\ alive
    /\ server_flush_queue
    /\ UNCHANGED <<ahead, back, throttle, timers, job, connected, alive,
                   wire, since, meddled>>

\* server_connect flushes the queue; next_send and prev_now are kept.
Connect ==
    /\ job = Idle /\ alive /\ ~connected
    /\ connected' = TRUE
    /\ queue' = <<>> /\ sendq_len' = 0
    /\ quit' = "none"
    /\ since' = 0
    /\ UNCHANGED <<ahead, back, throttle, timers, job, alive, wire, meddled>>

\* /set net_throttle
SetThrottle ==
    /\ job = Idle /\ meddled < MaxMeddled
    /\ throttle' = ~throttle
    /\ meddled' = meddled + 1 /\ since' = 0
    /\ UNCHANGED <<queue, sendq_len, ahead, back, timers, job, connected,
                   alive,
                   quit, wire>>

-----------------------------------------------------------------------------
(* tcp_send_queue.                                                         *)

\* The timeout: a freed server has no queue to look at.
TimerFires ==
    /\ job = Idle /\ timers > 0
    /\ IF alive
       THEN job' = [Idle EXCEPT !.by = "timer"] /\ UNCHANGED timers
       ELSE timers' = timers - 1 /\ UNCHANGED job
    /\ UNCHANGED <<queue, sendq_len, ahead, back, throttle, connected, alive,
                   quit, wire, since, meddled>>

\* The next line: the first of those with the highest priority.
IsNext(i) ==
    \A j \in DOMAIN queue : \/ queue[j].pri < queue[i].pri
                             \/ (queue[j].pri = queue[i].pri /\ i <= j)

\* Mutant: > for >=.
Throttled_OneLate == ahead > 10 /\ back = 0

\* next_send - now >= 10, and the clock has not gone back since the last line.
Throttled == ahead >= 10 /\ back = 0

DrainSend ==
    /\ job.by # "none"
    /\ ~Throttled
    /\ \E i \in DOMAIN queue :
          /\ IsNext(i)
          /\ ahead' = (IF ahead >= 10 THEN 0 ELSE ahead) + Cost(queue[i])
          /\ back' = 0
          /\ sendq_len' = sendq_len - Size(queue[i])
          /\ server_send_real(queue[i])
          /\ queue' = RemoveAt(queue, i)
    /\ UNCHANGED <<throttle, timers, job, connected, alive, meddled>>

\* Mutant: the timeout is dropped whatever tcp_send_queue answers.
DrainReturns_OneShot ==
    /\ job.by # "none"
    /\ queue = <<>> \/ Throttled
    /\ LET again == queue # <<>>
       IN timers' = CASE job.by = "timer"                       -> timers - 1
                      [] job.by = "send" /\ again /\ job.noqueue -> timers + 1
                      [] OTHER                                  -> timers
    /\ job' = [Idle EXCEPT !.then = job.then]
    /\ UNCHANGED <<queue, sendq_len, ahead, back, throttle, connected, alive,
                   quit, wire, since, meddled>>

\* tcp_send_queue answers 1 when it was throttled: a timeout that runs stays,
\* and tcp_send_len adds one if the queue was empty.
DrainReturns ==
    /\ job.by # "none"
    /\ queue = <<>> \/ Throttled
    /\ LET again == queue # <<>>
       IN timers' = CASE job.by = "timer" /\ ~again            -> timers - 1
                      [] job.by = "send" /\ again /\ job.noqueue -> timers + 1
                      [] OTHER                                  -> timers
    /\ job' = [Idle EXCEPT !.then = job.then]
    /\ UNCHANGED <<queue, sendq_len, ahead, back, throttle, connected, alive,
                   quit, wire, since, meddled>>

\* The rest of server_disconnect, or of server_free: cleanup, then flush.
Finish ==
    /\ job.by = "none" /\ job.then \in {"disconnect", "free"}
    /\ connected' = FALSE
    /\ alive' = (job.then # "free")
    /\ server_flush_queue
    /\ job' = Idle
    /\ UNCHANGED <<ahead, back, throttle, timers, wire, since, meddled>>

-----------------------------------------------------------------------------
(* Time.                                                                   *)

Down(n) == IF n = 0 THEN 0 ELSE n - 1

Tick ==
    /\ job = Idle
    /\ ahead' = Down(ahead) /\ back' = Down(back) /\ since' = Down(since)
    /\ UNCHANGED <<queue, sendq_len, throttle, timers, job, connected, alive,
                   quit, wire, meddled>>

\* The system clock is set back by k seconds.  How long ago next_send and
\* prev_now were, once past, is not kept: they may come back less far.
SetBack ==
    /\ job = Idle /\ meddled < MaxMeddled
    /\ \E k \in 1..MaxStep :
          /\ ahead' \in (IF ahead = 0 THEN 0..k ELSE {ahead + k})
          /\ back' \in (IF back = 0 THEN 0..k ELSE {back + k})
          /\ back' > 0 => back' + 2 <= ahead'
          /\ ahead' <= 10 + MaxStep
    /\ meddled' = meddled + 1 /\ since' = 0
    /\ UNCHANGED <<queue, sendq_len, throttle, timers, job, connected, alive,
                   quit, wire>>

-----------------------------------------------------------------------------
Init ==
    /\ queue = <<>> /\ sendq_len = 0
    /\ ahead = 0 /\ back = 0
    /\ throttle \in BOOLEAN
    /\ timers = 0
    /\ job = Idle
    /\ connected = FALSE /\ alive = TRUE
    /\ quit = "none" /\ wire = NoLine
    /\ since = 0 /\ meddled = 0

Drain == DrainSend \/ DrainReturns \/ Finish \/ SendQuit

Next == \/ Send \/ UserQuit \/ CloseLast \/ Lost \/ FlushQ \/ Connect
        \/ SetThrottle \/ TimerFires \/ Drain \/ Tick \/ SetBack

Spec == Init /\ [][Next]_vars

\* A handler runs to its end, time passes however busy the program is, and the
\* main loop gets to every timeout that is due.
FairSpec == Spec /\ WF_vars(Drain) /\ SF_vars(Tick) /\ SF_vars(TimerFires)
-----------------------------------------------------------------------------
(* Properties.                                                             *)

\* Type correctness of the queue, the counters and the handler in progress.
TypeOK ==
    /\ queue \in Seq(Line) /\ sendq_len \in Int
    /\ ahead \in Nat /\ back \in Nat /\ since \in Nat /\ meddled \in Nat
    /\ throttle \in BOOLEAN /\ connected \in BOOLEAN /\ alive \in BOOLEAN
    /\ timers \in Nat
    /\ job \in Job
    /\ quit \in {"none", "queued", "sent", "lost"}
    /\ wire \in Ids \cup {Quit, NoLine}

\* A line that waits has a timeout that will look at it: tcp_send_len adds one
\* only when the queue was empty, tcp_send_queue drops it only when it is.
TimerWhenQueued == job = Idle /\ queue # <<>> => timers > 0

\* Nothing waits for a connection that is gone, or on a freed server.
QueueNeedsConnection == queue # <<>> => connected /\ alive

\* The throttling keeps the IRC server's own counter of a connection from
\* running away: as long as the clock has not been set back and throttling is
\* on, no line is sent while it is 10 seconds or more ahead.
NeverFloods ==
    [][since' > since /\ meddled = 0 /\ throttle => since < 10]_vars

\* The queue implements the three lanes, in the order of their priorities:
\* the ids of the lines of priority p, the oldest first.
Lane(q, p) ==
    LET lane[i \in 0..Len(q)] ==
            IF i = 0 THEN <<>>
            ELSE IF q[i].pri = p THEN Append(lane[i-1], q[i].id)
            ELSE lane[i-1]
    IN lane[Len(q)]

OfPriority(p) == Lane(queue, p)

Lanes == INSTANCE PriorityLanes WITH
    Lines <- Ids \cup {Quit},
    lanes <- [p \in 0..2 |-> OfPriority(p)],
    delivered <- wire,
    bypass <- ~throttle

ImplementsLanes == Lanes!Spec

\* An urgent line (PING, NICK, JOIN, ...) is not held up for ever by the lines
\* of lower priority, whatever else is sent: it leaves, or is flushed.  (The
\* ids are only compared, so one stands for all.)
UrgentLeaves ==
    LET one   == CHOOSE id \in Ids : TRUE
        Waits == \E i \in DOMAIN queue : queue[i].id = one /\ queue[i].pri = 2
    IN Waits ~> ~Waits
=============================================================================
