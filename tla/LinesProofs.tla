---------------------------- MODULE LinesProofs -----------------------------
(***************************************************************************)
(* Proofs about lines, in two parts.                                       *)
(*                                                                         *)
(* SendQueue, how they leave: the types, the timeout that every waiting    *)
(* line has, that the IRC server's counter is never run into while the     *)
(* clock is not set back, and that the one list implements the three lanes *)
(* of PriorityLanes.                                                       *)
(*                                                                         *)
(* IrcServer, what they make of a client: what the server says of each     *)
(* change is what brings a client that knew the channel before to what it  *)
(* is after.  Follows says that a client which reads all the lines on      *)
(* their way will show what the server has; Leads, that what the server    *)
(* does and what it says of it keep that so.  IrcProofs goes on with the   *)
(* client.                                                                 *)
(***************************************************************************)
EXTENDS SendQueue, Irc, SequenceTheorems, FunctionTheorems, FiniteSetTheorems, WellFoundedInduction, TLAPS

\* What RemoveAt makes of a sequence.
LEMMA RemoveAtProps ==
    ASSUME NEW S, NEW q \in Seq(S), NEW i \in 1..Len(q)
    PROVE  /\ RemoveAt(q, i) \in Seq(S) /\ Len(RemoveAt(q, i)) = Len(q) - 1
           /\ \A j \in 1..(i-1) : RemoveAt(q, i)[j] = q[j]
           /\ \A j \in i..(Len(q)-1) : RemoveAt(q, i)[j] = q[j+1]
<1> DEFINE a == SubSeq(q, 1, i - 1)
           b == SubSeq(q, i + 1, Len(q))
           r == a \o b
<1>1. /\ a \in Seq(S) /\ Len(a) = i - 1
      /\ b \in Seq(S) /\ Len(b) = Len(q) - i
  BY SubSeqProperties
<1>2. \A j \in 1..(i-1) : a[j] = q[j]
  OBVIOUS
<1>3. \A j \in 1..(Len(q)-i) : b[j] = q[i + j]
  OBVIOUS
<1>4. RemoveAt(q, i) = r
  BY DEF RemoveAt
<1> HIDE DEF a, b, r
<1>5. /\ r \in Seq(S) /\ Len(r) = Len(a) + Len(b)
      /\ \A j \in 1..(Len(a) + Len(b)) :
            r[j] = IF j <= Len(a) THEN a[j] ELSE b[j - Len(a)]
  <2>1. /\ a \o b \in Seq(S) /\ Len(a \o b) = Len(a) + Len(b)
        /\ \A j \in 1..(Len(a) + Len(b)) :
              (a \o b)[j] = IF j <= Len(a) THEN a[j] ELSE b[j - Len(a)]
    BY <1>1, ConcatProperties
  <2> QED BY <2>1 DEF r
<1>6. ASSUME NEW j \in 1..(i-1) PROVE r[j] = q[j]
  <2>1. j <= Len(a) /\ j \in 1..(Len(a) + Len(b))
    BY <1>1
  <2>2. r[j] = a[j]
    BY <1>5, <2>1
  <2> QED BY <1>2, <2>2
<1>7. ASSUME NEW j \in i..(Len(q)-1) PROVE r[j] = q[j+1]
  <2>1. /\ j - (i - 1) \in 1..(Len(q) - i) /\ ~(j <= Len(a))
        /\ j \in 1..(Len(a) + Len(b)) /\ i + (j - (i - 1)) = j + 1
    BY <1>1
  <2>2. r[j] = b[j - (i - 1)]
    BY <1>1, <1>5, <2>1
  <2> QED BY <1>3, <2>1, <2>2
<1>8. /\ r \in Seq(S) /\ Len(r) = Len(q) - 1
      /\ \A j \in 1..(i-1) : r[j] = q[j]
      /\ \A j \in i..(Len(q)-1) : r[j] = q[j+1]
  <2>1. Len(r) = Len(q) - 1
    BY <1>1, <1>5
  <2> QED BY <1>5, <1>6, <1>7, <2>1
<1> QED BY <1>4, <1>8

Thens == {"return", "sendquit", "disconnect", "free"}

\* The records a job is made of.
LEMMA JobType ==
    /\ \A b \in {"none", "send", "timer"}, n \in BOOLEAN, t \in Thens :
          [by |-> b, noqueue |-> n, then |-> t] \in Job
    /\ \A t \in Thens : /\ [Idle EXCEPT !.then = t] \in Job
                        /\ [Idle EXCEPT !.then = t].by = "none"
                        /\ [Idle EXCEPT !.then = t].then = t
    /\ [Idle EXCEPT !.by = "timer"] \in Job
    /\ Idle \in Job /\ Idle.by = "none" /\ Idle.then = "return"
    /\ \A j \in Job : j.by \in {"none", "send", "timer"} /\ j.then \in Thens
BY DEF Job, Idle, Thens

\* The two ends of tcp_send_len.
LEMMA TcpSendLenType ==
    ASSUME TypeOK, NEW l \in Line, NEW then \in {"return", "disconnect", "free"},
           tcp_send_len(l, then)
    PROVE  /\ queue' \in Seq(Line) /\ sendq_len' \in Int /\ since' \in Nat
           /\ job' \in Job /\ quit' \in {"none", "queued", "sent", "lost"}
           /\ wire' \in Ids \cup {Quit, NoLine}
<1>1. l.extra \in Nat /\ l.id \in Ids \cup {Quit}
  BY BoundAssumption DEF Line
<1>2. CASE throttle
  <2>1. job' \in Job
    <3>1. job' = [by |-> "send", noqueue |-> queue = <<>>, then |-> then]
      BY <1>2 DEF tcp_send_len
    <3> QED BY <3>1 DEF Job
  <2>2. queue' \in Seq(Line) /\ sendq_len' \in Int /\ UNCHANGED <<wire, since>>
    <3>1. /\ queue' = Append(queue, l) /\ sendq_len' = sendq_len + Size(l)
          /\ UNCHANGED <<wire, since>>
      BY <1>2 DEF tcp_send_len
    <3>2. queue \in Seq(Line) /\ sendq_len \in Int /\ Size(l) \in Int
      BY <1>1 DEF TypeOK, Size
    <3> QED BY <3>1, <3>2
  <2>3. quit' \in {"none", "queued", "sent", "lost"}
    BY <1>2 DEF TypeOK, tcp_send_len
  <2> QED BY <2>1, <2>2, <2>3 DEF TypeOK
<1>3. CASE ~throttle
  <2>1. job' \in Job
    BY <1>3, JobType DEF tcp_send_len, Thens
  <2>2. server_send_real(l) /\ UNCHANGED <<queue, sendq_len>>
    BY <1>3 DEF tcp_send_len
  <2> QED BY <1>1, <2>1, <2>2, BoundAssumption, SMTT(30) DEF TypeOK, server_send_real, Cost
<1> QED BY <1>2, <1>3

\* The strengthening that makes TimerWhenQueued inductive: it holds within a
\* handler too, and the queue of a server without connection is empty.
TimerInv ==
    /\ job.by = "none" /\ queue # <<>> => timers > 0
    /\ job.by = "timer" => timers > 0
    /\ job.by = "send" /\ ~job.noqueue => timers > 0
    /\ queue # <<>> => connected
    /\ connected => alive
    /\ job.then # "return" => connected

LEMMA TypeStep == TypeOK /\ TimerInv /\ [Next]_vars => TypeOK'
<1> SUFFICES ASSUME TypeOK, TimerInv, [Next]_vars PROVE TypeOK'
  OBVIOUS
<1> USE DEF TypeOK
<1>1. CASE Send
  <2>1. PICK i \in Ids \ Queued, p \in {Priority(cmd) : cmd \in Commands}, x \in Extras :
           tcp_send_len([id |-> i, pri |-> p, extra |-> x], "return")
    BY <1>1 DEF Send
  <2>2. p \in 0..2
    BY DEF Priority
  <2>3. [id |-> i, pri |-> p, extra |-> x] \in Line
    BY <2>2 DEF Line
  <2> QED BY <1>1, <2>1, <2>3, TcpSendLenType DEF Send
<1>2. CASE UserQuit \/ SendQuit
  <2>1. QuitLine \in Line
    BY BoundAssumption DEF QuitLine, Line
  <2> QED BY <1>2, <2>1, TcpSendLenType DEF UserQuit, SendQuit
<1>3. CASE CloseLast
  BY <1>3, JobType DEF CloseLast, server_flush_queue, Thens
<1>4. CASE Lost \/ FlushQ
  <2>1. queue' = <<>> /\ sendq_len' = 0
    BY <1>4 DEF Lost, FlushQ, server_flush_queue
  <2>2. quit' \in {"none", "queued", "sent", "lost"} /\ connected' \in BOOLEAN
    BY <1>4 DEF Lost, FlushQ, server_flush_queue
  <2>3. UNCHANGED <<ahead, back, throttle, timers, job, alive, wire, since, meddled>>
    BY <1>4 DEF Lost, FlushQ
  <2> QED BY <2>1, <2>2, <2>3
<1>5. CASE Connect
  BY <1>5 DEF Connect
<1>6. CASE SetThrottle
  BY <1>6 DEF SetThrottle
<1>7. CASE TimerFires
  BY <1>7, JobType DEF TimerFires
<1>8. CASE DrainSend
  <2>1. PICK i \in DOMAIN queue :
          /\ ahead' = (IF ahead >= 10 THEN 0 ELSE ahead) + Cost(queue[i])
          /\ back' = 0
          /\ sendq_len' = sendq_len - Size(queue[i])
          /\ server_send_real(queue[i])
          /\ queue' = RemoveAt(queue, i)
    BY <1>8 DEF DrainSend
  <2>2. queue[i] \in Line /\ i \in 1..Len(queue)
    OBVIOUS
  <2>3. queue[i].extra \in Nat /\ queue[i].id \in Ids \cup {Quit}
    BY <2>2, BoundAssumption DEF Line
  <2>4. queue' \in Seq(Line)
    BY <2>1, <2>2, RemoveAtProps
  <2>5. ahead' \in Nat /\ back' \in Nat /\ sendq_len' \in Int /\ since' \in Nat
    <3> DEFINE x == queue[i].extra
    <3>1. Cost(queue[i]) = 2 + x /\ Size(queue[i]) = 1 + x /\ x \in Nat
      BY <2>3 DEF Cost, Size
    <3>2. since' = CASE meddled > 0                         -> since
                     [] since + Cost(queue[i]) < MaxSince -> since + Cost(queue[i])
                     [] OTHER                             -> MaxSince
      BY <2>1 DEF server_send_real
    <3>3. ahead \in Nat /\ sendq_len \in Int /\ since \in Nat
      OBVIOUS
    <3> HIDE DEF x
    <3>4. ahead' \in Nat /\ sendq_len' \in Int /\ back' \in Nat
      BY <2>1, <3>1, <3>3
    <3>5. since' \in Nat
      BY <3>1, <3>2, <3>3, BoundAssumption, SMTT(30)
    <3> QED BY <3>4, <3>5
  <2>6. /\ quit' \in {"none", "queued", "sent", "lost"}
        /\ wire' \in Ids \cup {Quit, NoLine}
    BY <2>1, <2>3 DEF server_send_real
  <2> QED BY <1>8, <2>4, <2>5, <2>6 DEF DrainSend
<1>9. CASE DrainReturns
  <2>1. job' \in Job
    BY <1>9, JobType DEF DrainReturns
  <2>2. timers' \in Nat
    <3>1. job.by = "timer" => timers > 0
      BY DEF TimerInv
    <3> QED BY <1>9, <3>1 DEF DrainReturns
  <2> QED BY <1>9, <2>1, <2>2 DEF DrainReturns
<1>10. CASE Finish
  <2>1. queue' = <<>> /\ sendq_len' = 0 /\ job' \in Job
    BY <1>10, JobType DEF Finish, server_flush_queue
  <2>2. /\ quit' \in {"none", "queued", "sent", "lost"}
        /\ connected' \in BOOLEAN /\ alive' \in BOOLEAN
    BY <1>10 DEF Finish, server_flush_queue
  <2>3. UNCHANGED <<ahead, back, throttle, timers, wire, since, meddled>>
    BY <1>10 DEF Finish
  <2> QED BY <2>1, <2>2, <2>3
<1>11. CASE Tick
  BY <1>11 DEF Tick, Down
<1>12. CASE SetBack
  BY <1>12, BoundAssumption DEF SetBack
<1>13. CASE UNCHANGED vars
  BY <1>13 DEF vars
<1> QED BY <1>1, <1>2, <1>3, <1>4, <1>5, <1>6, <1>7, <1>8, <1>9, <1>10, <1>11,
           <1>12, <1>13 DEF Next, Drain

\* tcp_send_len runs with a timeout pending, or notes that the queue was empty.
LEMMA TcpSendLenTimer ==
    ASSUME TypeOK, TimerInv, job.by = "none", connected, NEW l, NEW then,
           tcp_send_len(l, then), UNCHANGED <<timers, connected, alive>>
    PROVE  TimerInv'
<1>1. CASE throttle
  <2>1. job' = [by |-> "send", noqueue |-> queue = <<>>, then |-> then]
    BY <1>1 DEF tcp_send_len
  <2>2. job'.by = "send" /\ job'.noqueue = (queue = <<>>)
    BY <2>1
  <2>3. CASE queue = <<>>
    BY <2>2, <2>3 DEF TimerInv
  <2>4. CASE queue # <<>>
    <3>1. timers > 0
      BY <2>4 DEF TimerInv
    <3> QED BY <2>2, <3>1 DEF TimerInv
  <2> QED BY <2>3, <2>4
<1>2. CASE ~throttle
  <2>1. job' = [Idle EXCEPT !.then = then] /\ UNCHANGED queue
    BY <1>2 DEF tcp_send_len
  <2>2. job'.by = "none"
    BY <2>1 DEF Idle
  <2> QED BY <2>1, <2>2 DEF TimerInv
<1> QED BY <1>1, <1>2 DEF TypeOK

LEMMA TimerStep == TypeOK /\ TimerInv /\ [Next]_vars => TimerInv'
<1> SUFFICES ASSUME TypeOK, TimerInv, [Next]_vars PROVE TimerInv'
  OBVIOUS
<1>1. CASE Send
  BY <1>1, JobType, TcpSendLenTimer DEF Send
<1>2. CASE UserQuit
  BY <1>2, JobType, TcpSendLenTimer DEF UserQuit
<1>3. CASE SendQuit
  <2>1. connected
    BY <1>3 DEF SendQuit, TimerInv
  <2> QED BY <1>3, <2>1, TcpSendLenTimer DEF SendQuit
<1>4. CASE CloseLast
  <2>1. job' = [Idle EXCEPT !.then = "sendquit"] /\ queue' = <<>>
    BY <1>4 DEF CloseLast, server_flush_queue
  <2>2. job'.by = "none"
    BY <2>1 DEF Idle
  <2> QED BY <1>4, <2>1, <2>2 DEF CloseLast, TimerInv
<1>5. CASE Lost \/ FlushQ \/ Connect
  <2>1. queue' = <<>> /\ UNCHANGED <<job, timers, alive>> /\ job = Idle
    BY <1>5 DEF Lost, FlushQ, Connect, server_flush_queue
  <2>2. job.by = "none" /\ job.then = "return"
    BY <2>1, JobType
  <2>3. connected' => alive
    BY <1>5 DEF Lost, FlushQ, Connect, TimerInv
  <2> QED BY <2>1, <2>2, <2>3 DEF TimerInv
<1>6. CASE SetThrottle \/ Tick \/ SetBack \/ UNCHANGED vars
  BY <1>6 DEF SetThrottle, Tick, SetBack, vars, TimerInv
<1>7. CASE TimerFires
  <2>1. job = Idle /\ timers > 0 /\ UNCHANGED <<queue, connected, alive>>
    BY <1>7 DEF TimerFires
  <2>2. CASE alive
    <3>1. job' = [Idle EXCEPT !.by = "timer"] /\ UNCHANGED timers
      BY <1>7, <2>2 DEF TimerFires
    <3>2. job'.by = "timer" /\ job'.then = "return"
      BY <3>1 DEF Idle
    <3> QED BY <2>1, <3>1, <3>2 DEF TimerInv
  <2>3. CASE ~alive
    <3>1. UNCHANGED job /\ queue = <<>> /\ ~connected
      BY <1>7, <2>3 DEF TimerFires, TimerInv
    <3>2. job.by = "none"
      BY <2>1, JobType
    <3> QED BY <2>1, <2>3, <3>1, <3>2 DEF TimerInv
  <2> QED BY <2>2, <2>3
<1>8. CASE DrainSend
  <2>1. UNCHANGED <<timers, job, connected, alive>> /\ job.by # "none" /\ queue # <<>>
    BY <1>8 DEF DrainSend
  <2> QED BY <2>1 DEF TimerInv
<1>9. CASE DrainReturns
  <2>1. /\ job' = [Idle EXCEPT !.then = job.then] /\ job.by \in {"send", "timer"}
        /\ UNCHANGED <<queue, connected, alive>> /\ job.then \in Thens
    BY <1>9, JobType DEF DrainReturns, TypeOK
  <2>2. job'.by = "none" /\ job'.then = job.then
    BY <2>1, JobType
  <2>3. queue # <<>> => timers' > 0
    <3>1. CASE queue # <<>> /\ job.by = "timer"
      <4>1. timers' = timers
        BY <1>9, <3>1 DEF DrainReturns
      <4> QED BY <3>1, <4>1 DEF TimerInv
    <3>2. CASE queue # <<>> /\ job.by = "send" /\ job.noqueue
      <4>1. timers' = timers + 1
        BY <1>9, <3>2 DEF DrainReturns
      <4> QED BY <4>1 DEF TypeOK
    <3>3. CASE queue # <<>> /\ job.by = "send" /\ ~job.noqueue
      <4>1. timers' = timers
        BY <1>9, <3>3 DEF DrainReturns
      <4> QED BY <3>3, <4>1 DEF TimerInv
    <3> QED BY <2>1, <3>1, <3>2, <3>3
  <2> QED BY <2>1, <2>2, <2>3 DEF TimerInv
<1>10. CASE Finish
  <2>1. queue' = <<>> /\ connected' = FALSE /\ job' = Idle
    BY <1>10 DEF Finish, server_flush_queue
  <2>2. job'.by = "none" /\ job'.then = "return"
    BY <2>1, JobType
  <2> QED BY <2>1, <2>2 DEF TimerInv
<1> QED BY <1>1, <1>2, <1>3, <1>4, <1>5, <1>6, <1>7, <1>8, <1>9, <1>10
        DEF Next, Drain

-----------------------------------------------------------------------------
(* The theorems.                                                           *)

LEMMA InitInv == Init => TypeOK /\ TimerInv
<1> SUFFICES ASSUME Init PROVE TypeOK /\ TimerInv
  OBVIOUS
<1>1. job = Idle /\ queue = <<>> /\ connected = FALSE
  BY DEF Init
<1>2. TypeOK
  <2>1. queue \in Seq(Line) /\ job \in Job
    BY <1>1, JobType
  <2>2. wire \in Ids \cup {Quit, NoLine} /\ quit = "none" /\ throttle \in BOOLEAN
    BY DEF Init
  <2>3. sendq_len = 0 /\ ahead = 0 /\ back = 0 /\ since = 0 /\ timers = 0 /\ meddled = 0
    BY DEF Init
  <2>4. connected \in BOOLEAN /\ alive \in BOOLEAN
    BY DEF Init
  <2> QED BY <2>1, <2>2, <2>3, <2>4 DEF TypeOK
<1>3. TimerInv
  BY <1>1, JobType DEF TimerInv
<1> QED BY <1>2, <1>3

\* Type correctness, for any set of lines, costs and bounds.
THEOREM TypeCorrect == Spec => []TypeOK
<1>1. TypeOK /\ TimerInv /\ [Next]_vars => (TypeOK /\ TimerInv)'
  BY TypeStep, TimerStep
<1> QED BY <1>1, InitInv, PTL DEF Spec

\* A line that waits always has a timeout that will come back to it.
THEOREM WaitingLinesAreSeen == Spec => []TimerWhenQueued
<1>1. TypeOK /\ TimerInv /\ [Next]_vars => (TypeOK /\ TimerInv)'
  BY TypeStep, TimerStep
<1>2. TimerInv => TimerWhenQueued
  BY JobType DEF TimerInv, TimerWhenQueued
<1> QED BY <1>1, <1>2, InitInv, PTL DEF Spec

\* Nothing waits for a connection that is gone.
THEOREM WaitingNeedsConnection == Spec => []QueueNeedsConnection
<1>1. TypeOK /\ TimerInv /\ [Next]_vars => (TypeOK /\ TimerInv)'
  BY TypeStep, TimerStep
<1>2. TimerInv => QueueNeedsConnection
  BY DEF TimerInv, QueueNeedsConnection
<1> QED BY <1>1, <1>2, InitInv, PTL DEF Spec

-----------------------------------------------------------------------------
\* Until the clock is set back or throttling switched, next_send is never
\* behind the IRC server's counter.
RateInv == meddled = 0 => back = 0 /\ (throttle => since <= ahead)

\* What a step that sends may do, on the counter's side.
SlowEnough == since' > since /\ meddled = 0 /\ throttle => since < 10

LEMMA RateStep ==
    ASSUME TypeOK, RateInv, Next
    PROVE  RateInv' /\ SlowEnough
<1> DEFINE Goal == RateInv' /\ SlowEnough
<1>1. ASSUME UNCHANGED <<ahead, back, throttle, meddled>>,
             since' = since \/ since' = 0 \/ ~throttle
      PROVE  Goal
  BY <1>1 DEF RateInv, SlowEnough, TypeOK
<1>2. ASSUME NEW l, NEW then, tcp_send_len(l, then),
             UNCHANGED <<ahead, back, throttle, meddled>>
      PROVE  Goal
  <2>1. throttle => since' = since
    BY <1>2 DEF tcp_send_len
  <2> QED BY <1>1, <1>2, <2>1
<1>3. CASE Send \/ UserQuit \/ SendQuit
  BY <1>2, <1>3 DEF Send, UserQuit, SendQuit
<1>4. CASE CloseLast \/ Lost \/ FlushQ \/ TimerFires \/ DrainReturns \/ Finish
  <2>1. UNCHANGED <<ahead, back, throttle, since, meddled>>
    BY <1>4 DEF CloseLast, Lost, FlushQ, TimerFires, DrainReturns, Finish
  <2> QED BY <1>1, <2>1
<1>5. CASE Connect
  BY <1>1, <1>5 DEF Connect
<1>6. CASE SetThrottle \/ SetBack
  <2>1. meddled' > 0 /\ since' = 0
    BY <1>6 DEF SetThrottle, SetBack, TypeOK
  <2> QED BY <2>1 DEF RateInv, SlowEnough, TypeOK
<1>7. CASE DrainSend
  <2>1. PICK i \in DOMAIN queue :
          /\ ahead' = (IF ahead >= 10 THEN 0 ELSE ahead) + Cost(queue[i])
          /\ back' = 0
          /\ server_send_real(queue[i])
    BY <1>7 DEF DrainSend
  <2> DEFINE c == Cost(queue[i])
  <2>2. c \in Nat
    <3>1. queue[i] \in Line
      BY DEF TypeOK
    <3>2. queue[i].extra \in Nat
      BY <3>1, BoundAssumption DEF Line
    <3> QED BY <3>2 DEF Cost
  <2>3. meddled = 0 => ahead < 10
    BY <1>7 DEF DrainSend, Throttled, RateInv, TypeOK
  <2>4. since' = CASE meddled > 0          -> since
                   [] since + c < MaxSince -> since + c
                   [] OTHER                -> MaxSince
    BY <2>1 DEF server_send_real
  <2>5. UNCHANGED <<throttle, meddled>>
    BY <1>7 DEF DrainSend
  <2>6. CASE meddled = 0
    <3>1. ahead' = ahead + c
      BY <2>1, <2>3, <2>6 DEF TypeOK
    <3> HIDE DEF c
    <3>2. since' \in Nat /\ since' <= since + c
      BY <2>2, <2>4, <2>6, BoundAssumption DEF TypeOK
    <3> QED BY <2>1, <2>2, <2>3, <2>5, <2>6, <3>1, <3>2 DEF RateInv, SlowEnough, TypeOK
  <2>7. CASE meddled # 0
    BY <2>5, <2>7 DEF RateInv, SlowEnough
  <2> QED BY <2>6, <2>7
<1>8. CASE Tick
  BY <1>8 DEF Tick, Down, RateInv, SlowEnough, TypeOK
<1> QED BY <1>3, <1>4, <1>5, <1>6, <1>7, <1>8 DEF Next, Drain

\* The IRC server's counter is never run into, for any costs of the lines,
\* however often the clock is set back or throttling switched later.
THEOREM NoFlood == Spec => NeverFloods
<1>1. Init => RateInv
  BY DEF Init, RateInv
<1>2. TypeOK /\ TimerInv /\ [Next]_vars => (TypeOK /\ TimerInv)'
  BY TypeStep, TimerStep
<1>3. TypeOK /\ RateInv /\ [Next]_vars => RateInv'
  <2>1. TypeOK /\ RateInv /\ Next => RateInv'
    BY RateStep
  <2>2. RateInv /\ UNCHANGED vars => RateInv'
    BY DEF vars, RateInv
  <2> QED BY <2>1, <2>2
<1>4. TypeOK /\ RateInv /\ [Next]_vars
          => [since' > since /\ meddled = 0 /\ throttle => since < 10]_vars
  BY RateStep DEF SlowEnough
<1> QED BY <1>1, <1>2, <1>3, <1>4, InitInv, PTL DEF Spec, NeverFloods

-----------------------------------------------------------------------------
(* The queue implements the lanes: what Lane makes of a queue, by          *)
(* induction on the positions of the queue.                                *)

\* The least element principle, and induction, over sets.
LEMMA NatMin ==
    ASSUME NEW T, T \subseteq Nat, T # {}
    PROVE  \E x \in T : \A y \in T : ~(y < x)
<1> DEFINE R == {ss \in Nat \X Nat : ss[1] < ss[2]}
<1>1. IsWellFoundedOn(R, Nat)
  BY NatLessThanWellFounded DEF OpToRel
<1> HIDE DEF R
<1>2. PICK x \in T : \A y \in T : <<y, x>> \notin R
  BY <1>1, WFMin
<1>3. \A y \in T : y < x => <<y, x>> \in R
  BY DEF R
<1> QED BY <1>2, <1>3

LEMMA NatInduct ==
    ASSUME NEW T, 0 \in T, \A n \in Nat : n \in T => n + 1 \in T
    PROVE  \A n \in Nat : n \in T
<1> SUFFICES ASSUME NEW n \in Nat, n \notin T PROVE FALSE
  OBVIOUS
<1> DEFINE U == Nat \ T
<1>1. PICK x \in U : \A y \in U : ~(y < x)
  <2>1. U \subseteq Nat /\ U # {}
    OBVIOUS
  <2> HIDE DEF U
  <2> QED BY <2>1, NatMin
<1>2. x \in Nat /\ x # 0 /\ x - 1 \in Nat /\ x - 1 < x
  OBVIOUS
<1>3. x - 1 \in T
  BY <1>1, <1>2
<1> QED BY <1>1, <1>2, <1>3

\* g is the table from which Lane(q, p) is read.
Table(q, p, g) ==
    g = [i \in 0..Len(q) |->
            IF i = 0 THEN <<>>
            ELSE IF q[i].pri = p THEN Append(g[i-1], q[i].id)
            ELSE g[i-1]]

\* A recursive definition on the positions of a sequence has a solution.
LEMMA TableExists ==
    ASSUME NEW q, Len(q) \in Nat, NEW p
    PROVE  \E g : Table(q, p, g)
<1> DEFINE Upto(n, g) ==
              g = [i \in 0..n |-> IF i = 0 THEN <<>>
                                  ELSE IF q[i].pri = p THEN Append(g[i-1], q[i].id)
                                  ELSE g[i-1]]
           T == {n \in Nat : \E g : Upto(n, g)}
<1>1. 0 \in T
  <2>1. Upto(0, [i \in 0..0 |-> <<>>])
    OBVIOUS
  <2> QED BY <2>1
<1>2. ASSUME NEW n \in Nat, n \in T PROVE n + 1 \in T
  <2>1. PICK g : Upto(n, g)
    BY <1>2
  <2> DEFINE h == [i \in 0..(n+1) |->
                     IF i <= n THEN g[i]
                     ELSE IF q[i].pri = p THEN Append(g[i-1], q[i].id)
                     ELSE g[i-1]]
  <2>2. \A i \in 0..n : g[i] = IF i = 0 THEN <<>>
                               ELSE IF q[i].pri = p THEN Append(g[i-1], q[i].id)
                               ELSE g[i-1]
    BY <2>1
  <2>3. ASSUME NEW i \in 0..(n+1)
        PROVE  h[i] = IF i = 0 THEN <<>>
                      ELSE IF q[i].pri = p THEN Append(h[i-1], q[i].id)
                      ELSE h[i-1]
    <3>1. i # 0 => i - 1 \in 0..(n+1) /\ i - 1 <= n /\ h[i-1] = g[i-1]
      OBVIOUS
    <3>2. CASE i <= n
      <4>1. h[i] = g[i] /\ i \in 0..n
        BY <3>2
      <4> HIDE DEF h
      <4> QED BY <2>2, <3>1, <4>1
    <3>3. CASE ~(i <= n)
      <4>1. h[i] = IF q[i].pri = p THEN Append(g[i-1], q[i].id) ELSE g[i-1]
        BY <3>3
      <4> HIDE DEF h
      <4> QED BY <3>1, <3>3, <4>1
    <3> QED BY <3>2, <3>3
  <2>4. Upto(n+1, h)
    <3>1. h = [i \in 0..(n+1) |-> h[i]]
      OBVIOUS
    <3> HIDE DEF h
    <3> QED BY <2>3, <3>1
  <2> HIDE DEF h
  <2> QED BY <2>4, SMTT(30)
<1> HIDE DEF T
<1>3. Len(q) \in T
  BY <1>1, <1>2, NatInduct
<1> QED BY <1>3 DEF T, Table

\* g computes the lane of priority p step by step.
Computes(q, p, g) ==
    /\ g[0] = <<>>
    /\ \A i \in 1..Len(q) :
          g[i] = IF q[i].pri = p THEN Append(g[i-1], q[i].id) ELSE g[i-1]

\* The value of Lane.
LEMMA LaneTable ==
    ASSUME NEW q, Len(q) \in Nat, NEW p
    PROVE  \E g : Lane(q, p) = g[Len(q)] /\ Computes(q, p, g)
<1> DEFINE g == CHOOSE g : Table(q, p, g)
<1>1. Table(q, p, g)
  BY TableExists
<1>2. Lane(q, p) = g[Len(q)]
  BY DEF Lane, Table
<1> HIDE DEF g
<1>3. \A i \in 0..Len(q) :
        g[i] = IF i = 0 THEN <<>>
               ELSE IF q[i].pri = p THEN Append(g[i-1], q[i].id) ELSE g[i-1]
  BY <1>1 DEF Table
<1>4. g[0] = <<>>
  BY <1>3
<1>5. ASSUME NEW i \in 1..Len(q)
      PROVE g[i] = IF q[i].pri = p THEN Append(g[i-1], q[i].id) ELSE g[i-1]
  <2>1. i \in 0..Len(q) /\ i # 0
    OBVIOUS
  <2> QED BY <1>3, <2>1
<1> QED BY <1>2, <1>4, <1>5 DEF Computes

\* A lane holds ids of the queue.
LEMMA LaneType ==
    ASSUME NEW q \in Seq(Line), NEW p
    PROVE  Lane(q, p) \in Seq({q[i].id : i \in 1..Len(q)})
<1> DEFINE I == {q[i].id : i \in 1..Len(q)}
<1>1. PICK g : Lane(q, p) = g[Len(q)] /\ Computes(q, p, g)
  BY LaneTable
<1> DEFINE T == {n \in Nat : n <= Len(q) => g[n] \in Seq(I)}
<1>2. 0 \in T
  <2>1. g[0] = <<>> /\ <<>> \in Seq(I)
    <3> HIDE DEF I
    <3> QED BY <1>1 DEF Computes
  <2> QED BY <2>1
<1>3. ASSUME NEW n \in Nat, n \in T PROVE n + 1 \in T
  <2>1. SUFFICES ASSUME n + 1 <= Len(q) PROVE g[n+1] \in Seq(I)
    OBVIOUS
  <2>2. n + 1 \in 1..Len(q) /\ g[n] \in Seq(I) /\ (n + 1) - 1 = n
    BY <1>3, <2>1
  <2>3. q[n+1].id \in I
    BY <2>2
  <2>4. g[n+1] = IF q[n+1].pri = p THEN Append(g[n], q[n+1].id) ELSE g[n]
    BY <1>1, <2>2 DEF Computes
  <2> HIDE DEF I
  <2> QED BY <2>2, <2>3, <2>4
<1> HIDE DEF T
<1>4. Len(q) \in T
  BY <1>2, <1>3, NatInduct
<1> QED BY <1>1, <1>4 DEF T

LEMMA LaneEmpty == \A p : Lane(<<>>, p) = <<>>
<1> TAKE p
<1>1. Len(<<>>) = 0 /\ Len(<<>>) \in Nat
  OBVIOUS
<1>2. PICK g : Lane(<<>>, p) = g[Len(<<>>)] /\ Computes(<<>>, p, g)
  BY <1>1, LaneTable
<1> QED BY <1>1, <1>2 DEF Computes

\* Two queues that begin alike begin with the same lanes.
LEMMA SamePrefix ==
    ASSUME NEW q, NEW r, NEW p, NEW g, NEW h, NEW m \in Nat,
           Len(q) \in Nat, Len(r) \in Nat, m <= Len(q), m <= Len(r),
           \A i \in 1..m : q[i] = r[i], Computes(q, p, g), Computes(r, p, h)
    PROVE  \A n \in 0..m : g[n] = h[n]
<1> DEFINE T == {n \in Nat : n <= m => g[n] = h[n]}
<1>1. 0 \in T
  BY DEF Computes
<1>2. ASSUME NEW n \in Nat, n \in T PROVE n + 1 \in T
  <2>1. SUFFICES ASSUME n + 1 <= m PROVE g[n+1] = h[n+1]
    OBVIOUS
  <2>2. /\ n + 1 \in 1..m /\ n + 1 \in 1..Len(q) /\ n + 1 \in 1..Len(r)
        /\ (n + 1) - 1 = n /\ g[n] = h[n]
    BY <1>2, <2>1
  <2> HIDE DEF T
  <2>3. /\ g[n+1] = IF q[n+1].pri = p THEN Append(g[n], q[n+1].id) ELSE g[n]
        /\ h[n+1] = IF r[n+1].pri = p THEN Append(h[n], r[n+1].id) ELSE h[n]
    BY <2>2 DEF Computes
  <2> QED BY <2>2, <2>3
<1> HIDE DEF T
<1>3. \A n \in Nat : n \in T
  BY <1>1, <1>2, NatInduct
<1> QED BY <1>3 DEF T

\* A new line goes to the end of its lane.
LEMMA LaneAppend ==
    ASSUME NEW q \in Seq(Line), NEW l \in Line, NEW p
    PROVE  Lane(Append(q, l), p) = IF l.pri = p THEN Append(Lane(q, p), l.id)
                                   ELSE Lane(q, p)
<1> DEFINE r == Append(q, l)
           m == Len(q)
<1>1. /\ r \in Seq(Line) /\ Len(r) = m + 1 /\ m \in Nat /\ r[m+1] = l
      /\ \A i \in 1..m : q[i] = r[i]
  OBVIOUS
<1> HIDE DEF r
<1>2. PICK g : Lane(q, p) = g[m] /\ Computes(q, p, g)
  BY LaneTable
<1>3. PICK h : Lane(r, p) = h[m+1] /\ Computes(r, p, h)
  BY <1>1, LaneTable
<1> HIDE DEF m
<1>4. g[m] = h[m]
  <2>1. m <= Len(q) /\ m <= Len(r) /\ Len(q) \in Nat /\ Len(r) \in Nat /\ m \in 0..m
    BY <1>1 DEF m
  <2> QED BY <1>1, <1>2, <1>3, <2>1, SamePrefix
<1>5. h[m+1] = IF r[m+1].pri = p THEN Append(h[m], r[m+1].id) ELSE h[m]
  <2>1. m + 1 \in 1..Len(r) /\ (m + 1) - 1 = m
    BY <1>1
  <2> QED BY <1>3, <2>1 DEF Computes
<1> QED BY <1>1, <1>2, <1>3, <1>4, <1>5 DEF r

\* No line of the priority, no lane.
LEMMA NoLane ==
    ASSUME NEW q, NEW p, NEW g, NEW m \in Nat, m <= Len(q), Len(q) \in Nat,
           Computes(q, p, g), \A i \in 1..m : q[i].pri # p
    PROVE  g[m] = <<>>
<1> DEFINE T == {n \in Nat : n <= m => g[n] = <<>>}
<1>1. 0 \in T
  BY DEF Computes
<1>2. ASSUME NEW n \in Nat, n \in T PROVE n + 1 \in T
  <2>1. SUFFICES ASSUME n + 1 <= m PROVE g[n+1] = <<>>
    OBVIOUS
  <2>2. n + 1 \in 1..m /\ n + 1 \in 1..Len(q) /\ (n + 1) - 1 = n /\ g[n] = <<>>
    BY <1>2, <2>1
  <2> HIDE DEF T
  <2> QED BY <2>2 DEF Computes
<1> HIDE DEF T
<1>3. m \in T
  BY <1>1, <1>2, NatInduct
<1> QED BY <1>3 DEF T

\* What is left of the lanes when the line at i leaves the queue.
LEMMA OtherLane ==
    ASSUME NEW q \in Seq(Line), NEW i \in 1..Len(q), NEW p, q[i].pri # p
    PROVE  Lane(RemoveAt(q, i), p) = Lane(q, p)
<1> DEFINE r == RemoveAt(q, i)
           m == Len(q)
<1>1. /\ r \in Seq(Line) /\ Len(r) = m - 1 /\ m \in Nat /\ i \in 1..m
      /\ \A j \in 1..(i-1) : r[j] = q[j]
      /\ \A j \in i..(m-1) : r[j] = q[j+1]
  <2>1. m \in Nat /\ i \in 1..m
    OBVIOUS
  <2>2. /\ RemoveAt(q, i) \in Seq(Line) /\ Len(RemoveAt(q, i)) = Len(q) - 1
        /\ \A j \in 1..(i-1) : RemoveAt(q, i)[j] = q[j]
        /\ \A j \in i..(Len(q)-1) : RemoveAt(q, i)[j] = q[j+1]
    BY RemoveAtProps
  <2> QED BY <2>1, <2>2
<1> HIDE DEF r
<1>2. PICK g : Lane(q, p) = g[m] /\ Computes(q, p, g)
  BY LaneTable
<1>3. Len(r) \in Nat
  BY <1>1
<1>4. PICK h : Lane(r, p) = h[m-1] /\ Computes(r, p, h)
  BY <1>1, <1>3, LaneTable
<1> DEFINE T == {n \in Nat : i + n <= m => g[i+n] = h[i+n-1]}
<1>5. 0 \in T
  <2>1. \A n \in 0..(i-1) : g[n] = h[n]
    <3> DEFINE k == i - 1
    <3>1. /\ k \in Nat /\ k <= Len(q) /\ k <= Len(r)
          /\ Len(q) \in Nat /\ \A j \in 1..k : q[j] = r[j]
      BY <1>1
    <3> HIDE DEF m, k
    <3>2. \A n \in 0..k : g[n] = h[n]
      BY <1>2, <1>3, <1>4, <3>1, SamePrefix
    <3> QED BY <3>2 DEF k
  <2>2. g[i-1] = h[i-1]
    BY <1>1, <2>1
  <2>3. g[i] = g[i-1]
    BY <1>1, <1>2 DEF Computes
  <2> QED BY <1>1, <2>2, <2>3
<1>6. ASSUME NEW n \in Nat, n \in T PROVE n + 1 \in T
  <2>1. SUFFICES ASSUME i + (n + 1) <= m PROVE g[i+(n+1)] = h[i+(n+1)-1]
    OBVIOUS
  <2>2. /\ i + (n + 1) \in 1..m /\ (i + (n + 1)) - 1 = i + n
        /\ i + n \in 1..Len(r) /\ i + n \in i..(m-1) /\ (i + n) + 1 = i + (n + 1)
        /\ g[i+n] = h[i+n-1]
    BY <1>1, <1>6, <2>1
  <2>3. r[i+n] = q[i+(n+1)]
    BY <1>1, <2>2
  <2> HIDE DEF T
  <2>4. g[i+(n+1)] = IF q[i+(n+1)].pri = p THEN Append(g[i+n], q[i+(n+1)].id)
                     ELSE g[i+n]
    BY <1>2, <2>2 DEF Computes
  <2>5. h[i+n] = IF r[i+n].pri = p THEN Append(h[i+n-1], r[i+n].id)
                 ELSE h[i+n-1]
    BY <1>4, <2>2 DEF Computes
  <2> QED BY <2>2, <2>3, <2>4, <2>5
<1> HIDE DEF T
<1>7. m - i \in T
  <2>1. m - i \in Nat
    BY <1>1
  <2> QED BY <1>5, <1>6, <2>1, NatInduct
<1>8. m - i \in Nat /\ i + (m - i) = m
  BY <1>1
<1>9. g[m] = h[m-1]
  BY <1>7, <1>8 DEF T
<1> QED BY <1>2, <1>4, <1>9 DEF r

LEMMA OwnLane ==
    ASSUME NEW q \in Seq(Line), NEW i \in 1..Len(q), NEW p, q[i].pri = p,
           \A j \in 1..(i-1) : q[j].pri # p
    PROVE  /\ Lane(q, p) # <<>>
           /\ Head(Lane(q, p)) = q[i].id
           /\ Lane(RemoveAt(q, i), p) = Tail(Lane(q, p))
<1> DEFINE r == RemoveAt(q, i)
           m == Len(q)
           S == {q[j].id : j \in 1..m}
<1>1. /\ r \in Seq(Line) /\ Len(r) = m - 1 /\ m \in Nat /\ i \in 1..m
      /\ \A j \in 1..(i-1) : r[j] = q[j]
      /\ \A j \in i..(m-1) : r[j] = q[j+1]
  <2>1. m \in Nat /\ i \in 1..m
    OBVIOUS
  <2>2. /\ RemoveAt(q, i) \in Seq(Line) /\ Len(RemoveAt(q, i)) = Len(q) - 1
        /\ \A j \in 1..(i-1) : RemoveAt(q, i)[j] = q[j]
        /\ \A j \in i..(Len(q)-1) : RemoveAt(q, i)[j] = q[j+1]
    BY RemoveAtProps
  <2> QED BY <2>1, <2>2
<1> HIDE DEF r
<1>2. PICK g : Lane(q, p) = g[m] /\ Computes(q, p, g)
  BY LaneTable
<1>3. Len(r) \in Nat
  BY <1>1
<1>4. PICK h : Lane(r, p) = h[m-1] /\ Computes(r, p, h)
  BY <1>1, <1>3, LaneTable
<1> DEFINE Ended(n) == /\ h[i+n-1] \in Seq(S)
                      /\ g[i+n] = <<q[i].id>> \o h[i+n-1]
           T == {n \in Nat : i + n <= m => Ended(n)}
<1>5. 0 \in T
  <2>1. i - 1 \in Nat /\ i - 1 <= Len(q) /\ i - 1 <= Len(r)
        /\ Len(q) \in Nat /\ \A j \in 1..(i-1) : r[j].pri # p
    BY <1>1
  <2>2. g[i-1] = <<>>
    BY <1>2, <2>1, NoLane
  <2>3. h[i-1] = <<>>
    BY <1>3, <1>4, <2>1, NoLane
  <2>4. g[i] = Append(g[i-1], q[i].id)
    BY <1>1, <1>2 DEF Computes
  <2>5. q[i].id \in S
    BY <1>1
  <2>6. Append(<<>>, q[i].id) = <<q[i].id>> \o <<>> /\ <<>> \in Seq(S)
    <3> HIDE DEF S
    <3> QED BY <2>5
  <2>7. i + 0 = i /\ i + 0 - 1 = i - 1
    BY <1>1
  <2>8. Ended(0)
    <3> HIDE DEF S
    <3> QED BY <2>2, <2>3, <2>4, <2>6, <2>7
  <2> HIDE DEF Ended
  <2> QED BY <2>8
<1>6. ASSUME NEW n \in Nat, n \in T PROVE n + 1 \in T
  <2>1. SUFFICES ASSUME i + (n + 1) <= m PROVE Ended(n + 1)
    OBVIOUS
  <2>2. i + n <= m
    BY <1>1, <2>1
  <2>3. Ended(n)
    <3> HIDE DEF Ended
    <3> QED BY <1>6, <2>2
  <2>4. /\ i + (n + 1) \in 1..m /\ (i + (n + 1)) - 1 = i + n
        /\ i + n \in 1..Len(r) /\ i + n \in i..(m-1) /\ (i + n) + 1 = i + (n + 1)
    BY <1>1, <2>1
  <2>5. r[i+n] = q[i+(n+1)] /\ q[i+(n+1)].id \in S /\ q[i].id \in S
    BY <1>1, <2>4
  <2> HIDE DEF T, S
  <2>6. g[i+(n+1)] = IF q[i+(n+1)].pri = p THEN Append(g[i+n], q[i+(n+1)].id)
                     ELSE g[i+n]
    BY <1>2, <2>4 DEF Computes
  <2>7. h[i+n] = IF r[i+n].pri = p THEN Append(h[i+n-1], r[i+n].id)
                 ELSE h[i+n-1]
    BY <1>4, <2>4 DEF Computes
  <2>8. CASE q[i+(n+1)].pri = p
    <3>1. /\ g[i+(n+1)] = Append(<<q[i].id>> \o h[i+n-1], q[i+(n+1)].id)
          /\ h[i+n] = Append(h[i+n-1], q[i+(n+1)].id)
          /\ h[i+n-1] \in Seq(S)
      BY <2>3, <2>5, <2>6, <2>7, <2>8
    <3>2. ASSUME NEW s \in Seq(S), NEW a \in S, NEW b \in S
          PROVE  /\ Append(<<a>> \o s, b) = <<a>> \o Append(s, b)
                 /\ Append(s, b) \in Seq(S)
      OBVIOUS
    <3>3. /\ Append(<<q[i].id>> \o h[i+n-1], q[i+(n+1)].id) =
                <<q[i].id>> \o Append(h[i+n-1], q[i+(n+1)].id)
          /\ Append(h[i+n-1], q[i+(n+1)].id) \in Seq(S)
      <4> DEFINE s == h[i+n-1]
                 a == q[i].id
                 b == q[i+(n+1)].id
      <4>1. s \in Seq(S) /\ a \in S /\ b \in S
        BY <2>5, <3>1
      <4> HIDE DEF s, a, b
      <4>2. Append(<<a>> \o s, b) = <<a>> \o Append(s, b) /\ Append(s, b) \in Seq(S)
        BY <3>2, <4>1
      <4> QED BY <4>2 DEF s, a, b
    <3>4. h[i + (n + 1) - 1] = h[i+n]
      BY <2>4
    <3> HIDE DEF Ended
    <3>5. /\ h[i + (n + 1) - 1] \in Seq(S)
          /\ g[i+(n+1)] = <<q[i].id>> \o h[i + (n + 1) - 1]
      BY <3>1, <3>3, <3>4
    <3> QED BY <3>5 DEF Ended
  <2>9. CASE q[i+(n+1)].pri # p
    BY <2>3, <2>4, <2>5, <2>6, <2>7, <2>9, SMTT(30)
  <2> QED BY <2>8, <2>9
<1> HIDE DEF T
<1>7. m - i \in T
  <2>1. m - i \in Nat
    BY <1>1
  <2> QED BY <1>5, <1>6, <2>1, NatInduct
<1>8. m - i \in Nat /\ i + (m - i) = m
  BY <1>1
<1>9. h[m-1] \in Seq(S) /\ g[m] = <<q[i].id>> \o h[m-1]
  BY <1>7, <1>8 DEF T
<1>10. q[i].id \in S
  BY <1>1
<1> HIDE DEF S
<1>11. ASSUME NEW s \in Seq(S), NEW a \in S
       PROVE  LET t == <<a>> \o s
              IN t # <<>> /\ Head(t) = a /\ Tail(t) = s
  <2> DEFINE t == <<a>> \o s
  <2>1. /\ t \in Seq(S) /\ Len(t) = Len(s) + 1
        /\ \A j \in 1..(Len(s) + 1) : t[j] = IF j = 1 THEN a ELSE s[j-1]
    OBVIOUS
  <2> HIDE DEF t
  <2>2. t # <<>> /\ Head(t) = a
    BY <2>1
  <2>3. Tail(t) \in Seq(S) /\ Len(Tail(t)) = Len(s)
        /\ \A j \in 1..Len(s) : Tail(t)[j] = t[j+1]
    BY <2>1
  <2>4. \A j \in 1..Len(s) : Tail(t)[j] = s[j]
    BY <2>1, <2>3
  <2>5. Tail(t) = s
    BY <2>3, <2>4, SeqEqual
  <2> QED BY <2>2, <2>5 DEF t
<1> QED BY <1>2, <1>4, <1>9, <1>10, <1>11, SMTT(30) DEF r

LEMMA EmptyLane ==
    ASSUME NEW q \in Seq(Line), NEW p, \A j \in 1..Len(q) : q[j].pri # p
    PROVE  Lane(q, p) = <<>>
<1>1. PICK g : Lane(q, p) = g[Len(q)] /\ Computes(q, p, g)
  BY LaneTable
<1>2. Len(q) \in Nat /\ Len(q) <= Len(q)
  OBVIOUS
<1> QED BY <1>1, <1>2, NoLane

-----------------------------------------------------------------------------
(* The queue implements the lanes: the steps.                              *)

LanesOf(q) == [p \in 0..2 |-> Lane(q, p)]

\* The QUIT line is queued by the handler that ends the connection, and flushed
\* at its end: between handlers, and before CloseLast sends it, it does not wait.
QuitInv ==
    job.then \in {"return", "sendquit"} =>
        \A i \in 1..Len(queue) : queue[i].id # Quit

LEMMA QuitStep == TypeOK /\ TimerInv /\ QuitInv /\ [Next]_vars => QuitInv'
<1> SUFFICES ASSUME TypeOK, TimerInv, QuitInv, [Next]_vars PROVE QuitInv'
  OBVIOUS
<1>0. queue \in Seq(Line) /\ job \in Job
  BY DEF TypeOK
<1>1. CASE Send
  <2>1. job = Idle /\ \E l \in Line : l.id # Quit /\ tcp_send_len(l, "return")
    <3>1. PICK i \in Ids \ Queued, p \in {Priority(cmd) : cmd \in Commands}, x \in Extras :
             tcp_send_len([id |-> i, pri |-> p, extra |-> x], "return")
      BY <1>1 DEF Send
    <3>2. p \in 0..2
      BY DEF Priority
    <3> DEFINE l == [id |-> i, pri |-> p, extra |-> x]
    <3>3. l \in Line /\ l.id # Quit
      BY <3>2, IdAssumption DEF Line
    <3> HIDE DEF l
    <3> QED BY <1>1, <3>1, <3>3 DEF l, Send
  <2>2. PICK l \in Line : l.id # Quit /\ tcp_send_len(l, "return")
    BY <2>1
  <2>3. queue' = Append(queue, l) \/ queue' = queue
    BY <2>2 DEF tcp_send_len
  <2>4. \A i \in 1..Len(queue) : queue[i].id # Quit
    BY <2>1, JobType DEF QuitInv
  <2>5. CASE queue' = Append(queue, l)
    <3>1. \A i \in 1..Len(queue') : queue'[i] = l \/ (i \in 1..Len(queue) /\ queue'[i] = queue[i])
      BY <1>0, <2>5
    <3> QED BY <2>2, <2>4, <3>1 DEF QuitInv
  <2> QED BY <2>3, <2>4, <2>5 DEF QuitInv
<1>2. CASE UserQuit \/ SendQuit
  <2>1. PICK then \in {"disconnect", "free"} : tcp_send_len(QuitLine, then)
    BY <1>2 DEF UserQuit, SendQuit
  <2>2. \/ job' = [by |-> "send", noqueue |-> queue = <<>>, then |-> then]
        \/ job' = [Idle EXCEPT !.then = then]
    BY <2>1 DEF tcp_send_len
  <2>3. job'.then = then
    BY <2>2 DEF Idle
  <2> QED BY <2>3 DEF QuitInv
<1>3. CASE CloseLast \/ Lost \/ FlushQ \/ Connect \/ Finish
  <2>1. queue' = <<>>
    BY <1>3 DEF CloseLast, Lost, FlushQ, Connect, Finish, server_flush_queue
  <2>2. 1..Len(queue') = {}
    BY <2>1
  <2> QED BY <2>2 DEF QuitInv
<1>4. CASE SetThrottle \/ Tick \/ SetBack \/ UNCHANGED vars
  BY <1>4 DEF SetThrottle, Tick, SetBack, vars, QuitInv
<1>5. CASE TimerFires \/ DrainReturns
  <2>1. UNCHANGED queue /\ job'.then = job.then
    <3>1. CASE TimerFires
      <4>1. job = Idle /\ (job' = [Idle EXCEPT !.by = "timer"] \/ UNCHANGED job)
        BY <3>1 DEF TimerFires
      <4>2. [Idle EXCEPT !.by = "timer"].then = Idle.then
        BY DEF Idle
      <4> QED BY <3>1, <4>1, <4>2 DEF TimerFires
    <3>2. CASE DrainReturns
      <4>1. job' = [Idle EXCEPT !.then = job.then] /\ job.then \in Thens
        BY <1>0, <3>2, JobType DEF DrainReturns
      <4> QED BY <3>2, <4>1, JobType DEF DrainReturns
    <3> QED BY <1>5, <3>1, <3>2
  <2> QED BY <2>1 DEF QuitInv
<1>6. CASE DrainSend
  <2>1. UNCHANGED job /\ \E i \in DOMAIN queue : queue' = RemoveAt(queue, i)
    BY <1>6 DEF DrainSend
  <2>2. PICK i \in DOMAIN queue : queue' = RemoveAt(queue, i)
    BY <2>1
  <2>3. i \in 1..Len(queue) /\ Len(queue) \in Nat
    BY <1>0
  <2>4. /\ Len(queue') = Len(queue) - 1
        /\ \A j \in 1..(i-1) : queue'[j] = queue[j]
        /\ \A j \in i..(Len(queue)-1) : queue'[j] = queue[j+1]
    BY <1>0, <2>2, <2>3, RemoveAtProps
  <2>5. ASSUME NEW j \in 1..Len(queue')
        PROVE  \E k \in 1..Len(queue) : queue'[j] = queue[k]
    <3>1. CASE j < i
      BY <2>3, <2>4, <3>1
    <3>2. CASE j >= i
      <4>1. j \in i..(Len(queue)-1) /\ j + 1 \in 1..Len(queue)
        BY <2>3, <2>4, <3>2
      <4> QED BY <2>4, <4>1
    <3> QED BY <2>3, <3>1, <3>2
  <2> QED BY <2>1, <2>5 DEF QuitInv
<1> QED BY <1>1, <1>2, <1>3, <1>4, <1>5, <1>6 DEF Next, Drain

\* The step of tcp_send_len on the lanes.
LEMMA SubmitStep ==
    ASSUME queue \in Seq(Line), NEW l \in Line, NEW then, tcp_send_len(l, then),
           \A i \in 1..Len(queue) : queue[i].id # l.id, UNCHANGED throttle
    PROVE  Lanes!Next
<1>1. l.id \in Ids \cup {Quit} /\ l.pri \in 0..2
  BY DEF Line
<1>2. CASE throttle
  <2>1. queue' = Append(queue, l) /\ UNCHANGED wire
    BY <1>2 DEF tcp_send_len
  <2>2. \A p \in 0..2 : Lane(queue', p) = IF l.pri = p THEN Append(Lane(queue, p), l.id)
                                          ELSE Lane(queue, p)
    BY <2>1, LaneAppend
  <2>3. LanesOf(queue') = [LanesOf(queue) EXCEPT ![l.pri] = Append(@, l.id)]
    BY <1>1, <2>2 DEF LanesOf
  <2>4. l.id \notin Lanes!Waiting
    <3> DEFINE I == {queue[i].id : i \in 1..Len(queue)}
    <3>1. ASSUME NEW p \in 0..2 PROVE ToSet(Lane(queue, p)) \subseteq I
      <4>1. Lane(queue, p) \in Seq(I)
        BY LaneType
      <4> HIDE DEF I
      <4> QED BY <4>1 DEF ToSet
    <3>2. l.id \notin I
      OBVIOUS
    <3> HIDE DEF I
    <3> QED BY <3>1, <3>2 DEF Lanes!Waiting, Lanes!ToSet, ToSet, OfPriority
  <2>5. Lanes!Submit(l.id, l.pri)
    BY <2>1, <2>3 DEF Lanes!Submit, LanesOf, OfPriority
  <2> QED BY <1>1, <2>4, <2>5 DEF Lanes!Next
<1>3. CASE ~throttle
  <2>1. UNCHANGED queue /\ wire' = l.id
    BY <1>3 DEF tcp_send_len, server_send_real
  <2>2. Lanes!Pass(l.id)
    BY <1>3, <2>1 DEF Lanes!Pass, OfPriority
  <2> QED BY <1>1, <2>2 DEF Lanes!Next
<1> QED BY <1>2, <1>3

\* tcp_send_queue takes the oldest line of the most urgent lane.
LEMMA DeliverStep ==
    ASSUME queue \in Seq(Line), DrainSend
    PROVE  Lanes!Next
<1>1. PICK i \in DOMAIN queue :
        IsNext(i) /\ server_send_real(queue[i]) /\ queue' = RemoveAt(queue, i)
  BY DEF DrainSend
<1>2. i \in 1..Len(queue) /\ DOMAIN queue = 1..Len(queue) /\ Len(queue) \in Nat
      /\ \A j \in 1..Len(queue) : queue[j] \in Line
  OBVIOUS
<1> DEFINE p == queue[i].pri
<1>3. p \in 0..2 /\ \A j \in 1..Len(queue) : queue[j].pri \in 0..2
  BY <1>2 DEF Line
<1>4. \A j \in 1..(i-1) : queue[j].pri # p
  <2> SUFFICES ASSUME NEW j \in 1..(i-1) PROVE queue[j].pri # queue[i].pri
    OBVIOUS
  <2>1. j \in DOMAIN queue /\ ~(i <= j)
    BY <1>2
  <2>2. queue[j].pri < queue[i].pri
    BY <1>1, <2>1 DEF IsNext
  <2> QED BY <1>2, <1>3, <2>1, <2>2
<1>5. ASSUME NEW r \in 0..2, r > p PROVE Lane(queue, r) = <<>>
  <2>1. ASSUME NEW j \in 1..Len(queue) PROVE queue[j].pri # r
    <3>1. queue[j].pri < queue[i].pri \/ queue[j].pri = queue[i].pri
      BY <1>1, <1>2 DEF IsNext
    <3> QED BY <1>3, <1>5, <3>1
  <2> QED BY <2>1, EmptyLane
<1>6. /\ Lane(queue, p) # <<>> /\ Head(Lane(queue, p)) = queue[i].id
      /\ Lane(queue', p) = Tail(Lane(queue, p))
  BY <1>1, <1>2, <1>4, OwnLane
<1>7. \A r \in 0..2 : r # p => Lane(queue', r) = Lane(queue, r)
  BY <1>1, <1>2, OtherLane
<1> HIDE DEF p
<1>8. LanesOf(queue') = [LanesOf(queue) EXCEPT ![p] = Tail(@)]
  BY <1>3, <1>6, <1>7 DEF LanesOf
<1>9. wire' = queue[i].id /\ UNCHANGED throttle
  BY <1>1 DEF server_send_real, DrainSend
<1>10. Lanes!Deliver(p)
  <2>1. LanesOf(queue)[p] = Lane(queue, p)
        /\ \A r \in 0..2 : r > p => LanesOf(queue)[r] = <<>>
    BY <1>3, <1>5 DEF LanesOf
  <2> QED BY <1>6, <1>8, <1>9, <2>1 DEF Lanes!Deliver, LanesOf, OfPriority
<1> QED BY <1>3, <1>10 DEF Lanes!Next

\* A flush empties every lane.
LEMMA LoseStep ==
    ASSUME queue' = <<>>, UNCHANGED <<wire, throttle>>
    PROVE  Lanes!Next
<1>1. LanesOf(queue') = [p \in 0..2 |-> <<>>]
  BY LaneEmpty DEF LanesOf
<1> QED BY <1>1 DEF Lanes!Next, Lanes!Lose, Lanes!Empty, LanesOf, OfPriority

LanesVars == <<[p \in 0..2 |-> OfPriority(p)], wire, ~throttle>>

LEMMA LanesStep ==
    ASSUME TypeOK, TimerInv, QuitInv, [Next]_vars
    PROVE  Lanes!Next \/ UNCHANGED LanesVars
<1>0. queue \in Seq(Line) /\ job \in Job
  BY DEF TypeOK
<1>1. CASE Send
  <2>1. PICK i \in Ids \ Queued, p \in {Priority(cmd) : cmd \in Commands}, x \in Extras :
           tcp_send_len([id |-> i, pri |-> p, extra |-> x], "return")
    BY <1>1 DEF Send
  <2>2. p \in 0..2
    BY DEF Priority
  <2> DEFINE l == [id |-> i, pri |-> p, extra |-> x]
  <2>3. l \in Line /\ l.id = i
    BY <2>2 DEF Line
  <2>4. \A j \in 1..Len(queue) : queue[j].id # i
    BY <1>0 DEF Queued
  <2> HIDE DEF l
  <2>5. tcp_send_len(l, "return")
    BY <2>1 DEF l
  <2>6. Lanes!Next
    BY <1>0, <1>1, <2>3, <2>4, <2>5, SubmitStep DEF Send
  <2> QED BY <2>6
<1>2. CASE UserQuit \/ SendQuit
  <2>1. QuitLine \in Line /\ QuitLine.id = Quit
    BY BoundAssumption DEF QuitLine, Line
  <2>2. PICK then \in {"disconnect", "free"} : tcp_send_len(QuitLine, then)
    BY <1>2 DEF UserQuit, SendQuit
  <2>3. job.then \in {"return", "sendquit"} /\ UNCHANGED throttle
    BY <1>2, JobType DEF UserQuit, SendQuit
  <2>4. \A j \in 1..Len(queue) : queue[j].id # QuitLine.id
    BY <2>1, <2>3 DEF QuitInv
  <2>5. Lanes!Next
    BY <1>0, <2>1, <2>2, <2>3, <2>4, SubmitStep
  <2> QED BY <2>5
<1>3. CASE CloseLast \/ Lost \/ FlushQ \/ Connect \/ Finish
  <2>1. queue' = <<>> /\ UNCHANGED <<wire, throttle>>
    BY <1>3 DEF CloseLast, Lost, FlushQ, Connect, Finish, server_flush_queue
  <2> QED BY <2>1, LoseStep
<1>4. CASE SetThrottle
  <2>1. throttle' = ~throttle /\ UNCHANGED <<queue, wire>>
    BY <1>4 DEF SetThrottle
  <2>2. Lanes!Switch
    BY <2>1 DEF Lanes!Switch, OfPriority
  <2> QED BY <2>2 DEF Lanes!Next
<1>5. CASE TimerFires \/ DrainReturns \/ Tick \/ SetBack \/ UNCHANGED vars
  <2>1. UNCHANGED <<queue, wire, throttle>>
    BY <1>5 DEF TimerFires, DrainReturns, Tick, SetBack, vars
  <2> QED BY <2>1 DEF LanesVars, OfPriority
<1>6. CASE DrainSend
  BY <1>0, <1>6, DeliverStep
<1> QED BY <1>1, <1>2, <1>3, <1>4, <1>5, <1>6 DEF Next, Drain

\* The throttled queue implements the three lanes: a line leaves in the order
\* of the priorities, the oldest of its priority first, once, or is lost with
\* all the others; for any lines, costs and bounds.
THEOREM ImplementsPriorityLanes == Spec => ImplementsLanes
<1>1. Init => Lanes!Init /\ QuitInv
  <2> SUFFICES ASSUME Init PROVE Lanes!Init /\ QuitInv
    OBVIOUS
  <2>1. queue = <<>> /\ wire = NoLine /\ throttle \in BOOLEAN
    BY DEF Init
  <2>2. LanesOf(queue) = [p \in 0..2 |-> <<>>]
    BY <2>1, LaneEmpty DEF LanesOf
  <2>3. Lanes!Init
    BY <2>1, <2>2 DEF Lanes!Init, Lanes!Empty, LanesOf, OfPriority
  <2>4. 1..Len(queue) = {}
    BY <2>1
  <2> QED BY <2>3, <2>4 DEF QuitInv
<1>2. /\ TypeOK /\ TimerInv /\ [Next]_vars => (TypeOK /\ TimerInv)'
      /\ TypeOK /\ TimerInv /\ QuitInv /\ [Next]_vars => QuitInv'
  BY TypeStep, TimerStep, QuitStep
<1>3. TypeOK /\ TimerInv /\ QuitInv /\ [Next]_vars
          => [Lanes!Next]_<<[p \in 0..2 |-> OfPriority(p)], wire, ~throttle>>
  BY LanesStep DEF LanesVars
<1> QED BY <1>1, <1>2, <1>3, InitInv, PTL DEF Spec, ImplementsLanes, Lanes!Spec

-----------------------------------------------------------------------------
(* Irc: what the lines do.                                                 *)
(* What the client shows of a channel, and what a line makes of it.        *)
Absent == [shown |-> FALSE, users |-> <<>>, ended |-> FALSE, hides |-> FALSE, modes |-> {}]
Seen(users, ended, hides, modes) ==
    [shown |-> TRUE, users |-> users, ended |-> ended, hides |-> hides, modes |-> modes]
\* Modes kept while the answer to the question for them is awaited do not count.
ViewOf(t) == Seen(t.users, t.end_of_names, t.ignore_mode, IF t.ignore_mode THEN {} ELSE t.modes)

NickAfter(n, line) ==
    IF line[1] = "001" THEN line[2] ELSE IF line[1] = "NICK" /\ line[2] = n THEN line[3] ELSE n

RenamedIn(f, n, m) == IF n \in DOMAIN f THEN Renamed(f, n, m) ELSE f
UsersAfter(c, n, x, line) ==
    IF line[1] = "JOIN" THEN IF line[3] = c THEN With(x.users, line[2], FALSE) ELSE x.users
    ELSE IF line[1] \in {"PART", "KICK"} THEN IF line[3] = c THEN Without(x.users, line[2]) ELSE x.users
    ELSE IF line[1] = "QUIT" THEN Without(x.users, line[2])
    ELSE IF line[1] = "NICK" THEN RenamedIn(x.users, line[2], line[3])
    ELSE IF line[1] = "001" THEN RenamedIn(x.users, n, line[2])
    ELSE IF line[1] = "353"
    THEN IF line[2] = c THEN With(IF x.ended THEN <<>> ELSE x.users, line[3], line[4]) ELSE x.users
    ELSE IF line[1] = "OP" /\ line[2] = c /\ line[3] \in DOMAIN x.users
    THEN [x.users EXCEPT ![line[3]] = line[4]] ELSE x.users
EndedAfter(c, x, line) ==
    IF line[1] = "366" /\ line[2] = c THEN TRUE ELSE IF line[1] = "353" /\ line[2] = c THEN FALSE ELSE x.ended
HidesAfter(c, x, line) == IF line[1] = "324" /\ line[2] = c THEN FALSE ELSE x.hides
ModesAfter(c, x, line) ==
    IF line[1] = "324" /\ line[2] = c THEN line[3]
    ELSE IF line[1] = "MODE" /\ line[2] = c /\ ~x.hides
    THEN IF line[3] = "+" THEN x.modes \union {line[4]} ELSE x.modes \ {line[4]}
    ELSE x.modes

Entered(c, n, line) == line[1] = "JOIN" /\ line[2] = n /\ line[3] = c
Gone(c, n, line) == line[1] \in {"PART", "KICK"} /\ line[2] = n /\ line[3] = c
After(c, n, x, line) ==
    IF Entered(c, n, line) THEN Seen(<<>>, FALSE, TRUE, {})
    ELSE IF ~x.shown \/ Gone(c, n, line) THEN Absent
    ELSE Seen(UsersAfter(c, n, x, line), EndedAfter(c, x, line), HidesAfter(c, x, line), ModesAfter(c, x, line))

\* The client as far as it concerns one channel: its nick, and what it shows.
State(n, x) == [nick |-> n, view |-> x]
Step(c, s, line) == State(NickAfter(s.nick, line), After(c, s.nick, s.view, line))
\* v: how that goes on with each of the lines.
Walk(v, c, s, lines) == v[0] = s /\ \A i \in 1..Len(lines) : v[i] = Step(c, v[i - 1], lines[i])

\* What the client has read of channel c is what the server r has.
Match(r, c, s) ==
    /\ r.nick # NoNick => s.nick = r.nick
    /\ r.nick = NoNick => ~s.view.shown
    /\ s.view.hides => s.view.shown
    /\ s.view.shown => /\ On(r, c, r.nick) /\ s.view.users = r.members[c] /\ s.view.ended
                       /\ s.view.hides \/ s.view.modes = r.modes[c]

\* When all lines are read, that will be so; a PART is on its way for a channel that is not shown
\* any more, and the question for the modes, or it is yet to be asked, where the answer is awaited.
Follows(c, s, lines, r, part, ask) ==
    \E v : /\ Walk(v, c, s, lines)
           /\ Match(r, c, v[Len(lines)])
           /\ r.nick = NoNick => \A i \in 0..Len(lines) : ~v[i].view.shown
           /\ On(r, c, r.nick) /\ ~v[Len(lines)].view.shown => part
           /\ v[Len(lines)].view.hides => ask \/ \E k \in 1..Len(lines) : Entered(c, v[k - 1].nick, lines[k])
           /\ \A k \in 1..Len(lines) : Entered(c, v[k - 1].nick, lines[k]) => ~v[k - 1].view.shown

-----------------------------------------------------------------------------
\* The same with nothing left to read.
At(c, s, r, part, ask) ==
    /\ Match(r, c, s)
    /\ On(r, c, r.nick) /\ ~s.view.shown => part
    /\ s.view.hides => ask

LEMMA FollowsNone ==
    ASSUME NEW c, NEW s, NEW r, NEW part, NEW ask, At(c, s, r, part, ask)
    PROVE  Follows(c, s, <<>>, r, part, ask)
<1> DEFINE v == [i \in 0..0 |-> s]
<1>1. Len(<<>>) = 0 /\ v[0] = s /\ \A i \in 0..0 : v[i] = s
  OBVIOUS
<1> HIDE DEF v
<1>2. Walk(v, c, s, <<>>)
  BY <1>1 DEF Walk
<1> QED BY <1>1, <1>2 DEF Follows, At, Match

LEMMA NoneFollows ==
    ASSUME NEW c, NEW s, NEW r, NEW part, NEW ask, Follows(c, s, <<>>, r, part, ask)
    PROVE  At(c, s, r, part, ask)
<1>1. Len(<<>>) = 0
  OBVIOUS
<1>2. PICK v : /\ Walk(v, c, s, <<>>) /\ Match(r, c, v[0])
               /\ On(r, c, r.nick) /\ ~v[0].view.shown => part
               /\ v[0].view.hides => ask \/ \E k \in 1..0 : Entered(c, v[k - 1].nick, <<>>[k])
  BY <1>1 DEF Follows
<1>3. v[0] = s
  BY <1>2 DEF Walk
<1> QED BY <1>2, <1>3 DEF At

\* A walk goes on with more lines.
LEMMA WalkOn ==
    ASSUME NEW S, NEW p \in Seq(S), NEW q \in Seq(S), NEW c, NEW s, NEW v, Walk(v, c, s, p),
           NEW w, Walk(w, c, v[Len(p)], q)
    PROVE  \E u : /\ Walk(u, c, s, p \o q)
                  /\ \A i \in 0..Len(p) : u[i] = v[i]
                  /\ \A j \in 0..Len(q) : u[Len(p) + j] = w[j]
<1> DEFINE n == Len(p)
           m == Len(q)
           l == p \o q
           u == [i \in 0..n + m |-> IF i <= n THEN v[i] ELSE w[i - n]]
<1>1. /\ n \in Nat /\ m \in Nat /\ l \in Seq(S) /\ Len(l) = n + m
      /\ \A i \in 1..n : l[i] = p[i]
      /\ \A j \in 1..m : l[n + j] = q[j]
  OBVIOUS
<1>2. v[0] = s /\ \A i \in 1..n : v[i] = Step(c, v[i - 1], p[i])
  BY DEF Walk
<1>3. w[0] = v[n] /\ \A j \in 1..m : w[j] = Step(c, w[j - 1], q[j])
  BY DEF Walk
<1> HIDE DEF l, n, m
<1>4. \A i \in 0..n : u[i] = v[i]
  BY <1>1
<1>5. \A j \in 0..m : u[n + j] = w[j]
  <2> TAKE j \in 0..m
  <2>1. CASE j = 0
    BY <1>1, <1>3, <2>1
  <2>2. CASE j # 0
    BY <1>1, <2>2
  <2> QED BY <2>1, <2>2
<1> HIDE DEF u
<1>6. \A i \in 1..n + m : u[i] = Step(c, u[i - 1], l[i])
  <2> TAKE i \in 1..n + m
  <2>1. CASE i <= n
    <3>1. i \in 1..n /\ i \in 0..n /\ i - 1 \in 0..n
      BY <1>1, <2>1
    <3> QED BY <1>1, <1>2, <1>4, <3>1
  <2>2. CASE ~(i <= n)
    <3>1. PICK j \in 1..m : i = n + j
      BY <1>1, <2>2
    <3>2. j \in 0..m /\ j - 1 \in 0..m /\ i - 1 = n + (j - 1)
      BY <1>1, <3>1
    <3> QED BY <1>1, <1>3, <1>5, <3>1, <3>2
  <2> QED BY <2>1, <2>2
<1>7. u[0] = s
  BY <1>1, <1>2, <1>4
<1>8. Walk(u, c, s, l)
  BY <1>1, <1>6, <1>7 DEF Walk
<1> QED BY <1>4, <1>5, <1>8 DEF l, n, m

\* From wherever the client is when it has read what the server r said, lines lead it to what r2 has.
Leads(c, r, part, ask, lines, r2, part2, ask2) ==
    /\ r2.nick = NoNick => r.nick = NoNick
    /\ \A t : \A j \in BOOLEAN : At(c, t, r, part, ask \/ j) => Follows(c, t, lines, r2, part2, ask2 \/ j)

\* The server says more, q, that leads on from wherever the client will be.
LEMMA FollowsSays ==
    ASSUME NEW S, NEW p \in Seq(S), NEW q \in Seq(S), NEW c, NEW s, NEW r, NEW r2,
           NEW part \in BOOLEAN, NEW ask \in BOOLEAN, NEW part2 \in BOOLEAN, NEW ask2 \in BOOLEAN,
           Follows(c, s, p, r, part, ask), Leads(c, r, part, ask, q, r2, part2, ask2)
    PROVE  Follows(c, s, p \o q, r2, part2, ask2)
<1> DEFINE n == Len(p)
           m == Len(q)
           l == p \o q
<1>1. PICK v : /\ Walk(v, c, s, p)
               /\ Match(r, c, v[n])
               /\ r.nick = NoNick => \A i \in 0..n : ~v[i].view.shown
               /\ On(r, c, r.nick) /\ ~v[n].view.shown => part
               /\ v[n].view.hides => ask \/ \E k \in 1..n : Entered(c, v[k - 1].nick, p[k])
               /\ \A k \in 1..n : Entered(c, v[k - 1].nick, p[k]) => ~v[k - 1].view.shown
  BY DEF Follows
<1> DEFINE j == \E k \in 1..n : Entered(c, v[k - 1].nick, p[k])
<1>2. j \in BOOLEAN
  OBVIOUS
<1>3. At(c, v[n], r, part, ask \/ j)
  BY <1>1 DEF At
<1>4. Follows(c, v[n], q, r2, part2, ask2 \/ j)
  <2> HIDE DEF j, n
  <2>1. \A t : \A k \in BOOLEAN : At(c, t, r, part, ask \/ k) => Follows(c, t, q, r2, part2, ask2 \/ k)
    BY DEF Leads
  <2> QED BY <1>2, <1>3, <2>1
<1>15. r2.nick = NoNick => r.nick = NoNick
  BY DEF Leads
<1>5. PICK w : /\ Walk(w, c, v[n], q)
               /\ Match(r2, c, w[m])
               /\ r2.nick = NoNick => \A i \in 0..m : ~w[i].view.shown
               /\ On(r2, c, r2.nick) /\ ~w[m].view.shown => part2
               /\ w[m].view.hides => (ask2 \/ j) \/ \E k \in 1..m : Entered(c, w[k - 1].nick, q[k])
               /\ \A k \in 1..m : Entered(c, w[k - 1].nick, q[k]) => ~w[k - 1].view.shown
  BY <1>4 DEF Follows
<1>6. PICK u : Walk(u, c, s, l) /\ (\A i \in 0..n : u[i] = v[i]) /\ \A i \in 0..m : u[n + i] = w[i]
  BY <1>1, <1>5, WalkOn, SMTT(30)
<1>7. /\ n \in Nat /\ m \in Nat /\ Len(l) = n + m
      /\ \A i \in 1..n : l[i] = p[i]
      /\ \A i \in 1..m : l[n + i] = q[i]
  OBVIOUS
<1> HIDE DEF n, m, l
<1>8. u[n + m] = w[m]
  <2>1. m \in 0..m
    BY <1>7
  <2> QED BY <1>6, <2>1
<1>9. ASSUME r2.nick = NoNick, NEW i \in 0..n + m PROVE ~u[i].view.shown
  <2>1. CASE i <= n
    <3>1. i \in 0..n
      BY <1>7, <2>1
    <3> QED BY <1>1, <1>6, <1>9, <1>15, <3>1
  <2>2. CASE ~(i <= n)
    <3>1. PICK h \in 0..m : i = n + h
      <4>1. n \in Int /\ m \in Int /\ i \in Int /\ i <= n + m
        BY <1>7
      <4>2. i - n \in 0..m /\ i = n + (i - n)
        BY <2>2, <4>1
      <4> QED BY <4>2
    <3>2. u[n + h] = w[h]
      BY <1>6
    <3>3. ~w[h].view.shown
      BY <1>5, <1>9
    <3> QED BY <3>1, <3>2, <3>3
  <2> QED BY <2>1, <2>2
<1>10. ASSUME NEW k \in 1..n
       PROVE  /\ k \in 1..n + m
              /\ Entered(c, u[k - 1].nick, l[k]) <=> Entered(c, v[k - 1].nick, p[k])
              /\ u[k - 1] = v[k - 1]
  <2>1. k - 1 \in 0..n /\ k \in 1..n + m
    BY <1>7
  <2> QED BY <1>6, <1>7, <2>1
<1>11. ASSUME NEW k \in 1..m
       PROVE  /\ n + k \in 1..n + m
              /\ Entered(c, u[n + k - 1].nick, l[n + k]) <=> Entered(c, w[k - 1].nick, q[k])
              /\ u[n + k - 1] = w[k - 1]
  <2>1. k - 1 \in 0..m /\ n + k \in 1..n + m /\ n + k - 1 = n + (k - 1)
    BY <1>7
  <2> QED BY <1>6, <1>7, <2>1
<1>12. ASSUME w[m].view.hides
       PROVE  ask2 \/ \E k \in 1..n + m : Entered(c, u[k - 1].nick, l[k])
  <2>1. CASE ask2
    BY <2>1
  <2>2. CASE j
    BY <1>10, <2>2
  <2>3. CASE \E k \in 1..m : Entered(c, w[k - 1].nick, q[k])
    <3>1. PICK k \in 1..m : Entered(c, w[k - 1].nick, q[k])
      BY <2>3
    <3>2. n + k \in 1..n + m /\ Entered(c, u[n + k - 1].nick, l[n + k])
      BY <1>11, <3>1
    <3> DEFINE h == n + k
    <3>3. h \in 1..n + m /\ Entered(c, u[h - 1].nick, l[h])
      <4>1. h - 1 = n + (k - 1)
        BY <1>7, <3>1
      <4> HIDE DEF h
      <4>2. h = n + k
        BY DEF h
      <4> QED BY <3>2, <4>1, <4>2
    <3> HIDE DEF h
    <3> QED BY <3>3
  <2> QED BY <1>5, <1>12, <2>1, <2>2, <2>3
<1>13. ASSUME NEW k \in 1..n + m, Entered(c, u[k - 1].nick, l[k]) PROVE ~u[k - 1].view.shown
  <2>1. CASE k \in 1..n
    BY <1>1, <1>10, <1>13, <2>1
  <2>2. CASE k \notin 1..n
    <3> DEFINE h == k - n
    <3>1. h \in 1..m /\ k = n + h /\ k - 1 = n + (h - 1)
      <4>1. h \in 1..m
        BY <1>7, <2>2
      <4>2. k \in Int /\ n \in Int
        BY <1>7
      <4> QED BY <4>1, <4>2
    <3> HIDE DEF h
    <3>2. Entered(c, u[n + h - 1].nick, l[n + h])
      BY <1>13, <3>1
    <3>3. Entered(c, w[h - 1].nick, q[h]) /\ u[n + h - 1] = w[h - 1]
      BY <1>11, <3>1, <3>2
    <3> QED BY <1>5, <3>1, <3>3
  <2> QED BY <2>1, <2>2
<1> HIDE DEF j
<1>14. Follows(c, s, l, r2, part2, ask2)
  BY <1>5, <1>6, <1>7, <1>8, <1>9, <1>12, <1>13 DEF Follows
<1> QED BY <1>14 DEF l

\* The client reads a line.
LEMMA FollowsReads ==
    ASSUME NEW S, NEW p \in Seq(S), p # <<>>, NEW c, NEW s, NEW r, NEW part \in BOOLEAN, NEW ask \in BOOLEAN,
           Follows(c, s, p, r, part, ask)
    PROVE  /\ Follows(c, Step(c, s, Head(p)), Tail(p), r, part, ask \/ Entered(c, s.nick, Head(p)))
           /\ Entered(c, s.nick, Head(p)) => ~s.view.shown
<1> DEFINE n == Len(p)
           q == Tail(p)
           t == Step(c, s, Head(p))
<1>1. PICK v : /\ Walk(v, c, s, p)
               /\ Match(r, c, v[n])
               /\ r.nick = NoNick => \A i \in 0..n : ~v[i].view.shown
               /\ On(r, c, r.nick) /\ ~v[n].view.shown => part
               /\ v[n].view.hides => ask \/ \E k \in 1..n : Entered(c, v[k - 1].nick, p[k])
               /\ \A k \in 1..n : Entered(c, v[k - 1].nick, p[k]) => ~v[k - 1].view.shown
  BY DEF Follows
<1>2. n \in Nat \ {0} /\ Len(q) = n - 1 /\ Head(p) = p[1] /\ \A i \in 1..n - 1 : q[i] = p[i + 1]
  OBVIOUS
<1>3. v[0] = s /\ \A i \in 1..n : v[i] = Step(c, v[i - 1], p[i])
  BY <1>1 DEF Walk
<1> DEFINE u == [i \in 0..n - 1 |-> v[i + 1]]
<1> HIDE DEF n, q, t
<1>4. \A i \in 0..n - 1 : u[i] = v[i + 1]
  OBVIOUS
<1> HIDE DEF u
<1>5. v[1] = t
  <2>1. 1 \in 1..n /\ v[1] = Step(c, v[1 - 1], p[1]) /\ 1 - 1 = 0
    BY <1>2, <1>3
  <2> QED BY <1>2, <1>3, <2>1 DEF t
<1>6. Walk(u, c, t, q)
  <2>1. u[0] = t
    <3>1. 0 \in 0..n - 1 /\ 0 + 1 = 1
      BY <1>2
    <3>2. u[0] = v[0 + 1]
      BY <1>4, <3>1
    <3> QED BY <1>5, <3>1, <3>2
  <2>2. ASSUME NEW i \in 1..n - 1 PROVE u[i] = Step(c, u[i - 1], q[i])
    <3>1. i \in 0..n - 1 /\ i - 1 \in 0..n - 1 /\ i + 1 \in 1..n /\ (i - 1) + 1 = i /\ (i + 1) - 1 = i
      BY <1>2
    <3>2. u[i] = v[i + 1] /\ u[i - 1] = v[i] /\ q[i] = p[i + 1]
      BY <1>2, <1>4, <3>1
    <3>3. v[i + 1] = Step(c, v[(i + 1) - 1], p[i + 1])
      BY <1>3, <3>1
    <3> QED BY <3>1, <3>2, <3>3
  <2> QED BY <1>2, <2>1, <2>2 DEF Walk
<1>7. u[n - 1] = v[n]
  <2>1. n - 1 \in 0..n - 1 /\ (n - 1) + 1 = n
    BY <1>2
  <2>2. u[n - 1] = v[(n - 1) + 1]
    BY <1>4, <2>1
  <2> QED BY <2>1, <2>2
<1>8. ASSUME r.nick = NoNick, NEW i \in 0..n - 1 PROVE ~u[i].view.shown
  <2>1. i + 1 \in 0..n
    BY <1>2
  <2> QED BY <1>1, <1>4, <1>8, <2>1
<1>9. ASSUME NEW k \in 1..n - 1
      PROVE  /\ k + 1 \in 1..n
             /\ Entered(c, u[k - 1].nick, q[k]) <=> Entered(c, v[(k + 1) - 1].nick, p[k + 1])
             /\ u[k - 1] = v[(k + 1) - 1]
  <2>1. k + 1 \in 1..n /\ k - 1 \in 0..n - 1 /\ (k - 1) + 1 = (k + 1) - 1
    BY <1>2
  <2>2. u[k - 1] = v[(k - 1) + 1]
    BY <1>4, <2>1
  <2>3. u[k - 1] = v[(k + 1) - 1] /\ q[k] = p[k + 1]
    BY <1>2, <2>1, <2>2
  <2> QED BY <2>1, <2>3
<1>10. ASSUME v[n].view.hides
       PROVE  ask \/ Entered(c, s.nick, p[1]) \/ \E k \in 1..n - 1 : Entered(c, u[k - 1].nick, q[k])
  <2>1. CASE ask
    BY <2>1
  <2>2. CASE ~ask
    <3>1. PICK k \in 1..n : Entered(c, v[k - 1].nick, p[k])
      BY <1>1, <1>10, <2>2
    <3>2. CASE k = 1
      BY <1>3, <3>1, <3>2
    <3>3. CASE k # 1
      <4>1. k - 1 \in 1..n - 1 /\ (k - 1) + 1 = k
        BY <1>2, <3>3
      <4>2. Entered(c, u[(k - 1) - 1].nick, q[k - 1]) <=> Entered(c, v[((k - 1) + 1) - 1].nick, p[(k - 1) + 1])
        BY <1>9, <4>1
      <4>3. Entered(c, u[(k - 1) - 1].nick, q[k - 1])
        BY <3>1, <4>1, <4>2
      <4> QED BY <4>1, <4>3
    <3> QED BY <3>2, <3>3
  <2> QED BY <2>1, <2>2
<1>11. ASSUME NEW k \in 1..n - 1, Entered(c, u[k - 1].nick, q[k]) PROVE ~u[k - 1].view.shown
  BY <1>1, <1>9, <1>11
<1>12. Follows(c, t, q, r, part, ask \/ Entered(c, s.nick, p[1]))
  <2>1. On(r, c, r.nick) /\ ~u[n - 1].view.shown => part
    BY <1>1, <1>7
  <2>2. u[n - 1].view.hides => (ask \/ Entered(c, s.nick, p[1])) \/ \E k \in 1..n - 1 : Entered(c, u[k - 1].nick, q[k])
    BY <1>7, <1>10
  <2>3. Match(r, c, u[n - 1])
    BY <1>1, <1>7
  <2> QED BY <1>2, <1>6, <1>8, <1>11, <2>1, <2>2, <2>3 DEF Follows
<1>13. Entered(c, s.nick, p[1]) => ~s.view.shown
  <2>1. 1 \in 1..n /\ 1 - 1 = 0
    BY <1>2
  <2>2. Entered(c, v[1 - 1].nick, p[1]) => ~v[1 - 1].view.shown
    BY <1>1, <2>1
  <2> QED BY <1>3, <2>1, <2>2
<1> QED BY <1>2, <1>12, <1>13 DEF t, q

\* Less is known of what the client has on its way.
LEMMA FollowsMore ==
    ASSUME NEW c, NEW s, NEW p, NEW r, NEW part \in BOOLEAN, NEW ask \in BOOLEAN, NEW part2 \in BOOLEAN,
           NEW ask2 \in BOOLEAN, Follows(c, s, p, r, part, ask), part => part2, ask => ask2
    PROVE  Follows(c, s, p, r, part2, ask2)
<1>1. PICK v : /\ Walk(v, c, s, p)
               /\ Match(r, c, v[Len(p)])
               /\ r.nick = NoNick => \A i \in 0..Len(p) : ~v[i].view.shown
               /\ On(r, c, r.nick) /\ ~v[Len(p)].view.shown => part
               /\ v[Len(p)].view.hides => ask \/ \E k \in 1..Len(p) : Entered(c, v[k - 1].nick, p[k])
               /\ \A k \in 1..Len(p) : Entered(c, v[k - 1].nick, p[k]) => ~v[k - 1].view.shown
  BY DEF Follows
<1>2. v[Len(p)].view.hides => ask2 \/ \E k \in 1..Len(p) : Entered(c, v[k - 1].nick, p[k])
  BY <1>1
<1>3. On(r, c, r.nick) /\ ~v[Len(p)].view.shown => part2
  BY <1>1
<1> QED BY <1>1, <1>2, <1>3 DEF Follows

\* Where an answer is awaited, the question or the answer is on its way, or the end of our stay.
LEMMA Awaited ==
    ASSUME NEW S, NEW p \in Seq(S), NEW c, NEW s, NEW r, NEW part \in BOOLEAN, NEW ask \in BOOLEAN,
           Follows(c, s, p, r, part, ask), s.view.shown, s.view.hides
    PROVE  ask \/ \E k \in 1..Len(p) : (p[k][1] = "324" /\ p[k][2] = c) \/ (p[k][1] \in {"PART", "KICK"} /\ p[k][3] = c)
<1> SUFFICES ASSUME ~ask, \A k \in 1..Len(p) : /\ ~(p[k][1] = "324" /\ p[k][2] = c)
                                               /\ ~(p[k][1] \in {"PART", "KICK"} /\ p[k][3] = c)
             PROVE  FALSE
  OBVIOUS
<1> DEFINE n == Len(p)
<1>1. PICK v : /\ Walk(v, c, s, p)
               /\ v[n].view.hides => ask \/ \E k \in 1..n : Entered(c, v[k - 1].nick, p[k])
               /\ \A k \in 1..n : Entered(c, v[k - 1].nick, p[k]) => ~v[k - 1].view.shown
  BY DEF Follows
<1>2. n \in Nat
  OBVIOUS
<1>3. v[0] = s /\ \A i \in 1..n : v[i] = Step(c, v[i - 1], p[i])
  BY <1>1 DEF Walk
<1>4. \A k \in 1..n : /\ ~(p[k][1] = "324" /\ p[k][2] = c)
                      /\ ~(p[k][1] \in {"PART", "KICK"} /\ p[k][3] = c)
  OBVIOUS
<1> HIDE DEF n
<1> DEFINE T == {i \in Nat : i \in 0..n => v[i].view.shown /\ v[i].view.hides}
<1>5. 0 \in T
  BY <1>3
<1>6. ASSUME NEW i \in Nat, i \in T PROVE i + 1 \in T
  <2>1. CASE i + 1 \in 0..n
    <3>1. i \in 0..n /\ i + 1 \in 1..n /\ (i + 1) - 1 = i
      BY <1>2, <2>1
    <3>2. v[i].view.shown /\ v[i].view.hides
      BY <1>6, <3>1
    <3>3. v[i + 1] = Step(c, v[i], p[i + 1])
      BY <1>3, <3>1
    <3>4. ~Entered(c, v[i].nick, p[i + 1])
      <4>1. Entered(c, v[(i + 1) - 1].nick, p[i + 1]) => ~v[(i + 1) - 1].view.shown
        BY <1>1, <3>1
      <4> QED BY <3>1, <3>2, <4>1
    <3>5. ~Gone(c, v[i].nick, p[i + 1]) /\ HidesAfter(c, v[i].view, p[i + 1]) = v[i].view.hides
      BY <1>4, <3>1 DEF Gone, HidesAfter
    <3>6. v[i + 1].view = Seen(UsersAfter(c, v[i].nick, v[i].view, p[i + 1]), EndedAfter(c, v[i].view, p[i + 1]),
                               HidesAfter(c, v[i].view, p[i + 1]), ModesAfter(c, v[i].view, p[i + 1]))
      BY <3>2, <3>3, <3>4, <3>5 DEF Step, State, After
    <3>7. v[i + 1].view.shown /\ v[i + 1].view.hides
      BY <3>2, <3>5, <3>6 DEF Seen
    <3> QED BY <3>7
  <2>2. CASE i + 1 \notin 0..n
    BY <2>2
  <2> QED BY <2>1, <2>2
<1>7. \A i \in Nat : i \in T
  <2> HIDE DEF T
  <2> QED BY <1>5, <1>6, NatInduct
<1>8. PICK k \in 1..n : Entered(c, v[k - 1].nick, p[k])
  <2>1. n \in T
    BY <1>2, <1>7
  <2>2. v[n].view.hides
    BY <1>2, <2>1
  <2> QED BY <1>1, <2>2
<1>9. k - 1 \in T /\ k - 1 \in 0..n
  BY <1>2, <1>7
<1> QED BY <1>1, <1>8, <1>9

\* A tab is closed: its channel is not shown from now on, until it is entered again.
LEMMA FollowsClosed ==
    ASSUME NEW S, NEW p \in Seq(S), NEW c, NEW s, NEW r, NEW part \in BOOLEAN, NEW ask \in BOOLEAN,
           Follows(c, s, p, r, part, ask)
    PROVE  Follows(c, State(s.nick, Absent), p, r, TRUE, ask)
<1> DEFINE n == Len(p)
           t == State(s.nick, Absent)
<1>1. PICK v : /\ Walk(v, c, s, p)
               /\ Match(r, c, v[n])
               /\ r.nick = NoNick => \A i \in 0..n : ~v[i].view.shown
               /\ v[n].view.hides => ask \/ \E k \in 1..n : Entered(c, v[k - 1].nick, p[k])
               /\ \A k \in 1..n : Entered(c, v[k - 1].nick, p[k]) => ~v[k - 1].view.shown
  BY DEF Follows
<1>2. n \in Nat
  OBVIOUS
<1>3. v[0] = s /\ \A i \in 1..n : v[i] = Step(c, v[i - 1], p[i])
  BY <1>1 DEF Walk
<1> HIDE DEF n, t
<1> DEFINE Since(i) == \E k \in 1..i : Entered(c, v[k - 1].nick, p[k])
           u == [i \in 0..n |-> IF Since(i) THEN v[i] ELSE State(v[i].nick, Absent)]
<1>4. \A i \in 0..n : u[i] = IF Since(i) THEN v[i] ELSE State(v[i].nick, Absent)
  OBVIOUS
<1> HIDE DEF u
<1>5. \A i \in 0..n : u[i].nick = v[i].nick /\ (u[i].view = v[i].view \/ u[i].view = Absent)
  <2> TAKE i \in 0..n
  <2>1. CASE Since(i)
    BY <1>4, <2>1
  <2>2. CASE ~Since(i)
    <3>1. u[i] = State(v[i].nick, Absent)
      BY <1>4, <2>2
    <3> QED BY <3>1 DEF State
  <2> QED BY <2>1, <2>2
<1>6. u[0] = t
  <2>1. 0 \in 0..n /\ ~Since(0)
    BY <1>2
  <2> QED BY <1>3, <1>4, <2>1 DEF t
<1>7. ASSUME NEW i \in 1..n PROVE u[i] = Step(c, u[i - 1], p[i])
  <2>1. i \in 0..n /\ i - 1 \in 0..n
    BY <1>2
  <2>2. v[i] = Step(c, v[i - 1], p[i])
    BY <1>3
  <2>3. Since(i) <=> Since(i - 1) \/ Entered(c, v[i - 1].nick, p[i])
    <3>1. ASSUME NEW k \in 1..i, Entered(c, v[k - 1].nick, p[k]), k # i PROVE k \in 1..i - 1
      BY <1>2, <3>1
    <3>2. \A k \in 1..i - 1 : k \in 1..i
      BY <1>2
    <3>3. i \in 1..i
      BY <1>2
    <3> QED BY <3>1, <3>2, <3>3
  <2>4. CASE Since(i - 1)
    BY <1>4, <2>1, <2>2, <2>3, <2>4
  <2>5. CASE ~Since(i - 1)
    <3>1. u[i - 1] = State(v[i - 1].nick, Absent)
      BY <1>4, <2>1, <2>5
    <3>2. u[i - 1].nick = v[i - 1].nick /\ u[i - 1].view = Absent /\ ~Absent.shown
      BY <3>1 DEF State, Absent
    <3>3. CASE Entered(c, v[i - 1].nick, p[i])
      <4>1. u[i] = v[i]
        BY <1>4, <2>1, <2>3, <3>3
      <4>2. /\ After(c, v[i - 1].nick, v[i - 1].view, p[i]) = Seen(<<>>, FALSE, TRUE, {})
            /\ After(c, v[i - 1].nick, Absent, p[i]) = Seen(<<>>, FALSE, TRUE, {})
        BY <3>3 DEF After
      <4> QED BY <2>2, <3>2, <4>1, <4>2 DEF Step
    <3>4. CASE ~Entered(c, v[i - 1].nick, p[i])
      <4>1. u[i] = State(v[i].nick, Absent)
        BY <1>4, <2>1, <2>3, <2>5, <3>4
      <4>2. After(c, v[i - 1].nick, Absent, p[i]) = Absent
        BY <3>2, <3>4 DEF After
      <4>3. v[i].nick = NickAfter(v[i - 1].nick, p[i])
        BY <2>2 DEF Step, State
      <4> QED BY <3>2, <4>1, <4>2, <4>3 DEF Step
    <3> QED BY <3>3, <3>4
  <2> QED BY <2>4, <2>5
<1>8. Walk(u, c, t, p)
  BY <1>6, <1>7 DEF Walk, n
<1>9. n \in 0..n
  BY <1>2
<1>10. Match(r, c, u[n])
  <2>1. u[n].nick = v[n].nick /\ (u[n].view = v[n].view \/ u[n].view = Absent) /\ ~Absent.shown /\ ~Absent.hides
    BY <1>5, <1>9 DEF Absent
  <2> QED BY <1>1, <2>1 DEF Match
<1>11. ASSUME r.nick = NoNick, NEW i \in 0..n PROVE ~u[i].view.shown
  <2>1. (u[i].view = v[i].view \/ u[i].view = Absent) /\ ~Absent.shown
    BY <1>5 DEF Absent
  <2> QED BY <1>1, <1>11, <2>1
<1>12. ASSUME NEW k \in 1..n
       PROVE  /\ Entered(c, u[k - 1].nick, p[k]) <=> Entered(c, v[k - 1].nick, p[k])
              /\ Entered(c, u[k - 1].nick, p[k]) => ~u[k - 1].view.shown
  <2>1. k - 1 \in 0..n
    BY <1>2
  <2>2. u[k - 1].nick = v[k - 1].nick /\ (u[k - 1].view = v[k - 1].view \/ u[k - 1].view = Absent) /\ ~Absent.shown
    BY <1>5, <2>1 DEF Absent
  <2> QED BY <1>1, <2>2
<1>13. ASSUME u[n].view.hides PROVE ask \/ \E k \in 1..n : Entered(c, u[k - 1].nick, p[k])
  <2>1. u[n].view = v[n].view
    <3>1. ~Absent.hides
      BY DEF Absent
    <3> QED BY <1>5, <1>9, <1>13, <3>1
  <2>2. CASE ask
    BY <2>2
  <2>3. CASE ~ask
    <3>1. PICK k \in 1..n : Entered(c, v[k - 1].nick, p[k])
      BY <1>1, <1>13, <2>1, <2>3
    <3> QED BY <1>12, <3>1
  <2> QED BY <2>2, <2>3
<1>14. Follows(c, t, p, r, TRUE, ask)
  BY <1>8, <1>10, <1>11, <1>12, <1>13 DEF Follows, n
<1> QED BY <1>14 DEF t

LEMMA FollowsOne ==
    ASSUME NEW c, NEW t, NEW line, NEW r, NEW part \in BOOLEAN, NEW ask \in BOOLEAN,
           At(c, Step(c, t, line), r, part, ask \/ Entered(c, t.nick, line)),
           r.nick = NoNick => ~t.view.shown, Entered(c, t.nick, line) => ~t.view.shown
    PROVE  Follows(c, t, <<line>>, r, part, ask)
<1> DEFINE p == <<line>>
           v == [i \in 0..1 |-> IF i = 0 THEN t ELSE Step(c, t, line)]
<1>1. Len(p) = 1 /\ p[1] = line /\ v[0] = t /\ v[1] = Step(c, t, line)
  OBVIOUS
<1> HIDE DEF p, v
<1>2. Walk(v, c, t, p)
  BY <1>1 DEF Walk
<1>3. r.nick = NoNick => \A i \in 0..1 : ~v[i].view.shown
  BY <1>1 DEF At, Match
<1>4. v[1].view.hides => ask \/ \E k \in 1..1 : Entered(c, v[k - 1].nick, p[k])
  <2>1. Entered(c, t.nick, line) => Entered(c, v[1 - 1].nick, p[1])
    BY <1>1
  <2> QED BY <1>1, <2>1 DEF At
<1>5. \A k \in 1..1 : Entered(c, v[k - 1].nick, p[k]) => ~v[k - 1].view.shown
  BY <1>1
<1>6. Follows(c, t, p, r, part, ask)
  BY <1>1, <1>2, <1>3, <1>4, <1>5 DEF At, Follows
<1> QED BY <1>6 DEF p

-----------------------------------------------------------------------------
(* Types.                                                                  *)
People == ToSet(Nicks) \union {Friend}
Lists == UNION {[N -> BOOLEAN] : N \in SUBSET People}

Servers == [nick : ToSet(Nicks) \union {NoNick}, gone : BOOLEAN, members : [Chans -> Lists],
            modes : [Chans -> SUBSET Modes], ghosts : SUBSET ToSet(Nicks), online : BOOLEAN,
            watched : BOOLEAN, watch : BOOLEAN, news : BOOLEAN]

Requests == {<<"NICK", n>> : n \in ToSet(Nicks)}
            \union {<<cmd, c>> : cmd \in {"JOIN", "PART", "NAMES"}, c \in Chans}
            \union {<<cmd, b>> : cmd \in {"AWAY", "WATCH"}, b \in BOOLEAN}
            \union {<<"IDENTIFY">>, <<"ISON">>}
Questions == {<<cmd, c>> : cmd \in {"MODE", "WHO"}, c \in Chans}
Replies == {<<cmd, n>> : cmd \in {"001", "433"}, n \in ToSet(Nicks)}
           \union {<<cmd, b>> : cmd \in {"005", "303"}, b \in BOOLEAN}
           \union {<<cmd>> : cmd \in {"376", "305", "306", "600", "601", "604", "605"}}
           \union {<<"NICK", n, m>> : n \in ToSet(Nicks), m \in ToSet(Nicks)}
           \union {<<cmd, p, c>> : cmd \in {"JOIN", "PART", "KICK"}, p \in People, c \in Chans}
           \union {<<"QUIT", p>> : p \in People}
           \union {<<"324", c, ms>> : c \in Chans, ms \in SUBSET Modes}
           \union {<<cmd, c>> : cmd \in {"315", "366"}, c \in Chans}
           \union {<<"353", c, p, b>> : c \in Chans, p \in People, b \in BOOLEAN}
           \union {<<"MODE", n, "+", "e">> : n \in ToSet(Nicks)}
           \union {<<"MODE", c, sign, m>> : c \in Chans, sign \in {"+", "-"}, m \in Modes}
           \union {<<"OP", c, p, b>> : c \in Chans, p \in People, b \in BOOLEAN}

LEMMA ListIs ==
    ASSUME NEW f
    PROVE  f \in Lists <=> /\ f = [x \in DOMAIN f |-> f[x]]
                           /\ DOMAIN f \subseteq People /\ \A x \in DOMAIN f : f[x] \in BOOLEAN
<1>1. ASSUME f \in Lists
      PROVE  f = [x \in DOMAIN f |-> f[x]] /\ DOMAIN f \subseteq People /\ \A x \in DOMAIN f : f[x] \in BOOLEAN
  <2>1. PICK N \in SUBSET People : f \in [N -> BOOLEAN]
    BY <1>1 DEF Lists
  <2> QED BY <2>1
<1>2. ASSUME f = [x \in DOMAIN f |-> f[x]], DOMAIN f \subseteq People, \A x \in DOMAIN f : f[x] \in BOOLEAN
      PROVE  f \in Lists
  <2>1. DOMAIN f \in SUBSET People /\ f \in [DOMAIN f -> BOOLEAN]
    BY <1>2
  <2> QED BY <2>1 DEF Lists
<1> QED BY <1>1, <1>2

\* The lists of users the operators make.
LEMMA ListsMade ==
    ASSUME NEW f \in Lists
    PROVE  /\ <<>> \in Lists /\ DOMAIN <<>> = {}
           /\ \A n : Without(f, n) \in Lists /\ DOMAIN Without(f, n) = DOMAIN f \ {n}
           /\ \A n \in People : \A b \in BOOLEAN : With(f, n, b) \in Lists /\ DOMAIN With(f, n, b) = DOMAIN f \union {n}
           /\ \A n \in DOMAIN f : \A m \in People :
                  Renamed(f, n, m) \in Lists /\ DOMAIN Renamed(f, n, m) = (DOMAIN f \ {n}) \union {m}
           /\ \A n \in DOMAIN f : \A b \in BOOLEAN : [f EXCEPT ![n] = b] \in Lists /\ DOMAIN [f EXCEPT ![n] = b] = DOMAIN f
<1>1. f = [x \in DOMAIN f |-> f[x]] /\ DOMAIN f \subseteq People /\ \A x \in DOMAIN f : f[x] \in BOOLEAN
  BY ListIs
<1>2. <<>> \in Lists /\ DOMAIN <<>> = {}
  <2>1. DOMAIN <<>> = {} /\ <<>> = [x \in {} |-> x]
    OBVIOUS
  <2>2. <<>> = [x \in DOMAIN <<>> |-> <<>>[x]]
    OBVIOUS
  <2> QED BY <2>1, <2>2, ListIs
<1>3. ASSUME NEW n PROVE Without(f, n) \in Lists /\ DOMAIN Without(f, n) = DOMAIN f \ {n}
  <2>1. Without(f, n) = [x \in DOMAIN f \ {n} |-> f[x]]
    BY DEF Without, Restrict
  <2>2. /\ DOMAIN Without(f, n) = DOMAIN f \ {n} /\ DOMAIN Without(f, n) \subseteq People
        /\ \A x \in DOMAIN Without(f, n) : Without(f, n)[x] \in BOOLEAN
        /\ Without(f, n) = [x \in DOMAIN Without(f, n) |-> Without(f, n)[x]]
    BY <1>1, <2>1
  <2> QED BY <2>2, ListIs
<1>4. ASSUME NEW n \in People, NEW b \in BOOLEAN
      PROVE  With(f, n, b) \in Lists /\ DOMAIN With(f, n, b) = DOMAIN f \union {n}
  <2>1. With(f, n, b) = [x \in DOMAIN f \union {n} |-> IF x \in DOMAIN f THEN f[x] ELSE b]
    BY DEF With
  <2>2. DOMAIN With(f, n, b) = DOMAIN f \union {n} /\ DOMAIN With(f, n, b) \subseteq People
    BY <1>1, <2>1
  <2>3. \A x \in DOMAIN With(f, n, b) : With(f, n, b)[x] \in BOOLEAN
    <3> TAKE x \in DOMAIN With(f, n, b)
    <3>1. CASE x \in DOMAIN f
      BY <1>1, <2>1, <3>1
    <3>2. CASE x \notin DOMAIN f
      BY <2>1, <2>2, <3>2
    <3> QED BY <3>1, <3>2
  <2>4. With(f, n, b) = [x \in DOMAIN With(f, n, b) |-> With(f, n, b)[x]]
    BY <2>1
  <2> QED BY <2>2, <2>3, <2>4, ListIs
<1>5. ASSUME NEW n \in DOMAIN f, NEW m \in People
      PROVE  Renamed(f, n, m) \in Lists /\ DOMAIN Renamed(f, n, m) = (DOMAIN f \ {n}) \union {m}
  <2>1. Renamed(f, n, m) = [x \in (DOMAIN f \ {n}) \union {m} |-> IF x = m THEN f[n] ELSE f[x]]
    BY DEF Renamed
  <2>2. DOMAIN Renamed(f, n, m) = (DOMAIN f \ {n}) \union {m} /\ DOMAIN Renamed(f, n, m) \subseteq People
    BY <1>1, <2>1
  <2>3. \A x \in DOMAIN Renamed(f, n, m) : Renamed(f, n, m)[x] \in BOOLEAN
    <3> TAKE x \in DOMAIN Renamed(f, n, m)
    <3>1. CASE x = m
      BY <1>1, <2>1, <2>2, <3>1
    <3>2. CASE x # m
      BY <1>1, <2>1, <2>2, <3>2
    <3> QED BY <3>1, <3>2
  <2>4. Renamed(f, n, m) = [x \in DOMAIN Renamed(f, n, m) |-> Renamed(f, n, m)[x]]
    BY <2>1
  <2> QED BY <2>2, <2>3, <2>4, ListIs
<1>6. ASSUME NEW n \in DOMAIN f, NEW b \in BOOLEAN
      PROVE  [f EXCEPT ![n] = b] \in Lists /\ DOMAIN [f EXCEPT ![n] = b] = DOMAIN f
  <2> DEFINE g == [f EXCEPT ![n] = b]
  <2>1. g = [x \in DOMAIN f |-> IF x = n THEN b ELSE f[x]]
    BY <1>1
  <2> HIDE DEF g
  <2>2. DOMAIN g = DOMAIN f /\ g = [x \in DOMAIN g |-> g[x]]
    BY <2>1
  <2>3. \A x \in DOMAIN g : g[x] \in BOOLEAN
    <3> TAKE x \in DOMAIN g
    <3>1. CASE x = n
      BY <2>1, <2>2, <3>1
    <3>2. CASE x # n
      BY <1>1, <2>1, <2>2, <3>2
    <3> QED BY <3>1, <3>2
  <2>4. g \in Lists
    BY <1>1, <2>2, <2>3, ListIs
  <2> QED BY <2>2, <2>4 DEF g
<1> QED BY <1>2, <1>3, <1>4, <1>5, <1>6

-----------------------------------------------------------------------------
(* What the server does and what it says of it go together.                *)

LEMMA ServerFacts ==
    ASSUME NEW r \in Servers
    PROVE  /\ NoNick \notin People /\ r.nick \in People \union {NoNick}
           /\ \A c \in Chans : r.members[c] \in Lists /\ DOMAIN r.members[c] \subseteq People /\ ~On(r, c, NoNick)
<1>1. NoNick \notin People /\ r.nick \in People \union {NoNick}
  BY NamesAssumption DEF Servers, People
<1>2. ASSUME NEW c \in Chans PROVE r.members[c] \in Lists /\ DOMAIN r.members[c] \subseteq People
  <2>1. r.members[c] \in Lists
    BY DEF Servers
  <2> QED BY <2>1, ListIs
<1> QED BY <1>1, <1>2 DEF On

LEMMA PartedIs ==
    ASSUME NEW r \in Servers, NEW c \in Chans, NEW n
    PROVE  /\ Parted(r, c, n) \in Servers /\ Parted(r, c, n).nick = r.nick /\ Parted(r, c, n).gone = r.gone
           /\ Parted(r, c, n).ghosts = r.ghosts /\ Parted(r, c, n).watched = r.watched
           /\ \A d \in Chans : Parted(r, c, n).members[d] = IF d = c THEN Without(r.members[c], n) ELSE r.members[d]
           /\ \A d \in Chans : Parted(r, c, n).modes[d] = IF d = c /\ DOMAIN r.members[c] = {n} THEN {} ELSE r.modes[d]
<1>1. r.members[c] \in Lists /\ Without(r.members[c], n) \in Lists
  BY ServerFacts, ListsMade
<1>2. r.members \in [Chans -> Lists] /\ r.modes \in [Chans -> SUBSET Modes]
  BY DEF Servers
<1>3. Parted(r, c, n) = [r EXCEPT !.members = [@ EXCEPT ![c] = Without(r.members[c], n)],
                                  !.modes = [@ EXCEPT ![c] = IF DOMAIN r.members[c] = {n} THEN {} ELSE r.modes[c]]]
  BY DEF Parted
<1> DEFINE ms == [r.members EXCEPT ![c] = Without(r.members[c], n)]
           os == [r.modes EXCEPT ![c] = IF DOMAIN r.members[c] = {n} THEN {} ELSE r.modes[c]]
<1>4. ms \in [Chans -> Lists] /\ \A d \in Chans : ms[d] = IF d = c THEN Without(r.members[c], n) ELSE r.members[d]
  BY <1>1, <1>2
<1>5. os \in [Chans -> SUBSET Modes] /\ \A d \in Chans : os[d] = IF d = c /\ DOMAIN r.members[c] = {n} THEN {} ELSE r.modes[d]
  BY <1>2
<1>6. Parted(r, c, n) = [r EXCEPT !.members = ms, !.modes = os]
  BY <1>3 DEF Servers
<1> HIDE DEF ms, os
<1> QED BY <1>4, <1>5, <1>6 DEF Servers

LEMMA JoinedIs ==
    ASSUME NEW r \in Servers, NEW c \in Chans, r.nick # NoNick
    PROVE  /\ Joined(r, c) \in Servers /\ Joined(r, c).nick = r.nick /\ Joined(r, c).gone = r.gone
           /\ Joined(r, c).ghosts = r.ghosts /\ Joined(r, c).watched = r.watched
           /\ \A d \in Chans : Joined(r, c).modes[d] = r.modes[d]
           /\ \A d \in Chans : d # c => Joined(r, c).members[d] = r.members[d]
           /\ On(Joined(r, c), c, r.nick)
<1> DEFINE b == r.members[c] = <<>>
           f == With(r.members[c], r.nick, b)
<1>1. f \in Lists /\ DOMAIN f = DOMAIN r.members[c] \union {r.nick}
  <2>1. b \in BOOLEAN /\ r.nick \in People /\ r.members[c] \in Lists
    BY ServerFacts
  <2> HIDE DEF b
  <2>2. With(r.members[c], r.nick, b) \in Lists /\ DOMAIN With(r.members[c], r.nick, b) = DOMAIN r.members[c] \union {r.nick}
    <3>1. b \in BOOLEAN
      BY DEF b
    <3>2. r.nick \in People /\ r.members[c] \in Lists
      BY <2>1
    <3>3. \A n \in People : \A op \in BOOLEAN : With(r.members[c], n, op) \in Lists /\ DOMAIN With(r.members[c], n, op) = DOMAIN r.members[c] \union {n}
      BY <3>2, ListsMade
    <3> QED BY <3>1, <3>2, <3>3
  <2> QED BY <2>2
<1>2. r.members \in [Chans -> Lists] /\ r.modes \in [Chans -> SUBSET Modes]
  BY DEF Servers
<1>3. Joined(r, c) = [r EXCEPT !.members = [@ EXCEPT ![c] = f]]
  BY DEF Joined
<1> HIDE DEF f
<1> DEFINE ms == [r.members EXCEPT ![c] = f]
<1>4. ms \in [Chans -> Lists] /\ \A d \in Chans : ms[d] = IF d = c THEN f ELSE r.members[d]
  BY <1>1, <1>2
<1>5. Joined(r, c) = [r EXCEPT !.members = ms]
  BY <1>3 DEF Servers
<1> HIDE DEF ms
<1>6. Joined(r, c).members = ms
  BY <1>5 DEF Servers
<1> QED BY <1>1, <1>4, <1>5, <1>6 DEF Servers, On

LEMMA GoneFromIs ==
    ASSUME NEW r \in Servers, NEW n
    PROVE  /\ GoneFrom(r, n) \in Servers /\ GoneFrom(r, n).nick = r.nick /\ GoneFrom(r, n).gone = r.gone
           /\ GoneFrom(r, n).ghosts = r.ghosts /\ GoneFrom(r, n).watched = r.watched
           /\ \A d \in Chans : GoneFrom(r, n).members[d] = Without(r.members[d], n)
           /\ \A d \in Chans : GoneFrom(r, n).modes[d] = IF DOMAIN r.members[d] = {n} THEN {} ELSE r.modes[d]
<1>1. r.members \in [Chans -> Lists] /\ r.modes \in [Chans -> SUBSET Modes]
  BY DEF Servers
<1> DEFINE ms == [c \in Chans |-> Without(r.members[c], n)]
           os == [c \in Chans |-> IF DOMAIN r.members[c] = {n} THEN {} ELSE r.modes[c]]
<1>2. ms \in [Chans -> Lists]
  BY ServerFacts, ListsMade
<1>3. os \in [Chans -> SUBSET Modes]
  BY <1>1
<1>4. GoneFrom(r, n) = [r EXCEPT !.members = ms, !.modes = os]
  BY DEF GoneFrom
<1>5. (\A d \in Chans : ms[d] = Without(r.members[d], n)) /\ \A d \in Chans : os[d] = IF DOMAIN r.members[d] = {n} THEN {} ELSE r.modes[d]
  OBVIOUS
<1> HIDE DEF ms, os
<1> QED BY <1>2, <1>3, <1>4, <1>5 DEF Servers

LEMMA CalledIs ==
    ASSUME NEW r \in Servers, NEW n \in ToSet(Nicks)
    PROVE  /\ Called(r, n) \in Servers /\ Called(r, n).nick = n /\ Called(r, n).gone = r.gone
           /\ Called(r, n).ghosts = r.ghosts /\ Called(r, n).watched = r.watched /\ Called(r, n).modes = r.modes
           /\ \A d \in Chans : Called(r, n).members[d] = RenamedIn(r.members[d], r.nick, n)
<1> DEFINE ms == [c \in Chans |-> IF On(r, c, r.nick) THEN Renamed(r.members[c], r.nick, n) ELSE r.members[c]]
<1>1. Called(r, n) = [r EXCEPT !.nick = n, !.members = ms]
  BY DEF Called
<1>2. \A c \in Chans : ms[c] = RenamedIn(r.members[c], r.nick, n)
  BY DEF On, RenamedIn
<1>3. ASSUME NEW c \in Chans PROVE RenamedIn(r.members[c], r.nick, n) \in Lists
  <2>1. r.members[c] \in Lists /\ n \in People
    BY ServerFacts DEF People
  <2>2. CASE r.nick \in DOMAIN r.members[c]
    <3>1. Renamed(r.members[c], r.nick, n) \in Lists
      BY <2>1, <2>2, ListsMade
    <3> QED BY <2>2, <3>1 DEF RenamedIn
  <2>3. CASE r.nick \notin DOMAIN r.members[c]
    BY <2>1, <2>3 DEF RenamedIn
  <2> QED BY <2>2, <2>3
<1>4. ms \in [Chans -> Lists]
  BY <1>2, <1>3
<1> HIDE DEF ms
<1> QED BY <1>1, <1>2, <1>4 DEF Servers

\* Sets the provers need not look into where the next lemma is cited.
Flags == BOOLEAN
Leavings == {"PART", "KICK"}

LEMMA LeadsParted ==
    ASSUME NEW r \in Servers, NEW c \in Chans, NEW d \in Chans, NEW n \in People, On(r, d, n),
           NEW cmd \in Leavings, NEW part \in Flags, NEW ask \in Flags, NEW part2 \in Flags,
           part => part2 \/ (d = c /\ n = r.nick)
    PROVE  Leads(c, r, part, ask, Told(r, d, <<cmd, n, d>>), Parted(r, d, n), part2, ask)
<1> USE DEF Flags, Leavings
<1> DEFINE line == <<cmd, n, d>>
           r2 == Parted(r, d, n)
<1>1. /\ r2.nick = r.nick
      /\ \A e \in Chans : r2.members[e] = IF e = d THEN Without(r.members[d], n) ELSE r.members[e]
      /\ \A e \in Chans : r2.modes[e] = IF e = d /\ DOMAIN r.members[d] = {n} THEN {} ELSE r.modes[e]
  BY PartedIs
<1>2. NoNick \notin People /\ ~On(r, c, NoNick) /\ DOMAIN Without(r.members[d], n) = DOMAIN r.members[d] \ {n}
  BY ServerFacts, ListsMade
<1>3. line[1] = cmd /\ line[2] = n /\ line[3] = d
  OBVIOUS
<1> HIDE DEF line, r2
<1>4. ASSUME NEW t, NEW j \in BOOLEAN, At(c, t, r, part, ask \/ j)
      PROVE  Follows(c, t, Told(r, d, line), r2, part2, ask \/ j)
  <2>1. /\ r.nick # NoNick => t.nick = r.nick
        /\ r.nick = NoNick => ~t.view.shown
        /\ t.view.hides => t.view.shown
        /\ t.view.shown => /\ On(r, c, r.nick) /\ t.view.users = r.members[c] /\ t.view.ended
                           /\ t.view.hides \/ t.view.modes = r.modes[c]
        /\ On(r, c, r.nick) /\ ~t.view.shown => part
        /\ t.view.hides => ask \/ j
    BY <1>4 DEF At, Match
  <2>2. CASE Told(r, d, line) = <<>>
    <3>1. r.nick = NoNick \/ ~On(r, d, r.nick)
      BY <2>2 DEF Told
    <3>2. d = c => ~On(r, c, r.nick) /\ ~On(r2, c, r.nick)
      BY <1>1, <1>2, <3>1 DEF On
    <3>3. c # d => r2.members[c] = r.members[c] /\ r2.modes[c] = r.modes[c]
      BY <1>1
    <3>4. At(c, t, r2, part2, ask \/ j)
      <4>1. CASE c = d
        BY <1>1, <2>1, <3>2, <4>1 DEF At, Match
      <4>2. CASE c # d
        BY <1>1, <2>1, <3>3, <4>2 DEF At, Match, On
      <4> QED BY <4>1, <4>2
    <3> QED BY <2>2, <3>4, FollowsNone
  <2>3. CASE Told(r, d, line) = <<line>> /\ r.nick # NoNick /\ On(r, d, r.nick)
    <3>1. ~Entered(c, t.nick, line) /\ NickAfter(t.nick, line) = t.nick /\ t.nick = r.nick
      BY <1>3, <2>1, <2>3 DEF Entered, NickAfter
    <3> DEFINE u == Step(c, t, line)
    <3>2. u.nick = r.nick /\ u.view = After(c, t.nick, t.view, line)
      BY <3>1 DEF Step, State
    <3> HIDE DEF u
    <3>3. CASE ~t.view.shown \/ Gone(c, t.nick, line)
      <4>1. ~u.view.shown /\ ~u.view.hides
        BY <3>1, <3>2, <3>3 DEF After, Absent
      <4>2. On(r2, c, r.nick) => On(r, c, r.nick) /\ ~(d = c /\ n = r.nick)
        BY <1>1, <1>2 DEF On
      <4>3. Gone(c, t.nick, line) => ~On(r2, c, r.nick)
        BY <1>1, <1>2, <1>3, <3>1 DEF On, Gone
      <4>4. On(r2, c, r.nick) => part2
        BY <2>1, <3>3, <4>2, <4>3
      <4>5. At(c, u, r2, part2, (ask \/ j) \/ Entered(c, t.nick, line))
        BY <1>1, <2>3, <3>2, <4>1, <4>4 DEF At, Match
      <4> QED BY <1>1, <2>3, <3>1, <4>5, FollowsOne DEF u
    <3>4. CASE t.view.shown /\ ~Gone(c, t.nick, line)
      <4>1. u.view = Seen(UsersAfter(c, t.nick, t.view, line), EndedAfter(c, t.view, line),
                          HidesAfter(c, t.view, line), ModesAfter(c, t.view, line))
        BY <3>1, <3>2, <3>4 DEF After
      <4>2. /\ UsersAfter(c, t.nick, t.view, line) = IF d = c THEN Without(t.view.users, n) ELSE t.view.users
            /\ EndedAfter(c, t.view, line) = t.view.ended /\ HidesAfter(c, t.view, line) = t.view.hides
            /\ ModesAfter(c, t.view, line) = t.view.modes
        BY <1>3 DEF UsersAfter, EndedAfter, HidesAfter, ModesAfter
      <4>3. /\ u.view.shown /\ u.view.users = IF d = c THEN Without(t.view.users, n) ELSE t.view.users
            /\ u.view.ended = t.view.ended /\ u.view.hides = t.view.hides /\ u.view.modes = t.view.modes
        BY <4>1, <4>2 DEF Seen
      <4>4. d = c => n # r.nick
        BY <1>3, <3>1, <3>4 DEF Gone
      <4>5. r2.members[c] = u.view.users /\ r2.modes[c] = r.modes[c] /\ On(r2, c, r.nick)
        BY <1>1, <1>2, <2>1, <3>4, <4>3, <4>4 DEF On
      <4>6. At(c, u, r2, part2, (ask \/ j) \/ Entered(c, t.nick, line))
        BY <1>1, <2>1, <2>3, <3>2, <3>4, <4>3, <4>5 DEF At, Match
      <4> QED BY <1>1, <2>3, <3>1, <4>6, FollowsOne DEF u
    <3> QED BY <3>3, <3>4
  <2> QED BY <2>2, <2>3 DEF Told
<1> QED BY <1>1, <1>4 DEF Leads, line, r2

\* Nothing is said, and on c nothing has changed.
LEMMA LeadsSilent ==
    ASSUME NEW r \in Servers, NEW r2 \in Servers, NEW c \in Chans, NEW part \in BOOLEAN, NEW ask \in BOOLEAN,
           NEW part2 \in BOOLEAN, NEW ask2 \in BOOLEAN, part => part2 \/ ~On(r, c, r.nick), ask => ask2 \/ ~On(r, c, r.nick),
           r2.nick = r.nick, On(r2, c, r.nick) => On(r, c, r.nick),
           On(r, c, r.nick) => On(r2, c, r.nick) /\ r2.members[c] = r.members[c] /\ r2.modes[c] = r.modes[c]
    PROVE  Leads(c, r, part, ask, <<>>, r2, part2, ask2)
<1>1. ASSUME NEW t, NEW j \in BOOLEAN, At(c, t, r, part, ask \/ j)
      PROVE  Follows(c, t, <<>>, r2, part2, ask2 \/ j)
  <2>1. At(c, t, r2, part2, ask2 \/ j)
    <3>1. CASE t.view.shown
      BY <1>1, <3>1 DEF At, Match
    <3>2. CASE ~t.view.shown
      BY <1>1, <3>2 DEF At, Match
    <3> QED BY <3>1, <3>2
  <2> QED BY <2>1, FollowsNone
<1> QED BY <1>1 DEF Leads

\* A line that changes nothing of c.
Neutral(c, line) ==
    \A n, x : /\ NickAfter(n, line) = n /\ ~Entered(c, n, line) /\ ~Gone(c, n, line)
              /\ UsersAfter(c, n, x, line) = x.users /\ EndedAfter(c, x, line) = x.ended
              /\ HidesAfter(c, x, line) = x.hides /\ ModesAfter(c, x, line) = x.modes

LEMMA NeutralKinds ==
    ASSUME NEW line, NEW c,
           \/ line[1] \in {"005", "376", "433", "303", "305", "306", "315", "600", "601", "604", "605"}
           \/ line[1] \in {"353", "366", "324", "MODE", "OP"} /\ line[2] # c
    PROVE  Neutral(c, line)
<1> SUFFICES ASSUME NEW n, NEW x
             PROVE  /\ NickAfter(n, line) = n /\ ~Entered(c, n, line) /\ ~Gone(c, n, line)
                    /\ UsersAfter(c, n, x, line) = x.users /\ EndedAfter(c, x, line) = x.ended
                    /\ HidesAfter(c, x, line) = x.hides /\ ModesAfter(c, x, line) = x.modes
  BY DEF Neutral
<1>1. line[1] \notin {"001", "NICK", "JOIN", "PART", "KICK", "QUIT"}
  OBVIOUS
<1>2. line[1] \in {"353", "366", "324", "MODE", "OP"} => line[2] # c
  OBVIOUS
<1>3. NickAfter(n, line) = n /\ ~Entered(c, n, line) /\ ~Gone(c, n, line)
  BY <1>1 DEF NickAfter, Entered, Gone
<1>4. UsersAfter(c, n, x, line) = x.users
  BY <1>1, <1>2 DEF UsersAfter
<1>5. EndedAfter(c, x, line) = x.ended /\ HidesAfter(c, x, line) = x.hides
  BY <1>1, <1>2 DEF EndedAfter, HidesAfter
<1>6. ModesAfter(c, x, line) = x.modes
  BY <1>1, <1>2 DEF ModesAfter
<1> QED BY <1>3, <1>4, <1>5, <1>6

LEMMA StepNeutral ==
    ASSUME NEW c, NEW line, Neutral(c, line), NEW t
    PROVE  /\ Step(c, t, line).nick = t.nick /\ ~Entered(c, t.nick, line)
           /\ ~t.view.shown => Step(c, t, line).view = Absent
           /\ t.view.shown => Step(c, t, line).view = Seen(t.view.users, t.view.ended, t.view.hides, t.view.modes)
<1>1. /\ NickAfter(t.nick, line) = t.nick /\ ~Entered(c, t.nick, line) /\ ~Gone(c, t.nick, line)
      /\ UsersAfter(c, t.nick, t.view, line) = t.view.users /\ EndedAfter(c, t.view, line) = t.view.ended
      /\ HidesAfter(c, t.view, line) = t.view.hides /\ ModesAfter(c, t.view, line) = t.view.modes
  BY DEF Neutral
<1>2. Step(c, t, line).nick = t.nick /\ Step(c, t, line).view = After(c, t.nick, t.view, line)
  BY <1>1 DEF Step, State
<1>3. After(c, t.nick, t.view, line) = IF ~t.view.shown THEN Absent
                                       ELSE Seen(t.view.users, t.view.ended, t.view.hides, t.view.modes)
  BY <1>1 DEF After
<1> QED BY <1>1, <1>2, <1>3

LEMMA AtNeutral ==
    ASSUME NEW r, NEW c, NEW line, Neutral(c, line), NEW t, NEW part \in BOOLEAN, NEW ask \in BOOLEAN,
           At(c, t, r, part, ask)
    PROVE  Follows(c, t, <<line>>, r, part, ask)
<1> DEFINE u == Step(c, t, line)
<1>1. /\ u.nick = t.nick /\ ~Entered(c, t.nick, line)
      /\ ~t.view.shown => u.view = Absent
      /\ t.view.shown => u.view = Seen(t.view.users, t.view.ended, t.view.hides, t.view.modes)
  BY StepNeutral
<1> HIDE DEF u
<1>2. /\ u.view.shown <=> t.view.shown
      /\ u.view.hides => t.view.hides
      /\ t.view.shown => /\ u.view.users = t.view.users /\ u.view.ended = t.view.ended /\ u.view.modes = t.view.modes
                         /\ u.view.hides = t.view.hides
  <2>1. CASE t.view.shown
    <3>1. u.view = Seen(t.view.users, t.view.ended, t.view.hides, t.view.modes)
      BY <1>1, <2>1
    <3>2. /\ u.view.shown /\ u.view.users = t.view.users /\ u.view.ended = t.view.ended /\ u.view.modes = t.view.modes
          /\ u.view.hides = t.view.hides
      BY <3>1 DEF Seen
    <3> QED BY <2>1, <3>2
  <2>2. CASE ~t.view.shown
    <3>1. ~u.view.shown /\ ~u.view.hides
      BY <1>1, <2>2 DEF Absent
    <3> QED BY <2>2, <3>1
  <2> QED BY <2>1, <2>2
<1>3. At(c, u, r, part, ask \/ Entered(c, t.nick, line))
  <2>1. Match(r, c, u)
    BY <1>1, <1>2 DEF At, Match
  <2> QED BY <1>1, <1>2, <2>1 DEF At
<1> QED BY <1>1, <1>3, FollowsOne DEF u, At, Match

\* A line is said that concerns c, and nobody enters or leaves it.
LEMMA LeadsTold ==
    ASSUME NEW r \in Servers, NEW r2 \in Servers, NEW c \in Chans, NEW line, NEW part \in BOOLEAN, NEW ask \in BOOLEAN,
           NEW ask2 \in BOOLEAN, r.nick # NoNick, r2.nick = NickAfter(r.nick, line), r2.nick # NoNick,
           ~Entered(c, r.nick, line), ~Gone(c, r.nick, line), On(r2, c, r2.nick) => On(r, c, r.nick),
           \A x : x.shown /\ On(r, c, r.nick) /\ x.users = r.members[c] /\ x.ended /\ (x.hides \/ x.modes = r.modes[c])
                  => /\ On(r2, c, r2.nick) /\ UsersAfter(c, r.nick, x, line) = r2.members[c] /\ EndedAfter(c, x, line)
                     /\ HidesAfter(c, x, line) \/ ModesAfter(c, x, line) = r2.modes[c]
                     /\ HidesAfter(c, x, line) => x.hides /\ (ask => ask2)
    PROVE  Leads(c, r, part, ask, <<line>>, r2, part, ask2)
<1>1. ASSUME NEW t, NEW j \in BOOLEAN, At(c, t, r, part, ask \/ j)
      PROVE  Follows(c, t, <<line>>, r2, part, ask2 \/ j)
  <2>1. /\ t.nick = r.nick
        /\ t.view.hides => t.view.shown
        /\ t.view.shown => /\ On(r, c, r.nick) /\ t.view.users = r.members[c] /\ t.view.ended
                           /\ t.view.hides \/ t.view.modes = r.modes[c]
        /\ On(r, c, r.nick) /\ ~t.view.shown => part
        /\ t.view.hides => ask \/ j
    BY <1>1 DEF At, Match
  <2> DEFINE u == Step(c, t, line)
  <2>2. u.nick = r2.nick /\ u.view = After(c, t.nick, t.view, line)
    BY <2>1 DEF Step, State
  <2> HIDE DEF u
  <2>3. CASE ~t.view.shown
    <3>1. ~u.view.shown /\ ~u.view.hides
      BY <2>1, <2>2, <2>3 DEF After, Absent
    <3>2. At(c, u, r2, part, (ask2 \/ j) \/ Entered(c, t.nick, line))
      BY <2>1, <2>2, <2>3, <3>1 DEF At, Match
    <3> QED BY <2>1, <3>2, FollowsOne DEF u
  <2>4. CASE t.view.shown
    <3> DEFINE x == t.view
    <3>1. u.view = Seen(UsersAfter(c, r.nick, x, line), EndedAfter(c, x, line), HidesAfter(c, x, line), ModesAfter(c, x, line))
      BY <2>1, <2>2, <2>4 DEF After
    <3>2. /\ On(r2, c, r2.nick) /\ UsersAfter(c, r.nick, x, line) = r2.members[c] /\ EndedAfter(c, x, line)
          /\ HidesAfter(c, x, line) \/ ModesAfter(c, x, line) = r2.modes[c]
          /\ HidesAfter(c, x, line) => x.hides /\ (ask => ask2)
      BY <2>1, <2>4
    <3>3. /\ u.view.shown /\ u.view.users = UsersAfter(c, r.nick, x, line) /\ u.view.ended = EndedAfter(c, x, line)
          /\ u.view.hides = HidesAfter(c, x, line) /\ u.view.modes = ModesAfter(c, x, line)
      BY <3>1 DEF Seen
    <3>4. At(c, u, r2, part, (ask2 \/ j) \/ Entered(c, t.nick, line))
      BY <2>1, <2>2, <2>4, <3>2, <3>3 DEF At, Match
    <3> QED BY <2>1, <3>4, FollowsOne DEF u
  <2> QED BY <2>3, <2>4
<1> QED BY <1>1 DEF Leads

LEMMA LeadsThen ==
    ASSUME NEW S, NEW p \in Seq(S), NEW q \in Seq(S), NEW c, NEW r, NEW r2, NEW r3,
           NEW part \in BOOLEAN, NEW ask \in BOOLEAN, NEW part2 \in BOOLEAN, NEW ask2 \in BOOLEAN,
           NEW part3 \in BOOLEAN, NEW ask3 \in BOOLEAN,
           Leads(c, r, part, ask, p, r2, part2, ask2), Leads(c, r2, part2, ask2, q, r3, part3, ask3)
    PROVE  Leads(c, r, part, ask, p \o q, r3, part3, ask3)
<1>1. ASSUME NEW t, NEW j \in BOOLEAN, At(c, t, r, part, ask \/ j)
      PROVE  Follows(c, t, p \o q, r3, part3, ask3 \/ j)
  <2> DEFINE b == ask2 \/ j
             d == ask3 \/ j
  <2>1. b \in BOOLEAN /\ d \in BOOLEAN
    OBVIOUS
  <2>2. Follows(c, t, p, r2, part2, b)
    BY <1>1 DEF Leads
  <2>3. ASSUME NEW u, NEW k \in BOOLEAN, At(c, u, r2, part2, b \/ k)
        PROVE  Follows(c, u, q, r3, part3, d \/ k)
    <3>1. CASE j
      <4>1. Follows(c, u, q, r3, part3, ask3 \/ TRUE)
        <5>1. At(c, u, r2, part2, ask2 \/ TRUE)
          BY <2>3 DEF At
        <5> QED BY <5>1 DEF Leads
      <4>2. (ask3 \/ TRUE) => (d \/ k)
        BY <3>1
      <4> HIDE DEF d
      <4> QED BY <4>1, <4>2, <2>1, FollowsMore
    <3>2. CASE ~j
      <4>1. At(c, u, r2, part2, ask2 \/ k)
        BY <2>3, <3>2 DEF At
      <4>2. Follows(c, u, q, r3, part3, ask3 \/ k)
        BY <4>1 DEF Leads
      <4>3. (ask3 \/ k) => (d \/ k)
        OBVIOUS
      <4> HIDE DEF d
      <4> QED BY <4>2, <4>3, <2>1, FollowsMore
    <3> QED BY <3>1, <3>2
  <2>4. r3.nick = NoNick => r2.nick = NoNick
    BY DEF Leads
  <2> HIDE DEF b, d
  <2>6. \A u : \A k \in BOOLEAN : At(c, u, r2, part2, b \/ k) => Follows(c, u, q, r3, part3, d \/ k)
    BY <2>3
  <2>9. Leads(c, r2, part2, b, q, r3, part3, d)
    BY <2>4, <2>6 DEF Leads
  <2>5. Follows(c, t, p \o q, r3, part3, d)
    BY <2>1, <2>2, <2>9, FollowsSays
  <2> QED BY <2>5 DEF d
<1>2. r3.nick = NoNick => r.nick = NoNick
  BY DEF Leads
<1> DEFINE l == p \o q
<1> HIDE DEF l
<1>3. \A t : \A j \in BOOLEAN : At(c, t, r, part, ask \/ j) => Follows(c, t, l, r3, part3, ask3 \/ j)
  BY <1>1 DEF l
<1>4. Leads(c, r, part, ask, l, r3, part3, ask3)
  BY <1>2, <1>3 DEF Leads
<1> QED BY <1>4 DEF l

LEMMA LeadsNeutral ==
    ASSUME NEW r, NEW r2, NEW c, NEW line, Neutral(c, line), NEW part \in BOOLEAN, NEW ask \in BOOLEAN,
           r2.nick = r.nick, r2.members[c] = r.members[c], r2.modes[c] = r.modes[c]
    PROVE  Leads(c, r, part, ask, <<line>>, r2, part, ask)
<1>1. ASSUME NEW t, NEW j \in BOOLEAN, At(c, t, r, part, ask \/ j)
      PROVE  Follows(c, t, <<line>>, r2, part, ask \/ j)
  <2>1. At(c, t, r2, part, ask \/ j)
    BY <1>1 DEF At, Match, On
  <2> QED BY <2>1, AtNeutral
<1> QED BY <1>1 DEF Leads

\* Any number of lines that change nothing of c.
LEMMA LeadsNeutrals ==
    ASSUME NEW r, NEW r2, NEW c, NEW S, NEW q \in Seq(S), \A k \in 1..Len(q) : Neutral(c, q[k]),
           NEW part \in BOOLEAN, NEW ask \in BOOLEAN,
           r2.nick = r.nick, r2.members[c] = r.members[c], r2.modes[c] = r.modes[c]
    PROVE  Leads(c, r, part, ask, q, r2, part, ask)
<1> DEFINE m == Len(q)
<1>1. m \in Nat
  OBVIOUS
<1>2. \A k \in 1..m : Neutral(c, q[k])
  OBVIOUS
<1> HIDE DEF m
<1>3. ASSUME NEW t, NEW j \in BOOLEAN, At(c, t, r, part, ask \/ j)
      PROVE  Follows(c, t, q, r2, part, ask \/ j)
  <2>9. At(c, t, r2, part, ask \/ j)
    BY <1>3 DEF At, Match, On
  <2> DEFINE x == IF t.view.shown THEN Seen(t.view.users, t.view.ended, t.view.hides, t.view.modes) ELSE Absent
             u == State(t.nick, x)
             v == [i \in 0..m |-> IF i = 0 THEN t ELSE u]
  <2>1. /\ u.nick = t.nick /\ u.view = x
        /\ t.view.shown => /\ x.shown /\ x.users = t.view.users /\ x.ended = t.view.ended /\ x.hides = t.view.hides
                           /\ x.modes = t.view.modes /\ x = Seen(x.users, x.ended, x.hides, x.modes)
        /\ ~t.view.shown => ~x.shown /\ ~x.hides /\ x = Absent
    BY DEF State, Seen, Absent
  <2>2. v[0] = t /\ (\A i \in 1..m : v[i] = u) /\ (\A i \in 0..m : v[i] = t \/ v[i] = u)
    BY <1>1
  <2> HIDE DEF x, u, v
  <2>3. \A s : s = t \/ s = u => s.nick = t.nick /\ (s.view.shown <=> t.view.shown)
               /\ (t.view.shown => Seen(s.view.users, s.view.ended, s.view.hides, s.view.modes) = x)
    <3>1. t.view.shown => Seen(t.view.users, t.view.ended, t.view.hides, t.view.modes) = x
      BY DEF x
    <3> QED BY <2>1, <3>1
  <2>4. ASSUME NEW k \in 1..m PROVE v[k] = Step(c, v[k - 1], q[k]) /\ ~Entered(c, v[k - 1].nick, q[k])
    <3>1. k - 1 \in 0..m
      BY <1>1
    <3> DEFINE s == v[k - 1]
               z == Step(c, s, q[k])
    <3>2. s = t \/ s = u
      BY <2>2, <3>1
    <3>3. Neutral(c, q[k])
      BY <1>2
    <3> HIDE DEF s
    <3>4. /\ z.nick = s.nick /\ ~Entered(c, s.nick, q[k])
          /\ ~s.view.shown => z.view = Absent
          /\ s.view.shown => z.view = Seen(s.view.users, s.view.ended, s.view.hides, s.view.modes)
      BY <3>3, StepNeutral
    <3>5. z = State(z.nick, z.view)
      BY DEF Step, State
    <3> HIDE DEF z
    <3>6. z.nick = t.nick /\ z.view = x
      BY <2>1, <2>3, <3>2, <3>4
    <3>7. z = u
      BY <3>5, <3>6 DEF u
    <3> QED BY <2>2, <3>4, <3>7 DEF s, z
  <2>5. Walk(v, c, t, q)
    BY <2>2, <2>4 DEF Walk, m
  <2>6. m \in 0..m /\ (v[m] = t \/ v[m] = u)
    BY <1>1, <2>2
  <2>7. At(c, v[m], r2, part, ask \/ j)
    <3>1. CASE v[m] = t
      BY <2>9, <3>1
    <3>2. CASE v[m] = u /\ t.view.shown
      BY <2>9, <2>1, <3>2 DEF At, Match
    <3>3. CASE v[m] = u /\ ~t.view.shown
      BY <2>9, <2>1, <3>3 DEF At, Match
    <3> QED BY <2>6, <3>1, <3>2, <3>3
  <2>8. r2.nick = NoNick => \A i \in 0..m : ~v[i].view.shown
    BY <2>9, <2>2, <2>3 DEF At, Match
  <2> QED BY <2>4, <2>5, <2>7, <2>8 DEF Follows, At, m
<1> QED BY <1>3 DEF Leads

\* Of the server only our nick, the users of c and its modes matter to c.
LEMMA LeadsSame ==
    ASSUME NEW c, NEW r, NEW p, NEW r2, NEW r3, NEW part \in BOOLEAN, NEW ask \in BOOLEAN,
           NEW part2 \in BOOLEAN, NEW ask2 \in BOOLEAN, Leads(c, r, part, ask, p, r2, part2, ask2),
           r3.nick = r2.nick, r3.members[c] = r2.members[c], r3.modes[c] = r2.modes[c]
    PROVE  Leads(c, r, part, ask, p, r3, part2, ask2)
<1>1. r3.nick = NoNick => r.nick = NoNick
  BY DEF Leads
<1>2. ASSUME NEW t, NEW j \in BOOLEAN, At(c, t, r, part, ask \/ j)
      PROVE  Follows(c, t, p, r3, part2, ask2 \/ j)
  <2> DEFINE b == ask2 \/ j
  <2>1. Follows(c, t, p, r2, part2, b)
    BY <1>2 DEF Leads
  <2> HIDE DEF b
  <2>2. Follows(c, t, p, r3, part2, b)
    BY <2>1 DEF Follows, Match, On
  <2> QED BY <2>2 DEF b
<1>3. \A t : \A j \in BOOLEAN : At(c, t, r, part, ask \/ j) => Follows(c, t, p, r3, part2, ask2 \/ j)
  BY <1>2
<1> QED BY <1>1, <1>3 DEF Leads

LEMMA LeadsRequested ==
    ASSUME NEW c, NEW r, NEW p, NEW r2, NEW part \in BOOLEAN, NEW ask \in BOOLEAN,
           NEW part2 \in BOOLEAN, NEW ask2 \in BOOLEAN, Leads(c, r, part, ask, p, r2, part, ask),
           part => part2, ask => ask2
    PROVE  Leads(c, r, part, ask, p, r2, part2, ask2)
<1>1. r2.nick = NoNick => r.nick = NoNick
  BY DEF Leads
<1>2. ASSUME NEW t, NEW j \in BOOLEAN, At(c, t, r, part, ask \/ j)
      PROVE  Follows(c, t, p, r2, part2, ask2 \/ j)
  <2> DEFINE b == ask \/ j
             d == ask2 \/ j
  <2>1. Follows(c, t, p, r2, part, b)
    BY <1>2 DEF Leads
  <2>2. b \in BOOLEAN /\ d \in BOOLEAN /\ (b => d)
    OBVIOUS
  <2> HIDE DEF b, d
  <2>3. Follows(c, t, p, r2, part2, d)
    BY <2>1, <2>2, FollowsMore
  <2> QED BY <2>3 DEF d
<1>3. \A t : \A j \in BOOLEAN : At(c, t, r, part, ask \/ j) => Follows(c, t, p, r2, part2, ask2 \/ j)
  BY <1>2
<1> QED BY <1>1, <1>3 DEF Leads

\* Who is on the channels: ghosts, the client and Friend.
Sound(r) ==
    /\ r \in Servers /\ r.nick \notin r.ghosts /\ (r.nick = NoNick => ~r.watched)
    /\ \A c \in Chans : DOMAIN r.members[c] \subseteq r.ghosts \union {r.nick, Friend}

LEMMA FreeNick ==
    ASSUME NEW r, Sound(r), NEW n \in ToSet(Nicks), n \notin InUse(r)
    PROVE  n # NoNick /\ n # Friend /\ n # r.nick /\ n \notin r.ghosts /\ \A c \in Chans : ~On(r, c, n)
<1>1. n # NoNick /\ n # Friend
  BY NamesAssumption
<1>2. n # r.nick /\ n \notin r.ghosts
  BY DEF InUse
<1> QED BY <1>1, <1>2 DEF Sound, On

LEMMA LeadsRenamed ==
    ASSUME NEW r, Sound(r), r.nick # NoNick, NEW n \in ToSet(Nicks), n \notin InUse(r), NEW c \in Chans,
           NEW part \in BOOLEAN, NEW ask \in BOOLEAN
    PROVE  Leads(c, r, part, ask, << <<"NICK", r.nick, n>> >>, Called(r, n), part, ask)
<1> DEFINE line == <<"NICK", r.nick, n>>
           r2 == Called(r, n)
<1>1. r \in Servers /\ r2 \in Servers /\ r2.nick = n /\ r2.modes[c] = r.modes[c] /\ r2.members[c] = RenamedIn(r.members[c], r.nick, n)
  BY CalledIs DEF Sound
<1>2. n # NoNick /\ ~On(r, c, n)
  BY FreeNick
<1>3. line[1] = "NICK" /\ line[2] = r.nick /\ line[3] = n
  OBVIOUS
<1> HIDE DEF line, r2
<1>4. On(r2, c, n) <=> On(r, c, r.nick)
  <2>1. CASE On(r, c, r.nick)
    <3>1. n \in DOMAIN Renamed(r.members[c], r.nick, n)
      BY DEF Renamed
    <3> QED BY <1>1, <2>1, <3>1 DEF RenamedIn, On
  <2>2. CASE ~On(r, c, r.nick)
    BY <1>1, <1>2, <2>2 DEF RenamedIn, On
  <2> QED BY <2>1, <2>2
<1>5. /\ NickAfter(r.nick, line) = n /\ ~Entered(c, r.nick, line) /\ ~Gone(c, r.nick, line)
      /\ \A x : /\ UsersAfter(c, r.nick, x, line) = RenamedIn(x.users, r.nick, n)
                /\ EndedAfter(c, x, line) = x.ended /\ HidesAfter(c, x, line) = x.hides /\ ModesAfter(c, x, line) = x.modes
  BY <1>3 DEF NickAfter, Entered, Gone, UsersAfter, EndedAfter, HidesAfter, ModesAfter
<1>6. \A x : x.shown /\ On(r, c, r.nick) /\ x.users = r.members[c] /\ x.ended /\ (x.hides \/ x.modes = r.modes[c])
             => /\ On(r2, c, r2.nick) /\ UsersAfter(c, r.nick, x, line) = r2.members[c] /\ EndedAfter(c, x, line)
                /\ HidesAfter(c, x, line) \/ ModesAfter(c, x, line) = r2.modes[c]
                /\ HidesAfter(c, x, line) => x.hides /\ (ask => ask)
  BY <1>1, <1>4, <1>5
<1>7. Leads(c, r, part, ask, <<line>>, r2, part, ask)
  BY <1>1, <1>2, <1>4, <1>5, <1>6, LeadsTold
<1> QED BY <1>7 DEF line, r2

LEMMA LeadsWelcome ==
    ASSUME NEW r, Sound(r), r.nick = NoNick, NEW n \in ToSet(Nicks), n \notin InUse(r), NEW c \in Chans,
           NEW part \in BOOLEAN, NEW ask \in BOOLEAN
    PROVE  Leads(c, r, part, ask, Welcome(r, n), Called(r, n), part, ask)
<1> DEFINE line == <<"001", n>>
           r2 == Called(r, n)
           more == << <<"005", r.watch>>, <<"376">> >>
<1>1. r \in Servers /\ r2.nick = n /\ r2.modes[c] = r.modes[c] /\ r2.members[c] = RenamedIn(r.members[c], r.nick, n)
  BY CalledIs DEF Sound
<1>2. n # NoNick /\ ~On(r, c, n) /\ ~On(r, c, r.nick)
  BY <1>1, FreeNick, ServerFacts
<1>3. line[1] = "001" /\ line[2] = n
  OBVIOUS
<1>4. Welcome(r, n) = <<line>> \o more
  BY DEF Welcome
<1>5. Leads(c, r2, part, ask, more, r2, part, ask)
  <2> DEFINE S == {more[1], more[2]}
  <2>1. more \in Seq(S) /\ Len(more) = 2 /\ more[1][1] = "005" /\ more[2][1] = "376"
    OBVIOUS
  <2> HIDE DEF more, S
  <2>2. \A k \in 1..Len(more) : Neutral(c, more[k])
    BY <2>1, NeutralKinds
  <2> QED BY <2>1, <2>2, LeadsNeutrals
<1> HIDE DEF line, r2
<1>6. ~On(r2, c, n)
  BY <1>1, <1>2 DEF RenamedIn, On
<1>7. ASSUME NEW t, NEW j \in BOOLEAN, At(c, t, r, part, ask \/ j)
      PROVE  Follows(c, t, <<line>>, r2, part, ask \/ j)
  <2>1. ~t.view.shown /\ ~t.view.hides
    BY <1>7 DEF At, Match
  <2> DEFINE u == Step(c, t, line)
  <2>2. u.nick = n /\ u.view = Absent /\ ~Entered(c, t.nick, line)
    BY <1>3, <2>1 DEF Step, State, NickAfter, After, Entered
  <2> HIDE DEF u
  <2>3. ~u.view.shown /\ ~u.view.hides
    BY <2>2 DEF Absent
  <2>4. At(c, u, r2, part, (ask \/ j) \/ Entered(c, t.nick, line))
    BY <1>1, <1>2, <1>6, <2>2, <2>3 DEF At, Match
  <2> QED BY <2>1, <2>2, <2>4, FollowsOne DEF u
<1>8. \A t : \A j \in BOOLEAN : At(c, t, r, part, ask \/ j) => Follows(c, t, <<line>>, r2, part, ask \/ j)
  BY <1>7
<1>9. Leads(c, r, part, ask, <<line>>, r2, part, ask)
  BY <1>1, <1>2, <1>8 DEF Leads
<1> DEFINE one == <<line>>
           S == {line, more[1], more[2]}
<1>10. one \in Seq(S) /\ more \in Seq(S)
  OBVIOUS
<1>11. Leads(c, r, part, ask, one, r2, part, ask)
  BY <1>9
<1> HIDE DEF one, more, S
<1>12. Leads(c, r, part, ask, one \o more, r2, part, ask)
  BY <1>5, <1>10, <1>11, LeadsThen
<1> QED BY <1>4, <1>12 DEF r2, one

\* Nothing is said.
LEMMA LeadsQuiet ==
    ASSUME NEW r \in Servers, NEW r2 \in Servers, NEW c \in Chans, NEW part \in BOOLEAN, NEW ask \in BOOLEAN,
           r2.nick = r.nick, On(r2, c, r.nick) <=> On(r, c, r.nick),
           On(r, c, r.nick) => r2.members[c] = r.members[c], On(r, c, r.nick) => r2.modes[c] = r.modes[c]
    PROVE  Leads(c, r, part, ask, <<>>, r2, part, ask)
<1>1. part => part \/ ~On(r, c, r.nick)
  OBVIOUS
<1>2. ask => ask \/ ~On(r, c, r.nick)
  OBVIOUS
<1>3. On(r, c, r.nick) => On(r2, c, r.nick) /\ r2.members[c] = r.members[c] /\ r2.modes[c] = r.modes[c]
  OBVIOUS
<1>4. On(r2, c, r.nick) => On(r, c, r.nick)
  OBVIOUS
<1> QED BY <1>1, <1>2, <1>3, <1>4, LeadsSilent

\* A line of which the channel is shown as it was, but for its users or modes.
LEMMA LeadsHeard ==
    ASSUME NEW r \in Servers, NEW r2 \in Servers, NEW c \in Chans, NEW line, NEW part \in BOOLEAN, NEW ask \in BOOLEAN,
           r.nick # NoNick, r2.nick = r.nick, On(r2, c, r.nick) <=> On(r, c, r.nick),
           NickAfter(r.nick, line) = r.nick, ~Entered(c, r.nick, line), ~Gone(c, r.nick, line),
           \A x : EndedAfter(c, x, line) = x.ended, \A x : HidesAfter(c, x, line) = x.hides,
           \A x : On(r, c, r.nick) /\ x.users = r.members[c] => UsersAfter(c, r.nick, x, line) = r2.members[c],
           \A x : On(r, c, r.nick) /\ ~x.hides /\ x.modes = r.modes[c] => ModesAfter(c, x, line) = r2.modes[c]
    PROVE  Leads(c, r, part, ask, <<line>>, r2, part, ask)
<1>1. r2.nick = NickAfter(r.nick, line) /\ r2.nick # NoNick /\ (On(r2, c, r2.nick) => On(r, c, r.nick))
  OBVIOUS
<1>2. ASSUME NEW x, x.shown, On(r, c, r.nick), x.users = r.members[c], x.ended, x.hides \/ x.modes = r.modes[c]
      PROVE  /\ On(r2, c, r2.nick) /\ UsersAfter(c, r.nick, x, line) = r2.members[c] /\ EndedAfter(c, x, line)
             /\ HidesAfter(c, x, line) \/ ModesAfter(c, x, line) = r2.modes[c]
             /\ HidesAfter(c, x, line) => x.hides /\ (ask => ask)
  <2>1. On(r2, c, r2.nick) /\ UsersAfter(c, r.nick, x, line) = r2.members[c] /\ EndedAfter(c, x, line)
    BY <1>2
  <2>2. HidesAfter(c, x, line) \/ ModesAfter(c, x, line) = r2.modes[c]
    BY <1>2
  <2>3. HidesAfter(c, x, line) => x.hides
    OBVIOUS
  <2> QED BY <2>1, <2>2, <2>3
<1>3. \A x : x.shown /\ On(r, c, r.nick) /\ x.users = r.members[c] /\ x.ended /\ (x.hides \/ x.modes = r.modes[c])
             => /\ On(r2, c, r2.nick) /\ UsersAfter(c, r.nick, x, line) = r2.members[c] /\ EndedAfter(c, x, line)
                /\ HidesAfter(c, x, line) \/ ModesAfter(c, x, line) = r2.modes[c]
                /\ HidesAfter(c, x, line) => x.hides /\ (ask => ask)
  BY <1>2
<1> QED BY <1>1, <1>3, LeadsTold

\* The answer to the question for the modes.
LEMMA LeadsAnswered ==
    ASSUME NEW r \in Servers, r.nick # NoNick, NEW d \in Chans, NEW c \in Chans,
           NEW part \in BOOLEAN, NEW ask \in BOOLEAN, NEW ask2 \in BOOLEAN, ask => ask2 \/ d = c
    PROVE  Leads(c, r, part, ask, << <<"324", d, r.modes[d]>> >>, r, part, ask2)
<1> DEFINE line == <<"324", d, r.modes[d]>>
<1>1. line[1] = "324" /\ line[2] = d /\ line[3] = r.modes[d]
  OBVIOUS
<1> HIDE DEF line
<1>2. /\ NickAfter(r.nick, line) = r.nick /\ ~Entered(c, r.nick, line) /\ ~Gone(c, r.nick, line)
      /\ \A x : /\ UsersAfter(c, r.nick, x, line) = x.users /\ EndedAfter(c, x, line) = x.ended
                /\ HidesAfter(c, x, line) => x.hides /\ d # c
                /\ ModesAfter(c, x, line) = IF d = c THEN r.modes[d] ELSE x.modes
                /\ d # c => HidesAfter(c, x, line) = x.hides
  BY <1>1 DEF NickAfter, Entered, Gone, UsersAfter, EndedAfter, HidesAfter, ModesAfter
<1>3. \A x : x.shown /\ On(r, c, r.nick) /\ x.users = r.members[c] /\ x.ended /\ (x.hides \/ x.modes = r.modes[c])
             => /\ On(r, c, r.nick) /\ UsersAfter(c, r.nick, x, line) = r.members[c] /\ EndedAfter(c, x, line)
                /\ HidesAfter(c, x, line) \/ ModesAfter(c, x, line) = r.modes[c]
                /\ HidesAfter(c, x, line) => x.hides /\ (ask => ask2)
  BY <1>2
<1>4. Leads(c, r, part, ask, <<line>>, r, part, ask2)
  BY <1>2, <1>3, LeadsTold
<1> QED BY <1>4 DEF line

LEMMA LeadsModes ==
    ASSUME NEW r \in Servers, NEW r2 \in Servers, NEW d \in Chans, NEW sign \in {"+", "-"}, NEW m \in Modes, NEW c \in Chans,
           r2.nick = r.nick, r2.members[c] = r.members[c],
           d # c => r2.modes[c] = r.modes[c], d = c /\ sign = "+" => r2.modes[c] = r.modes[c] \union {m},
           d = c /\ sign # "+" => r2.modes[c] = r.modes[c] \ {m},
           NEW part \in BOOLEAN, NEW ask \in BOOLEAN
    PROVE  Leads(c, r, part, ask, Told(r, d, <<"MODE", d, sign, m>>), r2, part, ask)
<1> DEFINE line == <<"MODE", d, sign, m>>
<1>1. line[1] = "MODE" /\ line[2] = d /\ line[3] = sign /\ line[4] = m
  OBVIOUS
<1> HIDE DEF line
<1>3. CASE Told(r, d, line) = <<>>
  <2>1. ~On(r, d, r.nick)
    <3>1. r.nick = NoNick => ~On(r, d, r.nick)
      BY ServerFacts
    <3> QED BY <1>3, <3>1 DEF Told
  <2>2. On(r2, c, r.nick) <=> On(r, c, r.nick)
    BY DEF On
  <2>3. Leads(c, r, part, ask, <<>>, r2, part, ask)
    <3>1. On(r, c, r.nick) => r2.members[c] = r.members[c]
      BY <2>1, <2>2
    <3>2. On(r, c, r.nick) => r2.modes[c] = r.modes[c]
      BY <2>1, <2>2
    <3>3. On(r2, c, r.nick) <=> On(r, c, r.nick)
      BY <2>1, <2>2
    <3> QED BY <3>1, <3>2, <3>3, LeadsQuiet
  <2> QED BY <1>3, <2>3 DEF line
<1>4. CASE Told(r, d, line) = <<line>> /\ r.nick # NoNick
  <2>1. /\ NickAfter(r.nick, line) = r.nick /\ ~Entered(c, r.nick, line) /\ ~Gone(c, r.nick, line)
        /\ \A x : /\ UsersAfter(c, r.nick, x, line) = x.users /\ EndedAfter(c, x, line) = x.ended
                  /\ HidesAfter(c, x, line) = x.hides
                  /\ ~x.hides /\ x.modes = r.modes[c] => ModesAfter(c, x, line) = r2.modes[c]
    BY <1>1 DEF NickAfter, Entered, Gone, UsersAfter, EndedAfter, HidesAfter, ModesAfter
  <2>2. On(r2, c, r.nick) <=> On(r, c, r.nick)
    BY DEF On
  <2>3. Leads(c, r, part, ask, <<line>>, r2, part, ask)
    BY <1>4, <2>1, <2>2, LeadsHeard
  <2> QED BY <1>4, <2>3 DEF line
<1> QED BY <1>3, <1>4 DEF Told, line

LEMMA LeadsOp ==
    ASSUME NEW r \in Servers, NEW r2 \in Servers, NEW d \in Chans, NEW n \in People, NEW b \in BOOLEAN, NEW c \in Chans,
           On(r, d, n), r2.nick = r.nick, r2.modes[c] = r.modes[c],
           r2.members[c] = IF d = c THEN [r.members[c] EXCEPT ![n] = b] ELSE r.members[c], NEW part \in BOOLEAN, NEW ask \in BOOLEAN
    PROVE  Leads(c, r, part, ask, Told(r, d, <<"OP", d, n, b>>), r2, part, ask)
<1> DEFINE line == <<"OP", d, n, b>>
<1>1. line[1] = "OP" /\ line[2] = d /\ line[3] = n /\ line[4] = b
  OBVIOUS
<1> HIDE DEF line
<1>3. On(r2, c, r.nick) <=> On(r, c, r.nick)
  <2>1. d = c => r.members[c] \in Lists /\ n \in DOMAIN r.members[c]
    BY ServerFacts DEF On
  <2>2. d = c => DOMAIN r2.members[c] = DOMAIN r.members[c]
    BY <2>1, ListsMade
  <2> QED BY <2>2 DEF On
<1>4. CASE Told(r, d, line) = <<>>
  <2>1. ~On(r, d, r.nick)
    <3>1. r.nick = NoNick => ~On(r, d, r.nick)
      BY ServerFacts
    <3> QED BY <1>4, <3>1 DEF Told
  <2>2. Leads(c, r, part, ask, <<>>, r2, part, ask)
    <3>1. On(r, c, r.nick) => r2.members[c] = r.members[c]
      BY <1>3, <2>1
    <3>2. On(r, c, r.nick) => r2.modes[c] = r.modes[c]
      BY <1>3, <2>1
    <3>3. On(r2, c, r.nick) <=> On(r, c, r.nick)
      BY <1>3, <2>1
    <3> QED BY <3>1, <3>2, <3>3, LeadsQuiet
  <2> QED BY <1>4, <2>2 DEF line
<1>5. CASE Told(r, d, line) = <<line>> /\ r.nick # NoNick
  <2>1. /\ NickAfter(r.nick, line) = r.nick /\ ~Entered(c, r.nick, line) /\ ~Gone(c, r.nick, line)
        /\ \A x : /\ x.users = r.members[c] => UsersAfter(c, r.nick, x, line) = r2.members[c]
                  /\ EndedAfter(c, x, line) = x.ended
                  /\ HidesAfter(c, x, line) = x.hides /\ ModesAfter(c, x, line) = x.modes
    <3>1. d = c => n \in DOMAIN r.members[c]
      BY DEF On
    <3> QED BY <1>1, <3>1 DEF NickAfter, Entered, Gone, UsersAfter, EndedAfter, HidesAfter, ModesAfter
  <2>3. Leads(c, r, part, ask, <<line>>, r2, part, ask)
    BY <1>3, <1>5, <2>1, LeadsHeard
  <2> QED BY <1>5, <2>3 DEF line
<1> QED BY <1>4, <1>5 DEF Told, line

LEMMA LeadsVisit ==
    ASSUME NEW r \in Servers, NEW r2 \in Servers, NEW d \in Chans, NEW c \in Chans, ~On(r, d, Friend), r2.nick = r.nick,
           r2.modes[c] = r.modes[c],
           NEW op \in BOOLEAN, r.members[d] # <<>> => ~op,
           r2.members[c] = IF d = c THEN With(r.members[c], Friend, op) ELSE r.members[c],
           NEW part \in BOOLEAN, NEW ask \in BOOLEAN
    PROVE  Leads(c, r, part, ask, Told(r, d, <<"JOIN", Friend, d>>), r2, part, ask)
<1> DEFINE line == <<"JOIN", Friend, d>>
<1>1. line[1] = "JOIN" /\ line[2] = Friend /\ line[3] = d
  OBVIOUS
<1> HIDE DEF line
<1>3. Friend # r.nick
  BY NamesAssumption DEF Servers
<1>4. On(r2, c, r.nick) <=> On(r, c, r.nick)
  <2>1. d = c => DOMAIN r2.members[c] = DOMAIN r.members[c] \union {Friend}
    BY DEF With
  <2> QED BY <1>3, <2>1 DEF On
<1>5. CASE Told(r, d, line) = <<>>
  <2>1. ~On(r, d, r.nick)
    <3>1. r.nick = NoNick => ~On(r, d, r.nick)
      BY ServerFacts
    <3> QED BY <1>5, <3>1 DEF Told
  <2>2. Leads(c, r, part, ask, <<>>, r2, part, ask)
    <3>1. On(r, c, r.nick) => r2.members[c] = r.members[c]
      BY <1>4, <2>1
    <3>2. On(r, c, r.nick) => r2.modes[c] = r.modes[c]
      BY <1>4, <2>1
    <3>3. On(r2, c, r.nick) <=> On(r, c, r.nick)
      BY <1>4, <2>1
    <3> QED BY <3>1, <3>2, <3>3, LeadsQuiet
  <2> QED BY <1>5, <2>2 DEF line
<1>6. CASE Told(r, d, line) = <<line>> /\ r.nick # NoNick
  <2>1. /\ NickAfter(r.nick, line) = r.nick /\ ~Entered(c, r.nick, line) /\ ~Gone(c, r.nick, line)
        /\ \A x : /\ UsersAfter(c, r.nick, x, line) = IF d = c THEN With(x.users, Friend, FALSE) ELSE x.users
                  /\ EndedAfter(c, x, line) = x.ended
                  /\ HidesAfter(c, x, line) = x.hides /\ ModesAfter(c, x, line) = x.modes
    BY <1>1, <1>3 DEF NickAfter, Entered, Gone, UsersAfter, EndedAfter, HidesAfter, ModesAfter
  <2>2. d = c /\ On(r, c, r.nick) => r2.members[c] = With(r.members[c], Friend, FALSE)
    <3>1. DOMAIN <<>> = {}
      OBVIOUS
    <3>2. On(r, c, r.nick) => r.members[c] # <<>>
      BY <3>1 DEF On
    <3>3. d = c /\ On(r, c, r.nick) => op = FALSE
      BY <3>2
    <3> QED BY <3>3
  <2>3. \A x : On(r, c, r.nick) /\ x.users = r.members[c] => UsersAfter(c, r.nick, x, line) = r2.members[c]
    BY <2>1, <2>2
  <2>4. Leads(c, r, part, ask, <<line>>, r2, part, ask)
    BY <1>4, <1>6, <2>1, <2>3, LeadsHeard
  <2> QED BY <1>6, <2>4 DEF line
<1> QED BY <1>5, <1>6 DEF Told, line

LEMMA LeadsGone ==
    ASSUME NEW r \in Servers, NEW r2 \in Servers, NEW n, n # r.nick, NEW c \in Chans, r2.nick = r.nick,
           r2.members[c] = Without(r.members[c], n),
           r2.modes[c] = IF DOMAIN r.members[c] = {n} THEN {} ELSE r.modes[c],
           NEW part \in BOOLEAN, NEW ask \in BOOLEAN
    PROVE  Leads(c, r, part, ask, IF CommonWith(r, n) THEN << <<"QUIT", n>> >> ELSE <<>>, r2, part, ask)
<1> DEFINE line == <<"QUIT", n>>
<1>1. line[1] = "QUIT" /\ line[2] = n
  OBVIOUS
<1> HIDE DEF line
<1>2. DOMAIN r2.members[c] = DOMAIN r.members[c] \ {n} /\ r.members[c] \in Lists
  <2>1. r.members[c] \in Lists
    BY ServerFacts
  <2>2. DOMAIN Without(r.members[c], n) = DOMAIN r.members[c] \ {n}
    BY <2>1, ListsMade
  <2> QED BY <2>1, <2>2
<1>3. On(r2, c, r.nick) <=> On(r, c, r.nick)
  BY <1>2 DEF On
<1>4. On(r, c, r.nick) => r2.modes[c] = r.modes[c]
  BY DEF On
<1>5. CASE ~CommonWith(r, n)
  <2>1. On(r, c, r.nick) => r2.members[c] = r.members[c]
    <3>1. On(r, c, r.nick) => n \notin DOMAIN r.members[c]
      BY <1>5 DEF CommonWith, On
    <3>2. r.members[c] = [x \in DOMAIN r.members[c] |-> r.members[c][x]]
      BY <1>2, ListIs
    <3>3. Without(r.members[c], n) = [x \in DOMAIN r.members[c] \ {n} |-> r.members[c][x]]
      BY DEF Without, Restrict
    <3>4. n \notin DOMAIN r.members[c] => DOMAIN r.members[c] \ {n} = DOMAIN r.members[c]
      OBVIOUS
    <3> QED BY <3>1, <3>2, <3>3, <3>4
  <2>2. Leads(c, r, part, ask, <<>>, r2, part, ask)
    BY <1>3, <1>4, <2>1, LeadsQuiet
  <2> QED BY <1>5, <2>2
<1>6. CASE CommonWith(r, n)
  <2>1. r.nick # NoNick
    BY <1>6, ServerFacts DEF CommonWith
  <2>2. /\ NickAfter(r.nick, line) = r.nick /\ ~Entered(c, r.nick, line) /\ ~Gone(c, r.nick, line)
        /\ \A x : /\ UsersAfter(c, r.nick, x, line) = Without(x.users, n) /\ EndedAfter(c, x, line) = x.ended
                  /\ HidesAfter(c, x, line) = x.hides /\ ModesAfter(c, x, line) = x.modes
    BY <1>1 DEF NickAfter, Entered, Gone, UsersAfter, EndedAfter, HidesAfter, ModesAfter
  <2>4. Leads(c, r, part, ask, <<line>>, r2, part, ask)
    BY <1>3, <1>4, <2>1, <2>2, LeadsHeard
  <2> QED BY <1>6, <2>4 DEF line
<1> QED BY <1>5, <1>6

-----------------------------------------------------------------------------
(* The names of the users of a channel.                                    *)
LEMMA PeopleFinite ==
    ASSUME NEW f \in Lists
    PROVE  IsFiniteSet(DOMAIN f)
<1>1. ToSet(Nicks) = {Nicks[1], Nicks[2], Nicks[3]}
  <2>1. ToSet(Nicks) = {Nicks[i] : i \in DOMAIN Nicks}
    BY DEF ToSet
  <2>2. DOMAIN Nicks = {1, 2, 3}
    BY NicksAssumption
  <2> QED BY <2>1, <2>2
<1>2. People = (({} \union {Nicks[1]}) \union {Nicks[2]}) \union {Nicks[3]} \union {Friend}
  BY <1>1 DEF People
<1>3. IsFiniteSet({})
  BY FS_EmptySet
<1>4. IsFiniteSet(People)
  BY <1>2, <1>3, FS_AddElement
<1>5. DOMAIN f \subseteq People
  BY ListIs
<1> QED BY <1>4, <1>5, FS_Subset

LEMMA ListedAre ==
    ASSUME NEW T, IsFiniteSet(T)
    PROVE  /\ Cardinality(T) \in Nat
           /\ \A i \in 1..Cardinality(T) : SetToSeq(T)[i] \in T
           /\ \A x \in T : \E i \in 1..Cardinality(T) : SetToSeq(T)[i] = x
<1> DEFINE n == Cardinality(T)
<1>1. n \in Nat /\ ExistsBijection(1..n, T)
  BY FS_CardinalityType
<1>2. SetToSeq(T) = CHOOSE f \in [1..n -> T] : IsInjective(f)
  BY DEF SetToSeq
<1>3. \E f \in [1..n -> T] : IsInjective(f)
  <2>1. PICK f \in Bijection(1..n, T) : TRUE
    BY <1>1 DEF ExistsBijection
  <2>2. f \in [1..n -> T] /\ \A a, b \in 1..n : f[a] = f[b] => a = b
    BY <2>1 DEF Bijection, Injection, IsInjective
  <2>3. IsInjective(f)
    BY <2>2 DEF IsInjective
  <2> QED BY <2>2, <2>3
<1> DEFINE s == SetToSeq(T)
<1> HIDE DEF n
<1>4. s \in [1..n -> T] /\ IsInjective(s)
  BY <1>2, <1>3
<1> HIDE DEF s
<1>5. s \in Injection(1..n, T)
  BY <1>4 DEF Injection
<1>6. IsFiniteSet(1..n) /\ Cardinality(1..n) = n
  BY <1>1, FS_Interval
<1>7. s \in Surjection(1..n, T)
  <2>1. Cardinality(1..n) = Cardinality(T)
    BY <1>6 DEF n
  <2> QED BY <1>5, <2>1, FS_Injection
<1>8. \A x \in T : \E i \in 1..n : s[i] = x
  BY <1>7 DEF Surjection
<1> QED BY <1>1, <1>4, <1>8 DEF n, s

LEMMA RepliesAre ==
    ASSUME NEW c \in Chans, NEW p \in People, NEW b \in BOOLEAN
    PROVE  <<"353", c, p, b>> \in Replies /\ <<"366", c>> \in Replies
BY DEF Replies

LEMMA NamesAre ==
    ASSUME NEW r \in Servers, NEW c \in Chans
    PROVE  \E m \in Nat : \E s \in [1..m -> DOMAIN r.members[c]] :
               /\ \A x \in DOMAIN r.members[c] : \E i \in 1..m : s[i] = x
               /\ NamesOf(r, c) \in Seq(Replies) /\ Len(NamesOf(r, c)) = m + 1
               /\ \A i \in 1..m : NamesOf(r, c)[i] = <<"353", c, s[i], r.members[c][s[i]]>>
               /\ NamesOf(r, c)[m + 1] = <<"366", c>>
<1> DEFINE here == r.members[c]
           T == DOMAIN here
           m == Cardinality(T)
           s == [i \in 1..m |-> SetToSeq(T)[i]]
           p == [i \in 1..m |-> <<"353", c, s[i], here[s[i]]>>]
           q == << <<"366", c>> >>
<1>1. here \in Lists
  BY ServerFacts
<1>2. T \subseteq People /\ (\A x \in T : here[x] \in BOOLEAN) /\ IsFiniteSet(T)
  BY <1>1, ListIs, PeopleFinite
<1>3. m \in Nat /\ (\A i \in 1..m : SetToSeq(T)[i] \in T) /\ \A x \in T : \E i \in 1..m : SetToSeq(T)[i] = x
  BY <1>2, ListedAre
<1>4. NamesOf(r, c) = p \o q
  <2>1. p = [i \in 1..m |-> LET n == SetToSeq(T)[i] IN <<"353", c, n, here[n]>>]
    OBVIOUS
  <2> QED BY <2>1 DEF NamesOf
<1> HIDE DEF m, T, here
<1>5. s \in [1..m -> T] /\ \A x \in T : \E i \in 1..m : s[i] = x
  BY <1>3
<1> HIDE DEF s
<1>6. \A i \in 1..m : <<"353", c, s[i], here[s[i]]>> \in Replies
  BY <1>2, <1>5, RepliesAre
<1>7. <<"366", c>> \in Replies
  BY DEF Replies
<1>8. p \in Seq(Replies) /\ Len(p) = m /\ \A i \in 1..m : p[i] = <<"353", c, s[i], here[s[i]]>>
  BY <1>3, <1>6
<1>9. q \in Seq(Replies) /\ Len(q) = 1 /\ q[1] = <<"366", c>>
  BY <1>7
<1> HIDE DEF p, q
<1>10. /\ p \o q \in Seq(Replies) /\ Len(p \o q) = m + 1 /\ (p \o q)[m + 1] = q[1]
       /\ \A i \in 1..m : (p \o q)[i] = p[i]
  <2>1. p \in Seq(Replies)
    BY <1>8
  <2>2. q \in Seq(Replies)
    BY <1>9
  <2>3. p \o q \in Seq(Replies)
    BY <2>1, <2>2
  <2>4. Len(p \o q) = Len(p) + Len(q)
    BY <2>1, <2>2
  <2>5. \A i \in 1..Len(p) : (p \o q)[i] = p[i]
    BY <2>1, <2>2
  <2>6. \A j \in 1..Len(q) : (p \o q)[Len(p) + j] = q[j]
    BY <2>1, <2>2
  <2>7. Len(p) = m /\ Len(q) = 1 /\ 1 \in 1..1
    BY <1>8, <1>9
  <2> DEFINE l == p \o q
  <2> HIDE DEF l
  <2>8. l[m + 1] = q[1]
    BY <2>6, <2>7 DEF l
  <2>9. Len(l) = m + 1
    BY <2>4, <2>7 DEF l
  <2>10. \A i \in 1..m : l[i] = p[i]
    BY <2>5, <2>7 DEF l
  <2> QED BY <2>3, <2>8, <2>9, <2>10 DEF l
<1>11. /\ NamesOf(r, c) \in Seq(Replies) /\ Len(NamesOf(r, c)) = m + 1
       /\ \A i \in 1..m : NamesOf(r, c)[i] = <<"353", c, s[i], here[s[i]]>>
       /\ NamesOf(r, c)[m + 1] = <<"366", c>>
  BY <1>4, <1>8, <1>9, <1>10
<1> QED BY <1>3, <1>5, <1>11 DEF T, here

\* The names are those of the users, the list being empty at first or its end read.
LEMMA NamesRead ==
    ASSUME NEW r \in Servers, NEW c \in Chans, NEW u, u.view.shown,
           u.view.users = <<>> \/ u.view.ended, DOMAIN r.members[c] # {}
    PROVE  \E w : /\ Walk(w, c, u, NamesOf(r, c))
                  /\ w[Len(NamesOf(r, c))].nick = u.nick
                  /\ w[Len(NamesOf(r, c))].view = Seen(r.members[c], TRUE, u.view.hides, u.view.modes)
                  /\ \A k \in 1..Len(NamesOf(r, c)) : ~Entered(c, w[k - 1].nick, NamesOf(r, c)[k])
<1> DEFINE here == r.members[c]
           q == NamesOf(r, c)
<1>17. PICK m \in Nat : \E s \in [1..m -> DOMAIN here] :
               /\ \A x \in DOMAIN here : \E i \in 1..m : s[i] = x
               /\ Len(q) = m + 1
               /\ \A i \in 1..m : q[i] = <<"353", c, s[i], here[s[i]]>>
               /\ q[m + 1] = <<"366", c>>
  BY NamesAre
<1>1. PICK s \in [1..m -> DOMAIN here] :
               /\ \A x \in DOMAIN here : \E i \in 1..m : s[i] = x
               /\ Len(q) = m + 1
               /\ \A i \in 1..m : q[i] = <<"353", c, s[i], here[s[i]]>>
               /\ q[m + 1] = <<"366", c>>
  BY <1>17
<1>2. here = [x \in DOMAIN here |-> here[x]]
  <2>1. here \in Lists
    BY ServerFacts
  <2> QED BY <2>1, ListIs
<1>3. m # 0
  <2>1. 1..0 = {}
    OBVIOUS
  <2> QED BY <1>1, <2>1
<1> HIDE DEF here, q
<1> DEFINE P(k) == [x \in {s[i] : i \in 1..k} |-> here[x]]
           Read(k) == State(u.nick, Seen(P(k), FALSE, u.view.hides, u.view.modes))
           last == State(u.nick, Seen(here, TRUE, u.view.hides, u.view.modes))
           w == [k \in 0..m + 1 |-> IF k = 0 THEN u ELSE IF k <= m THEN Read(k) ELSE last]
<1>4. w[0] = u /\ (\A k \in 1..m : w[k] = Read(k)) /\ w[m + 1] = last
  <2>1. 0 \in 0..m + 1 /\ m + 1 \in 0..m + 1 /\ m + 1 # 0 /\ ~(m + 1 <= m)
    BY <1>1
  <2>2. \A k \in 1..m : k \in 0..m + 1 /\ k # 0 /\ k <= m
    BY <1>1
  <2> HIDE DEF Read, last
  <2> QED BY <2>1, <2>2
<1> HIDE DEF w
<1>5. P(m) = here
  <2>1. {s[i] : i \in 1..m} = DOMAIN here
    BY <1>1
  <2> QED BY <1>2, <2>1
<1>6. With(<<>>, s[1], here[s[1]]) = P(1)
  <2>1. DOMAIN <<>> \union {s[1]} = {s[i] : i \in 1..1}
    OBVIOUS
  <2>2. With(<<>>, s[1], here[s[1]]) = [x \in {s[i] : i \in 1..1} |-> IF x \in DOMAIN <<>> THEN <<>>[x] ELSE here[s[1]]]
    BY <2>1 DEF With
  <2>3. \A x \in {s[i] : i \in 1..1} : x = s[1] /\ x \notin DOMAIN <<>>
    OBVIOUS
  <2> QED BY <2>2, <2>3
<1>7. ASSUME NEW k \in 2..m PROVE With(P(k - 1), s[k], here[s[k]]) = P(k)
  <2>1. {s[i] : i \in 1..k - 1} \union {s[k]} = {s[i] : i \in 1..k}
    <3>1. 1..k = (1..k - 1) \union {k}
      OBVIOUS
    <3> QED BY <3>1
  <2>2. DOMAIN P(k - 1) = {s[i] : i \in 1..k - 1}
    OBVIOUS
  <2>3. With(P(k - 1), s[k], here[s[k]])
           = [x \in {s[i] : i \in 1..k} |-> IF x \in {s[i] : i \in 1..k - 1} THEN P(k - 1)[x] ELSE here[s[k]]]
    BY <2>1, <2>2 DEF With
  <2>4. \A x \in {s[i] : i \in 1..k} : (IF x \in {s[i] : i \in 1..k - 1} THEN P(k - 1)[x] ELSE here[s[k]]) = here[x]
    <3> TAKE x \in {s[i] : i \in 1..k}
    <3>1. CASE x \in {s[i] : i \in 1..k - 1}
      BY <3>1
    <3>2. CASE x \notin {s[i] : i \in 1..k - 1}
      BY <2>1, <3>2
    <3> QED BY <3>1, <3>2
  <2> QED BY <2>3, <2>4
<1> HIDE DEF P
<1>8. ASSUME NEW n, NEW x, NEW k \in 1..m, x.shown, NEW base, base = IF x.ended THEN <<>> ELSE x.users
      PROVE  /\ NickAfter(n, q[k]) = n /\ ~Entered(c, n, q[k])
             /\ After(c, n, x, q[k])
                   = Seen(With(base, s[k], here[s[k]]), FALSE, x.hides, x.modes)
  <2> DEFINE line == q[k]
  <2>1. line[1] = "353" /\ line[2] = c /\ line[3] = s[k] /\ line[4] = here[s[k]]
    BY <1>1
  <2> HIDE DEF line
  <2>2. NickAfter(n, line) = n /\ ~Entered(c, n, line) /\ ~Gone(c, n, line)
    BY <2>1 DEF NickAfter, Entered, Gone
  <2>3. /\ UsersAfter(c, n, x, line) = With(base, s[k], here[s[k]])
        /\ EndedAfter(c, x, line) = FALSE /\ HidesAfter(c, x, line) = x.hides /\ ModesAfter(c, x, line) = x.modes
    BY <1>8, <2>1 DEF UsersAfter, EndedAfter, HidesAfter, ModesAfter
  <2> QED BY <1>8, <2>2, <2>3 DEF After, line
<1>9. ASSUME NEW n, NEW x, x.shown
      PROVE  /\ NickAfter(n, q[m + 1]) = n /\ ~Entered(c, n, q[m + 1])
             /\ After(c, n, x, q[m + 1]) = Seen(x.users, TRUE, x.hides, x.modes)
  <2> DEFINE line == q[m + 1]
  <2>1. line[1] = "366" /\ line[2] = c
    BY <1>1
  <2> HIDE DEF line
  <2>2. NickAfter(n, line) = n /\ ~Entered(c, n, line) /\ ~Gone(c, n, line)
    BY <2>1 DEF NickAfter, Entered, Gone
  <2>3. /\ UsersAfter(c, n, x, line) = x.users
        /\ EndedAfter(c, x, line) = TRUE /\ HidesAfter(c, x, line) = x.hides /\ ModesAfter(c, x, line) = x.modes
    BY <2>1 DEF UsersAfter, EndedAfter, HidesAfter, ModesAfter
  <2> QED BY <1>9, <2>2, <2>3 DEF After, line
<1>10. \A k \in 1..m : /\ Read(k).nick = u.nick /\ Read(k).view.shown /\ Read(k).view.users = P(k) /\ ~Read(k).view.ended
                       /\ Read(k).view.hides = u.view.hides /\ Read(k).view.modes = u.view.modes
  BY DEF State, Seen
<1>11. ASSUME NEW k \in 1..m PROVE w[k] = Step(c, w[k - 1], q[k]) /\ ~Entered(c, w[k - 1].nick, q[k])
  <2>1. CASE k = 1
    <3>1. w[k - 1] = u /\ w[k] = Read(1)
      <4>1. k - 1 = 0
        BY <2>1
      <4>2. w[k] = Read(k)
        BY <1>4
      <4> HIDE DEF Read
      <4> QED BY <1>4, <2>1, <4>1, <4>2
    <3>2. After(c, u.nick, u.view, q[k]) = Seen(With(<<>>, s[1], here[s[1]]), FALSE, u.view.hides, u.view.modes)
      <4>1. <<>> = IF u.view.ended THEN <<>> ELSE u.view.users
        OBVIOUS
      <4> QED BY <1>8, <2>1, <4>1
    <3>3. NickAfter(u.nick, q[k]) = u.nick /\ ~Entered(c, u.nick, q[k])
      BY <1>8
    <3> QED BY <1>6, <3>1, <3>2, <3>3 DEF Step
  <2>2. CASE k # 1
    <3>1. k \in 2..m /\ k - 1 \in 1..m
      BY <2>2
    <3>2. w[k - 1] = Read(k - 1) /\ w[k] = Read(k)
      BY <1>4, <3>1
    <3> DEFINE x == w[k - 1]
    <3>3. x.nick = u.nick /\ x.view.shown /\ x.view.users = P(k - 1) /\ ~x.view.ended /\ x.view.hides = u.view.hides /\ x.view.modes = u.view.modes
      BY <1>10, <3>1, <3>2, ZenonT(30)
    <3> HIDE DEF x
    <3>4. After(c, x.nick, x.view, q[k]) = Seen(With(P(k - 1), s[k], here[s[k]]), FALSE, u.view.hides, u.view.modes)
      <4>1. P(k - 1) = IF x.view.ended THEN <<>> ELSE x.view.users
        BY <3>3
      <4>2. x.view.shown /\ x.view.hides = u.view.hides /\ x.view.modes = u.view.modes
        BY <3>3
      <4>3. After(c, x.nick, x.view, q[k]) = Seen(With(P(k - 1), s[k], here[s[k]]), FALSE, x.view.hides, x.view.modes)
        <5> DEFINE b == P(k - 1)
        <5>1. b = IF x.view.ended THEN <<>> ELSE x.view.users
          BY <4>1
        <5> HIDE DEF b
        <5> DEFINE y == x.view
        <5>3. y.shown /\ b = IF y.ended THEN <<>> ELSE y.users
          BY <4>2, <5>1
        <5> HIDE DEF y
        <5>4. After(c, x.nick, y, q[k]) = Seen(With(b, s[k], here[s[k]]), FALSE, y.hides, y.modes)
          BY <1>8, <5>3
        <5>2. After(c, x.nick, x.view, q[k]) = Seen(With(b, s[k], here[s[k]]), FALSE, x.view.hides, x.view.modes)
          BY <5>4 DEF y
        <5> QED BY <5>2 DEF b
      <4> QED BY <4>2, <4>3
    <3>5. NickAfter(x.nick, q[k]) = x.nick /\ ~Entered(c, x.nick, q[k])
      BY <1>8, <3>3
    <3>6. Step(c, x, q[k]) = Read(k)
      BY <1>7, <3>1, <3>3, <3>4, <3>5 DEF Step
    <3> QED BY <3>2, <3>5, <3>6 DEF x
  <2> QED BY <2>1, <2>2
<1>12. w[m + 1] = Step(c, w[m], q[m + 1]) /\ ~Entered(c, w[m].nick, q[m + 1])
  <2>1. m \in 1..m
    BY <1>1, <1>3
  <2> DEFINE x == w[m]
  <2>2. x.nick = u.nick /\ x.view.shown /\ x.view.users = P(m) /\ x.view.hides = u.view.hides /\ x.view.modes = u.view.modes
    BY <1>4, <1>10, <2>1, ZenonT(30)
  <2> HIDE DEF x
  <2>3. After(c, x.nick, x.view, q[m + 1]) = Seen(here, TRUE, u.view.hides, u.view.modes)
    BY <1>5, <1>9, <2>2
  <2>4. NickAfter(x.nick, q[m + 1]) = x.nick /\ ~Entered(c, x.nick, q[m + 1])
    BY <1>9, <2>2
  <2> QED BY <1>4, <2>2, <2>3, <2>4 DEF Step, x
<1> HIDE DEF Read
<1>13. \A k \in 1..m + 1 : w[k] = Step(c, w[k - 1], q[k]) /\ ~Entered(c, w[k - 1].nick, q[k])
  <2> TAKE k \in 1..m + 1
  <2>1. CASE k \in 1..m
    BY <1>11, <2>1
  <2>2. CASE k \notin 1..m
    <3>1. k = m + 1 /\ k - 1 = m
      BY <1>1, <2>2
    <3> QED BY <1>12, <3>1
  <2> QED BY <2>1, <2>2
<1>14. Walk(w, c, u, q)
  BY <1>1, <1>4, <1>13 DEF Walk
<1>15. w[Len(q)].nick = u.nick /\ w[Len(q)].view = Seen(here, TRUE, u.view.hides, u.view.modes)
  BY <1>1, <1>4 DEF State
<1>16. \A k \in 1..Len(q) : ~Entered(c, w[k - 1].nick, q[k])
  BY <1>1, <1>13
<1> QED BY <1>14, <1>15, <1>16 DEF q, here

\* The names of a channel that is not shown.
LEMMA FollowsUnshown ==
    ASSUME NEW S, NEW q \in Seq(S), \A k \in 1..Len(q) : q[k][1] \in {"353", "366"}, NEW c, NEW t, NEW r,
           NEW part \in BOOLEAN, NEW ask \in BOOLEAN, At(c, t, r, part, ask), ~t.view.shown
    PROVE  Follows(c, t, q, r, part, ask)
<1> DEFINE m == Len(q)
           u == State(t.nick, Absent)
           v == [i \in 0..m |-> IF i = 0 THEN t ELSE u]
<1>1. m \in Nat
  OBVIOUS
<1>2. u.nick = t.nick /\ u.view = Absent /\ ~Absent.shown /\ ~Absent.hides
  BY DEF State, Absent
<1>3. \A k \in 1..m : q[k][1] \in {"353", "366"}
  OBVIOUS
<1> HIDE DEF m
<1>4. v[0] = t /\ (\A i \in 1..m : v[i] = u) /\ (\A i \in 0..m : v[i] = t \/ v[i] = u)
  BY <1>1
<1> HIDE DEF u, v
<1>5. ASSUME NEW k \in 1..m PROVE v[k] = Step(c, v[k - 1], q[k]) /\ ~Entered(c, v[k - 1].nick, q[k])
  <2> DEFINE s == v[k - 1]
  <2>1. k - 1 \in 0..m
    BY <1>1
  <2>2. s.nick = t.nick /\ ~s.view.shown
    BY <1>2, <1>4, <2>1
  <2> HIDE DEF s
  <2>3. NickAfter(s.nick, q[k]) = s.nick /\ ~Entered(c, s.nick, q[k])
    BY <1>3 DEF NickAfter, Entered
  <2>4. After(c, s.nick, s.view, q[k]) = Absent
    BY <2>2, <2>3 DEF After
  <2>5. Step(c, s, q[k]) = u
    BY <2>2, <2>3, <2>4 DEF Step, u
  <2> QED BY <1>4, <2>3, <2>5 DEF s
<1>6. Walk(v, c, t, q)
  BY <1>4, <1>5 DEF Walk, m
<1>7. At(c, v[m], r, part, ask)
  <2>1. v[m].nick = t.nick /\ ~v[m].view.shown /\ (v[m].view.hides => t.view.hides)
    BY <1>1, <1>2, <1>4
  <2> QED BY <2>1 DEF At, Match
<1>8. \A i \in 0..m : ~v[i].view.shown
  BY <1>2, <1>4
<1> QED BY <1>5, <1>6, <1>7, <1>8 DEF Follows, At, m

LEMMA NamesKinds ==
    ASSUME NEW r \in Servers, NEW c \in Chans
    PROVE  /\ NamesOf(r, c) \in Seq(Replies)
           /\ \A k \in 1..Len(NamesOf(r, c)) : NamesOf(r, c)[k][1] \in {"353", "366"} /\ NamesOf(r, c)[k][2] = c
<1> DEFINE q == NamesOf(r, c)
<1>1. PICK m \in Nat : \E s \in [1..m -> DOMAIN r.members[c]] :
               /\ q \in Seq(Replies) /\ Len(q) = m + 1
               /\ \A i \in 1..m : q[i] = <<"353", c, s[i], r.members[c][s[i]]>>
               /\ q[m + 1] = <<"366", c>>
  BY NamesAre
<1> HIDE DEF q
<1>2. ASSUME NEW k \in 1..Len(q) PROVE q[k][1] \in {"353", "366"} /\ q[k][2] = c
  <2>1. k \in 1..m \/ k = m + 1
    BY <1>1
  <2> QED BY <1>1, <2>1
<1> QED BY <1>1, <1>2 DEF q

LEMMA LeadsNames ==
    ASSUME NEW r \in Servers, r.nick # NoNick, NEW d \in Chans, NEW c \in Chans, NEW part \in BOOLEAN, NEW ask \in BOOLEAN
    PROVE  Leads(c, r, part, ask, NamesOf(r, d), r, part, ask)
<1> DEFINE q == NamesOf(r, d)
<1>1. q \in Seq(Replies) /\ \A k \in 1..Len(q) : q[k][1] \in {"353", "366"} /\ q[k][2] = d
  BY NamesKinds
<1> HIDE DEF q
<1>2. CASE c # d
  <2>1. \A k \in 1..Len(q) : Neutral(c, q[k])
    BY <1>1, <1>2, NeutralKinds
  <2>2. Leads(c, r, part, ask, q, r, part, ask)
    BY <1>1, <2>1, LeadsNeutrals
  <2> QED BY <2>2 DEF q
<1>3. CASE c = d
  <2>1. ASSUME NEW t, NEW j \in BOOLEAN, At(c, t, r, part, ask \/ j)
        PROVE  Follows(c, t, q, r, part, ask \/ j)
    <3> DEFINE b == ask \/ j
    <3>1. b \in BOOLEAN /\ At(c, t, r, part, b)
      BY <2>1
    <3> HIDE DEF b
    <3>2. CASE ~t.view.shown
      <4>1. Follows(c, t, q, r, part, b)
        BY <1>1, <3>1, <3>2, FollowsUnshown
      <4> QED BY <4>1 DEF b
    <3>3. CASE t.view.shown
      <4>1. /\ t.nick = r.nick /\ On(r, c, r.nick) /\ t.view.users = r.members[c] /\ t.view.ended
            /\ t.view.hides \/ t.view.modes = r.modes[c]
            /\ t.view.hides => b
        BY <3>1, <3>3 DEF At, Match
      <4>2. DOMAIN r.members[c] # {}
        BY <4>1 DEF On
      <4>3. PICK w : /\ Walk(w, c, t, q)
                     /\ w[Len(q)].nick = t.nick
                     /\ w[Len(q)].view = Seen(r.members[c], TRUE, t.view.hides, t.view.modes)
                     /\ \A k \in 1..Len(q) : ~Entered(c, w[k - 1].nick, q[k])
        BY <1>3, <3>3, <4>1, <4>2, NamesRead DEF q
      <4> DEFINE u == w[Len(q)]
      <4>4. /\ u.view.shown /\ u.view.users = r.members[c] /\ u.view.ended /\ u.view.hides = t.view.hides
            /\ u.view.modes = t.view.modes /\ u.nick = t.nick
        BY <4>3 DEF Seen
      <4>5. Walk(w, c, t, q) /\ \A k \in 1..Len(q) : ~Entered(c, w[k - 1].nick, q[k])
        BY <4>3
      <4> HIDE DEF u
      <4>6. Match(r, c, u)
        BY <4>1, <4>4 DEF Match
      <4>7. Follows(c, t, q, r, part, b)
        BY <4>1, <4>4, <4>5, <4>6 DEF Follows, u
      <4> QED BY <4>7 DEF b
    <3> QED BY <3>2, <3>3
  <2>2. \A t : \A j \in BOOLEAN : At(c, t, r, part, ask \/ j) => Follows(c, t, q, r, part, ask \/ j)
    BY <2>1
  <2>3. Leads(c, r, part, ask, q, r, part, ask)
    BY <2>2 DEF Leads
  <2> QED BY <2>3 DEF q
<1> QED BY <1>2, <1>3

LEMMA LeadsJoined ==
    ASSUME NEW r \in Servers, r.nick # NoNick, NEW d \in Chans, ~On(r, d, r.nick), NEW c \in Chans,
           NEW part \in BOOLEAN, NEW ask \in BOOLEAN
    PROVE  Leads(c, r, part, ask, << <<"JOIN", r.nick, d>> >> \o NamesOf(Joined(r, d), d), Joined(r, d), part, ask)
<1> DEFINE line == <<"JOIN", r.nick, d>>
           one == <<line>>
           r2 == Joined(r, d)
           q == NamesOf(r2, d)
<1>1. r2 \in Servers /\ r2.nick = r.nick /\ On(r2, d, r.nick) /\ r2.modes[c] = r.modes[c] /\ (d # c => r2.members[c] = r.members[c])
  BY JoinedIs
<1>2. q \in Seq(Replies) /\ \A k \in 1..Len(q) : q[k][1] \in {"353", "366"} /\ q[k][2] = d
  BY <1>1, NamesKinds
<1>3. line \in Replies /\ line[1] = "JOIN" /\ line[2] = r.nick /\ line[3] = d
  <2>1. r.nick \in People
    BY ServerFacts
  <2> QED BY <2>1 DEF Replies
<1>4. one \in Seq(Replies) /\ Len(one) = 1 /\ one[1] = line
  BY <1>3
<1> HIDE DEF line, r2
<1>5. CASE c # d
  <2>1. Neutral(c, line)
    BY <1>3, <1>5 DEF Neutral, NickAfter, Entered, Gone, UsersAfter, EndedAfter, HidesAfter, ModesAfter
  <2>2. Leads(c, r, part, ask, one, r2, part, ask)
    BY <1>1, <1>5, <2>1, LeadsNeutral
  <2> HIDE DEF q, one
  <2>3. \A k \in 1..Len(q) : Neutral(c, q[k])
    BY <1>2, <1>5, NeutralKinds
  <2>4. Leads(c, r2, part, ask, q, r2, part, ask)
    BY <1>2, <2>3, LeadsNeutrals
  <2>5. Leads(c, r, part, ask, one \o q, r2, part, ask)
    BY <1>2, <1>4, <2>2, <2>4, LeadsThen
  <2> QED BY <2>5 DEF one, q, r2, line
<1>6. CASE c = d
  <2>1. ASSUME NEW t, NEW j \in BOOLEAN, At(c, t, r, part, ask \/ j)
        PROVE  Follows(c, t, one \o q, r2, part, ask \/ j)
    <3>1. t.nick = r.nick /\ ~t.view.shown
      BY <1>6, <2>1 DEF At, Match
    <3> DEFINE u == Step(c, t, line)
    <3>2. /\ u.nick = r.nick /\ u.view = Seen(<<>>, FALSE, TRUE, {}) /\ Entered(c, t.nick, line)
      BY <1>3, <1>6, <3>1 DEF Step, State, NickAfter, After, Entered
    <3> DEFINE v == [i \in 0..1 |-> IF i = 0 THEN t ELSE u]
    <3>3. v[0] = t /\ v[1] = u
      OBVIOUS
    <3> HIDE DEF v
    <3>4. Walk(v, c, t, one)
      BY <1>4, <3>3 DEF Walk
    <3> HIDE DEF u
    <3>5. u.view.shown /\ u.view.users = <<>> /\ u.view.hides /\ u.view.modes = {}
      BY <3>2 DEF Seen
    <3>6. DOMAIN r2.members[c] # {}
      BY <1>1, <1>6 DEF On
    <3>7. PICK w : /\ Walk(w, c, u, q)
                   /\ w[Len(q)].nick = u.nick
                   /\ w[Len(q)].view = Seen(r2.members[c], TRUE, u.view.hides, u.view.modes)
                   /\ \A k \in 1..Len(q) : ~Entered(c, w[k - 1].nick, q[k])
      BY <1>1, <1>6, <3>5, <3>6, NamesRead
    <3> DEFINE l == one \o q
    <3> HIDE DEF q, one
    <3>8. PICK z : Walk(z, c, t, l) /\ (\A i \in 0..1 : z[i] = v[i]) /\ \A i \in 0..Len(q) : z[1 + i] = w[i]
      <4>1. v[Len(one)] = u
        BY <1>4, <3>3
      <4>2. Walk(w, c, v[Len(one)], q)
        BY <3>7, <4>1
      <4>3. q \in Seq(Replies)
        BY <1>2
      <4>4. one \in Seq(Replies)
        BY <1>4
      <4>5. \E z : /\ Walk(z, c, t, one \o q)
                   /\ \A i \in 0..Len(one) : z[i] = v[i]
                   /\ \A i \in 0..Len(q) : z[Len(one) + i] = w[i]
        BY <3>4, <4>2, <4>3, <4>4, WalkOn
      <4> QED BY <1>4, <4>5
    <3>9. Len(q) \in Nat /\ Len(l) = 1 + Len(q) /\ l[1] = line /\ \A i \in 1..Len(q) : l[1 + i] = q[i]
      <4>1. one \in Seq(Replies)
        BY <1>4
      <4>2. q \in Seq(Replies)
        BY <1>2
      <4>3. Len(l) = Len(one) + Len(q)
        BY <4>1, <4>2
      <4>4. \A i \in 1..Len(one) : l[i] = one[i]
        BY <4>1, <4>2
      <4>5. \A i \in 1..Len(q) : l[Len(one) + i] = q[i]
        BY <4>1, <4>2
      <4>6. Len(q) \in Nat
        BY <4>2
      <4> HIDE DEF l
      <4> QED BY <1>4, <4>3, <4>4, <4>5, <4>6
    <3> DEFINE n == Len(q)
               y == z[1 + n]
    <3> HIDE DEF l, n
    <3>10. /\ y.nick = r.nick /\ y.view.shown /\ y.view.users = r2.members[c] /\ y.view.ended
      <4>1. n \in 0..n
        BY <3>9 DEF n
      <4>2. y = w[n]
        BY <3>8, <4>1 DEF n
      <4> HIDE DEF y
      <4> QED BY <3>2, <3>7, <4>2 DEF Seen, n
    <3>11. y.view.hides
      <4>1. n \in 0..n
        BY <3>9 DEF n
      <4>2. y = w[n]
        BY <3>8, <4>1 DEF n
      <4> HIDE DEF y
      <4> QED BY <3>5, <3>7, <4>2 DEF Seen, n
    <3>12. z[0] = t
      BY <3>3, <3>8
    <3>13. \A k \in 1..1 + n : Entered(c, z[k - 1].nick, l[k]) => ~z[k - 1].view.shown
      <4> TAKE k \in 1..1 + n
      <4>1. CASE k = 1
        BY <3>1, <3>12, <4>1
      <4>2. CASE k # 1
        <5> DEFINE i == k - 1
        <5>1. i \in 1..n /\ i - 1 \in 0..n /\ k = 1 + i /\ k - 1 = 1 + (i - 1)
          BY <3>9, <4>2 DEF n
        <5> HIDE DEF i
        <5>2. z[k - 1] = w[i - 1] /\ l[k] = q[i]
          BY <3>8, <3>9, <5>1 DEF n
        <5> QED BY <3>7, <5>1, <5>2 DEF n
      <4> QED BY <4>1, <4>2
    <3>14. \E k \in 1..1 + n : Entered(c, z[k - 1].nick, l[k])
      <4>1. 1 \in 1..1 + n /\ 1 - 1 = 0
        BY <3>9 DEF n
      <4> QED BY <3>2, <3>9, <3>12, <4>1
    <3> HIDE DEF y
    <3>15. Match(r2, c, y)
      BY <1>1, <1>6, <3>10, <3>11 DEF Match
    <3>16. Follows(c, t, l, r2, part, ask \/ j)
      BY <1>1, <3>8, <3>9, <3>10, <3>13, <3>14, <3>15 DEF Follows, n, y
    <3> QED BY <3>16 DEF l
  <2> DEFINE l == one \o q
  <2> HIDE DEF l
  <2>2. \A t : \A j \in BOOLEAN : At(c, t, r, part, ask \/ j) => Follows(c, t, l, r2, part, ask \/ j)
    BY <2>1 DEF l
  <2>3. Leads(c, r, part, ask, l, r2, part, ask)
    BY <1>1, <2>2 DEF Leads
  <2> QED BY <2>3 DEF l, r2, line
<1> QED BY <1>5, <1>6

-----------------------------------------------------------------------------
(* What the client reads of being away.                                    *)
\* With b read so far, lines lead to gone.
AwayRead(b, lines, gone) ==
    \/ b = gone /\ \A k \in 1..Len(lines) : lines[k][1] \notin {"305", "306"}
    \/ \E k \in 1..Len(lines) : /\ lines[k][1] = (IF gone THEN "306" ELSE "305")
                                /\ \A j \in k + 1..Len(lines) : lines[j][1] \notin {"305", "306"}
AwayAfter(b, line) == IF line[1] = "305" THEN FALSE ELSE IF line[1] = "306" THEN TRUE ELSE b

LEMMA AwayReads ==
    ASSUME NEW S, NEW p \in Seq(S), p # <<>>, NEW b, NEW gone \in BOOLEAN, AwayRead(b, p, gone)
    PROVE  AwayRead(AwayAfter(b, Head(p)), Tail(p), gone)
<1> DEFINE n == Len(p)
           q == Tail(p)
<1>1. n \in Nat \ {0} /\ Len(q) = n - 1 /\ Head(p) = p[1] /\ \A i \in 1..n - 1 : q[i] = p[i + 1]
  OBVIOUS
<1>2. AwayRead(b, p, gone) <=>
         \/ b = gone /\ \A k \in 1..n : p[k][1] \notin {"305", "306"}
         \/ \E k \in 1..n : p[k][1] = (IF gone THEN "306" ELSE "305") /\ \A j \in k + 1..n : p[j][1] \notin {"305", "306"}
  BY DEF AwayRead
<1> HIDE DEF n, q
<1>3. CASE b = gone /\ \A k \in 1..n : p[k][1] \notin {"305", "306"}
  <2>1. 1 \in 1..n /\ \A i \in 1..n - 1 : i + 1 \in 1..n
    BY <1>1
  <2>2. AwayAfter(b, p[1]) = gone
    BY <1>3, <2>1 DEF AwayAfter
  <2>3. \A i \in 1..n - 1 : q[i][1] \notin {"305", "306"}
    BY <1>1, <1>3, <2>1
  <2> QED BY <1>1, <2>2, <2>3 DEF AwayRead, q
<1>4. CASE \E k \in 1..n : p[k][1] = (IF gone THEN "306" ELSE "305") /\ \A j \in k + 1..n : p[j][1] \notin {"305", "306"}
  <2>1. PICK k \in 1..n : p[k][1] = (IF gone THEN "306" ELSE "305") /\ \A j \in k + 1..n : p[j][1] \notin {"305", "306"}
    BY <1>4
  <2>2. CASE k = 1
    <3>1. AwayAfter(b, p[1]) = gone
      BY <2>1, <2>2 DEF AwayAfter
    <3>2. \A i \in 1..n - 1 : i + 1 \in k + 1..n
      BY <1>1, <2>2
    <3>3. \A i \in 1..n - 1 : q[i][1] \notin {"305", "306"}
      BY <1>1, <2>1, <3>2
    <3> QED BY <1>1, <3>1, <3>3 DEF AwayRead, q
  <2>3. CASE k # 1
    <3> DEFINE h == k - 1
    <3>1. h \in 1..n - 1 /\ h + 1 = k
      BY <1>1, <2>3
    <3>2. \A j \in h + 1..n - 1 : j \in 1..n - 1 /\ j + 1 \in k + 1..n
      BY <1>1
    <3> HIDE DEF h
    <3>3. q[h][1] = IF gone THEN "306" ELSE "305"
      BY <1>1, <2>1, <3>1
    <3>4. \A j \in h + 1..n - 1 : q[j][1] \notin {"305", "306"}
      BY <1>1, <2>1, <3>2
    <3> QED BY <1>1, <3>1, <3>3, <3>4 DEF AwayRead, q
  <2> QED BY <2>2, <2>3
<1> QED BY <1>2, <1>3, <1>4

LEMMA AwaySays ==
    ASSUME NEW S, NEW p \in Seq(S), NEW q \in Seq(S), NEW b \in BOOLEAN, NEW gone \in BOOLEAN, NEW gone2 \in BOOLEAN,
           AwayRead(b, p, gone), AwayRead(gone, q, gone2)
    PROVE  AwayRead(b, p \o q, gone2)
<1> DEFINE n == Len(p)
           m == Len(q)
           l == p \o q
           Is(x) == x[1] \in {"305", "306"}
           Says(x, g) == x[1] = (IF g THEN "306" ELSE "305")
<1>1. n \in Nat /\ m \in Nat
  OBVIOUS
<1>2. Len(l) = n + m
  OBVIOUS
<1>3. \A i \in 1..n : l[i] = p[i]
  OBVIOUS
<1>4. \A j \in 1..m : l[n + j] = q[j]
  OBVIOUS
<1>5. \/ b = gone /\ \A k \in 1..n : ~Is(p[k])
      \/ \E k \in 1..n : Says(p[k], gone) /\ \A j \in k + 1..n : ~Is(p[j])
  BY DEF AwayRead
<1>6. \/ gone = gone2 /\ \A k \in 1..m : ~Is(q[k])
      \/ \E k \in 1..m : Says(q[k], gone2) /\ \A j \in k + 1..m : ~Is(q[j])
  BY DEF AwayRead
<1>7. AwayRead(b, l, gone2) <=>
         \/ b = gone2 /\ \A k \in 1..Len(l) : ~Is(l[k])
         \/ \E k \in 1..Len(l) : Says(l[k], gone2) /\ \A j \in k + 1..Len(l) : ~Is(l[j])
  BY DEF AwayRead
<1> HIDE DEF n, m, l, Is, Says
<1>8. ASSUME NEW k \in 1..n + m, ~(k \in 1..n) PROVE \E j \in 1..m : k = n + j
  <2>1. k - n \in 1..m /\ k = n + (k - n)
    BY <1>1, <1>8
  <2> QED BY <2>1
<1>9. CASE gone = gone2 /\ \A k \in 1..m : ~Is(q[k])
  <2>1. CASE b = gone /\ \A k \in 1..n : ~Is(p[k])
    <3>1. \A k \in 1..n + m : ~Is(l[k])
      BY <1>3, <1>4, <1>8, <1>9, <2>1
    <3> QED BY <1>2, <1>7, <1>9, <2>1, <3>1 DEF l
  <2>2. CASE \E k \in 1..n : Says(p[k], gone) /\ \A j \in k + 1..n : ~Is(p[j])
    <3>1. PICK k \in 1..n : Says(p[k], gone) /\ \A j \in k + 1..n : ~Is(p[j])
      BY <2>2
    <3>2. ASSUME NEW j \in k + 1..n + m PROVE ~Is(l[j])
      <4>1. CASE j \in 1..n
        <5>1. j \in k + 1..n
          BY <1>1, <4>1
        <5> QED BY <1>3, <3>1, <4>1, <5>1
      <4>2. CASE ~(j \in 1..n)
        <5>1. j \in 1..n + m
          BY <1>1
        <5> QED BY <1>4, <1>8, <1>9, <4>2, <5>1
      <4> QED BY <4>1, <4>2
    <3>3. k \in 1..n + m /\ Says(l[k], gone2)
      BY <1>1, <1>3, <1>9, <3>1
    <3> QED BY <1>2, <1>7, <3>2, <3>3 DEF l
  <2> QED BY <1>5, <2>1, <2>2
<1>10. CASE \E k \in 1..m : Says(q[k], gone2) /\ \A j \in k + 1..m : ~Is(q[j])
  <2>1. PICK h \in 1..m : Says(q[h], gone2) /\ \A j \in h + 1..m : ~Is(q[j])
    BY <1>10
  <2> DEFINE k == n + h
  <2>2. k \in 1..n + m
    BY <1>1
  <2>3. ASSUME NEW j \in k + 1..n + m PROVE ~Is(l[j])
    <3>1. j - n \in h + 1..m /\ j - n \in 1..m /\ j = n + (j - n)
      BY <1>1
    <3>2. l[n + (j - n)] = q[j - n]
      BY <1>4, <3>1
    <3> QED BY <2>1, <3>1, <3>2
  <2>4. Says(l[k], gone2)
    BY <1>4, <2>1
  <2> HIDE DEF k
  <2> QED BY <1>2, <1>7, <2>2, <2>3, <2>4 DEF l
<1> QED BY <1>6, <1>9, <1>10

-----------------------------------------------------------------------------
(* What others do on the server.                                           *)

Plain(lines) == \A k \in 1..Len(lines) : lines[k][1] \notin {"305", "306", "376"}
\* The client need not have asked for it.
Happens(r, lines, r2) ==
    /\ Sound(r2) /\ lines \in Seq(Replies) /\ Plain(lines)
    /\ r2.nick = r.nick /\ r2.gone = r.gone
    /\ r.nick = NoNick => lines = <<>>
    /\ \A c \in Chans : \A part \in BOOLEAN, ask \in BOOLEAN : Leads(c, r, part, ask, lines, r2, part, ask)

LEMMA AwayPlain ==
    ASSUME NEW b, NEW lines, Plain(lines)
    PROVE  AwayRead(b, lines, b)
BY DEF Plain, AwayRead

LEMMA ToldIs ==
    ASSUME NEW r \in Servers, NEW c, NEW line \in Replies, line[1] \notin {"305", "306", "376"}
    PROVE  /\ Told(r, c, line) \in Seq(Replies) /\ Plain(Told(r, c, line))
           /\ r.nick = NoNick => Told(r, c, line) = <<>>
BY DEF Told, Plain

LEMMA SaidAre ==
    ASSUME NEW p \in People, NEW d \in Chans
    PROVE  /\ \A cmd \in {"JOIN", "PART", "KICK"} : <<cmd, p, d>> \in Replies
           /\ <<"QUIT", p>> \in Replies /\ <<"600">> \in Replies /\ <<"601">> \in Replies
           /\ \A sign \in {"+", "-"} : \A m \in Modes : <<"MODE", d, sign, m>> \in Replies
           /\ \A b \in BOOLEAN : <<"OP", d, p, b>> \in Replies
BY DEF Replies

LEMMA HappensParted ==
    ASSUME NEW r, Sound(r), NEW d \in Chans, NEW n \in People, On(r, d, n), NEW cmd \in {"PART", "KICK"}
    PROVE  Happens(r, Told(r, d, <<cmd, n, d>>), Parted(r, d, n))
<1> DEFINE line == <<cmd, n, d>>
           r2 == Parted(r, d, n)
<1>1. r \in Servers
  BY DEF Sound
<1>2. r2 \in Servers /\ r2.nick = r.nick /\ r2.gone = r.gone /\ r2.ghosts = r.ghosts /\ r2.watched = r.watched
  BY <1>1, PartedIs
<1>3. \A c \in Chans : DOMAIN r2.members[c] \subseteq DOMAIN r.members[c]
  <2> TAKE c \in Chans
  <2>1. r2.members[c] = IF c = d THEN Without(r.members[d], n) ELSE r.members[c]
    BY <1>1, PartedIs
  <2>2. DOMAIN Without(r.members[d], n) = DOMAIN r.members[d] \ {n}
    BY <1>1, ServerFacts, ListsMade
  <2> HIDE DEF r2
  <2> QED BY <2>1, <2>2
<1>4. line \in Replies /\ line[1] \notin {"305", "306", "376"}
  BY SaidAre
<1>5. \A c \in Chans : \A part \in BOOLEAN, ask \in BOOLEAN : Leads(c, r, part, ask, Told(r, d, line), r2, part, ask)
  <2> TAKE c \in Chans
  <2> TAKE part \in BOOLEAN, ask \in BOOLEAN
  <2>1. part => part \/ (d = c /\ n = r.nick)
    OBVIOUS
  <2>2. part \in Flags /\ ask \in Flags /\ cmd \in Leavings
    BY DEF Flags, Leavings
  <2> QED BY <1>1, <2>1, <2>2, LeadsParted
<1> HIDE DEF line, r2
<1>6. Sound(r2)
  BY <1>2, <1>3 DEF Sound
<1>7. Told(r, d, line) \in Seq(Replies) /\ Plain(Told(r, d, line)) /\ (r.nick = NoNick => Told(r, d, line) = <<>>)
  BY <1>1, <1>4, ToldIs
<1>8. Happens(r, Told(r, d, line), r2)
  BY <1>2, <1>5, <1>6, <1>7 DEF Happens
<1> QED BY <1>8 DEF line, r2

LEMMA HappensModes ==
    ASSUME NEW r, Sound(r), NEW d \in Chans, NEW sign \in {"+", "-"}, NEW m \in Modes
    PROVE  Happens(r, Told(r, d, <<"MODE", d, sign, m>>),
                   [r EXCEPT !.modes[d] = IF sign = "+" THEN @ \union {m} ELSE @ \ {m}])
<1> DEFINE line == <<"MODE", d, sign, m>>
           os == [r.modes EXCEPT ![d] = IF sign = "+" THEN @ \union {m} ELSE @ \ {m}]
           r2 == [r EXCEPT !.modes = os]
<1>1. r \in Servers
  BY DEF Sound
<1>2. os \in [Chans -> SUBSET Modes]
  BY <1>1 DEF Servers
<1>3. \A c \in Chans : os[c] = IF d = c THEN IF sign = "+" THEN r.modes[c] \union {m} ELSE r.modes[c] \ {m} ELSE r.modes[c]
  BY <1>1 DEF Servers
<1>4. [r EXCEPT !.modes[d] = IF sign = "+" THEN @ \union {m} ELSE @ \ {m}] = r2
  OBVIOUS
<1> HIDE DEF os
<1>5. /\ r2 \in Servers /\ r2.nick = r.nick /\ r2.gone = r.gone /\ r2.ghosts = r.ghosts /\ r2.watched = r.watched
      /\ r2.members = r.members /\ r2.modes = os
  BY <1>1, <1>2 DEF Servers
<1>6. line \in Replies /\ line[1] \notin {"305", "306", "376"}
  <2>1. \E p : p \in People
    BY DEF People
  <2> QED BY <2>1, SaidAre
<1> HIDE DEF r2
<1>7. \A c \in Chans : \A part \in BOOLEAN, ask \in BOOLEAN : Leads(c, r, part, ask, Told(r, d, line), r2, part, ask)
  <2> TAKE c \in Chans
  <2> TAKE part \in BOOLEAN, ask \in BOOLEAN
  <2>1. r2.members[c] = r.members[c]
    BY <1>5
  <2>2. d # c => r2.modes[c] = r.modes[c]
    BY <1>3, <1>5
  <2>4. d = c /\ sign = "+" => r2.modes[c] = r.modes[c] \union {m}
    BY <1>3, <1>5
  <2>5. d = c /\ sign # "+" => r2.modes[c] = r.modes[c] \ {m}
    BY <1>3, <1>5
  <2>3. r2 \in Servers /\ r2.nick = r.nick
    BY <1>5
  <2> QED BY <1>1, <2>1, <2>2, <2>3, <2>4, <2>5, LeadsModes
<1> HIDE DEF line
<1>8. Sound(r2)
  BY <1>5 DEF Sound
<1>9. Told(r, d, line) \in Seq(Replies) /\ Plain(Told(r, d, line)) /\ (r.nick = NoNick => Told(r, d, line) = <<>>)
  BY <1>1, <1>6, ToldIs
<1>10. Happens(r, Told(r, d, line), r2)
  BY <1>5, <1>7, <1>8, <1>9 DEF Happens
<1> QED BY <1>4, <1>10 DEF line

LEMMA HappensOp ==
    ASSUME NEW r, Sound(r), NEW d \in Chans, NEW n \in People, On(r, d, n)
    PROVE  Happens(r, Told(r, d, <<"OP", d, n, ~r.members[d][n]>>), [r EXCEPT !.members[d][n] = ~@])
<1> DEFINE b == ~r.members[d][n]
           line == <<"OP", d, n, b>>
           f == [r.members[d] EXCEPT ![n] = b]
           ms == [r.members EXCEPT ![d] = f]
           r2 == [r EXCEPT !.members = ms]
<1>1. r \in Servers
  BY DEF Sound
<1>2. r.members \in [Chans -> Lists] /\ r.members[d] \in Lists /\ n \in DOMAIN r.members[d]
  BY <1>1 DEF Servers, On
<1>3. b \in BOOLEAN
  OBVIOUS
<1>4. [r EXCEPT !.members[d][n] = ~@] = r2
  OBVIOUS
<1> HIDE DEF b
<1>5. f \in Lists /\ DOMAIN f = DOMAIN r.members[d]
  BY <1>2, <1>3, ListsMade
<1>6. \A c \in Chans : ms[c] = IF d = c THEN [r.members[c] EXCEPT ![n] = b] ELSE r.members[c]
  BY <1>2
<1>7. ms \in [Chans -> Lists] /\ \A c \in Chans : DOMAIN ms[c] = DOMAIN r.members[c]
  <2> HIDE DEF f
  <2> QED BY <1>2, <1>5
<1> HIDE DEF ms, f
<1>8. /\ r2 \in Servers /\ r2.nick = r.nick /\ r2.gone = r.gone /\ r2.ghosts = r.ghosts /\ r2.watched = r.watched
      /\ r2.members = ms /\ r2.modes = r.modes
  BY <1>1, <1>7 DEF Servers
<1>9. line \in Replies /\ line[1] \notin {"305", "306", "376"}
  BY <1>3, SaidAre
<1> HIDE DEF r2
<1>10. \A c \in Chans : \A part \in BOOLEAN, ask \in BOOLEAN : Leads(c, r, part, ask, Told(r, d, line), r2, part, ask)
  <2> TAKE c \in Chans
  <2> TAKE part \in BOOLEAN, ask \in BOOLEAN
  <2>1. r2.members[c] = IF d = c THEN [r.members[c] EXCEPT ![n] = b] ELSE r.members[c]
    BY <1>6, <1>8
  <2>2. r2.modes[c] = r.modes[c] /\ r2 \in Servers /\ r2.nick = r.nick
    BY <1>8
  <2> QED BY <1>1, <1>3, <2>1, <2>2, LeadsOp
<1> HIDE DEF line
<1>11. Sound(r2)
  BY <1>7, <1>8 DEF Sound
<1>12. Told(r, d, line) \in Seq(Replies) /\ Plain(Told(r, d, line)) /\ (r.nick = NoNick => Told(r, d, line) = <<>>)
  BY <1>1, <1>9, ToldIs
<1>13. Happens(r, Told(r, d, line), r2)
  BY <1>8, <1>10, <1>11, <1>12 DEF Happens
<1> QED BY <1>4, <1>13 DEF line, b

LEMMA HappensVisit ==
    ASSUME NEW r, Sound(r), NEW d \in Chans, ~On(r, d, Friend), NEW news \in BOOLEAN
    PROVE  Happens(r, Told(r, d, <<"JOIN", Friend, d>>),
                   [r EXCEPT !.members[d] = With(@, Friend, @ = <<>>), !.news = news])
<1> DEFINE op == r.members[d] = <<>>
           line == <<"JOIN", Friend, d>>
           f == With(r.members[d], Friend, op)
           ms == [r.members EXCEPT ![d] = f]
           r2 == [r EXCEPT !.members = ms, !.news = news]
<1>1. r \in Servers
  BY DEF Sound
<1>2. r.members \in [Chans -> Lists] /\ r.members[d] \in Lists /\ Friend \in People
  BY <1>1 DEF Servers, People
<1>3. op \in BOOLEAN /\ (r.members[d] # <<>> => ~op)
  OBVIOUS
<1>4. [r EXCEPT !.members[d] = With(@, Friend, @ = <<>>), !.news = news] = r2
  OBVIOUS
<1> HIDE DEF op
<1>5. f \in Lists /\ DOMAIN f = DOMAIN r.members[d] \union {Friend}
  BY <1>2, <1>3, ListsMade
<1>6. \A c \in Chans : ms[c] = IF d = c THEN With(r.members[c], Friend, op) ELSE r.members[c]
  BY <1>2
<1>7. ms \in [Chans -> Lists] /\ \A c \in Chans : DOMAIN ms[c] \subseteq DOMAIN r.members[c] \union {Friend}
  <2> HIDE DEF f
  <2> QED BY <1>2, <1>5
<1> HIDE DEF ms, f
<1>8. /\ r2 \in Servers /\ r2.nick = r.nick /\ r2.gone = r.gone /\ r2.ghosts = r.ghosts /\ r2.watched = r.watched
      /\ r2.members = ms /\ r2.modes = r.modes
  BY <1>1, <1>7 DEF Servers
<1>9. line \in Replies /\ line[1] \notin {"305", "306", "376"}
  BY <1>2, SaidAre
<1> HIDE DEF r2
<1>10. \A c \in Chans : \A part \in BOOLEAN, ask \in BOOLEAN : Leads(c, r, part, ask, Told(r, d, line), r2, part, ask)
  <2> TAKE c \in Chans
  <2> TAKE part \in BOOLEAN, ask \in BOOLEAN
  <2>1. r2.members[c] = IF d = c THEN With(r.members[c], Friend, op) ELSE r.members[c]
    BY <1>6, <1>8
  <2>2. r2.modes[c] = r.modes[c] /\ r2 \in Servers /\ r2.nick = r.nick
    BY <1>8
  <2> QED BY <1>1, <1>3, <2>1, <2>2, LeadsVisit
<1> HIDE DEF line
<1>11. Sound(r2)
  BY <1>7, <1>8 DEF Sound
<1>12. Told(r, d, line) \in Seq(Replies) /\ Plain(Told(r, d, line)) /\ (r.nick = NoNick => Told(r, d, line) = <<>>)
  BY <1>1, <1>9, ToldIs
<1>13. Happens(r, Told(r, d, line), r2)
  BY <1>8, <1>10, <1>11, <1>12 DEF Happens
<1> QED BY <1>4, <1>13 DEF line

LEMMA LeadsMore ==
    ASSUME NEW S, NEW p \in Seq(S), NEW q \in Seq(S), NEW c, NEW r, NEW r2, NEW part \in BOOLEAN, NEW ask \in BOOLEAN,
           Leads(c, r, part, ask, p, r2, part, ask), \A k \in 1..Len(q) : Neutral(c, q[k])
    PROVE  Leads(c, r, part, ask, p \o q, r2, part, ask)
<1>1. Leads(c, r2, part, ask, q, r2, part, ask)
  BY LeadsNeutrals
<1> QED BY <1>1, LeadsThen

\* Somebody else leaves the server, which the client may be told by one more line.
LEMMA HappensGone ==
    ASSUME NEW r, Sound(r), NEW n \in People, n # r.nick, NEW r2 \in Servers, r2.nick = r.nick, r2.gone = r.gone,
           r2.watched = r.watched, r2.members = GoneFrom(r, n).members, r2.modes = GoneFrom(r, n).modes,
           r2.ghosts = r.ghosts \/ r2.ghosts = r.ghosts \ {n}, NEW told \in BOOLEAN, told => r.nick # NoNick
    PROVE  Happens(r, (IF CommonWith(r, n) THEN << <<"QUIT", n>> >> ELSE <<>>)
                      \o (IF told THEN << <<"601">> >> ELSE <<>>), r2)
<1> DEFINE p == IF CommonWith(r, n) THEN << <<"QUIT", n>> >> ELSE <<>>
           q == IF told THEN << <<"601">> >> ELSE <<>>
<1>1. r \in Servers
  BY DEF Sound
<1>2. /\ \A d \in Chans : r2.members[d] = Without(r.members[d], n)
      /\ \A d \in Chans : r2.modes[d] = IF DOMAIN r.members[d] = {n} THEN {} ELSE r.modes[d]
  BY <1>1, GoneFromIs
<1>3. \A d \in Chans : DOMAIN r2.members[d] = DOMAIN r.members[d] \ {n}
  <2> TAKE d \in Chans
  <2>1. r.members[d] \in Lists
    BY <1>1, ServerFacts
  <2>2. DOMAIN Without(r.members[d], n) = DOMAIN r.members[d] \ {n}
    BY <2>1, ListsMade
  <2> QED BY <1>2, <2>2
<1>4. Sound(r2)
  <2>1. r2.nick \notin r2.ghosts /\ (r2.nick = NoNick => ~r2.watched)
    BY DEF Sound
  <2>2. \A d \in Chans : DOMAIN r2.members[d] \subseteq r2.ghosts \union {r2.nick, Friend}
    BY <1>3 DEF Sound
  <2> QED BY <2>1, <2>2 DEF Sound
<1>5. /\ p \in Seq(Replies) /\ Plain(p) /\ (r.nick = NoNick => p = <<>>)
  <2>1. CommonWith(r, n) => r.nick # NoNick
    BY <1>1, ServerFacts DEF CommonWith
  <2>2. <<"QUIT", n>> \in Replies
    BY DEF Replies
  <2>3. << <<"QUIT", n>> >> \in Seq(Replies) /\ Plain(<< <<"QUIT", n>> >>) /\ Plain(<<>>)
    BY <2>2 DEF Plain
  <2> QED BY <2>1, <2>3
<1>6. /\ q \in Seq(Replies) /\ Plain(q) /\ (r.nick = NoNick => q = <<>>)
  <2>1. <<"601">> \in Replies
    BY DEF Replies
  <2>2. << <<"601">> >> \in Seq(Replies) /\ Plain(<< <<"601">> >>) /\ Plain(<<>>)
    BY <2>1 DEF Plain
  <2> QED BY <2>2
<1>7. ASSUME NEW c \in Chans, NEW part \in BOOLEAN, NEW ask \in BOOLEAN
      PROVE  Leads(c, r, part, ask, p \o q, r2, part, ask)
  <2>1. r2.members[c] = Without(r.members[c], n)
    BY <1>2
  <2>2. r2.modes[c] = IF DOMAIN r.members[c] = {n} THEN {} ELSE r.modes[c]
    BY <1>2
  <2>3. Leads(c, r, part, ask, p, r2, part, ask)
    BY <1>1, <2>1, <2>2, LeadsGone
  <2>4. \A k \in 1..Len(q) : Neutral(c, q[k])
    <3>1. CASE told
      <4>1. Len(q) = 1 /\ q[1] = <<"601">> /\ q[1][1] = "601"
        BY <3>1
      <4> HIDE DEF q
      <4>2. Neutral(c, q[1])
        BY <4>1, NeutralKinds
      <4> QED BY <4>1, <4>2
    <3>2. CASE ~told
      BY <3>2
    <3> QED BY <3>1, <3>2
  <2>5. q \in Seq(Replies) /\ p \in Seq(Replies)
    BY <1>5, <1>6
  <2> HIDE DEF p, q
  <2> QED BY <2>3, <2>4, <2>5, LeadsMore
<1> HIDE DEF p, q
<1>8. Plain(p \o q) /\ p \o q \in Seq(Replies)
  <2> DEFINE m == Len(p)
             l == p \o q
  <2>1. p \in Seq(Replies) /\ q \in Seq(Replies)
    BY <1>5, <1>6
  <2>2. l \in Seq(Replies) /\ Len(l) = m + Len(q) /\ m \in Nat /\ Len(q) \in Nat
    BY <2>1
  <2>3. \A k \in 1..m : l[k] = p[k]
    BY <2>1
  <2>4. \A k \in 1..Len(q) : l[m + k] = q[k]
    BY <2>1
  <2>5. (\A k \in 1..m : p[k][1] \notin {"305", "306", "376"}) /\ \A k \in 1..Len(q) : q[k][1] \notin {"305", "306", "376"}
    BY <1>5, <1>6 DEF Plain
  <2> DEFINE n2 == Len(q)
  <2> HIDE DEF m, l, n2
  <2>6. ASSUME NEW k \in 1..m + n2 PROVE l[k][1] \notin {"305", "306", "376"}
    <3>1. CASE k \in 1..m
      BY <2>3, <2>5, <3>1
    <3>2. CASE k \notin 1..m
      <4>1. k - m \in 1..n2 /\ k = m + (k - m)
        BY <2>2, <3>2 DEF n2
      <4>2. l[m + (k - m)] = q[k - m]
        BY <2>4, <4>1 DEF n2
      <4> QED BY <2>5, <4>1, <4>2 DEF n2
    <3> QED BY <3>1, <3>2
  <2>7. Plain(l)
    BY <2>2, <2>6 DEF Plain, n2
  <2> QED BY <2>2, <2>7 DEF l
<1>9. r.nick = NoNick => p \o q = <<>>
  BY <1>5, <1>6
<1>10. Happens(r, p \o q, r2)
  BY <1>4, <1>7, <1>8, <1>9 DEF Happens
<1> QED BY <1>10 DEF p, q

LEMMA HappensQuiet ==
    ASSUME NEW r, Sound(r), NEW r2 \in Servers, r2.nick = r.nick, r2.gone = r.gone, r2.watched = r.watched,
           r2.members = r.members, r2.modes = r.modes, r2.ghosts = r.ghosts, NEW told \in BOOLEAN, told => r.nick # NoNick
    PROVE  Happens(r, IF told THEN << <<"600">> >> ELSE <<>>, r2)
<1> DEFINE q == IF told THEN << <<"600">> >> ELSE <<>>
<1>1. Sound(r2)
  BY DEF Sound
<1>2. /\ q \in Seq(Replies) /\ Plain(q) /\ (r.nick = NoNick => q = <<>>)
  <2>1. <<"600">> \in Replies
    BY DEF Replies
  <2>2. << <<"600">> >> \in Seq(Replies) /\ Plain(<< <<"600">> >>) /\ Plain(<<>>)
    BY <2>1 DEF Plain
  <2> QED BY <2>2
<1>3. ASSUME NEW c \in Chans, NEW part \in BOOLEAN, NEW ask \in BOOLEAN
      PROVE  Leads(c, r, part, ask, q, r2, part, ask)
  <2>1. \A k \in 1..Len(q) : Neutral(c, q[k])
    <3>1. CASE told
      <4>1. Len(q) = 1 /\ q[1] = <<"600">> /\ q[1][1] = "600"
        BY <3>1
      <4> HIDE DEF q
      <4>2. Neutral(c, q[1])
        BY <4>1, NeutralKinds
      <4> QED BY <4>1, <4>2
    <3>2. CASE ~told
      BY <3>2
    <3> QED BY <3>1, <3>2
  <2> HIDE DEF q
  <2>2. r2.members[c] = r.members[c] /\ r2.modes[c] = r.modes[c] /\ q \in Seq(Replies)
    BY <1>2
  <2> QED BY <2>1, <2>2, LeadsNeutrals
<1> HIDE DEF q
<1>4. Happens(r, q, r2)
  BY <1>1, <1>2, <1>3 DEF Happens
<1> QED BY <1>4 DEF q

-----------------------------------------------------------------------------
(* What the server does with the client's lines.                           *)
Serves(r, line, q, r2) ==
    /\ Sound(r2) /\ q \in Seq(Replies) /\ AwayRead(r.gone, q, r2.gone)
    /\ r.nick # NoNick \/ (\E k \in 1..Len(q) : q[k][1] = "376") => r2.nick # NoNick
    /\ line[1] = "WHO" /\ r.nick # NoNick => \E k \in 1..Len(q) : q[k] = <<"315", line[2]>>
    /\ \A c \in Chans : \A part, ask, part2, ask2 \in BOOLEAN :
           (part => part2 \/ line = <<"PART", c>>) /\ (ask => ask2 \/ line = <<"MODE", c>>)
           => Leads(c, r, part, ask, q, r2, part2, ask2)

\* An answer to a line that is neither a PART nor a question for modes.
LEMMA ServesPlainly ==
    ASSUME NEW r, NEW line, line[1] \notin {"PART", "MODE"}, NEW q \in Seq(Replies), Plain(q), NEW r2, Sound(r2),
           r2.gone = r.gone, r.nick # NoNick => r2.nick # NoNick,
           line[1] = "WHO" /\ r.nick # NoNick => \E k \in 1..Len(q) : q[k] = <<"315", line[2]>>,
           \A c \in Chans : \A part \in BOOLEAN, ask \in BOOLEAN : Leads(c, r, part, ask, q, r2, part, ask)
    PROVE  Serves(r, line, q, r2)
<1>1. AwayRead(r.gone, q, r2.gone)
  BY AwayPlain
<1>2. ~\E k \in 1..Len(q) : q[k][1] = "376"
  BY DEF Plain
<1>3. ASSUME NEW c \in Chans, NEW part \in BOOLEAN, NEW ask \in BOOLEAN, NEW part2 \in BOOLEAN, NEW ask2 \in BOOLEAN,
             part => part2 \/ line = <<"PART", c>>, ask => ask2 \/ line = <<"MODE", c>>
      PROVE  Leads(c, r, part, ask, q, r2, part2, ask2)
  <2>1. line # <<"PART", c>> /\ line # <<"MODE", c>>
    OBVIOUS
  <2>2. (part => part2) /\ (ask => ask2)
    BY <1>3, <2>1
  <2>3. Leads(c, r, part, ask, q, r2, part, ask)
    OBVIOUS
  <2> QED BY <2>2, <2>3, LeadsRequested
<1>4. r.nick # NoNick \/ (\E k \in 1..Len(q) : q[k][1] = "376") => r2.nick # NoNick
  BY <1>2
<1> QED BY <1>1, <1>3, <1>4 DEF Serves

\* The server does not answer at all.
LEMMA ServesNothing ==
    ASSUME NEW r, Sound(r), NEW line, line[1] # "WHO" \/ r.nick = NoNick,
           \A c \in Chans : line \in {<<"PART", c>>, <<"MODE", c>>} => ~On(r, c, r.nick)
    PROVE  Serves(r, line, <<>>, r)
<1>1. <<>> \in Seq(Replies) /\ AwayRead(r.gone, <<>>, r.gone)
  BY DEF AwayRead
<1>2. ASSUME NEW c \in Chans, NEW part \in BOOLEAN, NEW ask \in BOOLEAN, NEW part2 \in BOOLEAN, NEW ask2 \in BOOLEAN,
             part => part2 \/ line = <<"PART", c>>, ask => ask2 \/ line = <<"MODE", c>>
      PROVE  Leads(c, r, part, ask, <<>>, r, part2, ask2)
  <2>1. (part => part2 \/ ~On(r, c, r.nick)) /\ (ask => ask2 \/ ~On(r, c, r.nick))
    BY <1>2
  <2>2. r \in Servers
    BY DEF Sound
  <2> QED BY <2>1, <2>2, LeadsSilent
<1> QED BY <1>1, <1>2 DEF Serves

\* One line that changes nothing of the channels.
LEMMA ServesOne ==
    ASSUME NEW r, Sound(r), r.nick # NoNick, NEW line, line[1] \notin {"PART", "MODE"},
           NEW reply \in Replies, \A c \in Chans : Neutral(c, reply), reply[1] \notin {"305", "306", "376"},
           line[1] = "WHO" => reply = <<"315", line[2]>>,
           NEW r2 \in Servers, r2.nick = r.nick, r2.gone = r.gone, r2.members = r.members, r2.modes = r.modes, r2.ghosts = r.ghosts
    PROVE  Serves(r, line, <<reply>>, r2)
<1> DEFINE q == <<reply>>
<1>1. q \in Seq(Replies) /\ Plain(q) /\ Len(q) = 1 /\ q[1] = reply
  BY DEF Plain
<1>2. Sound(r2)
  BY DEF Sound
<1>3. \A c \in Chans : \A part \in BOOLEAN, ask \in BOOLEAN : Leads(c, r, part, ask, q, r2, part, ask)
  <2> TAKE c \in Chans
  <2> TAKE part \in BOOLEAN, ask \in BOOLEAN
  <2>1. r2.members[c] = r.members[c] /\ r2.modes[c] = r.modes[c] /\ Neutral(c, reply)
    OBVIOUS
  <2> QED BY <2>1, LeadsNeutral
<1> HIDE DEF q
<1>4. line[1] = "WHO" /\ r.nick # NoNick => \E k \in 1..Len(q) : q[k] = <<"315", line[2]>>
  BY <1>1
<1>5. Serves(r, line, q, r2)
  BY <1>1, <1>2, <1>3, <1>4, ServesPlainly
<1> QED BY <1>5 DEF q

LEMMA ServesNick ==
    ASSUME NEW r, Sound(r), NEW n \in ToSet(Nicks)
    PROVE  Serves(r, <<"NICK", n>>, Answer(r, <<"NICK", n>>)[2], Answer(r, <<"NICK", n>>)[1])
<1> DEFINE line == <<"NICK", n>>
<1>1. r \in Servers
  BY DEF Sound
<1>2. line[1] = "NICK" /\ line[2] = n
  OBVIOUS
<1>3. CASE n \in InUse(r) /\ n = r.nick
  <2>1. Answer(r, line) = <<r, <<>> >>
    BY <1>3 DEF Answer
  <2> HIDE DEF line
  <2>2. \A c \in Chans : line \notin {<<"PART", c>>, <<"MODE", c>>}
    BY <1>2
  <2>3. Serves(r, line, <<>>, r)
    BY <1>2, <2>2, ServesNothing
  <2>4. Serves(r, line, Answer(r, line)[2], Answer(r, line)[1])
    BY <2>1, <2>3
  <2> QED BY <2>4 DEF line
<1>4. CASE n \in InUse(r) /\ n # r.nick
  <2> DEFINE reply == <<"433", n>>
             q == <<reply>>
  <2>1. Answer(r, line) = <<r, q>>
    BY <1>4 DEF Answer
  <2>2. reply \in Replies /\ reply[1] = "433"
    BY DEF Replies
  <2> HIDE DEF reply, line
  <2>3. q \in Seq(Replies) /\ Plain(q)
    BY <2>2 DEF Plain
  <2>4. \A c \in Chans : \A part \in BOOLEAN, ask \in BOOLEAN : Leads(c, r, part, ask, q, r, part, ask)
    <3> TAKE c \in Chans
    <3> TAKE part \in BOOLEAN, ask \in BOOLEAN
    <3>1. Neutral(c, reply)
      BY <2>2, NeutralKinds
    <3> QED BY <3>1, LeadsNeutral
  <2> HIDE DEF q
  <2>5. Serves(r, line, q, r)
    BY <1>2, <2>3, <2>4, ServesPlainly
  <2>6. Serves(r, line, Answer(r, line)[2], Answer(r, line)[1])
    BY <2>1, <2>5
  <2> QED BY <2>6 DEF line
<1>5. CASE n \notin InUse(r)
  <2> DEFINE r2 == Called(r, n)
             q == IF r.nick # NoNick THEN << <<"NICK", r.nick, n>> >> ELSE Welcome(r, n)
  <2>1. Answer(r, line) = <<r2, q>>
    BY <1>5 DEF Answer
  <2>2. n # NoNick /\ n # r.nick /\ n \notin r.ghosts
    BY <1>5, FreeNick
  <2>3. /\ r2 \in Servers /\ r2.nick = n /\ r2.gone = r.gone /\ r2.ghosts = r.ghosts /\ r2.watched = r.watched
        /\ \A d \in Chans : r2.members[d] = RenamedIn(r.members[d], r.nick, n)
    BY <1>1, CalledIs
  <2> HIDE DEF r2
  <2>4. ASSUME NEW d \in Chans PROVE DOMAIN r2.members[d] \subseteq r2.ghosts \union {n, Friend}
    <3>1. DOMAIN r.members[d] \subseteq r.ghosts \union {r.nick, Friend}
      BY DEF Sound
    <3>2. r2.members[d] = RenamedIn(r.members[d], r.nick, n)
      BY <2>3
    <3>3. CASE r.nick \in DOMAIN r.members[d]
      <4>1. DOMAIN Renamed(r.members[d], r.nick, n) = (DOMAIN r.members[d] \ {r.nick}) \union {n}
        BY DEF Renamed
      <4> QED BY <2>3, <3>1, <3>2, <3>3, <4>1 DEF RenamedIn
    <3>4. CASE r.nick \notin DOMAIN r.members[d]
      BY <2>3, <3>1, <3>2, <3>4 DEF RenamedIn
    <3> QED BY <3>3, <3>4
  <2>5. Sound(r2)
    BY <2>2, <2>3, <2>4 DEF Sound
  <2>6. \A c \in Chans : \A part \in BOOLEAN, ask \in BOOLEAN : Leads(c, r, part, ask, q, r2, part, ask)
    <3> TAKE c \in Chans
    <3> TAKE part \in BOOLEAN, ask \in BOOLEAN
    <3>1. CASE r.nick # NoNick
      <4>1. q = << <<"NICK", r.nick, n>> >>
        BY <3>1
      <4>2. Leads(c, r, part, ask, << <<"NICK", r.nick, n>> >>, r2, part, ask)
        BY <1>5, <3>1, LeadsRenamed DEF r2
      <4> QED BY <4>1, <4>2
    <3>2. CASE r.nick = NoNick
      <4>1. q = Welcome(r, n)
        BY <3>2
      <4>2. Leads(c, r, part, ask, Welcome(r, n), r2, part, ask)
        BY <1>5, <3>2, LeadsWelcome DEF r2
      <4> QED BY <4>1, <4>2
    <3> QED BY <3>1, <3>2
  <2>7. q \in Seq(Replies) /\ \A k \in 1..Len(q) : q[k][1] \notin {"305", "306"}
    <3>1. CASE r.nick # NoNick
      <4>1. r.nick \in ToSet(Nicks)
        BY <1>1, <3>1 DEF Servers
      <4>2. <<"NICK", r.nick, n>> \in Replies
        BY <4>1 DEF Replies
      <4>3. q = << <<"NICK", r.nick, n>> >>
        BY <3>1
      <4> HIDE DEF q
      <4> QED BY <4>2, <4>3
    <3>2. CASE r.nick = NoNick
      <4>1. <<"001", n>> \in Replies
        BY DEF Replies
      <4>2. r.watch \in BOOLEAN
        BY <1>1 DEF Servers
      <4>3. <<"005", r.watch>> \in Replies
        BY <4>2 DEF Replies
      <4>4. <<"376">> \in Replies
        BY DEF Replies
      <4>5. q = << <<"001", n>>, <<"005", r.watch>>, <<"376">> >>
        BY <3>2 DEF Welcome
      <4> HIDE DEF q
      <4> QED BY <4>1, <4>3, <4>4, <4>5
    <3> QED BY <3>1, <3>2
  <2> HIDE DEF q, line
  <2>8. AwayRead(r.gone, q, r2.gone)
    BY <2>3, <2>7 DEF AwayRead
  <2>9. ASSUME NEW c \in Chans, NEW part \in BOOLEAN, NEW ask \in BOOLEAN, NEW part2 \in BOOLEAN, NEW ask2 \in BOOLEAN,
               part => part2 \/ line = <<"PART", c>>, ask => ask2 \/ line = <<"MODE", c>>
        PROVE  Leads(c, r, part, ask, q, r2, part2, ask2)
    <3>1. line # <<"PART", c>> /\ line # <<"MODE", c>>
      BY <1>2
    <3>2. (part => part2) /\ (ask => ask2)
      BY <2>9, <3>1
    <3>3. Leads(c, r, part, ask, q, r2, part, ask)
      BY <2>6
    <3> QED BY <3>2, <3>3, LeadsRequested
  <2>10. Serves(r, line, q, r2)
    BY <1>2, <2>2, <2>3, <2>5, <2>7, <2>8, <2>9 DEF Serves
  <2>11. Serves(r, line, Answer(r, line)[2], Answer(r, line)[1])
    BY <2>1, <2>10
  <2> QED BY <2>11 DEF line
<1> QED BY <1>3, <1>4, <1>5 DEF InUse

\* The server ignores a line.
LEMMA ServesIgnored ==
    ASSUME NEW r, Sound(r), NEW line, Answer(r, line) = <<r, <<>> >>, line[1] # "WHO" \/ r.nick = NoNick,
           \A c \in Chans : line \in {<<"PART", c>>, <<"MODE", c>>} => ~On(r, c, r.nick)
    PROVE  Serves(r, line, Answer(r, line)[2], Answer(r, line)[1])
<1>1. Serves(r, line, <<>>, r)
  BY ServesNothing
<1> QED BY <1>1

LEMMA ServesJoin ==
    ASSUME NEW r, Sound(r), NEW d \in Chans
    PROVE  Serves(r, <<"JOIN", d>>, Answer(r, <<"JOIN", d>>)[2], Answer(r, <<"JOIN", d>>)[1])
<1> DEFINE line == <<"JOIN", d>>
<1>1. r \in Servers
  BY DEF Sound
<1>2. line[1] = "JOIN" /\ line[2] = d
  OBVIOUS
<1>3. CASE r.nick # NoNick /\ ~On(r, d, r.nick)
  <2> DEFINE r2 == Joined(r, d)
             first == <<"JOIN", r.nick, d>>
             names == NamesOf(r2, d)
             q == <<first>> \o names
  <2>1. Answer(r, line) = <<r2, q>>
    BY <1>3 DEF Answer
  <2>2. /\ r2 \in Servers /\ r2.nick = r.nick /\ r2.gone = r.gone /\ r2.ghosts = r.ghosts /\ r2.watched = r.watched
        /\ \A c \in Chans : c # d => r2.members[c] = r.members[c]
    BY <1>1, <1>3, JoinedIs
  <2>3. DOMAIN r2.members[d] = DOMAIN r.members[d] \union {r.nick}
    <3>1. r2.members[d] = With(r.members[d], r.nick, r.members[d] = <<>>)
      BY <1>1 DEF Joined, Servers
    <3> HIDE DEF r2
    <3> QED BY <3>1 DEF With
  <2>4. \A c \in Chans : \A part \in BOOLEAN, ask \in BOOLEAN : Leads(c, r, part, ask, q, r2, part, ask)
    BY <1>1, <1>3, LeadsJoined
  <2>5. names \in Seq(Replies) /\ \A k \in 1..Len(names) : names[k][1] \in {"353", "366"}
    BY <2>2, NamesKinds
  <2>6. first \in Replies /\ first[1] = "JOIN"
    <3>1. r.nick \in People
      BY <1>1, <1>3, ServerFacts
    <3> QED BY <3>1, SaidAre
  <2> HIDE DEF r2, names, first
  <2>7. Sound(r2)
    <3>1. ASSUME NEW c \in Chans PROVE DOMAIN r2.members[c] \subseteq r2.ghosts \union {r2.nick, Friend}
      BY <2>2, <2>3 DEF Sound
    <3> QED BY <1>3, <2>2, <3>1 DEF Sound
  <2>8. q \in Seq(Replies) /\ Plain(q)
    <3>1. q \in Seq(Replies) /\ Len(q) = 1 + Len(names) /\ Len(names) \in Nat
      BY <2>5, <2>6
    <3>2. q[1] = first
      BY <2>5, <2>6
    <3>3. \A k \in 1..Len(names) : q[1 + k] = names[k]
      BY <2>5, <2>6
    <3> HIDE DEF q
    <3>4. ASSUME NEW k \in 1..Len(q) PROVE q[k][1] \notin {"305", "306", "376"}
      <4>1. CASE k = 1
        BY <2>6, <3>2, <4>1
      <4>2. CASE k # 1
        <5> DEFINE h == k - 1
        <5>1. h \in 1..Len(names) /\ k = 1 + h
          BY <3>1, <4>2
        <5> HIDE DEF h
        <5> QED BY <2>5, <3>3, <5>1
      <4> QED BY <4>1, <4>2
    <3> QED BY <3>1, <3>4 DEF Plain
  <2> HIDE DEF line, q
  <2>9. Serves(r, line, q, r2)
    BY <1>2, <1>3, <2>2, <2>4, <2>7, <2>8, ServesPlainly
  <2>10. Serves(r, line, Answer(r, line)[2], Answer(r, line)[1])
    BY <2>1, <2>9
  <2> QED BY <2>10 DEF line
<1>4. CASE ~(r.nick # NoNick /\ ~On(r, d, r.nick))
  <2>1. Answer(r, line) = <<r, <<>> >>
    BY <1>4 DEF Answer
  <2> HIDE DEF line
  <2>2. Serves(r, line, Answer(r, line)[2], Answer(r, line)[1])
    BY <1>2, <2>1, ServesIgnored
  <2> QED BY <2>2 DEF line
<1> QED BY <1>3, <1>4

LEMMA LeadsWeaker ==
    ASSUME NEW c, NEW r, NEW p, NEW r2, NEW part \in BOOLEAN, NEW ask \in BOOLEAN, NEW part2 \in BOOLEAN,
           NEW ask2 \in BOOLEAN, NEW ask3 \in BOOLEAN, Leads(c, r, part, ask, p, r2, part2, ask2), ask2 => ask3
    PROVE  Leads(c, r, part, ask, p, r2, part2, ask3)
<1>1. ASSUME NEW t, NEW j \in BOOLEAN, At(c, t, r, part, ask \/ j)
      PROVE  Follows(c, t, p, r2, part2, ask3 \/ j)
  <2>1. Follows(c, t, p, r2, part2, ask2 \/ j)
    BY <1>1 DEF Leads
  <2>2. (ask2 \/ j) \in BOOLEAN /\ (ask3 \/ j) \in BOOLEAN /\ (ask2 \/ j => ask3 \/ j)
    OBVIOUS
  <2> QED BY <2>1, <2>2, FollowsMore
<1>2. r2.nick = NoNick => r.nick = NoNick
  BY DEF Leads
<1> QED BY <1>1, <1>2 DEF Leads

LEMMA LeadsAllowed ==
    ASSUME NEW c, NEW r, NEW p, NEW r2, NEW part \in BOOLEAN, NEW ask \in BOOLEAN, NEW part2 \in BOOLEAN,
           NEW ask2 \in BOOLEAN, NEW part3 \in BOOLEAN, Leads(c, r, part, ask, p, r2, part2, ask2), part2 => part3
    PROVE  Leads(c, r, part, ask, p, r2, part3, ask2)
<1>1. ASSUME NEW t, NEW j \in BOOLEAN, At(c, t, r, part, ask \/ j)
      PROVE  Follows(c, t, p, r2, part3, ask2 \/ j)
  <2>1. Follows(c, t, p, r2, part2, ask2 \/ j)
    BY <1>1 DEF Leads
  <2>2. (ask2 \/ j) \in BOOLEAN
    OBVIOUS
  <2> QED BY <2>1, <2>2, FollowsMore
<1>2. r2.nick = NoNick => r.nick = NoNick
  BY DEF Leads
<1> QED BY <1>1, <1>2 DEF Leads

LEMMA LeadsOut ==
    ASSUME NEW r \in Servers, NEW c \in Chans, NEW d \in Chans, r.nick \in People, On(r, d, r.nick),
           NEW part \in BOOLEAN, NEW ask \in BOOLEAN, NEW part2 \in BOOLEAN, part => part2 \/ d = c
    PROVE  Leads(c, r, part, ask, Told(r, d, <<"PART", r.nick, d>>), Parted(r, d, r.nick), part2, ask)
<1>1. part \in Flags /\ ask \in Flags /\ part2 \in Flags /\ "PART" \in Leavings
  BY DEF Flags, Leavings
<1>2. part => part2 \/ (d = c /\ r.nick = r.nick)
  OBVIOUS
<1> QED BY <1>1, <1>2, LeadsParted

LEMMA ServesPart ==
    ASSUME NEW r, Sound(r), NEW d \in Chans
    PROVE  Serves(r, <<"PART", d>>, Answer(r, <<"PART", d>>)[2], Answer(r, <<"PART", d>>)[1])
<1> DEFINE line == <<"PART", d>>
<1>1. r \in Servers
  BY DEF Sound
<1>2. line[1] = "PART" /\ line[2] = d
  OBVIOUS
<1>3. CASE r.nick # NoNick /\ On(r, d, r.nick)
  <2> DEFINE r2 == Parted(r, d, r.nick)
             q == << <<"PART", r.nick, d>> >>
  <2>1. Answer(r, line) = <<r2, q>>
    BY <1>3 DEF Answer
  <2>2. Told(r, d, <<"PART", r.nick, d>>) = q /\ r.nick \in People
    BY <1>1, <1>3, ServerFacts DEF Told
  <2>3. Happens(r, q, r2)
    BY <1>3, <2>2, HappensParted
  <2>4. Sound(r2) /\ q \in Seq(Replies) /\ Plain(q) /\ r2.nick = r.nick /\ r2.gone = r.gone
    BY <2>3 DEF Happens
  <2>5. AwayRead(r.gone, q, r2.gone)
    BY <2>4, AwayPlain
  <2>6. ASSUME NEW c \in Chans, NEW part \in BOOLEAN, NEW ask \in BOOLEAN, NEW part2 \in BOOLEAN, NEW ask2 \in BOOLEAN,
               part => part2 \/ line = <<"PART", c>>, ask => ask2 \/ line = <<"MODE", c>>
        PROVE  Leads(c, r, part, ask, q, r2, part2, ask2)
    <3>1. (line = <<"PART", c>> => d = c) /\ line # <<"MODE", c>>
      OBVIOUS
    <3> HIDE DEF line, r2, q
    <3>2. (part => part2 \/ (d = c /\ r.nick = r.nick)) /\ (ask => ask2)
      BY <2>6, <3>1
    <3>6. part => part2 \/ d = c
      BY <3>2
    <3>7. On(r, d, r.nick) /\ r.nick \in People
      BY <1>3, <2>2
    <3>3. Leads(c, r, part, ask, Told(r, d, <<"PART", r.nick, d>>), r2, part2, ask)
      BY <1>1, <3>6, <3>7, LeadsOut DEF r2
    <3>4. Leads(c, r, part, ask, q, r2, part2, ask)
      BY <2>2, <3>3
    <3>5. Leads(c, r, part, ask, q, r2, part2, ask2)
      BY <3>2, <3>4, LeadsWeaker
    <3> QED BY <3>5
  <2> HIDE DEF r2, q, line
  <2>7. Serves(r, line, q, r2)
    BY <1>2, <1>3, <2>4, <2>5, <2>6 DEF Serves
  <2>8. Serves(r, line, Answer(r, line)[2], Answer(r, line)[1])
    BY <2>1, <2>7
  <2> QED BY <2>8 DEF line
<1>4. CASE ~(r.nick # NoNick /\ On(r, d, r.nick))
  <2>1. Answer(r, line) = <<r, <<>> >>
    BY <1>4 DEF Answer
  <2>2. \A c \in Chans : line \in {<<"PART", c>>, <<"MODE", c>>} => ~On(r, c, r.nick)
    <3> TAKE c \in Chans
    <3>1. line \in {<<"PART", c>>, <<"MODE", c>>} => d = c
      OBVIOUS
    <3>2. ~On(r, d, r.nick)
      BY <1>1, <1>4, ServerFacts
    <3> QED BY <3>1, <3>2
  <2> HIDE DEF line
  <2>3. Serves(r, line, Answer(r, line)[2], Answer(r, line)[1])
    BY <1>2, <2>1, <2>2, ServesIgnored
  <2> QED BY <2>3 DEF line
<1> QED BY <1>3, <1>4

LEMMA ServesModes ==
    ASSUME NEW r, Sound(r), NEW d \in Chans
    PROVE  Serves(r, <<"MODE", d>>, Answer(r, <<"MODE", d>>)[2], Answer(r, <<"MODE", d>>)[1])
<1> DEFINE line == <<"MODE", d>>
<1>1. r \in Servers
  BY DEF Sound
<1>2. line[1] = "MODE" /\ line[2] = d
  OBVIOUS
<1>3. CASE r.nick # NoNick /\ r.members[d] # <<>>
  <2> DEFINE reply == <<"324", d, r.modes[d]>>
             q == <<reply>>
  <2>1. Answer(r, line) = <<r, q>>
    BY <1>3 DEF Answer
  <2>2. reply \in Replies /\ reply[1] = "324"
    <3>1. r.modes[d] \in SUBSET Modes
      BY <1>1 DEF Servers
    <3> QED BY <3>1 DEF Replies
  <2>3. \A c \in Chans : line # <<"PART", c>> /\ (line = <<"MODE", c>> => d = c)
    OBVIOUS
  <2>4. \A c \in Chans : \A part \in BOOLEAN, ask \in BOOLEAN, ask2 \in BOOLEAN :
            (ask => ask2 \/ d = c) => Leads(c, r, part, ask, q, r, part, ask2)
    BY <1>1, <1>3, LeadsAnswered
  <2> HIDE DEF reply
  <2>5. q \in Seq(Replies) /\ Plain(q)
    BY <2>2 DEF Plain
  <2> HIDE DEF q, line
  <2>6. ASSUME NEW c \in Chans, NEW part \in BOOLEAN, NEW ask \in BOOLEAN, NEW part2 \in BOOLEAN, NEW ask2 \in BOOLEAN,
               part => part2 \/ line = <<"PART", c>>, ask => ask2 \/ line = <<"MODE", c>>
        PROVE  Leads(c, r, part, ask, q, r, part2, ask2)
    <3>1. part => part2
      BY <2>3, <2>6
    <3>2. ask => ask2 \/ d = c
      BY <2>3, <2>6
    <3>3. Leads(c, r, part, ask, q, r, part, ask2)
      BY <2>4, <3>2
    <3> QED BY <3>1, <3>3, LeadsAllowed
  <2>7. AwayRead(r.gone, q, r.gone)
    BY <2>5, AwayPlain
  <2>8. Serves(r, line, q, r)
    BY <1>2, <1>3, <2>5, <2>6, <2>7 DEF Serves
  <2>9. Serves(r, line, Answer(r, line)[2], Answer(r, line)[1])
    BY <2>1, <2>8
  <2> QED BY <2>9 DEF line
<1>4. CASE ~(r.nick # NoNick /\ r.members[d] # <<>>)
  <2>1. Answer(r, line) = <<r, <<>> >>
    BY <1>4 DEF Answer
  <2>2. \A c \in Chans : line \in {<<"PART", c>>, <<"MODE", c>>} => ~On(r, c, r.nick)
    <3> TAKE c \in Chans
    <3>1. line \in {<<"PART", c>>, <<"MODE", c>>} => d = c
      OBVIOUS
    <3>2. ~On(r, d, r.nick)
      BY <1>1, <1>4, ServerFacts, ListsMade DEF On
    <3> QED BY <3>1, <3>2
  <2> HIDE DEF line
  <2>3. Serves(r, line, Answer(r, line)[2], Answer(r, line)[1])
    BY <1>2, <2>1, <2>2, ServesIgnored
  <2> QED BY <2>3 DEF line
<1> QED BY <1>3, <1>4

LEMMA ServesWho ==
    ASSUME NEW r, Sound(r), NEW d \in Chans
    PROVE  Serves(r, <<"WHO", d>>, Answer(r, <<"WHO", d>>)[2], Answer(r, <<"WHO", d>>)[1])
<1> DEFINE line == <<"WHO", d>>
<1>1. line[1] = "WHO" /\ line[2] = d
  OBVIOUS
<1>2. CASE r.nick # NoNick
  <2> DEFINE reply == <<"315", d>>
  <2>1. Answer(r, line) = <<r, <<reply>> >>
    BY <1>2 DEF Answer
  <2>2. reply \in Replies /\ reply[1] = "315"
    BY DEF Replies
  <2>3. reply = <<"315", line[2]>>
    BY <1>1
  <2> HIDE DEF line, reply
  <2>4. \A c \in Chans : Neutral(c, reply)
    BY <2>2, NeutralKinds
  <2>5. Serves(r, line, <<reply>>, r)
    BY <1>1, <1>2, <2>2, <2>3, <2>4, ServesOne DEF Sound
  <2>6. Serves(r, line, Answer(r, line)[2], Answer(r, line)[1])
    BY <2>1, <2>5
  <2> QED BY <2>6 DEF line
<1>3. CASE r.nick = NoNick
  <2>1. Answer(r, line) = <<r, <<>> >>
    BY <1>3 DEF Answer
  <2> HIDE DEF line
  <2>2. Serves(r, line, Answer(r, line)[2], Answer(r, line)[1])
    BY <1>1, <1>3, <2>1, ServesIgnored
  <2> QED BY <2>2 DEF line
<1> QED BY <1>2, <1>3

LEMMA ServesNames ==
    ASSUME NEW r, Sound(r), NEW d \in Chans
    PROVE  Serves(r, <<"NAMES", d>>, Answer(r, <<"NAMES", d>>)[2], Answer(r, <<"NAMES", d>>)[1])
<1> DEFINE line == <<"NAMES", d>>
<1>1. line[1] = "NAMES" /\ line[2] = d /\ r \in Servers
  BY DEF Sound
<1>2. CASE r.nick # NoNick
  <2> DEFINE q == NamesOf(r, d)
  <2>1. Answer(r, line) = <<r, q>>
    BY <1>2 DEF Answer
  <2>2. q \in Seq(Replies) /\ \A k \in 1..Len(q) : q[k][1] \in {"353", "366"}
    BY <1>1, NamesKinds
  <2>3. \A c \in Chans : \A part \in BOOLEAN, ask \in BOOLEAN : Leads(c, r, part, ask, q, r, part, ask)
    BY <1>1, <1>2, LeadsNames
  <2> HIDE DEF line, q
  <2>4. Plain(q)
    BY <2>2 DEF Plain
  <2>5. Serves(r, line, q, r)
    BY <1>1, <1>2, <2>2, <2>3, <2>4, ServesPlainly
  <2>6. Serves(r, line, Answer(r, line)[2], Answer(r, line)[1])
    BY <2>1, <2>5
  <2> QED BY <2>6 DEF line
<1>3. CASE r.nick = NoNick
  <2>1. Answer(r, line) = <<r, <<>> >>
    BY <1>3 DEF Answer
  <2> HIDE DEF line
  <2>2. Serves(r, line, Answer(r, line)[2], Answer(r, line)[1])
    BY <1>1, <1>3, <2>1, ServesIgnored
  <2> QED BY <2>2 DEF line
<1> QED BY <1>2, <1>3

LEMMA ServesAway ==
    ASSUME NEW r, Sound(r), NEW b \in BOOLEAN
    PROVE  Serves(r, <<"AWAY", b>>, Answer(r, <<"AWAY", b>>)[2], Answer(r, <<"AWAY", b>>)[1])
<1> DEFINE line == <<"AWAY", b>>
<1>1. line[1] = "AWAY" /\ line[2] = b /\ r \in Servers
  BY DEF Sound
<1>2. CASE r.nick # NoNick
  <2> DEFINE reply == <<IF b THEN "306" ELSE "305">>
             q == <<reply>>
             r2 == [r EXCEPT !.gone = b]
  <2>1. Answer(r, line) = <<r2, q>>
    BY <1>2 DEF Answer
  <2>2. /\ r2 \in Servers /\ r2.nick = r.nick /\ r2.gone = b /\ r2.ghosts = r.ghosts /\ r2.watched = r.watched
        /\ r2.members = r.members /\ r2.modes = r.modes
    BY <1>1 DEF Servers
  <2>3. reply \in Replies /\ reply[1] \in {"305", "306"} /\ reply[1] = IF b THEN "306" ELSE "305"
    <3>1. CASE b
      BY <3>1 DEF Replies
    <3>2. CASE ~b
      BY <3>2 DEF Replies
    <3> QED BY <3>1, <3>2
  <2> HIDE DEF line, r2, reply
  <2>4. q \in Seq(Replies) /\ Len(q) = 1 /\ q[1] = reply
    BY <2>3
  <2>5. \A c \in Chans : \A part \in BOOLEAN, ask \in BOOLEAN : Leads(c, r, part, ask, q, r2, part, ask)
    <3> TAKE c \in Chans
    <3> TAKE part \in BOOLEAN, ask \in BOOLEAN
    <3>1. Neutral(c, reply)
      BY <2>3, NeutralKinds
    <3>2. r2.members[c] = r.members[c] /\ r2.modes[c] = r.modes[c]
      BY <2>2
    <3> QED BY <2>2, <3>1, <3>2, LeadsNeutral
  <2>6. Sound(r2)
    BY <2>2 DEF Sound
  <2> HIDE DEF q
  <2>7. AwayRead(r.gone, q, b)
    <3>1. q[1][1] = IF b THEN "306" ELSE "305"
      BY <2>3, <2>4
    <3>2. 1 \in 1..Len(q) /\ \A j \in 1 + 1..Len(q) : FALSE
      BY <2>4
    <3> QED BY <3>1, <3>2 DEF AwayRead
  <2>8. ASSUME NEW c \in Chans, NEW part \in BOOLEAN, NEW ask \in BOOLEAN, NEW part2 \in BOOLEAN, NEW ask2 \in BOOLEAN,
               part => part2 \/ line = <<"PART", c>>, ask => ask2 \/ line = <<"MODE", c>>
        PROVE  Leads(c, r, part, ask, q, r2, part2, ask2)
    <3>1. line # <<"PART", c>> /\ line # <<"MODE", c>>
      BY <1>1
    <3>2. (part => part2) /\ (ask => ask2)
      BY <2>8, <3>1
    <3>3. Leads(c, r, part, ask, q, r2, part, ask)
      BY <2>5
    <3> QED BY <3>2, <3>3, LeadsRequested
  <2>9. Serves(r, line, q, r2)
    BY <1>1, <1>2, <2>2, <2>4, <2>6, <2>7, <2>8 DEF Serves
  <2>10. Serves(r, line, Answer(r, line)[2], Answer(r, line)[1])
    BY <2>1, <2>9
  <2> QED BY <2>10 DEF line
<1>3. CASE r.nick = NoNick
  <2>1. Answer(r, line) = <<r, <<>> >>
    BY <1>3 DEF Answer
  <2> HIDE DEF line
  <2>2. Serves(r, line, Answer(r, line)[2], Answer(r, line)[1])
    BY <1>1, <1>3, <2>1, ServesIgnored
  <2> QED BY <2>2 DEF line
<1> QED BY <1>2, <1>3

LEMMA ServesIdentify ==
    ASSUME NEW r, Sound(r)
    PROVE  Serves(r, <<"IDENTIFY">>, Answer(r, <<"IDENTIFY">>)[2], Answer(r, <<"IDENTIFY">>)[1])
<1> DEFINE line == <<"IDENTIFY">>
<1>1. line[1] = "IDENTIFY" /\ r \in Servers
  BY DEF Sound
<1>2. CASE r.nick # NoNick
  <2> DEFINE reply == <<"MODE", r.nick, "+", "e">>
  <2>1. Answer(r, line) = <<r, <<reply>> >>
    BY <1>2 DEF Answer
  <2>2. r.nick \in ToSet(Nicks)
    BY <1>1, <1>2 DEF Servers
  <2>3. reply \in Replies /\ reply[1] = "MODE" /\ \A c \in Chans : reply[2] # c
    BY <2>2, NamesAssumption DEF Replies
  <2> HIDE DEF line, reply
  <2>4. \A c \in Chans : Neutral(c, reply)
    BY <2>3, NeutralKinds
  <2>5. Serves(r, line, <<reply>>, r)
    BY <1>1, <1>2, <2>3, <2>4, ServesOne
  <2>6. Serves(r, line, Answer(r, line)[2], Answer(r, line)[1])
    BY <2>1, <2>5
  <2> QED BY <2>6 DEF line
<1>3. CASE r.nick = NoNick
  <2>1. Answer(r, line) = <<r, <<>> >>
    BY <1>3 DEF Answer
  <2> HIDE DEF line
  <2>2. Serves(r, line, Answer(r, line)[2], Answer(r, line)[1])
    BY <1>1, <1>3, <2>1, ServesIgnored
  <2> QED BY <2>2 DEF line
<1> QED BY <1>2, <1>3

LEMMA ServesIson ==
    ASSUME NEW r, Sound(r)
    PROVE  Serves(r, <<"ISON">>, Answer(r, <<"ISON">>)[2], Answer(r, <<"ISON">>)[1])
<1> DEFINE line == <<"ISON">>
<1>1. line[1] = "ISON" /\ r \in Servers
  BY DEF Sound
<1>2. CASE r.nick # NoNick
  <2> DEFINE reply == <<"303", r.online>>
             r2 == [r EXCEPT !.news = FALSE]
  <2>1. Answer(r, line) = <<r2, <<reply>> >>
    BY <1>2 DEF Answer
  <2>2. r.online \in BOOLEAN
    BY <1>1 DEF Servers
  <2>3. reply \in Replies /\ reply[1] = "303"
    BY <2>2 DEF Replies
  <2>4. /\ r2 \in Servers /\ r2.nick = r.nick /\ r2.gone = r.gone /\ r2.ghosts = r.ghosts /\ r2.watched = r.watched
        /\ r2.members = r.members /\ r2.modes = r.modes
    BY <1>1 DEF Servers
  <2> HIDE DEF line, reply, r2
  <2>5. \A c \in Chans : Neutral(c, reply)
    BY <2>3, NeutralKinds
  <2>6. Serves(r, line, <<reply>>, r2)
    BY <1>1, <1>2, <2>3, <2>4, <2>5, ServesOne
  <2>7. Serves(r, line, Answer(r, line)[2], Answer(r, line)[1])
    BY <2>1, <2>6
  <2> QED BY <2>7 DEF line
<1>3. CASE r.nick = NoNick
  <2>1. Answer(r, line) = <<r, <<>> >>
    BY <1>3 DEF Answer
  <2> HIDE DEF line
  <2>2. Serves(r, line, Answer(r, line)[2], Answer(r, line)[1])
    BY <1>1, <1>3, <2>1, ServesIgnored
  <2> QED BY <2>2 DEF line
<1> QED BY <1>2, <1>3

LEMMA ServesWatch ==
    ASSUME NEW r, Sound(r), NEW b \in BOOLEAN
    PROVE  Serves(r, <<"WATCH", b>>, Answer(r, <<"WATCH", b>>)[2], Answer(r, <<"WATCH", b>>)[1])
<1> DEFINE line == <<"WATCH", b>>
<1>1. line[1] = "WATCH" /\ line[2] = b /\ r \in Servers
  BY DEF Sound
<1>2. CASE r.nick # NoNick /\ b
  <2> DEFINE reply == <<IF r.online THEN "604" ELSE "605">>
             r2 == [r EXCEPT !.watched = TRUE, !.news = FALSE]
  <2>1. Answer(r, line) = <<r2, <<reply>> >>
    BY <1>2 DEF Answer
  <2>2. reply \in Replies /\ reply[1] \in {"604", "605"}
    <3>1. CASE r.online
      BY <3>1 DEF Replies
    <3>2. CASE ~r.online
      BY <3>2 DEF Replies
    <3> QED BY <3>1, <3>2
  <2>3. /\ r2 \in Servers /\ r2.nick = r.nick /\ r2.gone = r.gone /\ r2.ghosts = r.ghosts
        /\ r2.members = r.members /\ r2.modes = r.modes
    BY <1>1 DEF Servers
  <2> HIDE DEF line, reply, r2
  <2>4. \A c \in Chans : Neutral(c, reply)
    BY <2>2, NeutralKinds
  <2>5. Serves(r, line, <<reply>>, r2)
    BY <1>1, <1>2, <2>2, <2>3, <2>4, ServesOne
  <2>6. Serves(r, line, Answer(r, line)[2], Answer(r, line)[1])
    BY <2>1, <2>5
  <2> QED BY <2>6 DEF line
<1>3. CASE r.nick # NoNick /\ ~b
  <2> DEFINE r2 == [r EXCEPT !.watched = FALSE]
             q == <<>>
  <2>1. Answer(r, line) = <<r2, q>>
    BY <1>3 DEF Answer
  <2>2. /\ r2 \in Servers /\ r2.nick = r.nick /\ r2.gone = r.gone /\ r2.ghosts = r.ghosts
        /\ r2.members = r.members /\ r2.modes = r.modes
    BY <1>1 DEF Servers
  <2>3. q \in Seq(Replies) /\ Plain(q)
    BY DEF Plain
  <2> HIDE DEF line, r2
  <2>4. Sound(r2)
    BY <1>3, <2>2 DEF Sound
  <2>5. \A c \in Chans : \A part \in BOOLEAN, ask \in BOOLEAN : Leads(c, r, part, ask, q, r2, part, ask)
    <3> TAKE c \in Chans
    <3> TAKE part \in BOOLEAN, ask \in BOOLEAN
    <3>1. r2.members[c] = r.members[c] /\ r2.modes[c] = r.modes[c]
      BY <2>2
    <3>2. On(r2, c, r.nick) <=> On(r, c, r.nick)
      BY <3>1 DEF On
    <3> QED BY <1>1, <2>2, <3>1, <3>2, LeadsQuiet
  <2> HIDE DEF q
  <2>6. Serves(r, line, q, r2)
    BY <1>1, <1>3, <2>2, <2>3, <2>4, <2>5, ServesPlainly
  <2>7. Serves(r, line, Answer(r, line)[2], Answer(r, line)[1])
    BY <2>1, <2>6
  <2> QED BY <2>7 DEF line
<1>4. CASE r.nick = NoNick
  <2>1. Answer(r, line) = <<r, <<>> >>
    BY <1>4 DEF Answer
  <2> HIDE DEF line
  <2>2. Serves(r, line, Answer(r, line)[2], Answer(r, line)[1])
    BY <1>1, <1>4, <2>1, ServesIgnored
  <2> QED BY <2>2 DEF line
<1> QED BY <1>2, <1>3, <1>4

LEMMA ServesAll ==
    ASSUME NEW r, Sound(r), NEW line \in Requests \union Questions
    PROVE  Serves(r, line, Answer(r, line)[2], Answer(r, line)[1])
<1>1. CASE \E n \in ToSet(Nicks) : line = <<"NICK", n>>
  BY <1>1, ServesNick
<1>2. CASE \E d \in Chans : line = <<"JOIN", d>>
  BY <1>2, ServesJoin
<1>3. CASE \E d \in Chans : line = <<"PART", d>>
  BY <1>3, ServesPart
<1>4. CASE \E d \in Chans : line = <<"NAMES", d>>
  BY <1>4, ServesNames
<1>5. CASE \E b \in BOOLEAN : line = <<"AWAY", b>>
  BY <1>5, ServesAway
<1>6. CASE \E b \in BOOLEAN : line = <<"WATCH", b>>
  BY <1>6, ServesWatch
<1>7. CASE line = <<"IDENTIFY">>
  BY <1>7, ServesIdentify
<1>8. CASE line = <<"ISON">>
  BY <1>8, ServesIson
<1>9. CASE \E d \in Chans : line = <<"MODE", d>>
  BY <1>9, ServesModes
<1>10. CASE \E d \in Chans : line = <<"WHO", d>>
  BY <1>10, ServesWho
<1> QED BY <1>1, <1>2, <1>3, <1>4, <1>5, <1>6, <1>7, <1>8, <1>9, <1>10 DEF Requests, Questions
=============================================================================
