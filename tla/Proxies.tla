------------------------------ MODULE Proxies -------------------------------
(***************************************************************************)
(* The dialogues with a proxy.  The child that connects to a server holds  *)
(* them with blocking calls (traverse_* in src/src/common/server.cpp); a   *)
(* direct connection holds them in callbacks of the main loop, one phase   *)
(* after another (dcc_*_proxy_traverse in src/src/common/dcc.cpp).  A step *)
(* writes a request or reads an answer; what is in them is not kept.       *)
(***************************************************************************)
EXTENDS Integers, Sequences

\* "socks5auth": SOCKS5 with proxy_auth, a user and a password.
Kinds == {"wingate", "socks4", "socks5", "socks5auth", "http"}

W(what) == [do |-> "write", what |-> what]

R(what) == [do |-> "read", what |-> what]

Login == <<W("credentials"), R("accepted")>>

\* The child's dialogues; the second part of SOCKS5 is after the login.
traverse_wingate == <<W("connect")>>

traverse_socks == <<W("connect"), R("status")>>

traverse_socks5(login) ==
    <<W("methods"), R("method")>> \o login
      \o <<W("connect"), R("status"), R("address")>>

traverse_http == <<W("connect"), R("status"), R("headers")>>

\* What traverse_proxy does, to success.
Traverse ==
    [wingate |-> traverse_wingate, socks4 |-> traverse_socks,
     socks5 |-> traverse_socks5(<<>>), socks5auth |-> traverse_socks5(Login),
     http |-> traverse_http]

\* The phases of a direct connection.  For Wingate read_proxy is called where
\* something is to be written: it waits for as many bytes as the request has.
dcc_wingate == <<R("connect")>>

dcc_socks == <<W("connect"), R("status")>>

Greeting(login) == <<W("methods"), R("method")>> \o login

\* Mutant: without a login phase 2 goes on three phases further, not two.
Request_Skipped == <<R("status"), R("address")>>

Request == <<W("connect"), R("status"), R("address")>>

dcc_http == <<W("connect"), R("status"), R("headers")>>

Phases ==
    [wingate |-> dcc_wingate, socks4 |-> dcc_socks,
     socks5 |-> Greeting(<<>>) \o Request, socks5auth |-> Greeting(Login) \o Request,
     http |-> dcc_http]

\* What a dialogue asked of the proxy.
Asked(steps) ==
    LET upto[i \in 0..Len(steps)] ==
            IF i = 0 THEN <<>>
            ELSE IF steps[i].do = "write" THEN Append(upto[i-1], steps[i].what)
            ELSE upto[i-1]
    IN upto[Len(steps)]

\* struct proxy_state: the dialogue, its phase, and history.
NoProxy == [kind |-> "none", phase |-> 0, asked |-> <<>>]

NewProxy(kind) == [kind |-> kind, phase |-> 1, asked |-> <<>>]

Step(p) == Phases[p.kind][p.phase]

IsLast(p) == p.phase = Len(Phases[p.kind])

\* The phase has been done.
Advanced(p) ==
    [p EXCEPT !.phase = @ + 1,
              !.asked = IF Step(p).do = "write" THEN Append(@, Step(p).what) ELSE @]
=============================================================================
