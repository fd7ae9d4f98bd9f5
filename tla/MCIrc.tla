------------------------------- MODULE MCIrc --------------------------------
EXTENDS Irc, TLC

MyNicks == <<"n1", "n2", "n3">>
TwoChannels == <<"c1", "c2">>

\* What may happen, and how often; all else not at all.
Allow(some) == some @@ [k \in Kinds \union Settings |-> 0]
MixedScenarios ==
    { \* a channel, its users and its modes
      Allow("join" :> 1 @@ "part" :> 1 @@ "kick" :> 1 @@ "mode" :> 1 @@ "names" :> 1),
      Allow("autojoin" :> 1 @@ "cycle" :> 1 @@ "kick" :> 2 @@ "mode" :> 1 @@ "check" :> 1),
      Allow("autojoin" :> 1 @@ "friend" :> 2 @@ "visit" :> 2 @@ "names" :> 1 @@ "mode" :> 1),
      Allow("join" :> 2 @@ "close" :> 1 @@ "kick" :> 1),
      \* the connection breaks
      Allow("autojoin" :> 2 @@ "drop" :> 1 @@ "ghost" :> 1 @@ "close" :> 1),
      Allow("autojoin" :> 2 @@ "nickserv" :> 1 @@ "drop" :> 1 @@ "part" :> 1 @@ "fail" :> 1),
      Allow("autojoin" :> 1 @@ "drop" :> 1 @@ "part" :> 1 @@ "nick" :> 1 @@ "away" :> 1),
      Allow("autojoin" :> 1 @@ "drop" :> 2 @@ "check" :> 1),
      \* nick, away and the notify list
      Allow("nick" :> 2 @@ "away" :> 2 @@ "drop" :> 1 @@ "ghost" :> 1),
      Allow("notify" :> 2 @@ "friend" :> 2 @@ "poll" :> 2 @@ "drop" :> 1),
      Allow("notify" :> 2 @@ "friend" :> 2 @@ "watch" :> 1 @@ "drop" :> 1),
      Allow("notify" :> 1 @@ "friend" :> 2 @@ "visit" :> 1 @@ "autojoin" :> 1 @@ "watch" :> 1),
      Allow("notify" :> 1 @@ "friend" :> 2 @@ "visit" :> 1 @@ "autojoin" :> 1) }
AwayScenarios == {Allow("away" :> 1 @@ "drop" :> 1 @@ "fail" :> 1)}
=============================================================================
