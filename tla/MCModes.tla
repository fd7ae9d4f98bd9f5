------------------------------ MODULE MCModes ------------------------------
EXTENDS Modes

MyUsers == {"me", "ann", "bob"}
MyNickModes == <<"o", "v">>
MyHost == [u \in MyUsers |-> IF u = "ann" THEN "*!*@a" ELSE "*!*@b"]
MyLength == [w \in {"me", "ann", "x", "y", "1"} |-> 1] @@ [w \in {"bob", "*!*@a", "*!*@b", "2"} |-> 3]
MyNicks == {<<"ann">>, <<"ann", "bob", "ann", "ann">>, <<"ann", "me", "ann", "bob">>}
MyMasks == {<<"*!*@a", "*!*@b", "bob">>}
One(s, m, a) == <<Change(s, m, a)>>
MyTyped == {One("+", "k", "x"), One("+", "k", "y"), One("-", "l", "none"), One("+", "m", "none"), One("-", "m", "none"),
            One("+", "l", "1") \o One("-", "k", "x"),
            One("-", "l", "none") \o One("+", "o", "ann"),
            One("+", "b", "bob") \o One("+", "l", "2") \o One("+", "m", "none")}
=============================================================================
