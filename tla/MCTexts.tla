------------------------------ MODULE MCTexts ------------------------------
EXTENDS Texts

MyMatches == [m \in {"*!*@a", "*!*@b", "*!*@*"} |->
                 CASE m = "*!*@a" -> {"ann"} [] m = "*!*@b" -> {"bob"} [] OTHER -> {"ann", "bob"}]
MyHostMask == [n \in {"ann", "bob"} |-> IF n = "ann" THEN "*!*@a" ELSE "*!*@b"]
MyVars == <<"gui_auto_open_dialog", "gui_ulist_left", "gui_ulist_pos", "gui_win_height", "tab_pos", "tab_position">>
MyStartsWith == {<<"tab_pos", "tab_position">>}
MySettable == {[var |-> "gui_auto_open_dialog", value |-> 0], [var |-> "tab_pos", value |-> -1]}
\* Files of a run with max_lines 2, and the settings of an old version with max_lines 0.
MyStarts ==
    {[max_lines |-> 2, prefs |-> [v \in ToSet(MyVars) |-> Default(v)],
      lines |-> [f \in {"ann", "bob", "#c"} |-> IF f = "#c" THEN 3 ELSE 0]],
     [max_lines |-> 0,
      prefs |-> [v \in ToSet(MyVars) |-> CASE v = "tab_position" -> 5 [] v = "gui_win_height" -> 100 [] OTHER -> Default(v)],
      lines |-> [f \in {"ann", "bob", "#c"} |-> 1]]}
MyMaskings == {[mask |-> "*!*@*", types |-> {"PRIV", "CTCP"}], [mask |-> "*!*@a", types |-> {"UNIG", "PRIV", "CTCP"}],
               [mask |-> "*!*@b", types |-> {"PRIV", "NOTI", "CHAN", "NOSAVE"}]}
=============================================================================
