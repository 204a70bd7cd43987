---------------------------- MODULE MCStringFun ----------------------------
(* The constants of StringTools for TLC: every string that is up to one    *)
(* longer than the buffer, so that the length exceeds it with and without  *)
(* blanks that collapse.                                                   *)
EXTENDS StringTools

Flag(opt) == [dash |-> TRUE, two |-> TRUE, opt |-> opt]

MCFlags == {Flag(opt) : opt \in {"c", "r", "w", "x", "h", "?"}}
           \cup {[dash |-> FALSE, two |-> TRUE, opt |-> "r"]}

Strings(n) == UNION {[1 .. k -> {"a", "b", " ", "TAB"}] : k \in 0 .. n}

\* Targets and replacements of each other's length, shorter and longer.
Pairs == {<<"a">>, <<"a", "b">>, <<" ">>, <<"b", ".">>} \X
         {<<>>, <<"b">>, <<"a", "b">>, <<"b", "b", "a">>}

MCArgs == {<<>>} \cup {<<s>> : s \in Strings(BUFFER_SZ + 1)}
          \cup {<<s, w[1], w[2]>> : s \in Strings(BUFFER_SZ), w \in Pairs}
          \cup {<<<<"a">>, <<>>, <<"b">>>>}

MCHeaps == {<<"NUL", "NUL", "NUL">>, <<"a", "b", "NUL">>}
=============================================================================
