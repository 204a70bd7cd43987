------------------------------ MODULE MCShells -----------------------------
(* The constants of ShellVersions for TLC. *)
EXTENDS ShellVersions

Lists(S, n) == UNION {[1 .. k -> S] : k \in 0 .. n}

MCArgLists == {<<name>> \o rest : name \in {<<"a">>, <<"a", "b">>},
                                  rest \in Lists({<<>>, <<"a", " ">>}, 2)}

\* Every short line, the quoted lists, the built-ins, and lines with one command
\* too many, a name too long, and arguments typed with runs of blanks.
MCLines == Lists({"a", " ", "|", "QUOTE"}, 3)
           \cup {TypedForm[arguments] : arguments \in MCArgLists}
           \cup {<<" ", "exit">>, <<"exit">>, <<"cd", " ", "a">>, <<"dragon">>,
                 <<"rc">>, <<"b">>, <<"k">>, <<"TAB", "b", "TAB", "a">>,
                 <<"a", "QUOTE", "b", " ", "QUOTE", "b">>, <<"QUOTE", "a", " ">>,
                 <<"a", "|", "b", "|", "a">>, <<"a", "a", "a", "a">>,
                 <<"b", "a", "b", "a", " ", "a">>,
                 <<" ", "b", " ", " ", "a", " ", "b", " ">>,
                 <<"b", " ", "a", " ", " ", "b", "|", "b">>}
=============================================================================
