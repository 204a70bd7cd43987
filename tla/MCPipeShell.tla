---------------------------- MODULE MCPipeShell ----------------------------
(* The constants of PipeShell for TLC. *)
EXTENDS PipeShell

\* Built-ins alone and in a pipeline, blanks, a line that is too long, readers
\* that stop early, programs that fail or do not exist at either end.
MCLines == {<<Blank>>, <<"rc">>, <<"exit">>, <<"gen">>, <<"missing">>,
            <<"cat", "false">>, <<"gen", Blank, "cat">>, <<"exit", "cat">>,
            <<"gen", "head">>, <<"gen", "cat", "head">>,
            <<"gen", "cat", "false">>, <<"gen", "cat", "missing">>,
            <<"missing", "gen", "head">>, <<"head", "cat", "cat">>,
            <<"gen", "cat", "cat", "head">>}
=============================================================================
