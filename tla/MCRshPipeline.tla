--------------------------- MODULE MCRshPipeline ---------------------------
(* The constants of RshPipeline for TLC. *)
EXTENDS RshPipeline

\* Programs that are missing, fail or ask to stop at either end, readers that
\* stop early, and programs that read the socket.
MCRequests == {<<"gen">>, <<"missing">>, <<"cat">>, <<"rc">>,
               <<"gen", "cat">>, <<"gen", "missing">>, <<"missing", "cat">>,
               <<"quit", "gen">>, <<"gen", "quit">>, <<"cat", "gen">>,
               <<"gen", "cat", "head">>, <<"gen", "head", "cat">>,
               <<"gen", "cat", "false">>, <<"head", "cat", "cat">>}
=============================================================================
