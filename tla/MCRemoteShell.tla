--------------------------- MODULE MCRemoteShell ---------------------------
(* The constants of RemoteShell for TLC. *)
EXTENDS RemoteShell

MCOutputs   == {<<>>, <<"text", "text">>}
MCShortCmds == AllCmds \ {"long", "cat"}
MCKillCmds  == {"cd", "long", "run", "cat", "exit"}
MCBlankCmds == {" "}
=============================================================================
