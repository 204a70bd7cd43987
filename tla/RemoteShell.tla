---------------------------- MODULE RemoteShell ----------------------------
(***************************************************************************)
(* The remote shell of src/6-RShell/starter: rsh_server.c serves one       *)
(* client at a time, rsh_cli.c sends one command line at a time and prints *)
(* what comes back until a chunk ends with the EOF character.  The two are *)
(* joined by TCP connections, two byte streams whose reader may find any   *)
(* prefix of what was written.                                             *)
(*                                                                         *)
(* Bytes are abstracted to tokens.  A command line is its name, repeated   *)
(* to its length, and a NUL; a reply is made of "text" and "EOF" tokens.   *)
(***************************************************************************)
EXTENDS Integers, Sequences, FiniteSets

CONSTANTS Clients,
          Cmds,             \* the command lines users type
          Outputs,          \* what a program may print: sequences of tokens
          MaxCmds,          \* bound: command lines typed per client
          BUFF_SZ,          \* RDSH_COMM_BUFF_SZ, in tokens
          BACKLOG,          \* connections listen() lets wait
          Kills,            \* may clients be killed?
          SysFaults         \* may malloc(), pipe() and accept() fail?

VARIABLES server,           \* the server process
          prog,             \* the pipeline it runs for the client
          backlog,          \* connections that wait for accept()
          client,           \* the client processes
          conn              \* the connections

vars == <<server, prog, backlog, client, conn>>

\* " exit" stands for a line that is a built-in only after the parser has
\* trimmed it, " " for blanks, "bad" for a line the parser refuses, "long" for
\* a built-in on the longest line fgets() returns, "run" for any program, "cat"
\* for a pipeline whose first program reads its standard input.
AllCmds == {"exit", "stop-server", " exit", " stop-server", " ", "bad", "cd",
            "long", "run", "cat"}
Tokens == {"text", "EOF"}

ASSUME CmdsAssumption   == Cmds \subseteq AllCmds
ASSUME OutputAssumption == Outputs \subseteq Seq(Tokens) /\ Outputs # {}
ASSUME BoundAssumption  == /\ MaxCmds \in Nat
                           /\ BUFF_SZ \in Nat /\ BUFF_SZ > 2
                           /\ BACKLOG \in Nat
ASSUME FaultAssumption  == Kills \in BOOLEAN /\ SysFaults \in BOOLEAN
----------------------------------------------------------------------------
(* Command lines. *)

NUL == "NUL"

Body(cmd) == [i \in 1 .. (IF cmd = "long" THEN BUFF_SZ - 1 ELSE 1) |-> cmd]
Line(cmd) == Append(Body(cmd), NUL)

Contains(s, token) == \E i \in 1 .. Len(s) : s[i] = token

\* io_buff as a C string: what precedes the first NUL.
CString(s) ==
    IF Contains(s, NUL)
    THEN SubSeq(s, 1, (CHOOSE i \in 1 .. Len(s) :
                          s[i] = NUL /\ \A j \in 1 .. i - 1 : s[j] # NUL) - 1)
    ELSE s

\* The command the server takes a string for; half of a line is some program.
Meaning(line) == IF line = <<>> THEN " "
                 ELSE IF line = Body(line[1]) THEN line[1] ELSE "run"

ExitCmds == {"exit", " exit"}
StopCmds == {"stop-server", " stop-server"}
Programs == {"run", "cat"}

\* Mutants: a message sent after its EOF; a message without EOF.
ReplySwapped(cmd) == IF cmd \in Programs \cup {"cd", "long"}
                     THEN <<"EOF">> ELSE <<"EOF", "text">>
ReplyUnfinished(cmd) == IF cmd \in Programs \cup {"cd", "long"}
                        THEN <<"EOF">> ELSE <<"text">>

\* What the server sends once the command is done, one send() per token:
\* send_message_string() or, for built-ins and programs, send_message_eof().
Reply(cmd) == IF cmd \in Programs \cup {"cd", "long"}
              THEN <<"EOF">> ELSE <<"text", "EOF">>

\* Mutant: exit returns OK_EXIT.
AfterExitStops(cmd) == IF cmd \in StopCmds \cup ExitCmds THEN "stop"
                       ELSE IF cmd \in Programs THEN "close" ELSE "recv"

\* What exec_client_requests() does after the reply.  A pipeline ends the
\* session: the function returns at the end of the loop's body.
After(cmd) == IF cmd \in StopCmds THEN "stop"
              ELSE IF cmd \in ExitCmds \cup Programs THEN "close" ELSE "recv"
----------------------------------------------------------------------------
(* Processes and connections. *)

ServerPcs == {"accept", "recv", "send", "wait", "close", "down"}
ClientPcs == {"start", "prompt", "await", "final", "done"}

NoOne == "none"

ASSUME ClientAssumption == NoOne \notin Clients

\* The client's end of a connection is open while its process runs.
Open(c) == client[c].pc \in {"prompt", "await", "final"}
Up      == server.pc # "down"

Init ==
    /\ server = [pc |-> "accept", cli |-> NoOne, buf |-> <<>>,
                 pending |-> <<>>, after |-> "recv"]
    /\ prog = [out |-> <<>>, reads |-> FALSE]
    /\ backlog = <<>>
    /\ client = [c \in Clients |-> [pc |-> "start", sent |-> <<>>]]
    /\ conn = [c \in Clients |->
                 [c2s |-> <<>>, s2c |-> <<>>, srv |-> "none", reset |-> FALSE]]

\* The sizes recv() can return for a stream and a buffer with `room' left.
Chunks(stream, room) == 1 .. (IF Len(stream) < room THEN Len(stream) ELSE room)
Drop(stream, n) == SubSeq(stream, n + 1, Len(stream))

\* Mutant: recv() returning 0 is not taken for the end.
GoneOnErrorOnly(c) == conn[c].reset

\* What recv() finds when a client's stream is empty: 0 or an error.
Gone(c) == ~Open(c) \/ conn[c].reset
----------------------------------------------------------------------------
(* The client: exec_remote_cmd_loop(). *)

\* close(): if the server's bytes were not all read, the peer gets a reset.
CloseClient(c) ==
    /\ client' = [client EXCEPT ![c].pc = "done"]
    /\ conn' = [conn EXCEPT ![c].reset = @ \/ conn[c].s2c # <<>>,
                            ![c].s2c = <<>>]

\* start_client()
Connect(c) ==
    /\ client[c].pc = "start"
    /\ IF Up
       THEN /\ Len(backlog) < BACKLOG
            /\ backlog' = Append(backlog, c)
            /\ client' = [client EXCEPT ![c].pc = "prompt"]
            /\ conn' = [conn EXCEPT ![c].srv = "queued"]
       ELSE /\ client' = [client EXCEPT ![c].pc = "done"]
            /\ UNCHANGED <<backlog, conn>>
    /\ UNCHANGED <<server, prog>>

\* The user types a command line and the client sends it.  The bytes sent to
\* a server that has closed are lost and answered by a reset; on a connection
\* that has been reset, send() fails.
Type(c) ==
    /\ client[c].pc = "prompt"
    /\ Len(client[c].sent) < MaxCmds
    /\ \E cmd \in Cmds :
         IF conn[c].reset
         THEN CloseClient(c)
         ELSE /\ client' = [client EXCEPT
                    ![c].sent = Append(@, cmd),
                    ![c].pc = IF cmd \in {"exit", "stop-server"}
                              THEN "final" ELSE "await"]
              /\ conn' = IF conn[c].srv = "closed"
                         THEN [conn EXCEPT ![c].reset = TRUE]
                         ELSE [conn EXCEPT ![c].c2s = @ \o Line(cmd)]
    /\ UNCHANGED <<server, prog, backlog>>

\* fgets() returns NULL.
EndInput(c) ==
    /\ client[c].pc = "prompt"
    /\ CloseClient(c)
    /\ UNCHANGED <<server, prog, backlog>>

\* One chunk of the reply: the last one if its last byte is EOF.
IsEof(chunk) == chunk[Len(chunk)] = "EOF"

ClientRecv(c) ==
    /\ client[c].pc = "await"
    /\ \E n \in Chunks(conn[c].s2c, BUFF_SZ - 1) :
         /\ conn' = [conn EXCEPT ![c].s2c = Drop(@, n)]
         /\ client' = [client EXCEPT ![c].pc =
                IF IsEof(SubSeq(conn[c].s2c, 1, n)) THEN "prompt" ELSE "await"]
    /\ UNCHANGED <<server, prog, backlog>>

\* recv() returns 0 or an error: the server is gone.
ClientRecvEnd(c) ==
    /\ client[c].pc = "await"
    /\ conn[c].reset \/ (conn[c].srv = "closed" /\ conn[c].s2c = <<>>)
    /\ CloseClient(c)
    /\ UNCHANGED <<server, prog, backlog>>

\* After exit and stop-server: one recv(), whatever it returns.
ClientFinal(c) ==
    /\ client[c].pc = "final"
    /\ \/ \E n \in Chunks(conn[c].s2c, BUFF_SZ - 1) :
            /\ client' = [client EXCEPT ![c].pc = "done"]
            /\ conn' = [conn EXCEPT
                          ![c].reset = @ \/ n < Len(conn[c].s2c),
                          ![c].s2c = <<>>]
       \/ /\ conn[c].reset \/ (conn[c].srv = "closed" /\ conn[c].s2c = <<>>)
          /\ CloseClient(c)
    /\ UNCHANGED <<server, prog, backlog>>

Kill(c) ==
    /\ Kills /\ Open(c)
    /\ CloseClient(c)
    /\ UNCHANGED <<server, prog, backlog>>
----------------------------------------------------------------------------
(* The server: process_cli_requests() and exec_client_requests(). *)

cli == server.cli

\* The server's process ends: the kernel closes its sockets, the listening
\* one with the connections that wait on it.
GoDown ==
    /\ server' = [server EXCEPT !.pc = "down", !.cli = NoOne, !.buf = <<>>,
                                !.pending = <<>>]
    /\ conn' = [c \in Clients |->
          CASE conn[c].srv = "queued" ->
                  [conn[c] EXCEPT !.srv = "closed", !.reset = TRUE,
                                  !.c2s = <<>>]
            [] conn[c].srv = "open" ->
                  [conn[c] EXCEPT !.srv = "closed", !.c2s = <<>>,
                                  !.reset = @ \/ conn[c].c2s # <<>>]
            [] OTHER -> conn[c]]
    /\ backlog' = <<>>
    /\ prog' = [out |-> <<>>, reads |-> FALSE]

\* accept(), then malloc() of io_buff, which ends the session if it fails.
Accept ==
    /\ server.pc = "accept"
    /\ backlog # <<>>
    /\ backlog' = Tail(backlog)
    /\ conn' = [conn EXCEPT ![Head(backlog)].srv = "open"]
    /\ \E failed \in (IF SysFaults THEN BOOLEAN ELSE {FALSE}) :
         server' = [server EXCEPT !.cli = Head(backlog), !.after = "close",
                                  !.pc = IF failed THEN "close" ELSE "recv"]
    /\ UNCHANGED <<prog, client>>

\* accept() fails: process_cli_requests() gives up, and start_server() closes the
\* listener.
AcceptFails ==
    /\ SysFaults
    /\ server.pc = "accept"
    /\ GoDown
    /\ UNCHANGED client

\* One recv() into io_buff.  The command is complete when the chunk holds a
\* NUL (what follows it in the chunk is dropped) or io_buff is full.
ServerRecv ==
    /\ server.pc = "recv"
    /\ \E n \in Chunks(conn[cli].c2s, BUFF_SZ - 1 - Len(server.buf)) :
         LET chunk == SubSeq(conn[cli].c2s, 1, n)
             buf   == server.buf \o chunk
             cmd   == Meaning(CString(buf))
         IN  /\ conn' = [conn EXCEPT ![cli].c2s = Drop(@, n)]
             /\ IF ~Contains(chunk, NUL) /\ Len(buf) < BUFF_SZ - 1
                THEN /\ server' = [server EXCEPT !.buf = buf]
                     /\ UNCHANGED prog
                ELSE /\ server' = [server EXCEPT
                           !.buf = <<>>, !.pending = Reply(cmd),
                           !.after = After(cmd),
                           !.pc = IF cmd \in Programs THEN "wait" ELSE "send"]
                     /\ IF cmd = "run"
                        THEN \E out \in Outputs :
                                prog' = [out |-> out, reads |-> FALSE]
                        ELSE prog' = [out |-> <<>>, reads |-> cmd = "cat"]
    /\ UNCHANGED <<backlog, client>>

\* recv() returns 0 or an error: the client is gone.
ServerRecvEnd ==
    /\ server.pc = "recv"
    /\ conn[cli].c2s = <<>>
    /\ Gone(cli)
    /\ server' = [server EXCEPT !.pc = "close", !.buf = <<>>, !.after = "close"]
    /\ UNCHANGED <<prog, backlog, client, conn>>

\* The effect of sending a token to the client: bytes sent to a client that
\* has closed are lost, and provoke a reset sooner or later.
Deliver(token) ==
    IF Open(cli)
    THEN conn' = [conn EXCEPT ![cli].s2c = Append(@, token)]
    ELSE \E reset \in BOOLEAN : conn' = [conn EXCEPT ![cli].reset = reset]

\* Mutant: the loop's exits are confused with its labels.
RestAfter(pending) ==
    server' = [server EXCEPT !.pending = pending,
                  !.pc = IF pending # <<>> THEN "send" ELSE server.after]

Rest(pending) ==
    server' = [server EXCEPT !.pending = pending,
                  !.pc = IF pending # <<>> THEN "send"
                         ELSE IF server.after = "recv" THEN "recv" ELSE "close"]

ServerSend ==
    /\ server.pc = "send"
    /\ ~conn[cli].reset
    /\ Deliver(Head(server.pending))
    /\ Rest(Tail(server.pending))
    /\ UNCHANGED <<prog, backlog, client>>

\* send() on a connection that has been reset fails, and nobody looks at the
\* error; or it raises SIGPIPE, which nobody catches.
ServerSendFails ==
    /\ server.pc = "send" /\ conn[cli].reset
    /\ Rest(<<>>)
    /\ UNCHANGED <<prog, backlog, client, conn>>

ServerSigpipe ==
    /\ server.pc = "send" /\ conn[cli].reset
    /\ GoDown
    /\ UNCHANGED client

\* rsh_execute_pipeline(): its programs have the connection as their input
\* and output; pipe() failing makes the server exit.
PipeFails ==
    /\ SysFaults
    /\ server.pc = "wait"
    /\ GoDown
    /\ UNCHANGED client

ProgWrite ==
    /\ server.pc = "wait" /\ prog.out # <<>>
    /\ IF conn[cli].reset
       THEN prog' = [out |-> <<>>, reads |-> FALSE] /\ UNCHANGED conn
       ELSE prog' = [prog EXCEPT !.out = Tail(@)] /\ Deliver(Head(prog.out))
    /\ UNCHANGED <<server, backlog, client>>

ProgRead ==
    /\ server.pc = "wait" /\ prog.reads /\ prog.out = <<>>
    /\ IF conn[cli].c2s # <<>>
       THEN /\ conn' = [conn EXCEPT ![cli].c2s = <<>>]
            /\ prog' = [prog EXCEPT !.out = <<"text">>]
       ELSE /\ Gone(cli)
            /\ prog' = [prog EXCEPT !.reads = FALSE]
            /\ UNCHANGED conn
    /\ UNCHANGED <<server, backlog, client>>

\* waitpid() has returned for every program.
ProgExit ==
    /\ server.pc = "wait" /\ prog.out = <<>> /\ ~prog.reads
    /\ server' = [server EXCEPT !.pc = "send"]
    /\ UNCHANGED <<prog, backlog, client, conn>>

\* Mutant: the session's socket is never closed.
HangupForgotten(c) == [conn EXCEPT ![c].c2s = <<>>]

Hangup(c) == [conn EXCEPT ![c].srv = "closed", ![c].c2s = <<>>,
                          ![c].reset = @ \/ conn[c].c2s # <<>>]

\* close(cli_socket): a client whose bytes were not all read gets a reset.
\* After stop-server the loop ends and start_server() closes the listener.
ServerClose ==
    /\ server.pc = "close"
    /\ IF server.after = "stop"
       THEN GoDown
       ELSE /\ conn' = Hangup(cli)
            /\ server' = [server EXCEPT !.pc = "accept", !.cli = NoOne]
            /\ UNCHANGED <<prog, backlog>>
    /\ UNCHANGED client
----------------------------------------------------------------------------
(* The specification. *)

ServerStep == \/ Accept \/ ServerRecv \/ ServerRecvEnd \/ ServerSend
              \/ ServerSendFails \/ ServerSigpipe \/ ServerClose
ProgStep   == ProgWrite \/ ProgRead \/ ProgExit
ClientStep(c) == Connect(c) \/ ClientRecv(c) \/ ClientRecvEnd(c) \/ ClientFinal(c)
UserStep(c)   == Type(c) \/ EndInput(c)

Next == \/ ServerStep \/ ProgStep \/ AcceptFails \/ PipeFails
        \/ \E c \in Clients : ClientStep(c) \/ UserStep(c) \/ Kill(c)

\* Processes that can run do, programs end, and users do not leave their
\* client at the prompt for ever.
Fairness == /\ WF_vars(ServerStep) /\ WF_vars(ProgStep)
            /\ \A c \in Clients : WF_vars(ClientStep(c)) /\ WF_vars(UserStep(c))

Spec == Init /\ [][Next]_vars
FairSpec == Spec /\ Fairness
----------------------------------------------------------------------------
(* Properties. *)

TypeOK ==
    /\ server \in [pc : ServerPcs, cli : Clients \cup {NoOne},
                   buf : Seq(AllCmds \cup {NUL}), pending : Seq(Tokens),
                   after : {"recv", "close", "stop"}]
    /\ Len(server.buf) < BUFF_SZ
    /\ prog \in [out : Seq(Tokens), reads : BOOLEAN]
    /\ backlog \in Seq(Clients)
    /\ client \in [Clients -> [pc : ClientPcs, sent : Seq(Cmds)]]
    /\ conn \in [Clients -> [c2s : Seq(AllCmds \cup {NUL}), s2c : Seq(Tokens),
                             srv : {"none", "queued", "open", "closed"},
                             reset : BOOLEAN]]

\* When the client prompts for the next command, the previous one is over:
\* nothing of it is left in either stream, in io_buff, or still to be sent.
\* (Not when a program prints the EOF character, and not after a line that
\* fills io_buff: its NUL is then received as a command of its own.)
InSync ==
    \A c \in Clients :
        (client[c].pc = "prompt" /\ ~conn[c].reset) =>
            /\ conn[c].c2s = <<>> /\ conn[c].s2c = <<>>
            /\ cli = c => /\ server.pc \in {"recv", "close"}
                          /\ server.buf = <<>> /\ server.pending = <<>>

\* The server holds a connection open only while it serves it, and serves
\* only the connection it accepted last: no session leaks a descriptor.
NoLeakedSession ==
    \A c \in Clients :
        /\ conn[c].srv = "open" <=> cli = c
        /\ conn[c].srv = "queued" <=> Contains(backlog, c)

\* The server ends only after some user has asked it to stop.
Asked(c, cmds) == \E i \in 1 .. Len(client[c].sent) : client[c].sent[i] \in cmds
StopsOnlyOnRequest == ~Up => \E c \in Clients : Asked(c, StopCmds)

\* Every client that connects is served in the end, and every command is
\* answered or ends the session: no client waits for ever.
EveryoneLeaves == \A c \in Clients : <>(client[c].pc = "done")

\* A client that goes away, even in the middle of a command, does not keep
\* the server from its next client.
Reaped == \A c \in Clients : (~Open(c)) ~> (cli # c)
=============================================================================
