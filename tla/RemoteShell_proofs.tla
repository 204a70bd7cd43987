------------------------- MODULE RemoteShell_proofs -------------------------
(***************************************************************************)
(* Proofs about RemoteShell, for any number of clients, any commands and   *)
(* program outputs, any buffer and backlog, with or without faults: first  *)
(* sessions and replies, then that client and server keep in step, and     *)
(* that the server ends only when it is asked to.                          *)
(***************************************************************************)
EXTENDS RemoteShell, TLAPS

Bytes == AllCmds \cup {NUL}

\* The server has a client between accept() and close(), and no other time.
Serving == cli = NoOne <=> server.pc \in {"accept", "down"}

\* A reply is still to be sent while a program runs and while sending.
Replying == server.pc \in {"send", "wait"} => server.pending # <<>>

\* A connection waits once, and a client that has none has not got one.
Waiting == /\ \A i, j \in 1 .. Len(backlog) : backlog[i] = backlog[j] => i = j
           /\ \A c \in Clients : client[c].pc = "start" => conn[c].srv = "none"

SessionInv == Serving /\ Waiting /\ NoLeakedSession
----------------------------------------------------------------------------
(* Values. *)

LEMMA DropType ==
    ASSUME NEW S, NEW stream \in Seq(S), NEW room \in Int,
           NEW n \in Chunks(stream, room)
    PROVE  /\ Drop(stream, n) \in Seq(S)
           /\ SubSeq(stream, 1, n) \in Seq(S)
           /\ Len(SubSeq(stream, 1, n)) = n
           /\ n \in Nat /\ 1 <= n /\ n <= Len(stream) /\ n <= room
  <1>1. n \in Nat /\ 1 <= n /\ n <= Len(stream) /\ n <= room
    BY DEF Chunks
  <1>2. \A i \in 1 .. Len(stream) : stream[i] \in S
    OBVIOUS
  <1>3. SubSeq(stream, 1, n) \in Seq(S) /\ Len(SubSeq(stream, 1, n)) = n
    BY <1>1, <1>2
  <1>4. Drop(stream, n) \in Seq(S)
    BY <1>1, <1>2 DEF Drop
  <1> QED BY <1>1, <1>3, <1>4

LEMMA LineType ==
    ASSUME NEW cmd \in Cmds
    PROVE  Line(cmd) \in Seq(Bytes)
  <1> DEFINE n == IF cmd = "long" THEN BUFF_SZ - 1 ELSE 1
  <1>1. n \in Nat
    BY BoundAssumption
  <1>2. Body(cmd) = [i \in 1 .. n |-> cmd]
    BY DEF Body
  <1>3. cmd \in Bytes /\ NUL \in Bytes
    BY CmdsAssumption DEF Bytes
  <1> HIDE DEF n
  <1>4. Body(cmd) \in Seq(Bytes)
    BY <1>1, <1>2, <1>3
  <1> QED BY <1>3, <1>4 DEF Line

LEMMA ReplyType ==
    ASSUME NEW cmd
    PROVE  /\ Reply(cmd) \in Seq(Tokens) /\ Reply(cmd) # <<>>
           /\ After(cmd) \in {"recv", "close", "stop"}
  <1>1. <<"EOF">> \in Seq(Tokens) /\ <<"EOF">> # <<>>
    BY DEF Tokens
  <1>2. <<"text", "EOF">> \in Seq(Tokens) /\ <<"text", "EOF">> # <<>>
    BY DEF Tokens
  <1>3. Reply(cmd) = <<"EOF">> \/ Reply(cmd) = <<"text", "EOF">>
    BY DEF Reply
  <1>4. After(cmd) \in {"recv", "close", "stop"}
    BY DEF After
  <1> QED BY <1>1, <1>2, <1>3, <1>4

LEMMA PopType ==
    ASSUME NEW S, NEW s \in Seq(S), s # <<>>
    PROVE  Head(s) \in S /\ Tail(s) \in Seq(S)
  OBVIOUS
----------------------------------------------------------------------------
(* Types. *)

Connection == [c2s : Seq(Bytes), s2c : Seq(Tokens),
               srv : {"none", "queued", "open", "closed"}, reset : BOOLEAN]
ClientType == [pc : ClientPcs, sent : Seq(Cmds)]
ServerType == [pc : ServerPcs, cli : Clients \cup {NoOne}, buf : Seq(Bytes),
               pending : Seq(Tokens), after : {"recv", "close", "stop"}]
ProgType   == [out : Seq(Tokens), reads : BOOLEAN]

Types == /\ server \in ServerType /\ Len(server.buf) < BUFF_SZ
         /\ prog \in ProgType
         /\ backlog \in Seq(Clients)
         /\ client \in [Clients -> ClientType]
         /\ conn \in [Clients -> Connection]

LEMMA TypesAreTypeOK == Types <=> TypeOK
  BY DEF Types, TypeOK, Connection, ClientType, ServerType, ProgType, Bytes

LEMMA CloseClientTypes ==
    ASSUME Types, NEW c \in Clients, CloseClient(c)
    PROVE  /\ client' \in [Clients -> ClientType]
           /\ conn' \in [Clients -> Connection]
  <1>1. <<>> \in Seq(Tokens)
    OBVIOUS
  <1>2. client' \in [Clients -> ClientType]
    BY DEF Types, CloseClient, ClientType, ClientPcs
  <1>3. conn' \in [Clients -> Connection]
    <2>1. PICK reset \in BOOLEAN :
            conn' = [conn EXCEPT ![c].reset = reset, ![c].s2c = <<>>]
      BY DEF CloseClient
    <2> QED BY <1>1, <2>1 DEF Types, Connection
  <1> QED BY <1>2, <1>3

LEMMA GoDownTypes ==
    ASSUME Types, GoDown
    PROVE  /\ server' \in ServerType /\ Len(server'.buf) < BUFF_SZ
           /\ prog' \in ProgType /\ backlog' \in Seq(Clients)
           /\ conn' \in [Clients -> Connection]
  <1>0. <<>> \in Seq(Bytes) /\ <<>> \in Seq(Tokens) /\ <<>> \in Seq(Clients)
    OBVIOUS
  <1>1. Len(<<>>) < BUFF_SZ
    BY BoundAssumption
  <1>2. server' \in ServerType /\ server'.buf = <<>>
    BY <1>0 DEF Types, GoDown, ServerType, ServerPcs
  <1>3. prog' \in ProgType /\ backlog' \in Seq(Clients)
    BY <1>0 DEF GoDown, ProgType
  <1>4. conn' \in [Clients -> Connection]
    <2> SUFFICES ASSUME NEW c \in Clients
                 PROVE  conn'[c] \in Connection
      BY DEF GoDown
    <2>1. conn[c] \in Connection /\ <<>> \in Seq(Bytes)
      BY DEF Types
    <2>2. CASE conn[c].srv = "queued"
      <3>1. conn'[c] = [conn[c] EXCEPT !.srv = "closed", !.reset = TRUE,
                                       !.c2s = <<>>]
        BY <2>2 DEF GoDown
      <3> QED BY <2>1, <3>1 DEF Connection
    <2>3. CASE conn[c].srv = "open"
      <3>1. conn'[c] = [conn[c] EXCEPT !.srv = "closed", !.c2s = <<>>,
                                       !.reset = @ \/ conn[c].c2s # <<>>]
        BY <2>3 DEF GoDown
      <3> QED BY <2>1, <3>1 DEF Connection
    <2>4. CASE conn[c].srv \notin {"queued", "open"}
      <3>1. conn'[c] = conn[c]
        BY <2>4 DEF GoDown
      <3> QED BY <2>1, <3>1
    <2> QED BY <2>2, <2>3, <2>4
  <1> QED BY <1>1, <1>2, <1>3, <1>4

LEMMA DeliverTypes ==
    ASSUME Types, cli \in Clients, NEW token \in Tokens, Deliver(token)
    PROVE  conn' \in [Clients -> Connection]
  <1>1. Append(conn[cli].s2c, token) \in Seq(Tokens)
    BY DEF Types, Connection
  <1> QED BY <1>1, ZenonT(40) DEF Types, Deliver, Connection

LEMMA RestTypes ==
    ASSUME Types, NEW pending \in Seq(Tokens), Rest(pending)
    PROVE  /\ server' \in ServerType /\ Len(server'.buf) < BUFF_SZ
           /\ Replying'
  BY DEF Types, Rest, ServerType, ServerPcs, Replying

LEMMA ClientTypes ==
    ASSUME Types, NEW c \in Clients, ClientStep(c) \/ UserStep(c) \/ Kill(c)
    PROVE  Types'
  <1>0. <<>> \in Seq(Tokens)
    OBVIOUS
  <1>1. CASE Connect(c)
    <2>1. backlog' \in Seq(Clients)
      <3>1. backlog' = Append(backlog, c) \/ backlog' = backlog
        BY <1>1 DEF Connect
      <3>2. backlog \in Seq(Clients)
        BY DEF Types
      <3>3. Append(backlog, c) \in Seq(Clients)
        BY <3>2
      <3> QED BY <3>1, <3>2, <3>3
    <2>2. \/ /\ client' = [client EXCEPT ![c].pc = "prompt"]
             /\ conn' = [conn EXCEPT ![c].srv = "queued"]
          \/ /\ client' = [client EXCEPT ![c].pc = "done"]
             /\ conn' = conn
      BY <1>1 DEF Connect
    <2>3. client' \in [Clients -> ClientType]
      BY <2>2 DEF Types, ClientType, ClientPcs
    <2>4. conn' \in [Clients -> Connection]
      BY <2>2, ZenonT(40) DEF Types, Connection
    <2> QED BY <1>1, <2>1, <2>3, <2>4 DEF Connect, Types
  <1>2. CASE Type(c)
    <2>1. PICK cmd \in Cmds :
            IF conn[c].reset
            THEN CloseClient(c)
            ELSE /\ client' = [client EXCEPT
                       ![c].sent = Append(@, cmd),
                       ![c].pc = IF cmd \in {"exit", "stop-server"}
                                 THEN "final" ELSE "await"]
                 /\ conn' = IF conn[c].srv = "closed"
                            THEN [conn EXCEPT ![c].reset = TRUE]
                            ELSE [conn EXCEPT ![c].c2s = @ \o Line(cmd)]
      BY <1>2 DEF Type
    <2>2. conn[c].c2s \o Line(cmd) \in Seq(Bytes)
      BY LineType DEF Types, Connection
    <2>3. Append(client[c].sent, cmd) \in Seq(Cmds)
      BY DEF Types, ClientType
    <2>4. client' \in [Clients -> ClientType] /\ conn' \in [Clients -> Connection]
      <3>1. CASE conn[c].reset
        BY <2>1, <3>1, CloseClientTypes
      <3>2. CASE ~conn[c].reset
        <4> DEFINE pc   == IF cmd \in {"exit", "stop-server"}
                           THEN "final" ELSE "await"
                   sent == Append(client[c].sent, cmd)
                   c2s  == conn[c].c2s \o Line(cmd)
        <4>1. /\ client' = [client EXCEPT ![c].sent = sent, ![c].pc = pc]
              /\ \/ conn' = [conn EXCEPT ![c].reset = TRUE]
                 \/ conn' = [conn EXCEPT ![c].c2s = c2s]
          BY <2>1, <3>2 DEF Types
        <4>2. pc \in ClientPcs /\ sent \in Seq(Cmds) /\ c2s \in Seq(Bytes)
          BY <2>2, <2>3 DEF ClientPcs
        <4> HIDE DEF pc, sent, c2s
        <4> QED BY <4>1, <4>2, ZenonT(40) DEF Types, ClientType, Connection
      <3> QED BY <3>1, <3>2
    <2> QED BY <1>2, <2>4 DEF Type, Types
  <1>3. CASE EndInput(c) \/ ClientRecvEnd(c) \/ Kill(c)
    BY <1>3, CloseClientTypes DEF EndInput, ClientRecvEnd, Kill, Types
  <1>4. CASE ClientRecv(c)
    <2>1. PICK n \in Chunks(conn[c].s2c, BUFF_SZ - 1) :
            /\ conn' = [conn EXCEPT ![c].s2c = Drop(@, n)]
            /\ client' = [client EXCEPT ![c].pc =
                  IF IsEof(SubSeq(conn[c].s2c, 1, n)) THEN "prompt" ELSE "await"]
      BY <1>4 DEF ClientRecv
    <2>2. Drop(conn[c].s2c, n) \in Seq(Tokens)
      BY DropType, BoundAssumption DEF Types, Connection
    <2>3. conn' \in [Clients -> Connection]
      BY <2>1, <2>2 DEF Types, Connection
    <2>4. client' \in [Clients -> ClientType]
      BY <2>1 DEF Types, ClientType, ClientPcs
    <2> QED BY <1>4, <2>3, <2>4 DEF ClientRecv, Types
  <1>5. CASE ClientFinal(c)
    <2>1. CASE CloseClient(c)
      BY <1>5, <2>1, CloseClientTypes DEF ClientFinal, Types
    <2>2. CASE \E n \in Chunks(conn[c].s2c, BUFF_SZ - 1) :
                 /\ client' = [client EXCEPT ![c].pc = "done"]
                 /\ conn' = [conn EXCEPT ![c].reset = @ \/ n < Len(conn[c].s2c),
                                         ![c].s2c = <<>>]
      <3>1. client' \in [Clients -> ClientType]
        <4>1. client' = [client EXCEPT ![c].pc = "done"]
          BY <2>2
        <4> QED BY <4>1 DEF Types, ClientType, ClientPcs
      <3>2. conn' \in [Clients -> Connection]
        <4>1. PICK reset \in BOOLEAN :
                conn' = [conn EXCEPT ![c].reset = reset, ![c].s2c = <<>>]
          BY <2>2 DEF Types
        <4> QED BY <1>0, <4>1 DEF Types, Connection
      <3> QED BY <1>5, <3>1, <3>2 DEF ClientFinal, Types
    <2> QED BY <1>5, <2>1, <2>2 DEF ClientFinal
  <1> QED BY <1>1, <1>2, <1>3, <1>4, <1>5 DEF ClientStep, UserStep

LEMMA ServerTypes ==
    ASSUME Types, Replying, Serving, ServerStep \/ ProgStep \/ AcceptFails \/ PipeFails
    PROVE  Types' /\ Replying'
  <1>0. /\ <<>> \in Seq(Tokens) /\ <<>> \in Seq(Bytes)
        /\ Len(<<>>) < BUFF_SZ
    BY BoundAssumption
  <1>1. server.pc \notin {"accept", "down"} => cli \in Clients
    BY DEF Serving, Types, ServerType, cli
  <1>2. CASE Accept
    <2>1. Head(backlog) \in Clients /\ Tail(backlog) \in Seq(Clients)
      BY <1>2, PopType DEF Accept, Types
    <2>2. server' \in ServerType /\ server'.buf = server.buf /\ Replying'
      BY <1>2, <2>1 DEF Accept, Types, ServerType, ServerPcs, Replying
    <2>3. conn' \in [Clients -> Connection]
      BY <1>2, <2>1 DEF Accept, Types, Connection
    <2> QED BY <1>2, <2>1, <2>2, <2>3 DEF Accept, Types
  <1>3. CASE ServerRecv
    <2> DEFINE room == BUFF_SZ - 1 - Len(server.buf)
    <2>1. cli \in Clients /\ server.pc = "recv"
      BY <1>1, <1>3 DEF ServerRecv
    <2>2. PICK n \in Chunks(conn[cli].c2s, room) :
            LET chunk == SubSeq(conn[cli].c2s, 1, n)
                buf   == server.buf \o chunk
                cmd   == Meaning(CString(buf))
            IN  /\ conn' = [conn EXCEPT ![cli].c2s = Drop(@, n)]
                /\ IF ~Contains(chunk, NUL) /\ Len(buf) < BUFF_SZ - 1
                   THEN /\ server' = [server EXCEPT !.buf = buf]
                        /\ UNCHANGED prog
                   ELSE /\ server' = [server EXCEPT
                              !.buf = <<>>, !.pending = Reply(cmd),
                              !.after = After(cmd),
                              !.pc = IF cmd \in Programs THEN "wait" ELSE "send"]
                        /\ IF cmd = "run"
                           THEN \E out \in Outputs :
                                   prog' = [out |-> out, reads |-> FALSE]
                           ELSE prog' = [out |-> <<>>, reads |-> cmd = "cat"]
      BY <1>3 DEF ServerRecv
    <2> DEFINE chunk == SubSeq(conn[cli].c2s, 1, n)
               buf   == server.buf \o chunk
               cmd   == Meaning(CString(buf))
    <2>3. Len(server.buf) \in Nat /\ room \in Int
      BY BoundAssumption DEF Types, ServerType
    <2>4. Drop(conn[cli].c2s, n) \in Seq(Bytes) /\ chunk \in Seq(Bytes)
      BY <2>1, <2>3, DropType DEF Types, Connection
    <2>5. buf \in Seq(Bytes)
      BY <2>4 DEF Types, ServerType
    <2>6. conn' \in [Clients -> Connection]
      BY <2>1, <2>2, <2>4 DEF Types, Connection
    <2>7. CASE ~Contains(chunk, NUL) /\ Len(buf) < BUFF_SZ - 1
      <3>1. server' = [server EXCEPT !.buf = buf] /\ prog' = prog
        BY <2>2, <2>7
      <3> HIDE DEF buf
      <3>2. server' \in ServerType /\ server'.buf = buf /\ Replying'
        BY <2>5, <3>1 DEF Types, ServerType, Replying
      <3>3. Len(server'.buf) < BUFF_SZ
        BY <2>5, <2>7, <3>2, BoundAssumption
      <3> QED BY <1>3, <2>6, <3>1, <3>2, <3>3 DEF ServerRecv, Types
    <2>8. CASE ~(~Contains(chunk, NUL) /\ Len(buf) < BUFF_SZ - 1)
      <3>1. /\ server' = [server EXCEPT
                 !.buf = <<>>, !.pending = Reply(cmd), !.after = After(cmd),
                 !.pc = IF cmd \in Programs THEN "wait" ELSE "send"]
            /\ IF cmd = "run"
               THEN \E out \in Outputs : prog' = [out |-> out, reads |-> FALSE]
               ELSE prog' = [out |-> <<>>, reads |-> cmd = "cat"]
        BY <2>2, <2>8
      <3> HIDE DEF cmd
      <3>2. server' \in ServerType /\ server'.buf = <<>> /\ Replying'
        BY <1>0, <3>1, ReplyType DEF Types, ServerType, ServerPcs, Replying
      <3>3. prog' \in ProgType
        <4>1. PICK reads \in BOOLEAN, out \in Seq(Tokens) :
                prog' = [out |-> out, reads |-> reads]
          <5>1. CASE cmd = "run"
            BY <3>1, <5>1, OutputAssumption
          <5>2. CASE cmd # "run"
            BY <1>0, <3>1, <5>2
          <5> QED BY <5>1, <5>2
        <4> QED BY <4>1 DEF ProgType
      <3> QED BY <1>0, <1>3, <2>6, <3>2, <3>3 DEF ServerRecv, Types
    <2> QED BY <2>7, <2>8
  <1>4. CASE ServerRecvEnd
    BY <1>0, <1>4 DEF ServerRecvEnd, Types, ServerType, ServerPcs, Replying
  <1>5. CASE ServerSend
    <2>1. cli \in Clients /\ server.pending # <<>> /\ server.pending \in Seq(Tokens)
      BY <1>1, <1>5 DEF ServerSend, Replying, Types, ServerType
    <2>2. Head(server.pending) \in Tokens /\ Tail(server.pending) \in Seq(Tokens)
      BY <2>1, PopType
    <2>3. conn' \in [Clients -> Connection]
      BY <1>5, <2>1, <2>2, DeliverTypes DEF ServerSend
    <2>4. server' \in ServerType /\ Len(server'.buf) < BUFF_SZ /\ Replying'
      BY <1>5, <2>2, RestTypes DEF ServerSend
    <2> QED BY <1>5, <2>3, <2>4 DEF ServerSend, Types
  <1>6. CASE ServerSendFails
    <2>1. server' \in ServerType /\ Len(server'.buf) < BUFF_SZ /\ Replying'
      BY <1>0, <1>6, RestTypes DEF ServerSendFails
    <2> QED BY <1>6, <2>1 DEF ServerSendFails, Types
  <1>7. CASE GoDown /\ UNCHANGED client
    <2>1. server'.pc = "down"
      BY <1>7 DEF GoDown, Types, ServerType
    <2> QED BY <1>7, <2>1, GoDownTypes DEF Types, Replying
  <1>8. CASE ServerClose /\ server.after # "stop"
    <2>1. cli \in Clients /\ server' = [server EXCEPT !.pc = "accept", !.cli = NoOne]
      BY <1>1, <1>8 DEF ServerClose
    <2>2. conn' \in [Clients -> Connection]
      <3>1. PICK reset \in BOOLEAN :
              conn' = [conn EXCEPT ![cli].srv = "closed", ![cli].c2s = <<>>,
                                   ![cli].reset = reset]
        BY <1>8, <2>1 DEF ServerClose, Hangup, Types
      <3> QED BY <1>0, <2>1, <3>1, ZenonT(40) DEF Types, Connection
    <2>3. server' \in ServerType /\ server'.buf = server.buf /\ Replying'
      BY <2>1 DEF Types, ServerType, ServerPcs, Replying
    <2> QED BY <1>8, <2>2, <2>3 DEF ServerClose, Types
  <1>9. CASE ProgWrite
    <2>1. cli \in Clients /\ prog.out # <<>> /\ prog.out \in Seq(Tokens)
      BY <1>1, <1>9 DEF ProgWrite, Types, ProgType
    <2>2. Head(prog.out) \in Tokens /\ Tail(prog.out) \in Seq(Tokens)
      BY <2>1, PopType
    <2>3. prog' \in ProgType
      <3>1. CASE conn[cli].reset
        <4>1. prog' = [out |-> <<>>, reads |-> FALSE]
          BY <1>9, <3>1 DEF ProgWrite
        <4> QED BY <1>0, <4>1 DEF ProgType
      <3>2. CASE ~conn[cli].reset
        <4>1. prog' = [prog EXCEPT !.out = Tail(prog.out)]
          BY <1>9, <3>2 DEF ProgWrite
        <4> QED BY <2>2, <4>1 DEF Types, ProgType
      <3> QED BY <3>1, <3>2
    <2>4. conn' \in [Clients -> Connection]
      <3>1. CASE conn[cli].reset
        BY <1>9, <3>1 DEF ProgWrite, Types
      <3>2. CASE ~conn[cli].reset
        BY <1>9, <2>1, <2>2, <3>2, DeliverTypes DEF ProgWrite
      <3> QED BY <3>1, <3>2
    <2> QED BY <1>9, <2>3, <2>4 DEF ProgWrite, Types, Replying
  <1>10. CASE ProgRead
    <2>1. cli \in Clients
      BY <1>1, <1>10 DEF ProgRead
    <2>2. <<"text">> \in Seq(Tokens)
      BY DEF Tokens
    <2>3. prog' \in ProgType
      BY <1>10, <2>2 DEF ProgRead, Types, ProgType
    <2>4. conn' \in [Clients -> Connection]
      BY <1>0, <1>10, <2>1, ZenonT(40) DEF ProgRead, Types, Connection
    <2> QED BY <1>10, <2>3, <2>4 DEF ProgRead, Types, Replying
  <1>11. CASE ProgExit
    BY <1>11 DEF ProgExit, Types, ServerType, ServerPcs, Replying
  <1> QED BY <1>2, <1>3, <1>4, <1>5, <1>6, <1>7, <1>8, <1>9, <1>10, <1>11
          DEF ServerStep, ProgStep, AcceptFails, PipeFails, ServerSigpipe, ServerClose
----------------------------------------------------------------------------
(* Sessions. *)

\* What the session invariant sees of a process and of a connection.
Idle == server.pc \in {"accept", "down"}

LEMMA SameSession ==
    ASSUME SessionInv,
           server'.cli = server.cli, Idle' <=> Idle, backlog' = backlog,
           \A c \in Clients : /\ conn'[c].srv = conn[c].srv
                              /\ client'[c].pc = "start" => client[c].pc = "start"
    PROVE  SessionInv'
  <1>1. Serving'
    BY DEF SessionInv, Serving, Idle, cli
  <1>2. Waiting'
    BY DEF SessionInv, Waiting
  <1>3. NoLeakedSession'
    BY DEF SessionInv, NoLeakedSession, Contains, cli
  <1> QED BY <1>1, <1>2, <1>3 DEF SessionInv

LEMMA SessionValues ==
    ASSUME Types, SessionInv
    PROVE  /\ cli \in Clients <=> ~Idle
           /\ Idle <=> cli = NoOne
           /\ server \in ServerType
           /\ \A c \in Clients : conn[c] \in Connection /\ client[c] \in ClientType
  <1>1. Idle <=> cli = NoOne
    BY DEF SessionInv, Serving, Idle
  <1>2. cli \in Clients \cup {NoOne}
    BY DEF Types, ServerType, cli
  <1>3. \A c \in Clients : conn[c] \in Connection /\ client[c] \in ClientType
    BY DEF Types
  <1> QED BY <1>1, <1>2, <1>3, ClientAssumption DEF Types

LEMMA CloseClientSame ==
    ASSUME Types, NEW c \in Clients, CloseClient(c)
    PROVE  \A d \in Clients : /\ conn'[d].srv = conn[d].srv
                              /\ client'[d].pc = "start" => client[d].pc = "start"
  <1> SUFFICES ASSUME NEW d \in Clients
               PROVE  /\ conn'[d].srv = conn[d].srv
                      /\ client'[d].pc = "start" => client[d].pc = "start"
    OBVIOUS
  <1>1. conn[d] \in Connection /\ client[d] \in ClientType
    BY DEF Types
  <1>2. conn'[d].srv = conn[d].srv
    BY <1>1 DEF Types, CloseClient, Connection
  <1>3. client'[d].pc = "start" => client[d].pc = "start"
    BY <1>1 DEF Types, CloseClient, ClientType
  <1> QED BY <1>2, <1>3

LEMMA DeliverSame ==
    ASSUME Types, cli \in Clients, NEW token, Deliver(token)
    PROVE  \A d \in Clients : conn'[d].srv = conn[d].srv
  <1>1. conn \in [Clients -> Connection]
    BY DEF Types
  <1>2. CASE Open(cli)
    <2>1. conn' = [conn EXCEPT ![cli].s2c = Append(conn[cli].s2c, token)]
      BY <1>2 DEF Deliver
    <2> QED BY <1>1, <2>1 DEF Connection
  <1>3. CASE ~Open(cli)
    BY <1>1, <1>3 DEF Deliver, Connection
  <1> QED BY <1>2, <1>3

\* A client joins the queue, and no other of its moves is seen.
LEMMA ConnectSession ==
    ASSUME Types, SessionInv, NEW c \in Clients, Connect(c)
    PROVE  SessionInv'
  <1>0. /\ client[c].pc = "start" /\ conn[c].srv = "none"
        /\ server' = server /\ cli' = cli
    BY DEF Connect, SessionInv, Waiting, cli
  <1>1. CASE Up
    <2>1. /\ backlog' = Append(backlog, c) /\ backlog \in Seq(Clients)
          /\ client' = [client EXCEPT ![c].pc = "prompt"]
          /\ conn' = [conn EXCEPT ![c].srv = "queued"]
      BY <1>1 DEF Connect, Types
    <2>2. ~Contains(backlog, c) /\ cli # c
      BY <1>0 DEF SessionInv, NoLeakedSession
    <2>3. /\ conn'[c].srv = "queued" /\ client'[c].pc = "prompt"
          /\ \A d \in Clients \ {c} : conn'[d] = conn[d] /\ client'[d] = client[d]
      BY <2>1 DEF Types, Connection, ClientType
    <2>4. \A d \in Clients : Contains(backlog', d) <=> Contains(backlog, d) \/ d = c
      BY <2>1 DEF Contains
    <2>5. Serving'
      BY <1>0 DEF SessionInv, Serving
    <2>6. Waiting'
      <3>1. \A i, j \in 1 .. Len(backlog') : backlog'[i] = backlog'[j] => i = j
        BY <2>1, <2>2 DEF SessionInv, Waiting, Contains
      <3>2. \A d \in Clients : client'[d].pc = "start" => conn'[d].srv = "none"
        BY <2>3 DEF SessionInv, Waiting
      <3> QED BY <3>1, <3>2 DEF Waiting
    <2>7. NoLeakedSession'
      BY <1>0, <2>2, <2>3, <2>4 DEF SessionInv, NoLeakedSession
    <2> QED BY <2>5, <2>6, <2>7 DEF SessionInv
  <1>2. CASE ~Up
    <2>1. /\ backlog' = backlog /\ conn' = conn
          /\ client' = [client EXCEPT ![c].pc = "done"]
      BY <1>2 DEF Connect
    <2>2. \A d \in Clients : client'[d].pc = "start" => client[d].pc = "start"
      BY <2>1 DEF Types, ClientType
    <2> QED BY <1>0, <2>1, <2>2, SameSession DEF Idle
  <1> QED BY <1>1, <1>2

LEMMA ClientSession ==
    ASSUME Types, SessionInv, NEW c \in Clients,
           ClientStep(c) \/ UserStep(c) \/ Kill(c)
    PROVE  SessionInv'
  <1>1. CASE Connect(c)
    BY <1>1, ConnectSession
  <1>2. CASE ~Connect(c)
    <2>1. server' = server /\ backlog' = backlog
      BY <1>2 DEF ClientStep, UserStep, ClientRecv, ClientRecvEnd, ClientFinal,
                  Type, EndInput, Kill
    <2>2. \A d \in Clients : /\ conn'[d].srv = conn[d].srv
                             /\ client'[d].pc = "start" => client[d].pc = "start"
      <3>0. conn \in [Clients -> Connection] /\ client \in [Clients -> ClientType]
        BY DEF Types
      <3>1. CASE CloseClient(c)
        BY <3>1, CloseClientSame
      <3>2. CASE Type(c) /\ ~CloseClient(c)
        <4>1. PICK cmd \in Cmds :
                /\ client' = [client EXCEPT
                       ![c].sent = Append(@, cmd),
                       ![c].pc = IF cmd \in {"exit", "stop-server"}
                                 THEN "final" ELSE "await"]
                /\ \/ conn' = [conn EXCEPT ![c].reset = TRUE]
                   \/ conn' = [conn EXCEPT ![c].c2s = @ \o Line(cmd)]
          BY <3>2 DEF Type
        <4>2. \A d \in Clients : conn'[d].srv = conn[d].srv
          <5> DEFINE c2s == conn[c].c2s \o Line(cmd)
          <5>1. \/ conn' = [conn EXCEPT ![c].reset = TRUE]
                \/ conn' = [conn EXCEPT ![c].c2s = c2s]
            BY <4>1
          <5> HIDE DEF c2s
          <5>2. CASE conn' = [conn EXCEPT ![c].reset = TRUE]
            BY <3>0, <5>2 DEF Connection
          <5>3. CASE conn' = [conn EXCEPT ![c].c2s = c2s]
            BY <3>0, <5>3 DEF Connection
          <5> QED BY <5>1, <5>2, <5>3
        <4>3. \A d \in Clients \ {c} : client'[d] = client[d]
          BY <3>0, <4>1
        <4>4. client'[c].pc # "start"
          BY <3>0, <4>1 DEF ClientType
        <4> QED BY <4>2, <4>3, <4>4
      <3>3. CASE ClientRecv(c)
        BY <3>0, <3>3 DEF ClientRecv, Connection, ClientType
      <3>4. CASE ClientFinal(c) /\ ~CloseClient(c)
        <4>1. PICK n \in Chunks(conn[c].s2c, BUFF_SZ - 1) :
                /\ client' = [client EXCEPT ![c].pc = "done"]
                /\ conn' = [conn EXCEPT
                              ![c].reset = @ \/ n < Len(conn[c].s2c),
                              ![c].s2c = <<>>]
          BY <3>4 DEF ClientFinal
        <4>2. PICK reset :
                conn' = [conn EXCEPT ![c].reset = reset, ![c].s2c = <<>>]
          BY <4>1
        <4>3. \A d \in Clients : conn'[d].srv = conn[d].srv
          BY <3>0, <4>2 DEF Connection
        <4>4. \A d \in Clients : client'[d].pc = "start" => client[d].pc = "start"
          BY <3>0, <4>1 DEF ClientType
        <4> QED BY <4>3, <4>4
      <3> QED BY <1>2, <3>1, <3>2, <3>3, <3>4
              DEF ClientStep, UserStep, ClientRecvEnd, EndInput, Kill
    <2> QED BY <2>1, <2>2, SameSession DEF Idle
  <1> QED BY <1>1, <1>2

\* accept(): the oldest waiting connection becomes the one that is served.
LEMMA AcceptSession ==
    ASSUME Types, SessionInv, Accept
    PROVE  SessionInv'
  <1> DEFINE h == Head(backlog)
  <1>1. /\ backlog \in Seq(Clients) /\ backlog # <<>>
        /\ h \in Clients /\ h = backlog[1]
        /\ backlog' = Tail(backlog) /\ cli' = h
    BY DEF Accept, Types, ServerType, cli
  <1>2. server'.pc \notin {"accept", "down"} /\ cli = NoOne
    BY SessionValues DEF Accept, Types, ServerType, Idle
  <1>3. conn[h].srv = "queued"
    BY <1>1 DEF SessionInv, NoLeakedSession, Contains
  <1>4. /\ conn'[h].srv = "open"
        /\ \A d \in Clients \ {h} : conn'[d] = conn[d]
    BY <1>1 DEF Accept, Types, Connection
  <1>5. \A i, j \in 1 .. Len(backlog) : backlog[i] = backlog[j] => i = j
    BY DEF SessionInv, Waiting
  <1>6. /\ Len(backlog') = Len(backlog) - 1
        /\ \A i \in 1 .. Len(backlog') : backlog'[i] = backlog[i + 1]
    BY <1>1
  <1>7. \A d \in Clients : Contains(backlog', d) <=> Contains(backlog, d) /\ d # h
    <2> SUFFICES ASSUME NEW d \in Clients
                 PROVE  Contains(backlog', d) <=> Contains(backlog, d) /\ d # h
      OBVIOUS
    <2>1. ASSUME Contains(backlog', d)
          PROVE  Contains(backlog, d) /\ d # h
      <3>1. PICK i \in 1 .. Len(backlog') : backlog[i + 1] = d
        BY <1>6, <2>1 DEF Contains
      <3>2. i + 1 \in 1 .. Len(backlog) /\ i + 1 # 1
        BY <1>1, <1>6
      <3> QED BY <1>1, <1>5, <3>1, <3>2 DEF Contains
    <2>2. ASSUME Contains(backlog, d), d # h
          PROVE  Contains(backlog', d)
      <3>1. PICK i \in 1 .. Len(backlog) : backlog[i] = d
        BY <2>2 DEF Contains
      <3>2. i - 1 \in 1 .. Len(backlog')
        BY <1>1, <1>6, <2>2, <3>1
      <3>3. backlog'[i - 1] = d
        BY <1>6, <3>1, <3>2
      <3> QED BY <3>2, <3>3 DEF Contains
    <2> QED BY <2>1, <2>2
  <1>8. Serving'
    BY <1>1, <1>2, ClientAssumption DEF Serving
  <1>9. Waiting'
    <2>1. \A i, j \in 1 .. Len(backlog') : backlog'[i] = backlog'[j] => i = j
      BY <1>1, <1>5, <1>6
    <2>2. \A c \in Clients : client'[c].pc = "start" => conn'[c].srv = "none"
      BY <1>1, <1>3, <1>4 DEF Accept, SessionInv, Waiting
    <2> QED BY <2>1, <2>2 DEF Waiting
  <1>10. NoLeakedSession'
    <2> SUFFICES ASSUME NEW c \in Clients
                 PROVE  /\ conn'[c].srv = "open" <=> cli' = c
                        /\ conn'[c].srv = "queued" <=> Contains(backlog', c)
      BY DEF NoLeakedSession
    <2>1. conn[c].srv # "open"
      BY <1>2, ClientAssumption DEF SessionInv, NoLeakedSession
    <2>2. conn[c].srv = "queued" <=> Contains(backlog, c)
      BY DEF SessionInv, NoLeakedSession
    <2> QED BY <1>1, <1>4, <1>7, <2>1, <2>2
  <1> QED BY <1>8, <1>9, <1>10 DEF SessionInv

\* The server's process ends: no connection is open or waits any more.
LEMMA GoDownSession ==
    ASSUME Types, SessionInv, GoDown, UNCHANGED client
    PROVE  SessionInv'
  <1>1. server'.pc = "down" /\ cli' = NoOne /\ backlog' = <<>>
    BY DEF GoDown, Types, ServerType, cli
  <1>2. \A c \in Clients : /\ conn'[c].srv \notin {"open", "queued"}
                           /\ conn[c].srv = "none" => conn'[c].srv = "none"
    <2> SUFFICES ASSUME NEW c \in Clients
                 PROVE  /\ conn'[c].srv \notin {"open", "queued"}
                        /\ conn[c].srv = "none" => conn'[c].srv = "none"
      OBVIOUS
    <2>1. conn[c] \in Connection
      BY DEF Types
    <2>2. CASE conn[c].srv \in {"queued", "open"}
      <3>1. PICK reset :
              conn'[c] = [conn[c] EXCEPT !.srv = "closed", !.c2s = <<>>,
                                         !.reset = reset]
        BY <2>1, <2>2 DEF GoDown, Connection
      <3> QED BY <2>1, <2>2, <3>1 DEF Connection
    <2>3. CASE conn[c].srv \notin {"queued", "open"}
      <3>1. conn'[c] = conn[c]
        BY <2>3 DEF GoDown
      <3> QED BY <2>3, <3>1
    <2> QED BY <2>2, <2>3
  <1>3. Serving'
    BY <1>1 DEF Serving
  <1>4. Waiting'
    BY <1>1, <1>2 DEF SessionInv, Waiting
  <1>5. NoLeakedSession'
    BY <1>1, <1>2, ClientAssumption DEF NoLeakedSession, Contains
  <1> QED BY <1>3, <1>4, <1>5 DEF SessionInv

\* close(cli_socket): the connection that was served is open no more.
LEMMA HangupSession ==
    ASSUME Types, SessionInv, ServerClose, server.after # "stop"
    PROVE  SessionInv'
  <1>1. /\ cli \in Clients /\ backlog' = backlog /\ client' = client
        /\ server' = [server EXCEPT !.pc = "accept", !.cli = NoOne]
    BY SessionValues DEF ServerClose, Idle
  <1>2. server'.pc = "accept" /\ cli' = NoOne
    BY <1>1 DEF Types, ServerType, cli
  <1>3. PICK reset :
          conn' = [conn EXCEPT ![cli].srv = "closed", ![cli].c2s = <<>>,
                               ![cli].reset = reset]
    BY <1>1 DEF ServerClose, Hangup
  <1>4. /\ conn'[cli].srv = "closed" /\ conn[cli].srv = "open"
        /\ \A d \in Clients \ {cli} : conn'[d] = conn[d]
    BY <1>1, <1>3 DEF Types, Connection, SessionInv, NoLeakedSession
  <1>5. Serving'
    BY <1>2 DEF Serving
  <1>6. Waiting'
    BY <1>1, <1>4 DEF SessionInv, Waiting
  <1>7. NoLeakedSession'
    <2> SUFFICES ASSUME NEW c \in Clients
                 PROVE  /\ conn'[c].srv = "open" <=> cli' = c
                        /\ conn'[c].srv = "queued" <=> Contains(backlog', c)
      BY DEF NoLeakedSession
    <2>1. /\ conn[c].srv = "open" <=> cli = c
          /\ conn[c].srv = "queued" <=> Contains(backlog, c)
      BY DEF SessionInv, NoLeakedSession
    <2> QED BY <1>1, <1>2, <1>4, <2>1, ClientAssumption
  <1> QED BY <1>5, <1>6, <1>7 DEF SessionInv

LEMMA ServerSession ==
    ASSUME Types, SessionInv, ServerStep \/ ProgStep \/ AcceptFails \/ PipeFails
    PROVE  SessionInv'
  <1>0. /\ conn \in [Clients -> Connection] /\ server \in ServerType
        /\ ~Idle => cli \in Clients
    BY SessionValues DEF Types
  <1> DEFINE Same == \A d \in Clients : conn'[d].srv = conn[d].srv
  <1>1. CASE ServerRecv
    <2>1. cli \in Clients /\ ~Idle
      BY <1>0, <1>1 DEF ServerRecv, Idle
    <2>2. PICK n : conn' = [conn EXCEPT ![cli].c2s = Drop(conn[cli].c2s, n)]
      BY <1>1 DEF ServerRecv
    <2>3. Same
      BY <1>0, <2>1, <2>2 DEF Connection
    <2>4. server'.cli = server.cli /\ server'.pc \in {"recv", "wait", "send"}
      BY <1>0, <1>1 DEF ServerRecv, ServerType
    <2> QED BY <1>1, <2>1, <2>3, <2>4, SameSession DEF ServerRecv, Idle
  <1>2. CASE ServerRecvEnd
    BY <1>0, <1>2, SameSession DEF ServerRecvEnd, Idle, ServerType
  <1>3. CASE ServerSend
    <2>1. Same
      BY <1>0, <1>3, DeliverSame DEF ServerSend, Idle
    <2>2. server'.cli = server.cli /\ server'.pc \in {"recv", "close", "send"}
      BY <1>0, <1>3 DEF ServerSend, Rest, ServerType
    <2> QED BY <1>3, <2>1, <2>2, SameSession DEF ServerSend, Idle
  <1>4. CASE ServerSendFails
    <2>1. server'.cli = server.cli /\ server'.pc \in {"recv", "close", "send"}
      BY <1>0, <1>4 DEF ServerSendFails, Rest, ServerType
    <2> QED BY <1>4, <2>1, SameSession DEF ServerSendFails, Idle
  <1>5. CASE ProgWrite
    <2>1. Same
      <3>1. CASE conn[cli].reset
        BY <1>5, <3>1 DEF ProgWrite
      <3>2. CASE ~conn[cli].reset
        BY <1>0, <1>5, <3>2, DeliverSame DEF ProgWrite, Idle
      <3> QED BY <3>1, <3>2
    <2> QED BY <1>5, <2>1, SameSession DEF ProgWrite, Idle
  <1>6. CASE ProgRead
    <2>1. Same
      <3>1. CASE conn[cli].c2s # <<>>
        <4>1. conn' = [conn EXCEPT ![cli].c2s = <<>>] /\ cli \in Clients
          BY <1>0, <1>6, <3>1 DEF ProgRead, Idle
        <4> QED BY <1>0, <4>1 DEF Connection
      <3>2. CASE conn[cli].c2s = <<>>
        BY <1>6, <3>2 DEF ProgRead
      <3> QED BY <3>1, <3>2
    <2> QED BY <1>6, <2>1, SameSession DEF ProgRead, Idle
  <1>7. CASE ProgExit
    BY <1>0, <1>7, SameSession DEF ProgExit, Idle, ServerType
  <1> QED BY <1>1, <1>2, <1>3, <1>4, <1>5, <1>6, <1>7,
             AcceptSession, GoDownSession, HangupSession
          DEF ServerStep, ProgStep, AcceptFails, PipeFails, ServerSigpipe, ServerClose
----------------------------------------------------------------------------
(* Theorems. *)

RshInv == Types /\ Replying /\ SessionInv

LEMMA InitRshInv == Init => RshInv
  <1> SUFFICES ASSUME Init PROVE RshInv
    OBVIOUS
  <1>1. /\ <<>> \in Seq(Bytes) /\ <<>> \in Seq(Tokens) /\ <<>> \in Seq(Clients)
        /\ <<>> \in Seq(Cmds) /\ Len(<<>>) = 0
    OBVIOUS
  <1>2. server \in ServerType /\ Len(server.buf) < BUFF_SZ
    BY <1>1, BoundAssumption DEF Init, ServerType, ServerPcs
  <1>3. prog \in ProgType /\ backlog \in Seq(Clients)
    BY <1>1 DEF Init, ProgType
  <1>4. client \in [Clients -> ClientType] /\ conn \in [Clients -> Connection]
    BY <1>1 DEF Init, ClientType, ClientPcs, Connection
  <1>5. Replying
    BY DEF Init, Replying
  <1>6. Serving /\ Waiting
    BY DEF Init, Serving, Waiting, cli
  <1>7. NoLeakedSession
    BY ClientAssumption DEF Init, NoLeakedSession, Contains, cli
  <1> QED BY <1>2, <1>3, <1>4, <1>5, <1>6, <1>7 DEF RshInv, Types, SessionInv

LEMMA NextRshInv == RshInv /\ [Next]_vars => RshInv'
  <1> SUFFICES ASSUME RshInv, [Next]_vars PROVE RshInv'
    OBVIOUS
  <1>1. CASE ServerStep \/ ProgStep \/ AcceptFails \/ PipeFails
    BY <1>1, ServerTypes, ServerSession DEF RshInv, SessionInv
  <1>2. ASSUME NEW c \in Clients, ClientStep(c) \/ UserStep(c) \/ Kill(c)
        PROVE  RshInv'
    <2>1. server' = server
      BY <1>2 DEF ClientStep, UserStep, Connect, ClientRecv, ClientRecvEnd,
                  ClientFinal, Type, EndInput, Kill
    <2> QED BY <1>2, <2>1, ClientTypes, ClientSession DEF RshInv, Replying
  <1>3. CASE UNCHANGED vars
    BY <1>3 DEF vars, RshInv, Types, Replying, SessionInv, Serving, Waiting,
                NoLeakedSession, Contains, cli
  <1> QED BY <1>1, <1>2, <1>3 DEF Next

LEMMA RshInvariant == Spec => []RshInv
  BY InitRshInv, NextRshInv, PTL DEF Spec

\* Every state of the server, the programs, the queue, the clients and the
\* connections is one the code can make sense of: no command overflows
\* io_buff, and the session's fields are those of a client.
THEOREM TypeCorrect == Spec => []TypeOK
  <1>1. RshInv => TypeOK
    BY TypesAreTypeOK DEF RshInv
  <1> QED BY <1>1, RshInvariant, PTL

\* process_cli_requests() closes every connection it accepts before it accepts
\* another, on every path out of exec_client_requests().
THEOREM NoLeak == Spec => []NoLeakedSession
  <1>1. RshInv => NoLeakedSession
    BY DEF RshInv, SessionInv
  <1> QED BY <1>1, RshInvariant, PTL
----------------------------------------------------------------------------
(* Where a command is. *)

\* What InSync's comment rules out: a line that fills io_buff, and a program
\* that prints the EOF character.
ShortLines   == "long" \notin Cmds
NoEofPrinted == \A out \in Outputs : ~Contains(out, "EOF")

\* A stream that ends a reply, and one that does not.
OneEof(s) == s # <<>> /\ \A i \in 1 .. Len(s) : s[i] = "EOF" <=> i = Len(s)
NoEof(s)  == \A i \in 1 .. Len(s) : s[i] # "EOF"

LastOf(s) == s[Len(s)]

AtRest  == server.pc \in {"recv", "close"} /\ server.buf = <<>>
Left(c) == IF cli = c THEN server.buf \o conn[c].c2s ELSE conn[c].c2s

\* No command is on its way; one is, not yet received in full; it is run or
\* its reply is being sent; the reply has been sent; the server has hung up.
Quiet(c)      == /\ conn[c].c2s = <<>> /\ conn[c].s2c = <<>>
                 /\ cli = c => AtRest
Unanswered(c) == /\ conn[c].c2s # <<>> /\ conn[c].s2c = <<>>
                 /\ cli = c => server.pc \in {"recv", "close"}
                 /\ client[c].sent # <<>>
                 /\ Left(c) = Line(LastOf(client[c].sent))
Answering(c)  == /\ cli = c /\ server.pc \in {"send", "wait"}
                 /\ conn[c].c2s = <<>> /\ NoEof(conn[c].s2c)
Answered(c)   == /\ conn[c].c2s = <<>> /\ OneEof(conn[c].s2c)
                 /\ cli = c => AtRest
Abandoned(c)  == conn[c].srv = "closed" /\ NoEof(conn[c].s2c)

Synced(c) ==
    /\ client[c].pc = "start" => conn[c].c2s = <<>> /\ conn[c].s2c = <<>>
    /\ (client[c].pc = "prompt" /\ ~conn[c].reset) => Quiet(c)
    /\ (client[c].pc \in {"await", "final"} /\ ~conn[c].reset) =>
          Unanswered(c) \/ Answering(c) \/ Answered(c) \/ Abandoned(c)

\* io_buff is in use while a command is received, and a reply ends in EOF.
Buffers == /\ server.pc # "recv" => server.buf = <<>>
           /\ IF server.pc \in {"send", "wait"}
              THEN OneEof(server.pending) ELSE server.pending = <<>>
           /\ NoEof(prog.out)

SyncInv == Buffers /\ \A c \in Clients : Synced(c)
----------------------------------------------------------------------------
(* Streams and lines. *)

LEMMA Joined ==
    ASSUME NEW S, NEW s \in Seq(S), NEW t \in Seq(S)
    PROVE  /\ s \o t \in Seq(S) /\ Len(s \o t) = Len(s) + Len(t)
           /\ \A i \in 1 .. Len(s) : (s \o t)[i] = s[i]
           /\ \A i \in 1 .. Len(t) : (s \o t)[Len(s) + i] = t[i]
           /\ t = <<>> => s \o t = s
  <1>1. /\ s \o t \in Seq(S) /\ Len(s \o t) = Len(s) + Len(t)
        /\ \A i \in 1 .. Len(s) : (s \o t)[i] = s[i]
    OBVIOUS
  <1>2. \A i \in 1 .. Len(t) : (s \o t)[Len(s) + i] = t[i]
    OBVIOUS
  <1>3. t = <<>> => s \o t = s
    OBVIOUS
  <1> QED BY <1>1, <1>2, <1>3

LEMMA EofSent ==
    ASSUME NEW s \in Seq(Tokens), OneEof(s)
    PROVE  /\ Head(s) \in Tokens /\ Tail(s) \in Seq(Tokens)
           /\ Head(s) = "EOF" <=> Tail(s) = <<>>
           /\ Tail(s) # <<>> => OneEof(Tail(s))
  <1>1. s # <<>> /\ Len(s) \in Nat /\ Len(s) > 0
    BY DEF OneEof
  <1> DEFINE t == Tail(s)
  <1>2. /\ t \in Seq(Tokens) /\ Len(t) = Len(s) - 1
        /\ \A i \in 1 .. Len(s) - 1 : t[i] = s[i + 1]
        /\ Head(s) = s[1] /\ Head(s) \in Tokens
    <2>1. t \in Seq(Tokens) /\ Len(t) = Len(s) - 1
      BY <1>1
    <2>2. \A i \in 1 .. Len(s) - 1 : t[i] = s[i + 1]
      BY <1>1
    <2>3. Head(s) = s[1] /\ Head(s) \in Tokens
      BY <1>1
    <2> QED BY <2>1, <2>2, <2>3
  <1> HIDE DEF t
  <1>3. t = <<>> <=> Len(s) = 1
    BY <1>1, <1>2
  <1>4. \A i \in 1 .. Len(s) : s[i] = "EOF" <=> i = Len(s)
    BY DEF OneEof
  <1>5. Head(s) = "EOF" <=> t = <<>>
    BY <1>1, <1>2, <1>3, <1>4
  <1>6. ASSUME t # <<>>
        PROVE  OneEof(t)
    <2>1. \A i \in 1 .. Len(t) : t[i] = "EOF" <=> i = Len(t)
      BY <1>1, <1>2, <1>4
    <2> QED BY <1>6, <2>1 DEF OneEof
  <1> QED BY <1>2, <1>5, <1>6 DEF t

LEMMA EofAppended ==
    ASSUME NEW s \in Seq(Tokens), NoEof(s), NEW token \in Tokens
    PROVE  IF token = "EOF" THEN OneEof(Append(s, token))
                            ELSE NoEof(Append(s, token))
  <1>1. /\ Len(Append(s, token)) = Len(s) + 1 /\ Len(s) \in Nat
        /\ \A i \in 1 .. Len(s) : Append(s, token)[i] = s[i]
        /\ Append(s, token)[Len(s) + 1] = token
        /\ Append(s, token) # <<>>
    OBVIOUS
  <1> DEFINE t == Append(s, token)
  <1>2. /\ Len(t) = Len(s) + 1 /\ Len(s) \in Nat /\ t # <<>>
        /\ \A i \in 1 .. Len(s) : t[i] = s[i]
        /\ t[Len(s) + 1] = token
    BY <1>1
  <1> HIDE DEF t
  <1>3. \A i \in 1 .. Len(s) : t[i] # "EOF"
    BY <1>2 DEF NoEof
  <1>4. IF token = "EOF" THEN OneEof(t) ELSE NoEof(t)
    BY <1>2, <1>3 DEF OneEof, NoEof
  <1> QED BY <1>4 DEF t

LEMMA EofReceived ==
    ASSUME NEW s \in Seq(Tokens), NEW room \in Int, NEW n \in Chunks(s, room)
    PROVE  /\ NoEof(s) => /\ ~IsEof(SubSeq(s, 1, n))
                          /\ NoEof(Drop(s, n))
           /\ OneEof(s) => IF IsEof(SubSeq(s, 1, n)) THEN Drop(s, n) = <<>>
                                                     ELSE OneEof(Drop(s, n))
  <1>1. /\ n \in Nat /\ 1 <= n /\ n <= Len(s) /\ Len(s) \in Nat
        /\ Len(SubSeq(s, 1, n)) = n
    BY DropType
  <1>2. SubSeq(s, 1, n)[n] = s[n]
    BY <1>1
  <1>3. IsEof(SubSeq(s, 1, n)) <=> s[n] = "EOF"
    BY <1>1, <1>2 DEF IsEof
  <1>4. /\ Len(Drop(s, n)) = Len(s) - n
        /\ \A i \in 1 .. Len(s) - n : Drop(s, n)[i] = s[i + n]
        /\ Drop(s, n) \in Seq(Tokens)
    <2>1. /\ SubSeq(s, n + 1, Len(s)) \in Seq(Tokens)
          /\ Len(SubSeq(s, n + 1, Len(s))) = Len(s) - n
      BY <1>1, DropType DEF Drop
    <2>2. \A i \in 1 .. Len(s) - n : SubSeq(s, n + 1, Len(s))[i] = s[i + n]
      BY <1>1
    <2> QED BY <2>1, <2>2 DEF Drop
  <1>5. ASSUME NoEof(s)
        PROVE  ~IsEof(SubSeq(s, 1, n)) /\ NoEof(Drop(s, n))
    BY <1>1, <1>3, <1>4, <1>5 DEF NoEof
  <1>6. ASSUME OneEof(s)
        PROVE  IF IsEof(SubSeq(s, 1, n)) THEN Drop(s, n) = <<>>
                                         ELSE OneEof(Drop(s, n))
    <2>1. IsEof(SubSeq(s, 1, n)) <=> n = Len(s)
      BY <1>1, <1>3, <1>6 DEF OneEof
    <2>2. n = Len(s) => Drop(s, n) = <<>>
      BY <1>1, <1>4
    <2>3. ASSUME n # Len(s)
          PROVE  OneEof(Drop(s, n))
      <3>1. \A i \in 1 .. Len(Drop(s, n)) :
              Drop(s, n)[i] = "EOF" <=> i = Len(Drop(s, n))
        BY <1>1, <1>4, <1>6 DEF OneEof
      <3>2. Drop(s, n) # <<>>
        BY <1>1, <1>4, <2>3
      <3> QED BY <3>1, <3>2 DEF OneEof
    <2> QED BY <2>1, <2>2, <2>3
  <1> QED BY <1>5, <1>6

LEMMA EofReplied ==
    ASSUME NEW cmd
    PROVE  OneEof(Reply(cmd))
  <1>1. OneEof(<<"EOF">>)
    BY DEF OneEof
  <1>2. OneEof(<<"text", "EOF">>)
    BY DEF OneEof
  <1> QED BY <1>1, <1>2 DEF Reply

LEMMA LineIs ==
    ASSUME ShortLines, NEW cmd \in Cmds
    PROVE  Line(cmd) = <<cmd, NUL>> /\ Body(cmd) = <<cmd>> /\ cmd # NUL
  <1>1. cmd # "long"
    BY DEF ShortLines
  <1>2. Body(cmd) = <<cmd>>
    BY <1>1 DEF Body
  <1>3. cmd # NUL
    BY CmdsAssumption, Zenon DEF AllCmds, NUL
  <1>4. Line(cmd) = <<cmd, NUL>>
    <2>1. Line(cmd) = Append(<<cmd>>, NUL)
      BY <1>2, Zenon DEF Line
    <2>2. ASSUME NEW a, NEW b
          PROVE  Append(<<a>>, b) = <<a, b>>
      <3>1. <<a>> \in Seq({a, b}) /\ <<a, b>> \in Seq({a, b})
        OBVIOUS
      <3>2. Append(<<a>>, b) \in Seq({a, b}) /\ Len(Append(<<a>>, b)) = 2
        BY <3>1
      <3>3. Append(<<a>>, b)[1] = a /\ Append(<<a>>, b)[2] = b
        BY <3>1
      <3>4. \A t \in Seq({a, b}) : Len(t) = 2 => t = <<t[1], t[2]>>
        OBVIOUS
      <3> QED BY <3>2, <3>3, <3>4, Zenon
    <2> QED BY <2>1, <2>2, Zenon
  <1> QED BY <1>2, <1>3, <1>4

\* A chunk of a line that is still short of its NUL does not fill io_buff.
LEMMA LineRead ==
    ASSUME ShortLines, NEW cmd \in Cmds,
           NEW buf \in Seq(Bytes), NEW stream \in Seq(Bytes),
           buf \o stream = Line(cmd),
           NEW room \in Int, NEW n \in Chunks(stream, room)
    PROVE  LET chunk == SubSeq(stream, 1, n)
               rest  == Drop(stream, n)
           IN  /\ (buf \o chunk) \o rest = Line(cmd)
               /\ Contains(chunk, NUL) <=> rest = <<>>
               /\ rest = <<>> => buf \o chunk = Line(cmd)
               /\ rest # <<>> => Len(buf \o chunk) < BUFF_SZ - 1
  <1> DEFINE chunk == SubSeq(stream, 1, n)
             rest  == Drop(stream, n)
  <1>1. /\ n \in Nat /\ 1 <= n /\ n <= Len(stream) /\ Len(stream) \in Nat
        /\ chunk \in Seq(Bytes) /\ rest \in Seq(Bytes) /\ Len(chunk) = n
    BY DropType
  <1>2. chunk \o rest = stream /\ Len(rest) = Len(stream) - n
    BY <1>1 DEF Drop
  <1> HIDE DEF chunk, rest
  <1>3. (buf \o chunk) \o rest = buf \o (chunk \o rest)
    BY <1>1, SMTT(30)
  <1>4. (buf \o chunk) \o rest = Line(cmd)
    BY <1>2, <1>3
  <1> DEFINE line == <<cmd, NUL>>
  <1>5. (buf \o chunk) \o rest = line /\ cmd # NUL
    BY <1>4, LineIs
  <1>6. /\ line \in Seq(Bytes) /\ Len(line) = 2
        /\ line[1] = cmd /\ line[2] = NUL
    BY LineType, LineIs
  <1> HIDE DEF line
  <1>7. /\ Len(buf) \in Nat /\ Len(buf \o chunk) = Len(buf) + n
        /\ buf \o chunk \in Seq(Bytes)
        /\ Len(buf) + n + Len(rest) = 2 /\ Len(rest) \in Nat
    <2> DEFINE both == buf \o chunk
    <2>1. both \in Seq(Bytes) /\ Len(both) = Len(buf) + n
      BY <1>1, Joined
    <2> HIDE DEF both
    <2>2. Len(both \o rest) = Len(both) + Len(rest)
      BY <1>1, <2>1, Joined
    <2>3. Len(both \o rest) = 2
      BY <1>5, <1>6 DEF both
    <2> QED BY <1>1, <2>1, <2>2, <2>3 DEF both
  <1>8. \A i \in 1 .. n : chunk[i] = line[Len(buf) + i]
    <2> SUFFICES ASSUME NEW i \in 1 .. n
                 PROVE  chunk[i] = line[Len(buf) + i]
      OBVIOUS
    <2>1. (buf \o chunk)[Len(buf) + i] = chunk[i]
      BY <1>1, Joined
    <2>2. Len(buf) + i \in 1 .. Len(buf \o chunk)
      BY <1>1, <1>7
    <2>3. ((buf \o chunk) \o rest)[Len(buf) + i] = (buf \o chunk)[Len(buf) + i]
      BY <1>1, <1>7, <2>2, Joined
    <2> QED BY <1>5, <2>1, <2>3
  <1>9. Contains(chunk, NUL) <=> rest = <<>>
    <2>1. rest = <<>> <=> Len(rest) = 0
      BY <1>1
    <2>2. rest = <<>> => chunk[n] = NUL
      BY <1>1, <1>6, <1>7, <1>8, <2>1
    <2>3. ASSUME rest # <<>>, NEW i \in 1 .. n
          PROVE  chunk[i] # NUL
      <3>1. Len(buf) + i = 1
        BY <1>1, <1>7, <2>1, <2>3
      <3> QED BY <1>5, <1>6, <1>8, <3>1
    <2> QED BY <1>1, <2>2, <2>3 DEF Contains
  <1>10. rest = <<>> => buf \o chunk = Line(cmd)
    BY <1>4, <1>7, Joined
  <1>11. rest # <<>> => Len(buf \o chunk) < BUFF_SZ - 1
    BY <1>1, <1>7, BoundAssumption
  <1> QED BY <1>4, <1>9, <1>10, <1>11 DEF chunk, rest
----------------------------------------------------------------------------
(* InSync. *)

\* A connection that a step does not touch is where it was.
LEMMA OthersSynced ==
    ASSUME NEW c \in Clients, Synced(c),
           server' = server \/ (cli # c /\ cli' # c),
           conn'[c] = conn[c], client'[c] = client[c]
    PROVE  Synced(c)'
  <1>1. CASE server' = server
    BY <1>1 DEF Synced, Quiet, Unanswered, Answering, Answered, Abandoned,
                AtRest, Left, cli
  <1>2. CASE cli # c /\ cli' # c
    BY <1>2 DEF Synced, Quiet, Unanswered, Answering, Answered, Abandoned,
                Left
  <1> QED BY <1>1, <1>2

\* A closed connection claims nothing about the server.
LEMMA DoneSynced ==
    ASSUME NEW c, client[c].pc \notin {"start", "prompt", "await", "final"}
    PROVE  Synced(c)
  BY DEF Synced

LEMMA CloseClientDone ==
    ASSUME Types, NEW c \in Clients, CloseClient(c)
    PROVE  /\ client'[c].pc = "done" /\ client'[c].sent = client[c].sent
           /\ conn'[c].c2s = conn[c].c2s /\ conn'[c].s2c = <<>>
           /\ conn'[c].srv = conn[c].srv
           /\ conn'[c].reset <=> conn[c].reset \/ conn[c].s2c # <<>>
           /\ \A d \in Clients \ {c} : conn'[d] = conn[d] /\ client'[d] = client[d]
  <1>1. conn[c] \in Connection /\ client[c] \in ClientType
    BY DEF Types
  <1>2. /\ client'[c].pc = "done" /\ client'[c].sent = client[c].sent
        /\ \A d \in Clients \ {c} : client'[d] = client[d]
    BY <1>1 DEF CloseClient, Types, ClientType
  <1> DEFINE reset == conn[c].reset \/ conn[c].s2c # <<>>
  <1>3. conn' = [conn EXCEPT ![c].reset = reset, ![c].s2c = <<>>]
    BY DEF CloseClient, Types
  <1>4. /\ conn'[c].c2s = conn[c].c2s /\ conn'[c].s2c = <<>>
        /\ conn'[c].srv = conn[c].srv
        /\ conn'[c].reset = reset
        /\ \A d \in Clients \ {c} : conn'[d] = conn[d]
    <2> HIDE DEF reset
    <2> QED BY <1>1, <1>3 DEF Types, Connection
  <1> QED BY <1>2, <1>4

LEMMA ConnectValues ==
    ASSUME Types, NEW c \in Clients, Connect(c)
    PROVE  /\ client[c].pc = "start"
           /\ client'[c].pc \in {"prompt", "done"}
           /\ client'[c].sent = client[c].sent
           /\ conn'[c].c2s = conn[c].c2s /\ conn'[c].s2c = conn[c].s2c
           /\ conn'[c].reset = conn[c].reset
           /\ \A d \in Clients \ {c} : conn'[d] = conn[d] /\ client'[d] = client[d]
  <1>1. conn[c] \in Connection /\ client[c] \in ClientType
    BY DEF Types
  <1>2. PICK pc \in {"prompt", "done"} : client' = [client EXCEPT ![c].pc = pc]
    BY DEF Connect
  <1>3. \/ conn' = conn
        \/ conn' = [conn EXCEPT ![c].srv = "queued"]
    BY DEF Connect
  <1>4. /\ client'[c].pc \in {"prompt", "done"}
        /\ client'[c].sent = client[c].sent
        /\ \A d \in Clients \ {c} : client'[d] = client[d]
    BY <1>1, <1>2 DEF Types, ClientType
  <1>5. /\ conn'[c].c2s = conn[c].c2s /\ conn'[c].s2c = conn[c].s2c
        /\ conn'[c].reset = conn[c].reset
        /\ \A d \in Clients \ {c} : conn'[d] = conn[d]
    BY <1>1, <1>3 DEF Types, Connection
  <1> QED BY <1>4, <1>5 DEF Connect

LEMMA TypeValues ==
    ASSUME Types, NEW c \in Clients, Type(c), ~CloseClient(c)
    PROVE  /\ client[c].pc = "prompt" /\ ~conn[c].reset
           /\ \E cmd \in Cmds :
                /\ client'[c].sent = Append(client[c].sent, cmd)
                /\ client'[c].pc = IF cmd \in {"exit", "stop-server"}
                                   THEN "final" ELSE "await"
                /\ IF conn[c].srv = "closed"
                   THEN conn'[c].reset
                   ELSE /\ conn'[c].c2s = conn[c].c2s \o Line(cmd)
                        /\ ~conn'[c].reset
           /\ conn'[c].s2c = conn[c].s2c /\ conn'[c].srv = conn[c].srv
           /\ \A d \in Clients \ {c} : conn'[d] = conn[d] /\ client'[d] = client[d]
  <1>1. conn[c] \in Connection /\ client[c] \in ClientType
    BY DEF Types
  <1>2. client[c].pc = "prompt" /\ ~conn[c].reset
    BY DEF Type
  <1>3. PICK cmd \in Cmds :
          /\ client' = [client EXCEPT
                ![c].sent = Append(@, cmd),
                ![c].pc = IF cmd \in {"exit", "stop-server"}
                          THEN "final" ELSE "await"]
          /\ conn' = IF conn[c].srv = "closed"
                     THEN [conn EXCEPT ![c].reset = TRUE]
                     ELSE [conn EXCEPT ![c].c2s = @ \o Line(cmd)]
    BY DEF Type
  <1> DEFINE pc   == IF cmd \in {"exit", "stop-server"} THEN "final" ELSE "await"
             sent == Append(client[c].sent, cmd)
             c2s  == conn[c].c2s \o Line(cmd)
  <1>4. client' = [client EXCEPT ![c].sent = sent, ![c].pc = pc]
    BY <1>3 DEF Types
  <1>5. conn' = IF conn[c].srv = "closed" THEN [conn EXCEPT ![c].reset = TRUE]
                ELSE [conn EXCEPT ![c].c2s = c2s]
    BY <1>3 DEF Types
  <1>6. /\ client'[c].sent = sent /\ client'[c].pc = pc
        /\ \A d \in Clients \ {c} : client'[d] = client[d]
    <2> HIDE DEF pc, sent
    <2> QED BY <1>1, <1>4 DEF Types, ClientType
  <1>7. /\ IF conn[c].srv = "closed" THEN conn'[c].reset
           ELSE conn'[c].c2s = c2s /\ conn'[c].reset = conn[c].reset
        /\ conn'[c].s2c = conn[c].s2c /\ conn'[c].srv = conn[c].srv
        /\ \A d \in Clients \ {c} : conn'[d] = conn[d]
    <2> HIDE DEF c2s
    <2> QED BY <1>1, <1>5 DEF Types, Connection
  <1> QED BY <1>2, <1>6, <1>7

LEMMA ClientRecvValues ==
    ASSUME Types, NEW c \in Clients, ClientRecv(c)
    PROVE  /\ client[c].pc = "await" /\ client'[c].sent = client[c].sent
           /\ \E n \in Chunks(conn[c].s2c, BUFF_SZ - 1) :
                /\ conn'[c].s2c = Drop(conn[c].s2c, n)
                /\ client'[c].pc = IF IsEof(SubSeq(conn[c].s2c, 1, n))
                                   THEN "prompt" ELSE "await"
           /\ conn'[c].c2s = conn[c].c2s /\ conn'[c].srv = conn[c].srv
           /\ conn'[c].reset = conn[c].reset
           /\ \A d \in Clients \ {c} : conn'[d] = conn[d] /\ client'[d] = client[d]
  <1>1. conn[c] \in Connection /\ client[c] \in ClientType
    BY DEF Types
  <1>2. PICK n \in Chunks(conn[c].s2c, BUFF_SZ - 1) :
          /\ conn' = [conn EXCEPT ![c].s2c = Drop(@, n)]
          /\ client' = [client EXCEPT ![c].pc =
                IF IsEof(SubSeq(conn[c].s2c, 1, n)) THEN "prompt" ELSE "await"]
    BY DEF ClientRecv
  <1> DEFINE s2c == Drop(conn[c].s2c, n)
             pc  == IF IsEof(SubSeq(conn[c].s2c, 1, n)) THEN "prompt" ELSE "await"
  <1>3. conn' = [conn EXCEPT ![c].s2c = s2c] /\ client' = [client EXCEPT ![c].pc = pc]
    BY <1>2 DEF Types
  <1>4. /\ client'[c].pc = pc /\ client'[c].sent = client[c].sent
        /\ \A d \in Clients \ {c} : client'[d] = client[d]
        /\ conn'[c].s2c = s2c /\ conn'[c].c2s = conn[c].c2s
        /\ conn'[c].srv = conn[c].srv /\ conn'[c].reset = conn[c].reset
        /\ \A d \in Clients \ {c} : conn'[d] = conn[d]
    <2> HIDE DEF s2c, pc
    <2> QED BY <1>1, <1>3 DEF Types, ClientType, Connection
  <1> QED BY <1>4 DEF ClientRecv

\* After exit or stop-server, the one recv() finds something.
FinalChunk(c) ==
    \E n \in Chunks(conn[c].s2c, BUFF_SZ - 1) :
        /\ client' = [client EXCEPT ![c].pc = "done"]
        /\ conn' = [conn EXCEPT ![c].reset = @ \/ n < Len(conn[c].s2c),
                                ![c].s2c = <<>>]

LEMMA ClientFinalValues ==
    ASSUME Types, NEW c \in Clients, ClientFinal(c), FinalChunk(c)
    PROVE  /\ client[c].pc = "final" /\ client'[c].pc = "done"
           /\ client'[c].sent = client[c].sent
           /\ \E n \in Chunks(conn[c].s2c, BUFF_SZ - 1) :
                conn'[c].reset <=> conn[c].reset \/ n < Len(conn[c].s2c)
           /\ conn'[c].s2c = <<>>
           /\ conn'[c].c2s = conn[c].c2s /\ conn'[c].srv = conn[c].srv
           /\ \A d \in Clients \ {c} : conn'[d] = conn[d] /\ client'[d] = client[d]
  <1>1. conn[c] \in Connection /\ client[c] \in ClientType
    BY DEF Types
  <1>2. PICK n \in Chunks(conn[c].s2c, BUFF_SZ - 1) :
          /\ client' = [client EXCEPT ![c].pc = "done"]
          /\ conn' = [conn EXCEPT ![c].reset = @ \/ n < Len(conn[c].s2c),
                                  ![c].s2c = <<>>]
    BY DEF FinalChunk
  <1> DEFINE reset == conn[c].reset \/ n < Len(conn[c].s2c)
  <1>3. conn' = [conn EXCEPT ![c].reset = reset, ![c].s2c = <<>>]
    BY <1>2 DEF Types
  <1>4. /\ client'[c].pc = "done" /\ client'[c].sent = client[c].sent
        /\ \A d \in Clients \ {c} : client'[d] = client[d]
    BY <1>1, <1>2 DEF Types, ClientType
  <1>5. /\ conn'[c].reset = reset /\ conn'[c].s2c = <<>>
        /\ conn'[c].c2s = conn[c].c2s /\ conn'[c].srv = conn[c].srv
        /\ \A d \in Clients \ {c} : conn'[d] = conn[d]
    <2> HIDE DEF reset
    <2> QED BY <1>1, <1>3 DEF Types, Connection
  <1> QED BY <1>4, <1>5 DEF ClientFinal

LEMMA ConnectSynced ==
    ASSUME RshInv, SyncInv, NEW c \in Clients, Connect(c)
    PROVE  Synced(c)'
  <1>0. Types /\ cli' = cli
    BY DEF RshInv, Connect, cli
  <1>1. /\ client[c].pc = "start" /\ client'[c].pc \in {"prompt", "done"}
        /\ conn'[c].c2s = conn[c].c2s /\ conn'[c].s2c = conn[c].s2c
    BY <1>0, ConnectValues
  <1>2. conn[c].c2s = <<>> /\ conn[c].s2c = <<>>
    BY <1>1 DEF SyncInv, Synced
  <1>3. cli # c
    BY <1>1 DEF RshInv, SessionInv, Waiting, NoLeakedSession
  <1>4. Quiet(c)'
    BY <1>0, <1>1, <1>2, <1>3 DEF Quiet
  <1> QED BY <1>1, <1>4 DEF Synced

LEMMA TypeSynced ==
    ASSUME RshInv, SyncInv, ShortLines, NEW c \in Clients, Type(c)
    PROVE  Synced(c)'
  <1>0. Types /\ cli' = cli /\ server' = server
    BY DEF RshInv, Type, cli
  <1>1. CASE CloseClient(c)
    BY <1>0, <1>1, CloseClientDone DEF Synced
  <1>2. CASE ~CloseClient(c)
    <2>1. /\ client[c].pc = "prompt" /\ ~conn[c].reset
          /\ conn'[c].s2c = conn[c].s2c
      BY <1>0, <1>2, TypeValues
    <2>2. PICK cmd \in Cmds :
            /\ client'[c].sent = Append(client[c].sent, cmd)
            /\ client'[c].pc = IF cmd \in {"exit", "stop-server"}
                               THEN "final" ELSE "await"
            /\ IF conn[c].srv = "closed"
               THEN conn'[c].reset
               ELSE /\ conn'[c].c2s = conn[c].c2s \o Line(cmd)
                    /\ ~conn'[c].reset
      BY <1>0, <1>2, TypeValues
    <2>3. Quiet(c)
      BY <2>1 DEF SyncInv, Synced
    <2>4. ASSUME ~conn'[c].reset
          PROVE  Unanswered(c)'
      <3>1. Line(cmd) \in Seq(Bytes) /\ Line(cmd) # <<>>
        BY LineType, LineIs
      <3>2. <<>> \o Line(cmd) = Line(cmd)
        BY <3>1
      <3>3. conn'[c].c2s = Line(cmd)
        BY <2>2, <2>3, <2>4, <3>2 DEF Quiet
      <3>4. /\ client'[c].sent # <<>>
            /\ LastOf(client'[c].sent) = cmd
        <4>1. client[c].sent \in Seq(Cmds)
          BY <1>0 DEF Types, ClientType
        <4> QED BY <2>2, <4>1 DEF LastOf
      <3>5. Left(c)' = Line(cmd)
        <4>1. cli = c => server'.buf = <<>>
          BY <1>0, <2>3 DEF Quiet, AtRest
        <4> QED BY <1>0, <3>2, <3>3, <4>1 DEF Left
      <3>6. cli' = c => server'.pc \in {"recv", "close"}
        BY <1>0, <2>3 DEF Quiet, AtRest
      <3>7. conn'[c].s2c = <<>>
        BY <2>1, <2>3 DEF Quiet
      <3> QED BY <3>1, <3>3, <3>4, <3>5, <3>6, <3>7 DEF Unanswered
    <2> QED BY <2>2, <2>4 DEF Synced
  <1> QED BY <1>1, <1>2

LEMMA ClientRecvSynced ==
    ASSUME RshInv, SyncInv, NEW c \in Clients, ClientRecv(c)
    PROVE  Synced(c)'
  <1>0. Types /\ cli' = cli /\ server' = server
    BY DEF RshInv, ClientRecv, cli
  <1>1. /\ client[c].pc = "await" /\ client'[c].sent = client[c].sent
        /\ conn'[c].c2s = conn[c].c2s /\ conn'[c].srv = conn[c].srv
        /\ conn'[c].reset = conn[c].reset
    BY <1>0, ClientRecvValues
  <1>2. PICK n \in Chunks(conn[c].s2c, BUFF_SZ - 1) :
          /\ conn'[c].s2c = Drop(conn[c].s2c, n)
          /\ client'[c].pc = IF IsEof(SubSeq(conn[c].s2c, 1, n))
                             THEN "prompt" ELSE "await"
    BY <1>0, ClientRecvValues
  <1>3. /\ conn[c].s2c \in Seq(Tokens) /\ BUFF_SZ - 1 \in Int
        /\ conn[c].s2c # <<>>
    <2>1. conn[c].s2c \in Seq(Tokens) /\ BUFF_SZ - 1 \in Int
      BY <1>0, BoundAssumption DEF Types, Connection
    <2>2. Len(conn[c].s2c) > 0
      BY <1>2, <2>1, DropType
    <2> QED BY <2>1, <2>2
  <1>4. NoEof(conn[c].s2c) => /\ client'[c].pc = "await"
                              /\ NoEof(conn'[c].s2c)
    BY <1>2, <1>3, EofReceived
  <1>5. OneEof(conn[c].s2c) => \/ /\ client'[c].pc = "prompt"
                                  /\ conn'[c].s2c = <<>>
                               \/ /\ client'[c].pc = "await"
                                  /\ OneEof(conn'[c].s2c)
    BY <1>2, <1>3, EofReceived
  <1> SUFFICES ASSUME ~conn[c].reset PROVE Synced(c)'
    BY <1>1, <1>2 DEF Synced
  <1>6. CASE Unanswered(c)
    BY <1>3, <1>6 DEF Unanswered
  <1>7. CASE Answering(c)
    <2>1. Answering(c)'
      BY <1>0, <1>1, <1>4, <1>7 DEF Answering
    <2> QED BY <1>4, <1>7, <2>1 DEF Synced, Answering
  <1>8. CASE Answered(c)
    <2>1. conn'[c].c2s = <<>> /\ (cli' = c => AtRest')
      BY <1>0, <1>1, <1>8 DEF Answered, AtRest
    <2>2. CASE client'[c].pc = "prompt" /\ conn'[c].s2c = <<>>
      BY <2>1, <2>2 DEF Synced, Quiet
    <2>3. CASE client'[c].pc = "await" /\ OneEof(conn'[c].s2c)
      BY <2>1, <2>3 DEF Synced, Answered
    <2> QED BY <1>5, <1>8, <2>2, <2>3 DEF Answered
  <1>9. CASE Abandoned(c)
    <2>1. Abandoned(c)'
      BY <1>1, <1>4, <1>9 DEF Abandoned
    <2> QED BY <1>4, <1>9, <2>1 DEF Synced, Abandoned
  <1> QED BY <1>1, <1>6, <1>7, <1>8, <1>9 DEF SyncInv, Synced

LEMMA ClientSync ==
    ASSUME RshInv, SyncInv, ShortLines, NEW c \in Clients,
           ClientStep(c) \/ UserStep(c) \/ Kill(c)
    PROVE  SyncInv'
  <1>0. Types
    BY DEF RshInv
  <1>1. server' = server /\ prog' = prog
    BY DEF ClientStep, UserStep, Connect, ClientRecv, ClientRecvEnd,
           ClientFinal, Type, EndInput, Kill
  <1>2. Buffers'
    BY <1>1 DEF SyncInv, Buffers
  <1>3. Synced(c)'
    <2>1. CASE CloseClient(c)
      BY <1>0, <2>1, CloseClientDone DEF Synced
    <2>2. CASE ClientFinal(c) /\ FinalChunk(c)
      BY <1>0, <2>2, ClientFinalValues DEF Synced
    <2> QED BY <2>1, <2>2, ConnectSynced, TypeSynced, ClientRecvSynced
            DEF ClientStep, UserStep, ClientRecvEnd, ClientFinal, FinalChunk,
                EndInput, Kill
  <1>4. \A d \in Clients \ {c} : conn'[d] = conn[d] /\ client'[d] = client[d]
    <2>1. CASE CloseClient(c)
      BY <1>0, <2>1, CloseClientDone
    <2>2. CASE ~CloseClient(c)
      BY <1>0, <2>2, ConnectValues, TypeValues, ClientRecvValues,
         ClientFinalValues
         DEF ClientStep, UserStep, ClientRecvEnd, ClientFinal, FinalChunk,
             EndInput, Kill
    <2> QED BY <2>1, <2>2
  <1>5. \A d \in Clients \ {c} : Synced(d)'
    BY <1>1, <1>4, OthersSynced DEF SyncInv
  <1> QED BY <1>2, <1>3, <1>5 DEF SyncInv

\* What the server's steps do to the connection it serves.
LEMMA ServerRecvValues ==
    ASSUME Types, cli \in Clients, ServerRecv
    PROVE  /\ server.pc = "recv" /\ cli' = cli /\ client' = client
           /\ \E n \in Chunks(conn[cli].c2s, BUFF_SZ - 1 - Len(server.buf)) :
                LET chunk == SubSeq(conn[cli].c2s, 1, n)
                    buf   == server.buf \o chunk
                    cmd   == Meaning(CString(buf))
                IN  /\ conn'[cli].c2s = Drop(conn[cli].c2s, n)
                    /\ \/ /\ ~Contains(chunk, NUL) /\ Len(buf) < BUFF_SZ - 1
                          /\ server'.buf = buf /\ server'.pc = "recv"
                          /\ server'.pending = server.pending
                          /\ prog' = prog /\ server'.after = server.after
                       \/ /\ Contains(chunk, NUL) \/ ~(Len(buf) < BUFF_SZ - 1)
                          /\ server'.buf = <<>> /\ server'.pending = Reply(cmd)
                          /\ server'.after = After(cmd)
                          /\ server'.pc = IF cmd \in Programs THEN "wait" ELSE "send"
                          /\ prog'.out \in Outputs \/ prog'.out = <<>>
           /\ conn'[cli].s2c = conn[cli].s2c /\ conn'[cli].srv = conn[cli].srv
           /\ conn'[cli].reset = conn[cli].reset
           /\ \A d \in Clients \ {cli} : conn'[d] = conn[d]
  <1>1. conn[cli] \in Connection /\ server \in ServerType
    BY DEF Types
  <1>2. PICK n \in Chunks(conn[cli].c2s, BUFF_SZ - 1 - Len(server.buf)) :
          LET chunk == SubSeq(conn[cli].c2s, 1, n)
              buf   == server.buf \o chunk
              cmd   == Meaning(CString(buf))
          IN  /\ conn' = [conn EXCEPT ![cli].c2s = Drop(@, n)]
              /\ IF ~Contains(chunk, NUL) /\ Len(buf) < BUFF_SZ - 1
                 THEN /\ server' = [server EXCEPT !.buf = buf]
                      /\ UNCHANGED prog
                 ELSE /\ server' = [server EXCEPT
                            !.buf = <<>>, !.pending = Reply(cmd),
                            !.after = After(cmd),
                            !.pc = IF cmd \in Programs THEN "wait" ELSE "send"]
                      /\ IF cmd = "run"
                         THEN \E out \in Outputs :
                                 prog' = [out |-> out, reads |-> FALSE]
                         ELSE prog' = [out |-> <<>>, reads |-> cmd = "cat"]
    BY DEF ServerRecv
  <1> DEFINE chunk == SubSeq(conn[cli].c2s, 1, n)
             buf   == server.buf \o chunk
             cmd   == Meaning(CString(buf))
             c2s   == Drop(conn[cli].c2s, n)
             pc    == IF cmd \in Programs THEN "wait" ELSE "send"
             full  == Contains(chunk, NUL) \/ ~(Len(buf) < BUFF_SZ - 1)
  <1>3. /\ conn' = [conn EXCEPT ![cli].c2s = c2s]
        /\ ~full => server' = [server EXCEPT !.buf = buf] /\ prog' = prog
        /\ full => /\ server' = [server EXCEPT
                         !.buf = <<>>, !.pending = Reply(cmd),
                         !.after = After(cmd), !.pc = pc]
                   /\ prog'.out \in Outputs \/ prog'.out = <<>>
    <2>1. conn' = [conn EXCEPT ![cli].c2s = c2s]
      BY <1>2
    <2>2. ~full => server' = [server EXCEPT !.buf = buf] /\ prog' = prog
      BY <1>2
    <2>3. ASSUME full
          PROVE  /\ server' = [server EXCEPT
                        !.buf = <<>>, !.pending = Reply(cmd),
                        !.after = After(cmd), !.pc = pc]
                 /\ prog'.out \in Outputs \/ prog'.out = <<>>
      <3>1. /\ server' = [server EXCEPT
                    !.buf = <<>>, !.pending = Reply(cmd),
                    !.after = After(cmd), !.pc = pc]
            /\ IF cmd = "run"
               THEN \E out \in Outputs : prog' = [out |-> out, reads |-> FALSE]
               ELSE prog' = [out |-> <<>>, reads |-> cmd = "cat"]
        BY <1>2, <2>3
      <3> HIDE DEF cmd, full, pc
      <3>2. prog'.out \in Outputs \/ prog'.out = <<>>
        BY <3>1
      <3> QED BY <3>1, <3>2
    <2> QED BY <2>1, <2>2, <2>3
  <1>4. server.pc = "recv" /\ client' = client
    BY DEF ServerRecv
  <1>5. /\ conn'[cli].c2s = c2s
        /\ conn'[cli].s2c = conn[cli].s2c /\ conn'[cli].srv = conn[cli].srv
        /\ conn'[cli].reset = conn[cli].reset
        /\ \A d \in Clients \ {cli} : conn'[d] = conn[d]
    <2> HIDE DEF c2s
    <2> QED BY <1>1, <1>3 DEF Types, Connection
  <1>6. ASSUME ~full
        PROVE  /\ server'.buf = buf /\ server'.pc = "recv" /\ cli' = cli
               /\ server'.pending = server.pending /\ prog' = prog
               /\ server'.after = server.after
    <2>1. server' = [server EXCEPT !.buf = buf] /\ prog' = prog
      BY <1>3, <1>6
    <2> HIDE DEF buf, full
    <2> QED BY <1>1, <1>4, <2>1 DEF ServerType, cli
  <1>7. ASSUME full
        PROVE  /\ server'.buf = <<>> /\ server'.pending = Reply(cmd)
               /\ server'.after = After(cmd) /\ server'.pc = pc /\ cli' = cli
               /\ prog'.out \in Outputs \/ prog'.out = <<>>
    <2>1. /\ server' = [server EXCEPT
                  !.buf = <<>>, !.pending = Reply(cmd),
                  !.after = After(cmd), !.pc = pc]
          /\ prog'.out \in Outputs \/ prog'.out = <<>>
      BY <1>3, <1>7
    <2> HIDE DEF cmd, pc, full
    <2> QED BY <1>1, <2>1 DEF ServerType, cli
  <1> HIDE DEF Contains
  <1> QED BY <1>4, <1>5, <1>6, <1>7

LEMMA DeliverValues ==
    ASSUME Types, cli \in Clients, NEW token \in Tokens, Deliver(token)
    PROVE  /\ conn'[cli].c2s = conn[cli].c2s /\ conn'[cli].srv = conn[cli].srv
           /\ IF Open(cli)
              THEN /\ conn'[cli].s2c = Append(conn[cli].s2c, token)
                   /\ conn'[cli].reset = conn[cli].reset
              ELSE conn'[cli].s2c = conn[cli].s2c
           /\ \A d \in Clients \ {cli} : conn'[d] = conn[d]
  <1>1. conn[cli] \in Connection
    BY DEF Types
  <1>2. CASE Open(cli)
    <2> DEFINE s2c == Append(conn[cli].s2c, token)
    <2>1. conn' = [conn EXCEPT ![cli].s2c = s2c]
      BY <1>2 DEF Deliver
    <2>2. /\ conn'[cli].c2s = conn[cli].c2s /\ conn'[cli].srv = conn[cli].srv
          /\ conn'[cli].s2c = s2c /\ conn'[cli].reset = conn[cli].reset
          /\ \A d \in Clients \ {cli} : conn'[d] = conn[d]
      <3> HIDE DEF s2c
      <3> QED BY <1>1, <2>1 DEF Types, Connection
    <2> QED BY <1>2, <2>2
  <1>3. CASE ~Open(cli)
    <2>1. PICK reset \in BOOLEAN : conn' = [conn EXCEPT ![cli].reset = reset]
      BY <1>3 DEF Deliver
    <2>2. /\ conn'[cli].c2s = conn[cli].c2s /\ conn'[cli].srv = conn[cli].srv
          /\ conn'[cli].s2c = conn[cli].s2c
          /\ \A d \in Clients \ {cli} : conn'[d] = conn[d]
      BY <1>1, <2>1 DEF Types, Connection
    <2> QED BY <1>3, <2>2
  <1> QED BY <1>2, <1>3

LEMMA RestValues ==
    ASSUME Types, NEW pending, Rest(pending)
    PROVE  /\ server'.pending = pending /\ server'.buf = server.buf
           /\ server'.after = server.after /\ cli' = cli
           /\ IF pending # <<>> THEN server'.pc = "send"
              ELSE server'.pc \in {"recv", "close"}
  BY DEF Types, Rest, ServerType, cli

LEMMA AcceptValues ==
    ASSUME RshInv, Accept
    PROVE  /\ cli = NoOne /\ server.pc = "accept"
           /\ cli' \in Clients /\ cli' # NoOne
           /\ server'.pc \in {"recv", "close"} /\ server'.after = "close"
           /\ server'.buf = server.buf /\ server'.pending = server.pending
           /\ prog' = prog /\ client' = client
           /\ conn[cli'].srv = "queued" /\ conn'[cli'].srv = "open"
           /\ conn'[cli'].c2s = conn[cli'].c2s
           /\ conn'[cli'].s2c = conn[cli'].s2c
           /\ conn'[cli'].reset = conn[cli'].reset
           /\ \A d \in Clients \ {cli'} : conn'[d] = conn[d]
  <1> DEFINE h == Head(backlog)
  <1>0. Types /\ SessionInv
    BY DEF RshInv
  <1>1. h \in Clients /\ h = backlog[1] /\ 1 \in 1 .. Len(backlog)
    BY <1>0 DEF Accept, Types
  <1>2. /\ server'.pc \in {"recv", "close"} /\ server'.after = "close"
        /\ server'.buf = server.buf /\ server'.pending = server.pending
        /\ cli' = h
    BY <1>0 DEF Accept, Types, ServerType, cli
  <1>3. cli = NoOne /\ server.pc = "accept"
    BY <1>0 DEF Accept, SessionInv, Serving
  <1>4. conn[h].srv = "queued"
    BY <1>0, <1>1 DEF SessionInv, NoLeakedSession, Contains
  <1>5. /\ conn'[h].srv = "open"
        /\ conn'[h].c2s = conn[h].c2s /\ conn'[h].s2c = conn[h].s2c
        /\ conn'[h].reset = conn[h].reset
        /\ \A d \in Clients \ {h} : conn'[d] = conn[d]
    BY <1>0, <1>1 DEF Accept, Types, Connection
  <1> HIDE DEF h
  <1> QED BY <1>1, <1>2, <1>3, <1>4, <1>5, ClientAssumption DEF Accept

\* The connections when the server's process ends.
LEMMA GoDownValues ==
    ASSUME RshInv, GoDown, client' = client
    PROVE  /\ server'.pc = "down" /\ cli' = NoOne
           /\ server'.buf = <<>> /\ server'.pending = <<>> /\ prog'.out = <<>>
           /\ \A c \in Clients :
                /\ cli = c => /\ conn'[c].srv = "closed" /\ conn'[c].c2s = <<>>
                              /\ conn'[c].s2c = conn[c].s2c
                              /\ conn'[c].reset <=> \/ conn[c].reset
                                                    \/ conn[c].c2s # <<>>
                /\ conn[c].srv = "queued" => /\ conn'[c].reset
                                             /\ conn'[c].srv = "closed"
                /\ conn[c].srv \notin {"open", "queued"} => conn'[c] = conn[c]
                /\ conn[c].srv = "open" <=> cli = c
  <1>0. Types
    BY DEF RshInv
  <1>1. /\ server'.pc = "down" /\ cli' = NoOne
        /\ server'.buf = <<>> /\ server'.pending = <<>> /\ prog'.out = <<>>
    BY <1>0 DEF GoDown, Types, ServerType, cli
  <1>2. ASSUME NEW c \in Clients
        PROVE  /\ cli = c => /\ conn'[c].srv = "closed" /\ conn'[c].c2s = <<>>
                             /\ conn'[c].s2c = conn[c].s2c
                             /\ conn'[c].reset <=> \/ conn[c].reset
                                                   \/ conn[c].c2s # <<>>
               /\ conn[c].srv = "queued" => /\ conn'[c].reset
                                            /\ conn'[c].srv = "closed"
               /\ conn[c].srv \notin {"open", "queued"} => conn'[c] = conn[c]
               /\ conn[c].srv = "open" <=> cli = c
    <2>1. conn[c] \in Connection
      BY <1>0 DEF Types
    <2>2. conn[c].srv = "open" <=> cli = c
      BY DEF RshInv, SessionInv, NoLeakedSession
    <2>3. CASE conn[c].srv = "queued"
      <3>1. conn'[c] = [conn[c] EXCEPT !.srv = "closed", !.reset = TRUE,
                                       !.c2s = <<>>]
        BY <2>3 DEF GoDown
      <3> QED BY <2>1, <2>2, <2>3, <3>1 DEF Connection
    <2>4. CASE conn[c].srv = "open"
      <3> DEFINE reset == conn[c].reset \/ conn[c].c2s # <<>>
      <3>1. conn'[c] = [conn[c] EXCEPT !.srv = "closed", !.c2s = <<>>,
                                       !.reset = reset]
        BY <2>1, <2>4 DEF GoDown
      <3>2. /\ conn'[c].srv = "closed" /\ conn'[c].c2s = <<>>
            /\ conn'[c].s2c = conn[c].s2c /\ conn'[c].reset = reset
        <4> HIDE DEF reset
        <4> QED BY <2>1, <3>1 DEF Connection
      <3> QED BY <2>2, <2>4, <3>2
    <2>5. CASE conn[c].srv \notin {"queued", "open"}
      <3>1. conn'[c] = conn[c]
        BY <2>5 DEF GoDown
      <3> QED BY <2>2, <2>5, <3>1
    <2> QED BY <2>3, <2>4, <2>5
  <1> QED BY <1>1, <1>2

LEMMA HangupValues ==
    ASSUME Types, cli \in Clients, ServerClose, server.after # "stop"
    PROVE  /\ cli' = NoOne /\ server'.pc = "accept" /\ server.pc = "close"
           /\ server'.buf = server.buf /\ server'.pending = server.pending
           /\ prog' = prog /\ client' = client
           /\ conn'[cli].srv = "closed" /\ conn'[cli].c2s = <<>>
           /\ conn'[cli].s2c = conn[cli].s2c
           /\ conn'[cli].reset <=> conn[cli].reset \/ conn[cli].c2s # <<>>
           /\ \A d \in Clients \ {cli} : conn'[d] = conn[d]
  <1>1. conn[cli] \in Connection
    BY DEF Types
  <1>2. /\ cli' = NoOne /\ server'.pc = "accept" /\ server.pc = "close"
        /\ server'.buf = server.buf /\ server'.pending = server.pending
        /\ prog' = prog /\ client' = client
    BY DEF ServerClose, Types, ServerType, cli
  <1> DEFINE reset == conn[cli].reset \/ conn[cli].c2s # <<>>
  <1>3. conn' = [conn EXCEPT ![cli].srv = "closed", ![cli].c2s = <<>>,
                             ![cli].reset = reset]
    BY DEF ServerClose, Hangup, Types
  <1>4. /\ conn'[cli].srv = "closed" /\ conn'[cli].c2s = <<>>
        /\ conn'[cli].s2c = conn[cli].s2c
        /\ conn'[cli].reset = reset
        /\ \A d \in Clients \ {cli} : conn'[d] = conn[d]
    <2> HIDE DEF reset
    <2> QED BY <1>1, <1>3 DEF Types, Connection
  <1> QED BY <1>2, <1>4

LEMMA ServedValues ==
    ASSUME RshInv, cli \in Clients
    PROVE  /\ Types /\ conn[cli].srv = "open" /\ client[cli].pc # "start"
           /\ server.buf \in Seq(Bytes) /\ server.pending \in Seq(Tokens)
           /\ conn[cli].c2s \in Seq(Bytes) /\ conn[cli].s2c \in Seq(Tokens)
           /\ prog.out \in Seq(Tokens) /\ client[cli].sent \in Seq(Cmds)
           /\ client[cli].pc \in ClientPcs /\ conn[cli].reset \in BOOLEAN
           /\ BUFF_SZ - 1 - Len(server.buf) \in Int
  <1>1. /\ Types /\ server \in ServerType
        /\ conn[cli] \in Connection /\ client[cli] \in ClientType
    BY SessionValues DEF RshInv
  <1>2. conn[cli].srv = "open" /\ client[cli].pc # "start"
    BY DEF RshInv, SessionInv, NoLeakedSession, Waiting
  <1>3. BUFF_SZ - 1 - Len(server.buf) \in Int
    BY <1>1, BoundAssumption DEF ServerType
  <1> QED BY <1>1, <1>2, <1>3 DEF Types, Connection, ClientType, ServerType, ProgType

\* The client that is served has sent the command it waits for, has it
\* answered, or has the reply.
LEMMA ServedPhase ==
    ASSUME RshInv, SyncInv, cli \in Clients, ~conn[cli].reset, Open(cli)
    PROVE  \/ client[cli].pc = "prompt" /\ Quiet(cli)
           \/ /\ client[cli].pc \in {"await", "final"}
              /\ Unanswered(cli) \/ Answering(cli) \/ Answered(cli)
  BY ServedValues DEF SyncInv, Synced, Open, Abandoned

LEMMA AnsweringPhase ==
    ASSUME RshInv, SyncInv, cli \in Clients, ~conn[cli].reset, Open(cli),
           server.pc \in {"send", "wait"}
    PROVE  client[cli].pc \in {"await", "final"} /\ Answering(cli)
  BY ServedPhase DEF Quiet, Unanswered, Answered, AtRest

LEMMA AcceptSync ==
    ASSUME RshInv, SyncInv, Accept
    PROVE  SyncInv'
  <1>1. /\ cli = NoOne /\ server.pc = "accept"
        /\ cli' \in Clients /\ cli' # NoOne
        /\ server'.pc \in {"recv", "close"}
        /\ server'.buf = server.buf /\ server'.pending = server.pending
        /\ prog' = prog /\ client' = client
        /\ conn[cli'].srv = "queued"
        /\ conn'[cli'].c2s = conn[cli'].c2s
        /\ conn'[cli'].s2c = conn[cli'].s2c
        /\ conn'[cli'].reset = conn[cli'].reset
        /\ \A d \in Clients \ {cli'} : conn'[d] = conn[d]
    BY AcceptValues
  <1>2. server.buf = <<>> /\ server.pending = <<>> /\ Buffers'
    BY <1>1 DEF SyncInv, Buffers
  <1>3. PICK h \in Clients : h = cli'
    BY <1>1
  <1>4. Synced(h)
    BY DEF SyncInv
  <1>5. cli # h /\ cli' = h /\ AtRest'
    BY <1>1, <1>2, <1>3 DEF AtRest
  <1>6. Quiet(h) => Quiet(h)'
    BY <1>1, <1>3, <1>5 DEF Quiet
  <1>7. Unanswered(h) => Unanswered(h)'
    <2> SUFFICES ASSUME Unanswered(h) PROVE Unanswered(h)'
      OBVIOUS
    <2>1. conn[h].c2s \in Seq(Bytes)
      BY DEF RshInv, Types, Connection
    <2>2. <<>> \o conn[h].c2s = conn[h].c2s
      BY <2>1
    <2>3. Left(h)' = Left(h)
      BY <1>1, <1>2, <1>3, <1>5, <2>2 DEF Left
    <2> QED BY <1>1, <1>3, <2>3 DEF Unanswered
  <1>8. Answered(h) => Answered(h)'
    BY <1>1, <1>3, <1>5 DEF Answered
  <1>9. ~Answering(h) /\ ~Abandoned(h)
    BY <1>1, <1>3, <1>5 DEF Answering, Abandoned
  <1>10. Synced(h)'
    BY <1>1, <1>3, <1>4, <1>6, <1>7, <1>8, <1>9 DEF Synced
  <1>11. \A d \in Clients \ {h} : Synced(d)'
    <2> SUFFICES ASSUME NEW d \in Clients \ {h} PROVE Synced(d)'
      OBVIOUS
    <2>1. cli # d /\ cli' # d /\ conn'[d] = conn[d] /\ client'[d] = client[d]
      BY <1>1, <1>3, ClientAssumption
    <2> QED BY <2>1, OthersSynced DEF SyncInv
  <1> QED BY <1>2, <1>10, <1>11 DEF SyncInv

\* Only the connection that is served changes.
LEMMA ServedSync ==
    ASSUME SyncInv, NEW c \in Clients, cli = c, client' = client,
           cli' = c \/ cli' = NoOne,
           \A d \in Clients \ {c} : conn'[d] = conn[d],
           Synced(c)'
    PROVE  \A d \in Clients : Synced(d)'
  <1>1. ASSUME NEW d \in Clients \ {c}
        PROVE  Synced(d)'
    <2>1. cli # d /\ cli' # d /\ conn'[d] = conn[d] /\ client'[d] = client[d]
      BY <1>1, ClientAssumption
    <2> QED BY <2>1, OthersSynced DEF SyncInv
  <1> QED BY <1>1

LEMMA ServerRecvSync ==
    ASSUME RshInv, SyncInv, ShortLines, NoEofPrinted,
           NEW c \in Clients, cli = c, ServerRecv
    PROVE  SyncInv'
  <1>0. /\ Types /\ conn[c].srv = "open" /\ client[c].pc # "start"
        /\ server.buf \in Seq(Bytes) /\ conn[c].c2s \in Seq(Bytes)
        /\ client[c].sent \in Seq(Cmds)
        /\ BUFF_SZ - 1 - Len(server.buf) \in Int
    BY ServedValues
  <1>1. /\ server.pc = "recv" /\ cli' = c /\ client' = client
        /\ conn'[c].s2c = conn[c].s2c /\ conn'[c].srv = conn[c].srv
        /\ conn'[c].reset = conn[c].reset
        /\ \A d \in Clients \ {c} : conn'[d] = conn[d]
    BY <1>0, ServerRecvValues
  <1>2. PICK n \in Chunks(conn[c].c2s, BUFF_SZ - 1 - Len(server.buf)) :
          LET chunk == SubSeq(conn[c].c2s, 1, n)
              buf   == server.buf \o chunk
              cmd   == Meaning(CString(buf))
          IN  /\ conn'[c].c2s = Drop(conn[c].c2s, n)
              /\ \/ /\ ~Contains(chunk, NUL) /\ Len(buf) < BUFF_SZ - 1
                    /\ server'.buf = buf /\ server'.pc = "recv"
                    /\ server'.pending = server.pending
                    /\ prog' = prog /\ server'.after = server.after
                 \/ /\ Contains(chunk, NUL) \/ ~(Len(buf) < BUFF_SZ - 1)
                    /\ server'.buf = <<>> /\ server'.pending = Reply(cmd)
                    /\ server'.after = After(cmd)
                    /\ server'.pc = IF cmd \in Programs THEN "wait" ELSE "send"
                    /\ prog'.out \in Outputs \/ prog'.out = <<>>
    BY <1>0, ServerRecvValues
  <1> DEFINE chunk == SubSeq(conn[c].c2s, 1, n)
             buf   == server.buf \o chunk
             rest  == Drop(conn[c].c2s, n)
             Full  == /\ Contains(chunk, NUL) \/ ~(Len(buf) < BUFF_SZ - 1)
                      /\ server'.buf = <<>> /\ OneEof(server'.pending)
                      /\ server'.pc \in {"send", "wait"}
                      /\ prog'.out \in Outputs \/ prog'.out = <<>>
             More  == /\ ~Contains(chunk, NUL)
                      /\ server'.buf = buf /\ server'.pc = "recv"
                      /\ server'.pending = server.pending /\ prog' = prog
  <1>3. More \/ Full
    BY <1>2, EofReplied
  <1>4. conn'[c].c2s = rest /\ conn[c].c2s # <<>>
    BY <1>0, <1>2, DropType
  <1>5. Buffers'
    <2>1. Buffers
      BY DEF SyncInv
    <2>2. \A out \in Outputs : NoEof(out)
      BY DEF NoEofPrinted, NoEof, Contains
    <2>3. NoEof(<<>>)
      BY DEF NoEof
    <2>4. CASE More
      BY <1>1, <2>1, <2>4 DEF Buffers
    <2>5. CASE Full
      BY <2>2, <2>3, <2>5 DEF Buffers
    <2> QED BY <1>3, <2>4, <2>5
  <1>6. Synced(c)'
    <2> SUFFICES ASSUME ~conn[c].reset, Open(c) PROVE Synced(c)'
      BY <1>0, <1>1 DEF Synced, Open
    <2>1. client[c].pc \in {"await", "final"} /\ Unanswered(c)
      BY <1>1, <1>4, ServedPhase DEF Quiet, Answering, Answered
    <2> DEFINE cmd == LastOf(client[c].sent)
    <2>2. cmd \in Cmds
      BY <1>0, <2>1 DEF Unanswered, LastOf
    <2>3. server.buf \o conn[c].c2s = Line(cmd)
      BY <2>1 DEF Unanswered, Left
    <2>4. /\ buf \o rest = Line(cmd)
          /\ Contains(chunk, NUL) <=> rest = <<>>
          /\ rest # <<>> => Len(buf) < BUFF_SZ - 1
      BY <1>0, <2>2, <2>3, LineRead
    <2> HIDE DEF buf, chunk, rest
    <2>5. CASE More
      <3>1. rest # <<>> /\ server'.buf = buf /\ server'.pc = "recv"
        BY <2>4, <2>5
      <3>2. Unanswered(c)'
        BY <1>1, <1>4, <2>1, <2>4, <3>1 DEF Unanswered, Left
      <3> QED BY <1>1, <2>1, <3>2 DEF Synced
    <2>6. CASE Full
      <3>1. rest = <<>> /\ server'.pc \in {"send", "wait"}
        BY <2>4, <2>6
      <3>2. NoEof(<<>>)
        BY DEF NoEof
      <3>3. Answering(c)'
        BY <1>1, <1>4, <2>1, <3>1, <3>2 DEF Unanswered, Answering
      <3> QED BY <1>1, <2>1, <3>3 DEF Synced
    <2> QED BY <1>3, <2>5, <2>6
  <1> QED BY <1>1, <1>5, <1>6, ServedSync DEF SyncInv

LEMMA ServerSendSync ==
    ASSUME RshInv, SyncInv, NEW c \in Clients, cli = c, ServerSend
    PROVE  SyncInv'
  <1>0. /\ Types /\ conn[c].srv = "open" /\ client[c].pc # "start"
        /\ server.pending \in Seq(Tokens) /\ conn[c].s2c \in Seq(Tokens)
    BY ServedValues
  <1>1. /\ server.pc = "send" /\ ~conn[c].reset
        /\ client' = client /\ prog' = prog
    BY DEF ServerSend
  <1>2. OneEof(server.pending) /\ server.buf = <<>> /\ NoEof(prog.out)
    BY <1>1 DEF SyncInv, Buffers
  <1> DEFINE token == Head(server.pending)
             left  == Tail(server.pending)
  <1>3. /\ token \in Tokens
        /\ token = "EOF" <=> left = <<>>
        /\ left # <<>> => OneEof(left)
    BY <1>0, <1>2, EofSent
  <1>4. Deliver(token) /\ Rest(left)
    BY DEF ServerSend
  <1> HIDE DEF token, left
  <1>5. /\ conn'[c].c2s = conn[c].c2s /\ conn'[c].srv = conn[c].srv
        /\ IF Open(c) THEN /\ conn'[c].s2c = Append(conn[c].s2c, token)
                           /\ conn'[c].reset = conn[c].reset
                      ELSE conn'[c].s2c = conn[c].s2c
        /\ \A d \in Clients \ {c} : conn'[d] = conn[d]
    BY <1>0, <1>3, <1>4, DeliverValues
  <1>6. /\ server'.pending = left /\ server'.buf = <<>> /\ cli' = c
        /\ IF left # <<>> THEN server'.pc = "send"
           ELSE server'.pc \in {"recv", "close"}
    BY <1>0, <1>2, <1>4, RestValues
  <1>7. Buffers'
    BY <1>1, <1>2, <1>3, <1>6 DEF Buffers
  <1>8. Synced(c)'
    <2> SUFFICES ASSUME Open(c) PROVE Synced(c)'
      BY <1>0, <1>1 DEF Synced, Open
    <2>1. client[c].pc \in {"await", "final"} /\ Answering(c)
      BY <1>1, AnsweringPhase
    <2>2. IF token = "EOF" THEN OneEof(conn'[c].s2c) ELSE NoEof(conn'[c].s2c)
      BY <1>0, <1>3, <1>5, <2>1, EofAppended DEF Answering
    <2>3. left = <<>> => Answered(c)'
      BY <1>3, <1>5, <1>6, <2>1, <2>2 DEF Answering, Answered, AtRest
    <2>4. left # <<>> => Answering(c)'
      BY <1>3, <1>5, <1>6, <2>1, <2>2 DEF Answering
    <2> QED BY <1>1, <2>1, <2>3, <2>4 DEF Synced
  <1> QED BY <1>1, <1>5, <1>6, <1>7, <1>8, ServedSync DEF SyncInv

\* The served connection is closed: a command left in it makes a reset.
LEMMA ClosedSynced ==
    ASSUME RshInv, SyncInv, NEW c \in Clients, cli = c,
           server.pc # "recv", client' = client, cli' = NoOne,
           conn'[c].srv = "closed", conn'[c].c2s = <<>>,
           conn'[c].s2c = conn[c].s2c,
           conn'[c].reset <=> conn[c].reset \/ conn[c].c2s # <<>>
    PROVE  Synced(c)'
  <1>0. /\ Types /\ conn[c].srv = "open" /\ client[c].pc # "start"
        /\ cli' # c
    BY ServedValues, ClientAssumption
  <1> SUFFICES ASSUME ~conn[c].reset, conn[c].c2s = <<>>, Open(c)
               PROVE  Synced(c)'
    BY <1>0 DEF Synced, Open
  <1>1. CASE client[c].pc = "prompt" /\ Quiet(c)
    BY <1>0, <1>1 DEF Synced, Quiet
  <1>2. CASE client[c].pc \in {"await", "final"} /\ Answering(c)
    BY <1>0, <1>2 DEF Synced, Answering, Abandoned
  <1>3. CASE client[c].pc \in {"await", "final"} /\ Answered(c)
    BY <1>0, <1>3 DEF Synced, Answered
  <1> QED BY <1>1, <1>2, <1>3, ServedPhase DEF Unanswered

LEMMA GoDownSync ==
    ASSUME RshInv, SyncInv, GoDown, client' = client, server.pc # "recv"
    PROVE  SyncInv'
  <1>1. /\ server'.pc = "down" /\ cli' = NoOne
        /\ server'.buf = <<>> /\ server'.pending = <<>> /\ prog'.out = <<>>
    BY GoDownValues
  <1>2. Buffers'
    BY <1>1 DEF Buffers, NoEof
  <1>3. ASSUME NEW c \in Clients
        PROVE  Synced(c)'
    <2>0. /\ cli = c => /\ conn'[c].srv = "closed" /\ conn'[c].c2s = <<>>
                        /\ conn'[c].s2c = conn[c].s2c
                        /\ conn'[c].reset <=> \/ conn[c].reset
                                              \/ conn[c].c2s # <<>>
          /\ conn[c].srv = "queued" => conn'[c].reset
          /\ conn[c].srv \notin {"open", "queued"} => conn'[c] = conn[c]
          /\ conn[c].srv = "open" <=> cli = c
      BY GoDownValues
    <2>1. CASE cli = c
      BY <1>1, <2>0, <2>1, ClosedSynced
    <2>2. CASE conn[c].srv = "queued"
      <3>1. client[c].pc # "start"
        BY <2>2 DEF RshInv, SessionInv, Waiting
      <3> QED BY <2>0, <2>2, <3>1 DEF Synced
    <2>3. CASE conn[c].srv \notin {"open", "queued"}
      <3>1. cli # c /\ cli' # c /\ conn'[c] = conn[c] /\ client'[c] = client[c]
        BY <1>1, <2>0, <2>3, ClientAssumption
      <3> QED BY <3>1, OthersSynced DEF SyncInv
    <2> QED BY <2>0, <2>1, <2>2, <2>3
  <1> QED BY <1>2, <1>3 DEF SyncInv

LEMMA HangupSync ==
    ASSUME RshInv, SyncInv, NEW c \in Clients, cli = c,
           ServerClose, server.after # "stop"
    PROVE  SyncInv'
  <1>0. Types
    BY DEF RshInv
  <1>1. /\ cli' = NoOne /\ server'.pc = "accept" /\ server.pc = "close"
        /\ server'.buf = server.buf /\ server'.pending = server.pending
        /\ prog' = prog /\ client' = client
        /\ conn'[c].srv = "closed" /\ conn'[c].c2s = <<>>
        /\ conn'[c].s2c = conn[c].s2c
        /\ conn'[c].reset <=> conn[c].reset \/ conn[c].c2s # <<>>
        /\ \A d \in Clients \ {c} : conn'[d] = conn[d]
    BY <1>0, HangupValues
  <1>2. Buffers'
    BY <1>1 DEF SyncInv, Buffers
  <1>3. Synced(c)'
    BY <1>1, ClosedSynced
  <1> QED BY <1>1, <1>2, <1>3, ServedSync DEF SyncInv

LEMMA ProgWriteValues ==
    ASSUME Types, cli \in Clients, ProgWrite
    PROVE  /\ server' = server /\ client' = client /\ server.pc = "wait"
           /\ prog.out # <<>>
           /\ conn[cli].reset => conn' = conn /\ prog'.out = <<>>
           /\ ~conn[cli].reset => /\ prog'.out = Tail(prog.out)
                                  /\ Deliver(Head(prog.out))
  <1>1. prog \in ProgType
    BY DEF Types
  <1> QED BY <1>1 DEF ProgWrite, ProgType

LEMMA ProgWriteSync ==
    ASSUME RshInv, SyncInv, NEW c \in Clients, cli = c, ProgWrite
    PROVE  SyncInv'
  <1>0. /\ Types /\ conn[c].srv = "open" /\ client[c].pc # "start"
        /\ prog.out \in Seq(Tokens) /\ conn[c].s2c \in Seq(Tokens)
    BY ServedValues
  <1>1. /\ server' = server /\ client' = client /\ server.pc = "wait"
        /\ prog.out # <<>> /\ cli' = c
        /\ conn[c].reset => conn' = conn /\ prog'.out = <<>>
        /\ ~conn[c].reset => /\ prog'.out = Tail(prog.out)
                             /\ Deliver(Head(prog.out))
    BY <1>0, ProgWriteValues DEF cli
  <1>2. CASE conn[c].reset
    <2>1. Buffers'
      BY <1>1, <1>2 DEF SyncInv, Buffers, NoEof
    <2>2. \A d \in Clients : Synced(d)'
      BY <1>1, <1>2, OthersSynced DEF SyncInv
    <2> QED BY <2>1, <2>2 DEF SyncInv
  <1>3. CASE ~conn[c].reset
    <2> DEFINE token == Head(prog.out)
               out   == Tail(prog.out)
    <2>1. token \in Tokens /\ token # "EOF" /\ NoEof(out)
      <3>1. NoEof(prog.out) /\ Len(prog.out) \in Nat /\ Len(prog.out) > 0
        BY <1>0, <1>1 DEF SyncInv, Buffers
      <3>2. /\ token = prog.out[1] /\ token \in Tokens
            /\ Len(out) = Len(prog.out) - 1
        BY <1>0, <1>1
      <3>3. \A i \in 1 .. Len(prog.out) - 1 : out[i] = prog.out[i + 1]
        BY <1>0, <1>1
      <3> HIDE DEF token, out
      <3> QED BY <3>1, <3>2, <3>3 DEF NoEof
    <2>2. prog'.out = out /\ Deliver(token)
      BY <1>1, <1>3
    <2> HIDE DEF token, out
    <2>3. /\ conn'[c].c2s = conn[c].c2s /\ conn'[c].srv = conn[c].srv
          /\ IF Open(c) THEN /\ conn'[c].s2c = Append(conn[c].s2c, token)
                             /\ conn'[c].reset = conn[c].reset
                        ELSE conn'[c].s2c = conn[c].s2c
          /\ \A d \in Clients \ {c} : conn'[d] = conn[d]
      BY <1>0, <2>1, <2>2, DeliverValues
    <2>4. Buffers'
      BY <1>1, <2>1, <2>2 DEF SyncInv, Buffers
    <2>5. Synced(c)'
      <3> SUFFICES ASSUME Open(c) PROVE Synced(c)'
        BY <1>0, <1>1 DEF Synced, Open
      <3>1. client[c].pc \in {"await", "final"} /\ Answering(c)
        BY <1>1, <1>3, AnsweringPhase
      <3>2. NoEof(conn'[c].s2c)
        BY <1>0, <2>1, <2>3, <3>1, EofAppended DEF Answering
      <3>3. Answering(c)'
        BY <1>1, <2>3, <3>1, <3>2 DEF Answering
      <3> QED BY <1>1, <3>1, <3>3 DEF Synced
    <2> QED BY <1>1, <2>3, <2>4, <2>5, ServedSync DEF SyncInv
  <1> QED BY <1>2, <1>3

LEMMA ProgReadValues ==
    ASSUME Types, cli \in Clients, ProgRead
    PROVE  /\ server' = server /\ client' = client /\ server.pc = "wait"
           /\ prog'.out = <<"text">> \/ prog'.out = prog.out
           /\ \/ conn' = conn /\ conn[cli].c2s = <<>>
              \/ /\ conn[cli].c2s # <<>> /\ conn'[cli].c2s = <<>>
                 /\ conn'[cli].s2c = conn[cli].s2c
                 /\ conn'[cli].srv = conn[cli].srv
                 /\ conn'[cli].reset = conn[cli].reset
           /\ \A d \in Clients \ {cli} : conn'[d] = conn[d]
  <1>1. prog \in ProgType /\ conn[cli] \in Connection
    BY DEF Types
  <1>2. CASE conn[cli].c2s # <<>>
    <2>1. /\ conn' = [conn EXCEPT ![cli].c2s = <<>>]
          /\ prog' = [prog EXCEPT !.out = <<"text">>]
      BY <1>2 DEF ProgRead
    <2>2. prog'.out = <<"text">>
      BY <1>1, <2>1 DEF ProgType
    <2>3. /\ conn'[cli].c2s = <<>> /\ conn'[cli].s2c = conn[cli].s2c
          /\ conn'[cli].srv = conn[cli].srv
          /\ conn'[cli].reset = conn[cli].reset
          /\ \A d \in Clients \ {cli} : conn'[d] = conn[d]
      BY <1>1, <2>1 DEF Types, Connection
    <2> QED BY <1>2, <2>2, <2>3 DEF ProgRead
  <1>3. CASE conn[cli].c2s = <<>>
    <2>1. prog' = [prog EXCEPT !.reads = FALSE] /\ conn' = conn
      BY <1>3 DEF ProgRead
    <2>2. prog'.out = prog.out
      BY <1>1, <2>1 DEF ProgType
    <2> QED BY <1>3, <2>1, <2>2 DEF ProgRead
  <1> QED BY <1>2, <1>3

LEMMA ProgReadSync ==
    ASSUME RshInv, SyncInv, NEW c \in Clients, cli = c, ProgRead
    PROVE  SyncInv'
  <1>0. Types /\ client[c].pc # "start"
    BY ServedValues
  <1>1. /\ server' = server /\ client' = client /\ server.pc = "wait"
        /\ prog'.out = <<"text">> \/ prog'.out = prog.out
        /\ \/ conn' = conn
           \/ conn[c].c2s # <<>> /\ conn'[c].reset = conn[c].reset
        /\ \A d \in Clients \ {c} : conn'[d] = conn[d]
        /\ cli' = c
    BY <1>0, ProgReadValues DEF cli
  <1>2. Buffers'
    <2>1. NoEof(<<"text">>)
      BY DEF NoEof
    <2> QED BY <1>1, <2>1 DEF SyncInv, Buffers
  <1>3. Synced(c)'
    <2>1. CASE conn' = conn
      BY <1>1, <2>1, OthersSynced DEF SyncInv
    <2>2. CASE conn[c].c2s # <<>> /\ conn'[c].reset = conn[c].reset
      <3>1. ~conn[c].reset => ~Open(c)
        BY <1>1, <2>2, AnsweringPhase DEF Answering
      <3> QED BY <1>0, <1>1, <2>2, <3>1 DEF Synced, Open
    <2> QED BY <1>1, <2>1, <2>2
  <1> QED BY <1>1, <1>2, <1>3, ServedSync DEF SyncInv

LEMMA ServerSync ==
    ASSUME RshInv, SyncInv, ShortLines, NoEofPrinted,
           ServerStep \/ ProgStep \/ AcceptFails \/ PipeFails
    PROVE  SyncInv'
  <1>0. /\ Types /\ server \in ServerType /\ Buffers
        /\ ~Idle => cli \in Clients
    BY SessionValues DEF RshInv, SyncInv
  <1>1. CASE Accept
    BY <1>1, AcceptSync
  <1> SUFFICES ASSUME ~Accept PROVE SyncInv'
    BY <1>1
  <1>2. CASE GoDown /\ UNCHANGED client /\ server.pc # "recv"
    BY <1>2, GoDownSync
  <1> SUFFICES ASSUME ~(GoDown /\ UNCHANGED client /\ server.pc # "recv")
               PROVE  SyncInv'
    BY <1>2
  <1>3. PICK c \in Clients : c = cli
    BY <1>0 DEF Idle, ServerStep, ProgStep, AcceptFails, PipeFails, ServerRecv, ServerRecvEnd,
            ServerSend, ServerSendFails, ServerSigpipe, ServerClose, ProgWrite,
            ProgRead, ProgExit
  <1>4. Synced(c) /\ client[c].pc # "start"
    BY <1>3, ServedValues DEF SyncInv
  <1>5. CASE ServerRecvEnd
    <2>1. /\ conn' = conn /\ client' = client /\ prog' = prog
          /\ server'.pc = "close" /\ server'.buf = <<>> /\ cli' = c
          /\ server'.pending = server.pending /\ server.pc = "recv"
      BY <1>0, <1>3, <1>5 DEF ServerRecvEnd, ServerType, cli
    <2>2. Buffers'
      BY <1>0, <2>1 DEF Buffers
    <2>3. conn[c].reset \/ ~Open(c)
      BY <1>3, <1>5 DEF ServerRecvEnd, Gone
    <2>4. Synced(c)'
      BY <1>4, <2>1, <2>3 DEF Synced, Open
    <2> QED BY <1>3, <2>1, <2>2, <2>4, ServedSync DEF SyncInv
  <1>6. CASE ServerSendFails
    <2>1. /\ conn' = conn /\ client' = client /\ prog' = prog
          /\ conn[c].reset /\ server.pc = "send" /\ Rest(<<>>)
      BY <1>3, <1>6 DEF ServerSendFails
    <2>2. /\ server'.pending = <<>> /\ server'.buf = server.buf /\ cli' = c
          /\ server'.pc \in {"recv", "close"}
      BY <1>0, <1>3, <2>1, RestValues
    <2>3. Buffers'
      BY <1>0, <2>1, <2>2 DEF Buffers
    <2>4. Synced(c)'
      BY <1>4, <2>1 DEF Synced
    <2> QED BY <1>3, <2>1, <2>2, <2>3, <2>4, ServedSync DEF SyncInv
  <1>7. CASE ProgExit
    <2>1. /\ conn' = conn /\ client' = client /\ prog' = prog /\ cli' = c
          /\ server.pc = "wait" /\ server'.pc = "send"
          /\ server'.buf = server.buf /\ server'.pending = server.pending
      BY <1>0, <1>3, <1>7 DEF ProgExit, ServerType, cli
    <2>2. Buffers'
      BY <1>0, <2>1 DEF Buffers
    <2>3. Synced(c)'
      <3> SUFFICES ASSUME ~conn[c].reset, Open(c) PROVE Synced(c)'
        BY <1>4, <2>1 DEF Synced, Open
      <3>1. client[c].pc \in {"await", "final"} /\ Answering(c)
        BY <1>3, <2>1, AnsweringPhase
      <3>2. Answering(c)'
        BY <2>1, <3>1 DEF Answering
      <3> QED BY <2>1, <3>1, <3>2 DEF Synced
    <2> QED BY <1>3, <2>1, <2>2, <2>3, ServedSync DEF SyncInv
  <1> QED BY <1>3, <1>5, <1>6, <1>7, ServerRecvSync, ServerSendSync,
             HangupSync, ProgWriteSync, ProgReadSync
          DEF ServerStep, ProgStep, AcceptFails, PipeFails, ServerSigpipe, ServerClose

LEMMA InitSync == Init => SyncInv
  <1> SUFFICES ASSUME Init PROVE SyncInv
    OBVIOUS
  <1>1. Buffers
    BY DEF Init, Buffers, NoEof
  <1>2. \A c \in Clients : Synced(c)
    BY DEF Init, Synced
  <1> QED BY <1>1, <1>2 DEF SyncInv

LEMMA NextSync ==
    ASSUME ShortLines, NoEofPrinted
    PROVE  RshInv /\ SyncInv /\ [Next]_vars => SyncInv'
  <1> SUFFICES ASSUME RshInv, SyncInv, [Next]_vars PROVE SyncInv'
    OBVIOUS
  <1>1. CASE ServerStep \/ ProgStep \/ AcceptFails \/ PipeFails
    BY <1>1, ServerSync
  <1>2. ASSUME NEW c \in Clients, ClientStep(c) \/ UserStep(c) \/ Kill(c)
        PROVE  SyncInv'
    BY <1>2, ClientSync
  <1>3. CASE UNCHANGED vars
    <2>1. /\ server' = server /\ prog' = prog
          /\ conn' = conn /\ client' = client
      BY <1>3 DEF vars
    <2>2. Buffers' /\ \A c \in Clients : Synced(c)'
      BY <2>1, OthersSynced DEF SyncInv, Buffers
    <2> QED BY <2>2 DEF SyncInv
  <1> QED BY <1>1, <1>2, <1>3 DEF Next

LEMMA SyncInvariant ==
    ASSUME ShortLines, NoEofPrinted
    PROVE  Spec => [](RshInv /\ SyncInv)
  BY InitRshInv, NextRshInv, InitSync, NextSync, PTL DEF Spec

\* exec_remote_cmd_loop() and exec_client_requests() keep in step: when the
\* client prompts again, neither stream holds anything of the last command,
\* io_buff is empty and nothing of the reply is still to be sent.  Killed
\* clients and failing system calls are allowed for; what the hypotheses rule
\* out is what breaks the protocol in the code: a line that fills io_buff,
\* and a program that prints the EOF character.
THEOREM KeepsInSync ==
    ASSUME ShortLines, NoEofPrinted
    PROVE  Spec => []InSync
  <1>1. RshInv /\ SyncInv => InSync
    <2> SUFFICES ASSUME RshInv, SyncInv, NEW c \in Clients,
                        client[c].pc = "prompt", ~conn[c].reset
                 PROVE  /\ conn[c].c2s = <<>> /\ conn[c].s2c = <<>>
                        /\ cli = c => /\ server.pc \in {"recv", "close"}
                                      /\ server.buf = <<>> /\ server.pending = <<>>
      BY DEF InSync
    <2>1. Quiet(c)
      BY DEF SyncInv, Synced
    <2>2. server.pc \in {"recv", "close"} => server.pending = <<>>
      BY DEF SyncInv, Buffers
    <2> QED BY <2>1, <2>2 DEF Quiet, AtRest
  <1> QED BY <1>1, SyncInvariant, PTL
----------------------------------------------------------------------------
(* StopsOnlyOnRequest. *)

\* What the server obeys while it runs a command or sends its reply: the
\* client waits for it, or has left after the first chunk of its goodbye.
Obeying(c) ==
    /\ ~conn[c].reset
    /\ \/ client[c].pc = "await"
       \/ /\ client[c].pc = "final" /\ server.pc = "send"
          /\ conn[c].s2c \o server.pending = <<"text", "EOF">>
       \/ /\ client[c].pc = "done" /\ server.pc = "send"
          /\ server.pending = <<"EOF">>

Orderly(c) ==
    /\ client[c].pc = "start" => ~conn[c].reset
    /\ client[c].pc = "final" => LastOf(client[c].sent) \in {"exit", "stop-server"}
    /\ conn[c].srv \in {"queued", "open"} =>
          /\ conn[c].reset => client[c].pc = "done"
          /\ conn[c].c2s # <<>> => client[c].pc # "done"
    /\ (cli = c /\ server.pc \in {"send", "wait"}) => Obeying(c)
    /\ (cli = c /\ server.after = "stop") => Asked(c, StopCmds)

OrderInv == StopsOnlyOnRequest /\ \A c \in Clients : Orderly(c)

\* A whole line is taken for the command that was typed.
LEMMA CmdRead ==
    ASSUME ShortLines, NEW cmd \in Cmds
    PROVE  Meaning(CString(Line(cmd))) = cmd
  <1> DEFINE s == <<cmd, NUL>>
  <1>1. Line(cmd) = s /\ Body(cmd) = <<cmd>> /\ cmd # NUL
    BY LineIs
  <1>2. PICK nul : nul = NUL
    OBVIOUS
  <1>3. /\ Len(s) = 2 /\ s[1] # nul /\ s[2] = nul
        /\ SubSeq(s, 1, 1) = <<cmd>>
    <2>1. Len(s) = 2 /\ s[1] = cmd /\ s[2] = nul
      BY <1>2
    <2>2. ASSUME NEW a, NEW b
          PROVE  SubSeq(<<a, b>>, 1, 1) = <<a>>
      <3>1. <<a, b>> \in Seq({a, b}) /\ Len(<<a, b>>) = 2 /\ <<a, b>>[1] = a
        OBVIOUS
      <3>2. \A t \in Seq({a, b}) : Len(t) = 2 => /\ SubSeq(t, 1, 1) \in Seq({a, b})
                                                 /\ Len(SubSeq(t, 1, 1)) = 1
                                                 /\ SubSeq(t, 1, 1)[1] = t[1]
        OBVIOUS
      <3>3. \A u \in Seq({a, b}) : Len(u) = 1 => u = <<u[1]>>
        OBVIOUS
      <3> QED BY <3>1, <3>2, <3>3, Zenon
    <2> QED BY <1>1, <1>2, <2>1, <2>2
  <1> DEFINE First(i) == s[i] = NUL /\ \A j \in 1 .. i - 1 : s[j] # NUL
  <1>4. /\ 2 \in 1 .. Len(s) /\ First(2)
        /\ \A i \in 1 .. Len(s) : First(i) => i = 2
    BY <1>2, <1>3
  <1>5. Contains(s, NUL)
    BY <1>4 DEF Contains
  <1>6. CString(s) = SubSeq(s, 1, (CHOOSE i \in 1 .. Len(s) : First(i)) - 1)
    BY <1>5, Zenon DEF CString
  <1>7. (CHOOSE i \in 1 .. Len(s) : First(i)) = 2
    <2> HIDE DEF First
    <2> QED BY <1>4
  <1>8. CString(s) = <<cmd>>
    <2>1. 2 - 1 = 1
      OBVIOUS
    <2> QED BY <1>3, <1>6, <1>7, <2>1, Zenon
  <1>9. <<cmd>> # <<>> /\ <<cmd>>[1] = cmd
    OBVIOUS
  <1>10. Meaning(<<cmd>>) = cmd
    BY <1>1, <1>9, Zenon DEF Meaning
  <1> QED BY <1>1, <1>8, <1>10, Zenon

LEMMA StopAfter ==
    ASSUME NEW cmd, After(cmd) = "stop"
    PROVE  cmd \in StopCmds
  <1>1. CASE cmd \in StopCmds
    BY <1>1
  <1>2. CASE cmd \notin StopCmds
    <2>1. After(cmd) = "close" \/ After(cmd) = "recv"
      BY <1>2, Zenon DEF After
    <2> QED BY <2>1
  <1> QED BY <1>1, <1>2

LEMMA GoodbyeReply ==
    ASSUME NEW cmd \in {"exit", "stop-server"}
    PROVE  Reply(cmd) = <<"text", "EOF">> /\ cmd \notin Programs
  BY DEF Reply, Programs

\* A goodbye sent in part has one token left.
LEMMA Shifted ==
    ASSUME NEW S, NEW s \in Seq(S), NEW t \in Seq(S), t # <<>>
    PROVE  Append(s, Head(t)) \o Tail(t) = s \o t
  OBVIOUS

LEMMA SecondLeft ==
    ASSUME NEW s \in Seq(Tokens), NEW t \in Seq(Tokens),
           Len(s \o t) = 2, s # <<>>, t # <<>>
    PROVE  Len(s) = 1 /\ t = <<(s \o t)[2]>>
  <1>1. /\ Len(s) \in Nat /\ Len(t) \in Nat /\ Len(s) > 0 /\ Len(t) > 0
        /\ Len(s) + Len(t) = 2
    BY Joined
  <1>2. Len(s) = 1 /\ Len(t) = 1
    <2>1. ASSUME NEW m \in Nat, NEW k \in Nat, m > 0, k > 0, m + k = 2
          PROVE  m = 1 /\ k = 1
      BY <2>1
    <2> QED BY <1>1, <2>1, Zenon
  <1>3. (s \o t)[2] = t[1]
    BY <1>2, Joined
  <1>4. \A u \in Seq(Tokens) : Len(u) = 1 => u = <<u[1]>>
    OBVIOUS
  <1> QED BY <1>2, <1>3, <1>4

LEMMA GoodbyeLeft ==
    ASSUME NEW s \in Seq(Tokens), NEW t \in Seq(Tokens),
           s \o t = <<"text", "EOF">>, t # <<>>
    PROVE  /\ Append(s, Head(t)) \o Tail(t) = <<"text", "EOF">>
           /\ s # <<>> => Len(s) = 1 /\ t = <<"EOF">>
  <1>1. Append(s, Head(t)) \o Tail(t) = s \o t
    BY Shifted
  <1>2. Len(s \o t) = 2 /\ (s \o t)[2] = "EOF"
    OBVIOUS
  <1>3. s # <<>> => Len(s) = 1 /\ t = <<(s \o t)[2]>>
    BY <1>2, SecondLeft, Zenon
  <1> QED BY <1>1, <1>2, <1>3, Zenon

LEMMA OthersOrderly ==
    ASSUME NEW c \in Clients, Orderly(c),
           server' = server \/ (cli # c /\ cli' # c),
           conn'[c] = conn[c], client'[c] = client[c]
    PROVE  Orderly(c)'
  <1>1. CASE server' = server
    BY <1>1 DEF Orderly, Obeying, Asked, cli
  <1>2. CASE cli # c /\ cli' # c
    BY <1>2 DEF Orderly
  <1> QED BY <1>1, <1>2

LEMMA AskedGrows ==
    ASSUME NEW c \in Clients, NEW cmds, Types, Asked(c, cmds),
           \/ client'[c].sent = client[c].sent
           \/ \E cmd \in Cmds : client'[c].sent = Append(client[c].sent, cmd)
    PROVE  Asked(c, cmds)'
  <1>1. client[c].sent \in Seq(Cmds)
    BY DEF Types, ClientType
  <1>2. PICK i \in 1 .. Len(client[c].sent) : client[c].sent[i] \in cmds
    BY DEF Asked
  <1>3. CASE client'[c].sent = client[c].sent
    BY <1>2, <1>3 DEF Asked
  <1>4. CASE \E cmd \in Cmds : client'[c].sent = Append(client[c].sent, cmd)
    <2>1. PICK cmd \in Cmds : client'[c].sent = Append(client[c].sent, cmd)
      BY <1>4
    <2>2. i \in 1 .. Len(client'[c].sent) /\ client'[c].sent[i] = client[c].sent[i]
      BY <1>1, <1>2, <2>1
    <2> QED BY <1>2, <2>2 DEF Asked
  <1> QED BY <1>3, <1>4

\* Where the session is, for a client that has not left.
LEMMA OrderlyPhase ==
    ASSUME RshInv, SyncInv, NEW c \in Clients, Orderly(c), Open(c),
           conn[c].srv \in {"queued", "open"}
    PROVE  /\ ~conn[c].reset
           /\ \/ client[c].pc = "prompt" /\ Quiet(c)
              \/ /\ client[c].pc \in {"await", "final"}
                 /\ Unanswered(c) \/ Answering(c) \/ Answered(c)
  <1>1. ~conn[c].reset
    BY DEF Orderly, Open
  <1>2. ~Abandoned(c) /\ Synced(c)
    BY DEF Abandoned, SyncInv
  <1> QED BY <1>1, <1>2 DEF Synced, Open

LEMMA CloseClientOrderly ==
    ASSUME RshInv, SyncInv, NEW c \in Clients, Orderly(c), CloseClient(c),
           server' = server, Open(c),
           client[c].pc = "prompt" \/ conn[c].reset \/ conn[c].srv = "closed"
    PROVE  Orderly(c)'
  <1>0. Types /\ cli' = cli
    BY DEF RshInv, cli
  <1>1. /\ client'[c].pc = "done" /\ client'[c].sent = client[c].sent
        /\ conn'[c].c2s = conn[c].c2s /\ conn'[c].srv = conn[c].srv
        /\ conn'[c].reset <=> conn[c].reset \/ conn[c].s2c # <<>>
    BY <1>0, CloseClientDone
  <1>2. conn[c].srv = "open" <=> cli = c
    BY DEF RshInv, SessionInv, NoLeakedSession
  <1>3. (cli = c /\ server.after = "stop") => Asked(c, StopCmds)'
    BY <1>0, <1>1, AskedGrows DEF Orderly
  <1>4. CASE conn[c].srv \notin {"queued", "open"}
    BY <1>0, <1>1, <1>2, <1>3, <1>4 DEF Orderly
  <1>5. CASE conn[c].srv \in {"queued", "open"}
    <2>1. conn[c].c2s = <<>> /\ (cli = c => AtRest)
      BY <1>5, OrderlyPhase DEF Quiet
    <2> QED BY <1>0, <1>1, <1>3, <2>1 DEF Orderly, AtRest
  <1> QED BY <1>4, <1>5

LEMMA ConnectOrderly ==
    ASSUME RshInv, SyncInv, NEW c \in Clients, Orderly(c), Connect(c)
    PROVE  Orderly(c)'
  <1>0. Types /\ cli' = cli
    BY DEF RshInv, Connect, cli
  <1>1. /\ client[c].pc = "start" /\ client'[c].pc \in {"prompt", "done"}
        /\ conn'[c].c2s = conn[c].c2s /\ conn'[c].reset = conn[c].reset
    BY <1>0, ConnectValues
  <1>2. conn[c].c2s = <<>> /\ ~conn[c].reset
    BY <1>1 DEF SyncInv, Synced, Orderly
  <1>3. cli # c
    BY <1>1 DEF RshInv, SessionInv, Waiting, NoLeakedSession
  <1> QED BY <1>0, <1>1, <1>2, <1>3 DEF Orderly

LEMMA TypeOrderly ==
    ASSUME RshInv, SyncInv, NEW c \in Clients, Orderly(c), Type(c)
    PROVE  Orderly(c)'
  <1>0. Types /\ cli' = cli /\ server' = server /\ client[c].pc = "prompt"
    BY DEF RshInv, Type, cli
  <1>1. CASE CloseClient(c)
    BY <1>0, <1>1, CloseClientOrderly DEF Open
  <1>2. CASE ~CloseClient(c)
    <2>1. ~conn[c].reset /\ conn'[c].srv = conn[c].srv
      BY <1>0, <1>2, TypeValues
    <2>2. PICK cmd \in Cmds :
            /\ client'[c].sent = Append(client[c].sent, cmd)
            /\ client'[c].pc = IF cmd \in {"exit", "stop-server"}
                               THEN "final" ELSE "await"
            /\ conn[c].srv # "closed" => ~conn'[c].reset
      BY <1>0, <1>2, TypeValues
    <2>3. cli = c => AtRest
      BY <1>0, <2>1 DEF SyncInv, Synced, Quiet
    <2>4. LastOf(client'[c].sent) = cmd
      <3>1. client[c].sent \in Seq(Cmds)
        BY <1>0 DEF Types, ClientType
      <3> QED BY <2>2, <3>1 DEF LastOf
    <2>5. (cli = c /\ server.after = "stop") => Asked(c, StopCmds)'
      BY <1>0, <2>2, AskedGrows DEF Orderly
    <2> QED BY <1>0, <2>1, <2>2, <2>3, <2>4, <2>5 DEF Orderly, AtRest
  <1> QED BY <1>1, <1>2

LEMMA ClientRecvOrderly ==
    ASSUME RshInv, SyncInv, NEW c \in Clients, Orderly(c), ClientRecv(c)
    PROVE  Orderly(c)'
  <1>0. Types /\ cli' = cli /\ server' = server
    BY DEF RshInv, ClientRecv, cli
  <1>1. /\ client[c].pc = "await" /\ client'[c].sent = client[c].sent
        /\ conn'[c].c2s = conn[c].c2s /\ conn'[c].srv = conn[c].srv
        /\ conn'[c].reset = conn[c].reset
    BY <1>0, ClientRecvValues
  <1>2. PICK n \in Chunks(conn[c].s2c, BUFF_SZ - 1) :
          client'[c].pc = IF IsEof(SubSeq(conn[c].s2c, 1, n))
                          THEN "prompt" ELSE "await"
    BY <1>0, ClientRecvValues
  <1>3. ASSUME cli = c, server.pc \in {"send", "wait"}
        PROVE  Obeying(c)'
    <2>1. Obeying(c)
      BY <1>3 DEF Orderly
    <2>2. NoEof(conn[c].s2c) /\ conn[c].s2c \in Seq(Tokens)
      BY <1>1, <1>3, <2>1, AnsweringPhase, ServedValues
         DEF Obeying, Answering, Open
    <2>3. client'[c].pc = "await"
      BY <1>2, <2>2, EofReceived, BoundAssumption
    <2> QED BY <1>1, <2>1, <2>3 DEF Obeying
  <1>4. (cli = c /\ server.after = "stop") => Asked(c, StopCmds)'
    BY <1>0, <1>1, AskedGrows DEF Orderly
  <1> QED BY <1>0, <1>1, <1>2, <1>3, <1>4 DEF Orderly

LEMMA ClientFinalOrderly ==
    ASSUME RshInv, SyncInv, NEW c \in Clients, Orderly(c), ClientFinal(c),
           FinalChunk(c)
    PROVE  Orderly(c)'
  <1>0. Types /\ cli' = cli /\ server' = server
    BY DEF RshInv, ClientFinal, cli
  <1>1. /\ client[c].pc = "final" /\ client'[c].pc = "done"
        /\ client'[c].sent = client[c].sent
        /\ conn'[c].c2s = conn[c].c2s /\ conn'[c].srv = conn[c].srv
    BY <1>0, ClientFinalValues
  <1>2. PICK n \in Chunks(conn[c].s2c, BUFF_SZ - 1) :
          conn'[c].reset <=> conn[c].reset \/ n < Len(conn[c].s2c)
    BY <1>0, ClientFinalValues
  <1>3. /\ conn[c].s2c \in Seq(Tokens) /\ server.pending \in Seq(Tokens)
        /\ n \in Nat /\ 1 <= n /\ n <= Len(conn[c].s2c) /\ conn[c].s2c # <<>>
    <2>1. conn[c].s2c \in Seq(Tokens) /\ server.pending \in Seq(Tokens)
      BY <1>0 DEF Types, Connection, ServerType
    <2>2. n \in Nat /\ 1 <= n /\ n <= Len(conn[c].s2c)
      BY <2>1, DropType, BoundAssumption
    <2> QED BY <2>1, <2>2
  <1>4. conn[c].srv = "open" <=> cli = c
    BY DEF RshInv, SessionInv, NoLeakedSession
  <1>5. (cli = c /\ server.after = "stop") => Asked(c, StopCmds)'
    BY <1>0, <1>1, AskedGrows DEF Orderly
  <1>6. CASE conn[c].srv \notin {"queued", "open"}
    BY <1>0, <1>1, <1>4, <1>5, <1>6 DEF Orderly
  <1>7. CASE conn[c].srv \in {"queued", "open"}
    <2>1. conn[c].c2s = <<>>
      BY <1>1, <1>3, <1>7, OrderlyPhase
         DEF Open, Unanswered, Answering, Answered
    <2>2. ASSUME cli = c, server.pc \in {"send", "wait"}
          PROVE  Obeying(c)'
      <3>1. /\ ~conn[c].reset /\ server.pc = "send"
            /\ conn[c].s2c \o server.pending = <<"text", "EOF">>
        BY <1>1, <2>2 DEF Orderly, Obeying
      <3>2. server.pending # <<>>
        BY <2>2 DEF SyncInv, Buffers, OneEof
      <3>3. Len(conn[c].s2c) = 1 /\ server.pending = <<"EOF">>
        BY <1>3, <3>1, <3>2, GoodbyeLeft
      <3>4. ~conn'[c].reset
        BY <1>2, <1>3, <3>1, <3>3
      <3> QED BY <1>0, <1>1, <3>1, <3>3, <3>4 DEF Obeying
    <2> QED BY <1>0, <1>1, <1>5, <2>1, <2>2 DEF Orderly
  <1> QED BY <1>6, <1>7

LEMMA ClientOrder ==
    ASSUME RshInv, SyncInv, OrderInv, ~Kills, NEW c \in Clients,
           ClientStep(c) \/ UserStep(c) \/ Kill(c)
    PROVE  OrderInv'
  <1>0. Types /\ Orderly(c)
    BY DEF RshInv, OrderInv
  <1>1. server' = server /\ cli' = cli
    BY DEF ClientStep, UserStep, Connect, ClientRecv, ClientRecvEnd,
           ClientFinal, Type, EndInput, Kill, cli
  <1>2. Orderly(c)'
    <2>1. CASE EndInput(c) \/ ClientRecvEnd(c)
      BY <1>0, <1>1, <2>1, CloseClientOrderly DEF EndInput, ClientRecvEnd, Open
    <2>2. CASE ClientFinal(c)
      <3>1. CASE FinalChunk(c)
        BY <1>0, <2>2, <3>1, ClientFinalOrderly
      <3>2. CASE ~FinalChunk(c)
        <4>1. /\ CloseClient(c) /\ Open(c)
              /\ conn[c].reset \/ conn[c].srv = "closed"
          BY <2>2, <3>2 DEF ClientFinal, FinalChunk, Open
        <4> QED BY <1>0, <1>1, <4>1, CloseClientOrderly
      <3> QED BY <3>1, <3>2
    <2> QED BY <1>0, <2>1, <2>2, ConnectOrderly, TypeOrderly, ClientRecvOrderly
            DEF ClientStep, UserStep, Kill
  <1>3. /\ \A d \in Clients \ {c} : conn'[d] = conn[d] /\ client'[d] = client[d]
        /\ \/ client'[c].sent = client[c].sent
           \/ \E cmd \in Cmds : client'[c].sent = Append(client[c].sent, cmd)
    <2>1. CASE CloseClient(c)
      BY <1>0, <2>1, CloseClientDone
    <2>2. CASE ~CloseClient(c)
      BY <1>0, <2>2, ConnectValues, TypeValues, ClientRecvValues,
         ClientFinalValues
         DEF ClientStep, UserStep, ClientRecvEnd, ClientFinal, FinalChunk,
             EndInput, Kill
    <2> QED BY <2>1, <2>2
  <1>4. \A d \in Clients \ {c} : Orderly(d)'
    BY <1>1, <1>3, OthersOrderly DEF OrderInv
  <1>5. StopsOnlyOnRequest'
    <2>1. \A d \in Clients : Asked(d, StopCmds) => Asked(d, StopCmds)'
      BY <1>0, <1>3, AskedGrows
    <2> QED BY <1>1, <2>1 DEF OrderInv, StopsOnlyOnRequest, Up
  <1> QED BY <1>2, <1>4, <1>5 DEF OrderInv

\* A step of the server that leaves it up, and what it must establish.
LEMMA ServedOrder ==
    ASSUME OrderInv, NEW c \in Clients, cli = c, client' = client,
           cli' = c \/ cli' = NoOne, server'.pc # "down",
           \A d \in Clients \ {c} : conn'[d] = conn[d],
           Orderly(c)'
    PROVE  OrderInv'
  <1>1. ASSUME NEW d \in Clients \ {c}
        PROVE  Orderly(d)'
    <2>1. cli # d /\ cli' # d /\ conn'[d] = conn[d] /\ client'[d] = client[d]
      BY <1>1, ClientAssumption
    <2> QED BY <2>1, OthersOrderly DEF OrderInv
  <1>2. StopsOnlyOnRequest'
    BY DEF StopsOnlyOnRequest, Up
  <1> QED BY <1>1, <1>2 DEF OrderInv

LEMMA AcceptOrder ==
    ASSUME RshInv, OrderInv, Accept
    PROVE  OrderInv'
  <1>1. /\ cli = NoOne /\ cli' \in Clients /\ cli' # NoOne
        /\ server'.pc \in {"recv", "close"} /\ server'.after = "close"
        /\ client' = client /\ conn[cli'].srv = "queued"
        /\ conn'[cli'].c2s = conn[cli'].c2s
        /\ conn'[cli'].reset = conn[cli'].reset
        /\ \A d \in Clients \ {cli'} : conn'[d] = conn[d]
    BY AcceptValues
  <1>2. PICK h \in Clients : h = cli'
    BY <1>1
  <1>3. Orderly(h)'
    BY <1>1, <1>2 DEF OrderInv, Orderly
  <1>4. ASSUME NEW d \in Clients \ {h}
        PROVE  Orderly(d)'
    <2>1. cli # d /\ cli' # d /\ conn'[d] = conn[d] /\ client'[d] = client[d]
      BY <1>1, <1>2, <1>4, ClientAssumption
    <2> QED BY <2>1, OthersOrderly DEF OrderInv
  <1>5. StopsOnlyOnRequest'
    BY <1>1 DEF StopsOnlyOnRequest, Up
  <1> QED BY <1>3, <1>4, <1>5 DEF OrderInv

LEMMA ServerRecvOrder ==
    ASSUME RshInv, SyncInv, OrderInv, ShortLines,
           NEW c \in Clients, cli = c, ServerRecv
    PROVE  OrderInv'
  <1>0. /\ Types /\ conn[c].srv = "open" /\ client[c].pc # "start"
        /\ client[c].pc \in ClientPcs
        /\ server.buf \in Seq(Bytes) /\ conn[c].c2s \in Seq(Bytes)
        /\ client[c].sent \in Seq(Cmds) /\ Orderly(c)
        /\ BUFF_SZ - 1 - Len(server.buf) \in Int
    BY ServedValues DEF OrderInv
  <1>1. /\ server.pc = "recv" /\ cli' = c /\ client' = client
        /\ conn'[c].s2c = conn[c].s2c /\ conn'[c].srv = conn[c].srv
        /\ conn'[c].reset = conn[c].reset
        /\ \A d \in Clients \ {c} : conn'[d] = conn[d]
    BY <1>0, ServerRecvValues
  <1>2. PICK n \in Chunks(conn[c].c2s, BUFF_SZ - 1 - Len(server.buf)) :
          LET chunk == SubSeq(conn[c].c2s, 1, n)
              buf   == server.buf \o chunk
              cmd   == Meaning(CString(buf))
          IN  /\ conn'[c].c2s = Drop(conn[c].c2s, n)
              /\ \/ /\ ~Contains(chunk, NUL) /\ Len(buf) < BUFF_SZ - 1
                    /\ server'.buf = buf /\ server'.pc = "recv"
                    /\ server'.pending = server.pending
                    /\ prog' = prog /\ server'.after = server.after
                 \/ /\ Contains(chunk, NUL) \/ ~(Len(buf) < BUFF_SZ - 1)
                    /\ server'.buf = <<>> /\ server'.pending = Reply(cmd)
                    /\ server'.after = After(cmd)
                    /\ server'.pc = IF cmd \in Programs THEN "wait" ELSE "send"
                    /\ prog'.out \in Outputs \/ prog'.out = <<>>
    BY <1>0, ServerRecvValues
  <1>3. conn[c].c2s # <<>>
    BY <1>0, <1>2, DropType
  <1>4. Open(c)
    BY <1>0, <1>3 DEF Orderly, Open, ClientPcs
  <1>5. /\ ~conn[c].reset /\ client[c].pc \in {"await", "final"}
        /\ Unanswered(c)
    BY <1>0, <1>3, <1>4, OrderlyPhase DEF Quiet, Answering, Answered
  <1> DEFINE cmd   == LastOf(client[c].sent)
             chunk == SubSeq(conn[c].c2s, 1, n)
             buf   == server.buf \o chunk
             rest  == Drop(conn[c].c2s, n)
  <1>6. cmd \in Cmds /\ cmd = client[c].sent[Len(client[c].sent)]
    BY <1>0, <1>5 DEF Unanswered, LastOf
  <1>7. server.buf \o conn[c].c2s = Line(cmd)
    BY <1>5 DEF Unanswered, Left
  <1>8. /\ Contains(chunk, NUL) <=> rest = <<>>
        /\ rest = <<>> => buf = Line(cmd)
        /\ rest # <<>> => Len(buf) < BUFF_SZ - 1
    BY <1>0, <1>6, <1>7, LineRead
  <1>9. \/ /\ server'.pc = "recv" /\ server'.after = server.after
        \/ /\ buf = Line(cmd) /\ LET read == Meaning(CString(buf))
                                 IN  /\ server'.pending = Reply(read)
                                     /\ server'.after = After(read)
                                     /\ server'.pc = IF read \in Programs
                                                     THEN "wait" ELSE "send"
    BY <1>2, <1>8
  <1> HIDE DEF cmd, chunk, buf, rest
  <1>10. \/ /\ server'.pc = "recv" /\ server'.after = server.after
         \/ /\ server'.pending = Reply(cmd) /\ server'.after = After(cmd)
            /\ server'.pc = IF cmd \in Programs THEN "wait" ELSE "send"
    BY <1>6, <1>9, CmdRead, Zenon
  <1>11. Asked(c, StopCmds) => Asked(c, StopCmds)'
    BY <1>1 DEF Asked
  <1>12. ASSUME server'.pc = "recv", server'.after = server.after
         PROVE  Orderly(c)'
    BY <1>0, <1>1, <1>5, <1>11, <1>12 DEF Orderly
  <1>13. ASSUME server'.pending = Reply(cmd), server'.after = After(cmd),
                server'.pc = IF cmd \in Programs THEN "wait" ELSE "send"
         PROVE  Orderly(c)'
    <2>1. server'.after = "stop" => Asked(c, StopCmds)'
      <3>1. Len(client[c].sent) \in 1 .. Len(client[c].sent)
        BY <1>0, <1>5 DEF Unanswered
      <3>2. server'.after = "stop" => cmd \in StopCmds
        BY <1>13, StopAfter, Zenon
      <3> QED BY <1>1, <1>6, <3>1, <3>2 DEF Asked
    <2>2. Obeying(c)'
      <3>1. CASE client[c].pc = "await"
        BY <1>1, <1>5, <3>1 DEF Obeying
      <3>2. CASE client[c].pc = "final"
        <4>1. cmd \in {"exit", "stop-server"}
          BY <1>0, <3>2 DEF Orderly, cmd
        <4>2. server'.pending = <<"text", "EOF">> /\ server'.pc = "send"
          BY <1>13, <4>1, GoodbyeReply
        <4>3. conn'[c].s2c = <<>>
          BY <1>1, <1>5 DEF Unanswered
        <4>4. <<>> \o <<"text", "EOF">> = <<"text", "EOF">>
          OBVIOUS
        <4> QED BY <1>1, <1>5, <3>2, <4>2, <4>3, <4>4 DEF Obeying
      <3> QED BY <1>5, <3>1, <3>2
    <2> QED BY <1>0, <1>1, <1>5, <2>1, <2>2 DEF Orderly
  <1>14. Orderly(c)'
    BY <1>10, <1>12, <1>13
  <1>15. server'.pc # "down"
    BY <1>10
  <1> QED BY <1>1, <1>14, <1>15, ServedOrder

LEMMA ServerSendOrder ==
    ASSUME RshInv, SyncInv, OrderInv, NEW c \in Clients, cli = c, ServerSend
    PROVE  OrderInv'
  <1>0. /\ Types /\ conn[c].srv = "open" /\ client[c].pc # "start"
        /\ server.pending \in Seq(Tokens) /\ conn[c].s2c \in Seq(Tokens)
        /\ Orderly(c)
    BY ServedValues DEF OrderInv
  <1>1. server.pc = "send" /\ client' = client
    BY DEF ServerSend
  <1>2. Obeying(c) /\ OneEof(server.pending)
    BY <1>0, <1>1 DEF Orderly, SyncInv, Buffers
  <1> DEFINE token == Head(server.pending)
             left  == Tail(server.pending)
  <1>3. token \in Tokens /\ Deliver(token) /\ Rest(left)
    BY <1>0, <1>2, EofSent DEF ServerSend
  <1>4. server.pending = <<"EOF">> => left = <<>>
    OBVIOUS
  <1>5. conn[c].s2c \o server.pending = <<"text", "EOF">>
          => Append(conn[c].s2c, token) \o left = <<"text", "EOF">>
    BY <1>0, <1>2, GoodbyeLeft DEF OneEof
  <1> HIDE DEF token, left
  <1>6. /\ conn'[c].c2s = conn[c].c2s /\ conn'[c].srv = conn[c].srv
        /\ Open(c) => /\ conn'[c].s2c = Append(conn[c].s2c, token)
                      /\ conn'[c].reset = conn[c].reset
        /\ \A d \in Clients \ {c} : conn'[d] = conn[d]
    BY <1>0, <1>3, DeliverValues
  <1>7. /\ server'.pending = left /\ server'.after = server.after /\ cli' = c
        /\ IF left # <<>> THEN server'.pc = "send"
           ELSE server'.pc \in {"recv", "close"}
    BY <1>0, <1>3, RestValues
  <1>8. server'.after = "stop" => Asked(c, StopCmds)'
    BY <1>0, <1>1, <1>7 DEF Orderly, Asked
  <1>9. server'.pc \in {"send", "wait"} => Obeying(c)'
    BY <1>1, <1>2, <1>4, <1>5, <1>6, <1>7 DEF Obeying, Open
  <1>10. conn'[c].reset => client[c].pc = "done"
    BY <1>2, <1>6 DEF Obeying, Open
  <1>11. Orderly(c)'
    BY <1>0, <1>1, <1>6, <1>8, <1>9, <1>10 DEF Orderly
  <1> QED BY <1>1, <1>6, <1>7, <1>11, ServedOrder

LEMMA ProgWriteOrder ==
    ASSUME RshInv, SyncInv, OrderInv, NEW c \in Clients, cli = c, ProgWrite
    PROVE  OrderInv'
  <1>0. /\ Types /\ conn[c].srv = "open" /\ client[c].pc # "start"
        /\ prog.out \in Seq(Tokens) /\ Orderly(c)
    BY ServedValues DEF OrderInv
  <1>1. /\ server' = server /\ client' = client /\ server.pc = "wait"
        /\ prog.out # <<>> /\ cli' = c
        /\ ~conn[c].reset => Deliver(Head(prog.out))
    BY <1>0, ProgWriteValues DEF cli
  <1>2. Obeying(c) /\ Open(c) /\ ~conn[c].reset
    BY <1>0, <1>1 DEF Orderly, Obeying, Open
  <1> DEFINE token == Head(prog.out)
  <1>3. token \in Tokens /\ Deliver(token)
    BY <1>0, <1>1, <1>2, PopType
  <1> HIDE DEF token
  <1>4. /\ conn'[c].c2s = conn[c].c2s /\ conn'[c].srv = conn[c].srv
        /\ conn'[c].reset = conn[c].reset
        /\ \A d \in Clients \ {c} : conn'[d] = conn[d]
    BY <1>0, <1>2, <1>3, DeliverValues
  <1>5. Obeying(c)'
    BY <1>1, <1>2, <1>4 DEF Obeying
  <1>6. Orderly(c)'
    BY <1>0, <1>1, <1>4, <1>5 DEF Orderly, Asked
  <1> QED BY <1>1, <1>4, <1>6, ServedOrder

LEMMA ProgReadOrder ==
    ASSUME RshInv, SyncInv, OrderInv, NEW c \in Clients, cli = c, ProgRead
    PROVE  OrderInv'
  <1>0. Types /\ Orderly(c)
    BY ServedValues DEF OrderInv
  <1>1. /\ server' = server /\ client' = client /\ server.pc = "wait"
        /\ conn' = conn \/ conn[c].c2s # <<>>
        /\ \A d \in Clients \ {c} : conn'[d] = conn[d]
        /\ cli' = c
    BY <1>0, ProgReadValues DEF cli
  <1>2. Open(c) /\ ~conn[c].reset
    BY <1>0, <1>1 DEF Orderly, Obeying, Open
  <1>3. conn' = conn
    BY <1>1, <1>2, AnsweringPhase DEF Answering
  <1>4. Orderly(c)'
    BY <1>0, <1>1, <1>3, OthersOrderly
  <1> QED BY <1>1, <1>4, ServedOrder

LEMMA HangupOrder ==
    ASSUME RshInv, OrderInv, NEW c \in Clients, cli = c,
           ServerClose, server.after # "stop"
    PROVE  OrderInv'
  <1>0. /\ Types /\ client[c].pc # "start" /\ Orderly(c)
    BY ServedValues DEF OrderInv
  <1>1. /\ cli' = NoOne /\ server'.pc = "accept" /\ client' = client
        /\ conn'[c].srv = "closed"
        /\ \A d \in Clients \ {c} : conn'[d] = conn[d]
    BY <1>0, HangupValues
  <1>2. Orderly(c)'
    BY <1>0, <1>1, ClientAssumption DEF Orderly
  <1> QED BY <1>1, <1>2, ServedOrder

\* The one way down: some client's stop-server.
LEMMA GoDownOrder ==
    ASSUME RshInv, OrderInv, GoDown, client' = client,
           NEW s \in Clients, Asked(s, StopCmds)
    PROVE  OrderInv'
  <1>1. ASSUME NEW c \in Clients
        PROVE  Orderly(c)'
    <2>1. /\ cli' # c
          /\ conn'[c].srv \notin {"queued", "open"}
          /\ client[c].pc = "start" => conn'[c] = conn[c]
      <3>1. client[c].pc = "start" => conn[c].srv = "none"
        BY DEF RshInv, SessionInv, Waiting
      <3> QED BY <3>1, GoDownValues, ClientAssumption
    <2> QED BY <2>1 DEF OrderInv, Orderly
  <1>2. Asked(s, StopCmds)'
    BY DEF Asked
  <1> QED BY <1>1, <1>2 DEF OrderInv, StopsOnlyOnRequest

LEMMA ServerOrder ==
    ASSUME RshInv, SyncInv, OrderInv, ShortLines, ~SysFaults,
           ServerStep \/ ProgStep \/ AcceptFails \/ PipeFails
    PROVE  OrderInv'
  <1>0. /\ Types /\ server \in ServerType
        /\ ~Idle => cli \in Clients
    BY SessionValues DEF RshInv
  <1>1. CASE Accept
    BY <1>1, AcceptOrder
  <1> SUFFICES ASSUME ~Accept PROVE OrderInv'
    BY <1>1
  <1>2. PICK c \in Clients : c = cli
    BY <1>0 DEF Idle, ServerStep, ProgStep, AcceptFails, PipeFails, ServerRecv, ServerRecvEnd,
            ServerSend, ServerSendFails, ServerSigpipe, ServerClose, ProgWrite,
            ProgRead, ProgExit
  <1>3. Orderly(c)
    BY DEF OrderInv
  <1>4. CASE ServerRecvEnd
    <2>1. /\ conn' = conn /\ client' = client /\ cli' = c
          /\ server'.pc = "close" /\ server'.after = "close"
      BY <1>0, <1>2, <1>4 DEF ServerRecvEnd, ServerType, cli
    <2>2. Orderly(c)'
      BY <1>3, <2>1 DEF Orderly
    <2> QED BY <1>2, <2>1, <2>2, ServedOrder
  <1>5. CASE ProgExit
    <2>1. /\ conn' = conn /\ client' = client /\ cli' = c
          /\ server.pc = "wait" /\ server'.pc = "send"
          /\ server'.after = server.after
      BY <1>0, <1>2, <1>5 DEF ProgExit, ServerType, cli
    <2>2. Obeying(c)'
      BY <1>2, <1>3, <2>1 DEF Orderly, Obeying
    <2>3. Orderly(c)'
      BY <1>2, <1>3, <2>1, <2>2 DEF Orderly, Asked
    <2> QED BY <1>2, <2>1, <2>3, ServedOrder
  <1>6. CASE ServerSendFails \/ ServerSigpipe
    BY <1>2, <1>3, <1>6 DEF ServerSendFails, ServerSigpipe, Orderly, Obeying
  <1>7. CASE ServerClose /\ server.after = "stop"
    BY <1>2, <1>3, <1>7, GoDownOrder DEF ServerClose, Orderly
  <1> QED BY <1>2, <1>4, <1>5, <1>6, <1>7, ServerRecvOrder, ServerSendOrder,
             ProgWriteOrder, ProgReadOrder, HangupOrder
          DEF ServerStep, ProgStep, AcceptFails, PipeFails

LEMMA InitOrder == Init => OrderInv
  BY ClientAssumption
     DEF Init, OrderInv, Orderly, StopsOnlyOnRequest, Up, cli

LEMMA NextOrder ==
    ASSUME ShortLines, ~Kills, ~SysFaults
    PROVE  RshInv /\ SyncInv /\ OrderInv /\ [Next]_vars => OrderInv'
  <1> SUFFICES ASSUME RshInv, SyncInv, OrderInv, [Next]_vars PROVE OrderInv'
    OBVIOUS
  <1>1. CASE ServerStep \/ ProgStep \/ AcceptFails \/ PipeFails
    BY <1>1, ServerOrder
  <1>2. ASSUME NEW c \in Clients, ClientStep(c) \/ UserStep(c) \/ Kill(c)
        PROVE  OrderInv'
    BY <1>2, ClientOrder
  <1>3. CASE UNCHANGED vars
    <2>1. server' = server /\ conn' = conn /\ client' = client
      BY <1>3 DEF vars
    <2>2. \A c \in Clients : Orderly(c)'
      BY <2>1, OthersOrderly DEF OrderInv
    <2>3. StopsOnlyOnRequest'
      BY <2>1 DEF OrderInv, StopsOnlyOnRequest, Up, Asked
    <2> QED BY <2>2, <2>3 DEF OrderInv
  <1> QED BY <1>1, <1>2, <1>3 DEF Next

\* main() of the server returns only after some user has typed stop-server:
\* while clients leave on their own and system calls do not fail, the server
\* never sends on a connection that has been reset, so no SIGPIPE ends it.
\* A killed client, a failing pipe() or accept(), a line that fills io_buff or a program
\* that prints the EOF character does make it end unasked.
THEOREM EndsOnRequest ==
    ASSUME ShortLines, NoEofPrinted, ~Kills, ~SysFaults
    PROVE  Spec => []StopsOnlyOnRequest
  <1>1. Init => OrderInv
    BY InitOrder
  <1>2. RshInv /\ SyncInv /\ OrderInv /\ [Next]_vars => OrderInv'
    BY NextOrder
  <1>3. OrderInv => StopsOnlyOnRequest
    BY DEF OrderInv
  <1> QED BY <1>1, <1>2, <1>3, SyncInvariant, PTL DEF Spec
=============================================================================
