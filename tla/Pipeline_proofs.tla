--------------------------- MODULE Pipeline_proofs ---------------------------
(***************************************************************************)
(* What the proofs about PipeShell and RshPipeline share: the children of  *)
(* a line keep their types, are connected to the pipes next to them, and   *)
(* end with the status of their program or of SIGPIPE; and what a line     *)
(* prints does not depend on how its programs interleave.                  *)
(***************************************************************************)
EXTENDS Pipeline, Recursion

ChildType(statuses) ==
    [pc : {"none", "forked", "running", "zombie"},
     inp : PipeIds \cup {Terminal}, out : PipeIds \cup {Terminal},
     ends : SUBSET AllEnds, todo : Seq(Tokens),
     wants : {"none", "one", "all"}, status : statuses]

\* The line that is run: its commands, and its pipes when they are made.
LineShape == /\ shell.cmds \in Seq(AllCmds)
             /\ N \in 1 .. CMD_MAX
             /\ shell.pipes \in Seq(PipeIds)
             /\ shell.ends \in SUBSET AllEnds
PipesMade == shell.pipes \in Injection(1 .. N - 1, PipeIds)

\* A running child has the pipes next to it, and nothing to say if it asks
\* the server to stop.
Connected(i) == /\ proc[i].inp = Stdin(i) /\ proc[i].out = Stdout(i)
                /\ shell.cmds[i] = "quit" =>
                      proc[i].todo = <<>> /\ proc[i].wants = "none"

\* What a child that has ended may have for a status.
Ended(i, failed) ==
    /\ proc[i].status \in {Exited(ExitArg(shell.cmds[i], failed)), SIGPIPE}
    /\ shell.cmds[i] = "quit" => proc[i].status = Exited(EXIT_SC)

Family(failed) == \A i \in Positions :
    /\ proc[i].pc = "running" => Connected(i)
    /\ proc[i].pc = "zombie"  => Ended(i, failed)

NoChildren == \A i \in Positions : proc[i].pc = "none"
----------------------------------------------------------------------------
(* Values. *)

LEMMA PipeIdsAreNat == PipeIds \subseteq Nat \ {0} /\ Terminal \notin PipeIds
  BY SizeAssumption DEF PipeIds, Terminal

LEMMA EndsTypes ==
    /\ \A k \in PipeIds : Ends(k) \in SUBSET AllEnds
    /\ \A k \in PipeIds : <<k, "r">> \in AllEnds /\ <<k, "w">> \in AllEnds
  BY DEF AllEnds, Ends

LEMMA StdTypes ==
    ASSUME LineShape, PipesMade, NEW i \in 1 .. N
    PROVE  /\ Stdin(i) \in PipeIds \cup {Terminal}
           /\ Stdout(i) \in PipeIds \cup {Terminal}
           /\ Stdout(i) = Terminal <=> i = N
           /\ Stdin(i) = Terminal <=> i = 1
  <1>1. N \in Nat
    BY DEF LineShape
  <1>2. \A k \in 1 .. N - 1 : shell.pipes[k] \in PipeIds
    BY DEF PipesMade, Injection
  <1>3. i > 1 => i - 1 \in 1 .. N - 1
    BY <1>1
  <1>4. i < N => i \in 1 .. N - 1
    BY <1>1
  <1> QED BY <1>1, <1>2, <1>3, <1>4, PipeIdsAreNat DEF Stdin, Stdout

LEMMA PrintsType ==
    ASSUME NEW cmd, NEW failure \in Seq(Tokens)
    PROVE  /\ Prints(cmd, failure) \in Seq(Tokens)
           /\ Wants(cmd) \in {"none", "one", "all"}
           /\ cmd = "quit" => Prints(cmd, failure) = <<>> /\ Wants(cmd) = "none"
  <1>1. Text \in Seq(Tokens) /\ <<>> \in Seq(Tokens)
    BY DEF Text, Tokens
  <1>2. Prints(cmd, failure) \in Seq(Tokens)
    BY <1>1 DEF Prints
  <1>3. Wants(cmd) \in {"none", "one", "all"}
    BY DEF Wants
  <1> QED BY <1>2, <1>3 DEF Prints, Wants, NotFound

\* pipe() makes pipes that are all different and that nobody holds.
LEMMA NewPipesType ==
    ASSUME N \in 1 .. CMD_MAX, NEW pipes \in NewPipes
    PROVE  /\ pipes \in Seq(PipeIds) /\ Len(pipes) = N - 1
           /\ pipes \in Injection(1 .. N - 1, PipeIds)
           /\ \A k \in Range(pipes) : k \in FreePipes
  <1>1. pipes \in [1 .. N - 1 -> FreePipes] /\ pipes \in Injection(1 .. N - 1, FreePipes)
    BY DEF NewPipes, Injection
  <1>2. N - 1 \in Nat
    OBVIOUS
  <1>3. pipes \in [1 .. N - 1 -> PipeIds]
    BY <1>1 DEF FreePipes
  <1>4. pipes \in Seq(PipeIds) /\ Len(pipes) = N - 1
    BY <1>2, <1>3
  <1> QED BY <1>1, <1>3, <1>4 DEF Injection, Range
----------------------------------------------------------------------------
(* Steps of a child. *)

LEMMA HasReadType ==
    ASSUME NEW statuses, ChildrenOK(statuses),
           NEW i \in Positions, NEW token \in Tokens, proc' = HasRead(i, token)
    PROVE  \E todo \in Seq(Tokens), wants \in {"none", "one", "all"} :
              proc' = [proc EXCEPT ![i].todo = todo, ![i].wants = wants]
  <1> DEFINE todo  == <<token>>
             wants == IF proc[i].wants = "one" THEN "none" ELSE proc[i].wants
  <1>1. proc' = [proc EXCEPT ![i].todo = todo, ![i].wants = wants]
    BY DEF HasRead
  <1>2. proc \in [Positions -> ChildType(statuses)]
    BY DEF ChildrenOK, ChildType
  <1>3. todo \in Seq(Tokens) /\ wants \in {"none", "one", "all"}
    BY <1>2 DEF ChildType
  <1> HIDE DEF todo, wants
  <1> QED BY <1>1, <1>3

LEMMA DieTypes ==
    ASSUME NEW statuses, ChildrenOK(statuses), 0 \in statuses,
           NEW i \in Positions, NEW status \in statuses, Die(i, status)
    PROVE  /\ ChildrenOK(statuses)'
           /\ proc'[i].pc = "zombie" /\ proc'[i].status = status
           /\ \A j \in Positions \ {i} : proc'[j] = proc[j]
  <1>1. proc \in [Positions -> ChildType(statuses)]
    BY DEF ChildrenOK, ChildType
  <1>2. [Nobody EXCEPT !.pc = "zombie", !.status = status] \in ChildType(statuses)
    <2>1. <<>> \in Seq(Tokens)
      OBVIOUS
    <2> QED BY <2>1 DEF Nobody, ChildType
  <1>3. proc' \in [Positions -> ChildType(statuses)]
    BY <1>1, <1>2 DEF Die
  <1>4. ChildrenOK(statuses)'
    BY <1>3 DEF Die, ChildrenOK, ChildType
  <1>5. proc'[i].pc = "zombie" /\ proc'[i].status = status
    <2>1. proc'[i] = [Nobody EXCEPT !.pc = "zombie", !.status = status]
      BY <1>1 DEF Die
    <2> QED BY <2>1 DEF Nobody
  <1> QED BY <1>1, <1>4, <1>5 DEF Die

LEMMA ExecTypes ==
    ASSUME NEW statuses, ChildrenOK(statuses), LineShape, PipesMade,
           NEW failure \in Seq(Tokens), NEW i \in 1 .. N, i \in Positions,
           Exec(i, failure)
    PROVE  /\ ChildrenOK(statuses)'
           /\ proc'[i].pc = "running" /\ Connected(i)'
           /\ \A j \in Positions \ {i} : proc'[j] = proc[j]
  <1> DEFINE todo  == Prints(shell.cmds[i], failure)
             wants == Wants(shell.cmds[i])
             ends  == AfterClosing(i)
             inp   == Stdin(i)
             stdout == Stdout(i)
  <1>1. proc \in [Positions -> ChildType(statuses)]
    BY DEF ChildrenOK, ChildType
  <1>2. /\ todo \in Seq(Tokens) /\ wants \in {"none", "one", "all"}
        /\ shell.cmds[i] = "quit" => todo = <<>> /\ wants = "none"
    BY PrintsType
  <1>3. inp \in PipeIds \cup {Terminal} /\ stdout \in PipeIds \cup {Terminal}
    BY StdTypes
  <1>4. ends \in SUBSET AllEnds
    BY <1>1 DEF AfterClosing, ChildType
  <1>5. /\ proc' = [proc EXCEPT ![i] =
                  [@ EXCEPT !.pc = "running", !.inp = inp, !.out = stdout,
                            !.ends = ends, !.todo = todo, !.wants = wants]]
        /\ UNCHANGED <<shell, pipe, out>>
    BY DEF Exec
  <1>6. Stdin(i)' = inp /\ Stdout(i)' = stdout /\ shell' = shell
    BY <1>5 DEF Stdin, Stdout, N
  <1> HIDE DEF todo, wants, ends, inp, stdout
  <1>7. /\ proc' \in [Positions -> ChildType(statuses)]
        /\ proc'[i].pc = "running" /\ proc'[i].inp = inp /\ proc'[i].out = stdout
        /\ proc'[i].todo = todo /\ proc'[i].wants = wants
        /\ \A j \in Positions \ {i} : proc'[j] = proc[j]
    BY <1>1, <1>2, <1>3, <1>4, <1>5, ZenonT(40) DEF ChildType
  <1>8. Connected(i)'
    BY <1>2, <1>6, <1>7 DEF Connected
  <1>9. ChildrenOK(statuses)'
    BY <1>5, <1>7 DEF ChildrenOK, ChildType
  <1> QED BY <1>7, <1>8, <1>9

\* What a child writes or reads leaves it connected, and changes nobody else.
LEMMA StillConnected ==
    ASSUME NEW statuses, ChildrenOK(statuses), NEW i \in Positions,
           NEW todo \in Seq(Tokens), NEW wants \in {"none", "one", "all"},
           Connected(i), shell' = shell, shell.cmds[i] # "quit",
           proc' = [proc EXCEPT ![i].todo = todo, ![i].wants = wants]
    PROVE  /\ proc' \in [Positions -> ChildType(statuses)]
           /\ proc'[i].pc = proc[i].pc /\ Connected(i)'
           /\ \A j \in Positions \ {i} : proc'[j] = proc[j]
  <1>1. proc \in [Positions -> ChildType(statuses)]
    BY DEF ChildrenOK, ChildType
  <1> DEFINE new == [proc[i] EXCEPT !.todo = todo, !.wants = wants]
  <1>2. new \in ChildType(statuses)
    BY <1>1 DEF ChildType
  <1>3. new.pc = proc[i].pc /\ new.inp = proc[i].inp /\ new.out = proc[i].out
    BY <1>1 DEF ChildType
  <1>4. proc' = [proc EXCEPT ![i] = new]
    OBVIOUS
  <1> HIDE DEF new
  <1>5. /\ proc' \in [Positions -> ChildType(statuses)]
        /\ \A j \in Positions \ {i} : proc'[j] = proc[j]
        /\ proc'[i].pc = proc[i].pc
        /\ proc'[i].inp = proc[i].inp /\ proc'[i].out = proc[i].out
    BY <1>1, <1>2, <1>3, <1>4
  <1>6. Connected(i)'
    BY <1>5 DEF Connected, Stdin, Stdout, N
  <1> QED BY <1>5, <1>6

\* A step that keeps the line keeps what is defined by it.
LEMMA LineKept ==
    ASSUME shell'.cmds = shell.cmds, shell'.pipes = shell.pipes
    PROVE  N' = N /\ LineEnds' = LineEnds /\ PipesMade' = PipesMade
  BY DEF N, LineEnds, PipesMade

\* What a child that is left alone keeps.
LEMMA OthersKeep ==
    ASSUME shell'.cmds = shell.cmds, shell'.pipes = shell.pipes, NEW failed, Family(failed), NEW i,
           \A j \in Positions \ {i} : proc'[j] = proc[j],
           i \in Positions => /\ proc'[i].pc = "running" => Connected(i)'
                              /\ proc'[i].pc = "zombie"  => Ended(i, failed)'
    PROVE  Family(failed)'
  <1> SUFFICES ASSUME NEW j \in Positions
               PROVE  /\ proc'[j].pc = "running" => Connected(j)'
                      /\ proc'[j].pc = "zombie"  => Ended(j, failed)'
    BY DEF Family
  <1>1. CASE j = i
    BY <1>1 DEF Connected, Ended, Stdin, Stdout, N
  <1>2. CASE j # i
    <2>1. proc'[j] = proc[j]
      BY <1>2
    <2>2. Connected(j) => Connected(j)'
      BY <2>1 DEF Connected, Stdin, Stdout, N
    <2>3. Ended(j, failed) => Ended(j, failed)'
      BY <2>1 DEF Ended
    <2> QED BY <2>1, <2>2, <2>3 DEF Family
  <1> QED BY <1>1, <1>2

LEMMA ChildSteps ==
    ASSUME NEW statuses, ChildrenOK(statuses), LineShape, PipesMade,
           NEW failure \in Seq(Tokens), NEW failed, NEW ended, Family(failed),
           NEW i \in 1 .. N, i \in Positions,
           0 \in statuses, SIGPIPE \in statuses,
           Exited(ExitArg(shell.cmds[i], failed)) \in statuses,
           Child(i, failure, failed, ended)
    PROVE  /\ ChildrenOK(statuses)' /\ Family(failed)' /\ UNCHANGED <<shell, out>>
           /\ \A j \in Positions \ {i} : proc'[j] = proc[j]
           /\ proc[i].pc \in {"forked", "running"}
           /\ proc'[i].pc \in {"running", "zombie"}
           /\ proc'[i].pc = "zombie" /\ i = N =>
                 proc'[i].status = Exited(ExitArg(shell.cmds[i], failed))
  <1>0. /\ proc \in [Positions -> ChildType(statuses)]
        /\ pipe \in [PipeIds -> Seq(Tokens)] /\ \A k \in PipeIds : Len(pipe[k]) <= CAP
        /\ out \in Seq(Tokens)
    BY DEF ChildrenOK, ChildType
  <1>1. CASE Exec(i, failure)
    <2>1. /\ ChildrenOK(statuses)' /\ proc'[i].pc = "running" /\ Connected(i)'
          /\ \A j \in Positions \ {i} : proc'[j] = proc[j]
      BY <1>1, ExecTypes
    <2>2. UNCHANGED <<shell, out>> /\ proc[i].pc = "forked"
      BY <1>1 DEF Exec
    <2> QED BY <2>1, <2>2, OthersKeep
  <1>2. CASE WritePipe(i)
    <2> DEFINE k == proc[i].out
               todo == Tail(proc[i].todo)
    <2>1. /\ k \in PipeIds /\ proc[i].todo \in Seq(Tokens) /\ proc[i].todo # <<>>
          /\ proc[i].pc = "running" /\ Len(pipe[k]) < CAP
          /\ proc[i].wants \in {"none", "one", "all"}
      BY <1>0, <1>2 DEF WritePipe, Writing, Running, ChildType
    <2>2. Head(proc[i].todo) \in Tokens /\ todo \in Seq(Tokens)
      BY <2>1
    <2>3. Connected(i) /\ shell.cmds[i] # "quit"
      BY <2>1 DEF Family, Connected
    <2>4. proc' = [proc EXCEPT ![i].todo = todo, ![i].wants = proc[i].wants]
      <3>1. proc' = [proc EXCEPT ![i].todo = todo]
        BY <1>2 DEF WritePipe
      <3> QED BY <1>0, <3>1 DEF ChildType
    <2>5. UNCHANGED <<shell, out>>
      BY <1>2 DEF WritePipe
    <2>6. /\ proc' \in [Positions -> ChildType(statuses)]
          /\ proc'[i].pc = proc[i].pc /\ Connected(i)'
          /\ \A j \in Positions \ {i} : proc'[j] = proc[j]
      BY <2>1, <2>2, <2>3, <2>4, <2>5, StillConnected
    <2>7. /\ pipe' \in [PipeIds -> Seq(Tokens)]
          /\ \A l \in PipeIds : Len(pipe'[l]) <= CAP
      <3> DEFINE new == Append(pipe[k], Head(proc[i].todo))
      <3>1. pipe' = [pipe EXCEPT ![k] = new]
        BY <1>2 DEF WritePipe
      <3>2. new \in Seq(Tokens) /\ Len(new) <= CAP
        BY <1>0, <2>1, <2>2, SizeAssumption
      <3> HIDE DEF new
      <3> QED BY <1>0, <2>1, <3>1, <3>2
    <2>8. ChildrenOK(statuses)'
      BY <1>0, <2>5, <2>6, <2>7 DEF ChildrenOK, ChildType
    <2> QED BY <2>1, <2>5, <2>6, <2>8, OthersKeep
  <1>3. CASE Sigpipe(i)
    <2>1. Die(i, SIGPIPE) /\ proc[i].pc = "running" /\ proc[i].out # Terminal
          /\ proc[i].todo # <<>>
      BY <1>3 DEF Sigpipe, Writing, Running
    <2>2. Connected(i) /\ shell.cmds[i] # "quit" /\ i # N
      BY <2>1, StdTypes DEF Family, Connected
    <2>3. UNCHANGED <<shell, out>>
      BY <2>1 DEF Die
    <2>4. /\ ChildrenOK(statuses)' /\ proc'[i].pc = "zombie" /\ proc'[i].status = SIGPIPE
          /\ \A j \in Positions \ {i} : proc'[j] = proc[j]
      BY <2>1, DieTypes
    <2>5. Ended(i, failed)'
      BY <2>2, <2>3, <2>4 DEF Ended
    <2> QED BY <2>1, <2>2, <2>3, <2>4, <2>5, OthersKeep
  <1>4. CASE ReadPipe(i)
    <2> DEFINE k == proc[i].inp
    <2>1. /\ k \in PipeIds /\ proc[i].pc = "running" /\ pipe[k] # <<>>
          /\ proc[i].wants # "none"
      BY <1>0, <1>4 DEF ReadPipe, Reading, Running, ChildType
    <2>2. Head(pipe[k]) \in Tokens /\ Tail(pipe[k]) \in Seq(Tokens)
          /\ Len(Tail(pipe[k])) <= CAP
      BY <1>0, <2>1, SizeAssumption
    <2>3. Connected(i) /\ shell.cmds[i] # "quit"
      BY <2>1 DEF Family, Connected
    <2>4. PICK todo \in Seq(Tokens), wants \in {"none", "one", "all"} :
            proc' = [proc EXCEPT ![i].todo = todo, ![i].wants = wants]
      BY <1>4, <2>2, HasReadType DEF ReadPipe
    <2>5. UNCHANGED <<shell, out>> /\ pipe' = [pipe EXCEPT ![k] = Tail(@)]
      BY <1>4 DEF ReadPipe
    <2>6. /\ proc' \in [Positions -> ChildType(statuses)]
          /\ proc'[i].pc = proc[i].pc /\ Connected(i)'
          /\ \A j \in Positions \ {i} : proc'[j] = proc[j]
      BY <2>3, <2>4, <2>5, StillConnected
    <2>7. /\ pipe' \in [PipeIds -> Seq(Tokens)]
          /\ \A l \in PipeIds : Len(pipe'[l]) <= CAP
      <3> DEFINE new == Tail(pipe[k])
      <3>1. pipe' = [pipe EXCEPT ![k] = new]
        BY <2>5
      <3>2. new \in Seq(Tokens) /\ Len(new) <= CAP
        BY <2>2
      <3> HIDE DEF new
      <3> QED BY <1>0, <2>1, <3>1, <3>2
    <2>8. ChildrenOK(statuses)'
      BY <1>0, <2>5, <2>6, <2>7 DEF ChildrenOK, ChildType
    <2> QED BY <2>1, <2>5, <2>6, <2>8, OthersKeep
  <1>5. CASE ReadEnd(i, ended)
    <2>1. proc[i].pc = "running" /\ proc[i].wants # "none"
          /\ proc[i].todo \in Seq(Tokens)
      BY <1>0, <1>5 DEF ReadEnd, Reading, Running, ChildType
    <2>2. Connected(i) /\ shell.cmds[i] # "quit"
      BY <2>1 DEF Family, Connected
    <2>3. UNCHANGED <<shell, pipe, out>>
      BY <1>5 DEF ReadEnd
    <2>4. proc' = [proc EXCEPT ![i].todo = proc[i].todo, ![i].wants = "none"]
      <3>1. proc' = [proc EXCEPT ![i].wants = "none"]
        BY <1>5 DEF ReadEnd
      <3> QED BY <1>0, <3>1 DEF ChildType
    <2>5. /\ proc' \in [Positions -> ChildType(statuses)]
          /\ proc'[i].pc = proc[i].pc /\ Connected(i)'
          /\ \A j \in Positions \ {i} : proc'[j] = proc[j]
      BY <2>1, <2>2, <2>3, <2>4, StillConnected
    <2>6. ChildrenOK(statuses)'
      BY <1>0, <2>3, <2>5 DEF ChildrenOK, ChildType
    <2> QED BY <2>1, <2>3, <2>5, <2>6, OthersKeep
  <1>6. CASE ExitProg(i, failed)
    <2> DEFINE status == Exited(ExitArg(shell.cmds[i], failed))
    <2>1. Die(i, status) /\ proc[i].pc = "running"
      BY <1>6 DEF ExitProg, Running
    <2>2. UNCHANGED <<shell, out>>
      BY <2>1 DEF Die
    <2>3. /\ ChildrenOK(statuses)' /\ proc'[i].pc = "zombie" /\ proc'[i].status = status
          /\ \A j \in Positions \ {i} : proc'[j] = proc[j]
      BY <2>1, DieTypes
    <2>4. shell.cmds[i] = "quit" => status = Exited(EXIT_SC)
      BY DEF ExitArg, NotFound
    <2>5. Ended(i, failed)'
      BY <2>2, <2>3, <2>4 DEF Ended
    <2> QED BY <2>1, <2>2, <2>3, <2>5, OthersKeep
  <1> QED BY <1>1, <1>2, <1>3, <1>4, <1>5, <1>6 DEF Child
-----------------------------------------------------------------------------
(* The flow of the tokens: what has been printed and what the programs and *)
(* pipes still have to deliver always add up to the composition of the     *)
(* commands.                                                               *)

\* What the last program complains of if there is no such program.
Said(j, complaint) == IF j = N THEN complaint ELSE <<>>

\* How much of its input a program that wants this much prints again.
Taken(wants, input) ==
    IF wants = "all" THEN input
    ELSE IF wants = "one" /\ input # <<>> THEN <<Head(input)>> ELSE <<>>

\* The input of the program at j: what its pipe holds and what is to come.
Input(j, before) == IF j = 1 THEN <<>> ELSE pipe[shell.pipes[j - 1]] \o before

NotExeced(j) == j > shell.forked \/ proc[j].pc = "forked"

\* What the program at j still has to deliver, if `before' is what the one
\* before it has: one that has ended, or that nobody reads, delivers nothing.
Due(j, complaint, before) ==
    IF NotExeced(j)
    THEN Prints(shell.cmds[j], Said(j, complaint))
         \o Taken(Wants(shell.cmds[j]), Input(j, before))
    ELSE IF proc[j].pc = "running"
         THEN proc[j].todo \o Taken(proc[j].wants, Input(j, before)) ELSE <<>>

Flows(rest, complaint) ==
    /\ rest \in [0 .. N -> Seq(Tokens)] /\ rest[0] = <<>>
    /\ \A j \in 1 .. N : rest[j] = Due(j, complaint, rest[j - 1])

Promised(complaint) ==
    Composition \o
       (IF N # 0 /\ shell.cmds[N] \in NotFound THEN complaint ELSE <<>>)

Delivers(complaint) == \E rest \in [0 .. N -> Seq(Tokens)] :
    Flows(rest, complaint) /\ out \o rest[N] = Promised(complaint)

\* A program has the ends of the pipes it reads and writes, and the parent
\* keeps the ends that the programs it has not forked will have.
HoldsEnds == \A j \in Live :
    /\ j < N => <<shell.pipes[j], "w">> \in proc[j].ends
    /\ j > 1 => <<shell.pipes[j - 1], "r">> \in proc[j].ends
KeepsEnds == \A k \in 1 .. N - 1 :
    /\ k + 1 > shell.forked => <<shell.pipes[k], "r">> \in shell.ends
    /\ k > shell.forked     => <<shell.pipes[k], "w">> \in shell.ends
----------------------------------------------------------------------------
(* Sequences. *)

LEMMA Joined ==
    ASSUME NEW S, NEW s \in Seq(S), NEW t \in Seq(S), NEW u \in Seq(S)
    PROVE  /\ s \o t \in Seq(S) /\ <<>> \o s = s /\ s \o <<>> = s
           /\ (s \o t) \o u = s \o (t \o u)
  OBVIOUS

LEMMA HeadAndTail ==
    ASSUME NEW S, NEW s \in Seq(S), s # <<>>, NEW t \in Seq(S)
    PROVE  /\ Head(s) \in S /\ Tail(s) \in Seq(S)
           /\ <<Head(s)>> \o (Tail(s) \o t) = s \o t
           /\ Head(s \o t) = Head(s) /\ s \o t # <<>>
           /\ Tail(s \o t) = Tail(s) \o t
  OBVIOUS

LEMMA TakenType ==
    ASSUME NEW S, NEW s \in Seq(S), NEW wants
    PROVE  Taken(wants, s) \in Seq(S)
  BY DEF Taken
----------------------------------------------------------------------------
(* What programs still have to deliver. *)

LEMMA InputType ==
    ASSUME NEW statuses, ChildrenOK(statuses), LineShape, PipesMade,
           NEW j \in 1 .. N, NEW before \in Seq(Tokens)
    PROVE  Input(j, before) \in Seq(Tokens)
  <1>1. j # 1 => j - 1 \in 1 .. N - 1
    BY DEF LineShape
  <1>2. j # 1 => shell.pipes[j - 1] \in PipeIds
    BY <1>1 DEF PipesMade, Injection
  <1>3. j # 1 => pipe[shell.pipes[j - 1]] \in Seq(Tokens)
    BY <1>2 DEF ChildrenOK
  <1>4. <<>> \in Seq(Tokens)
    OBVIOUS
  <1> QED BY <1>3, <1>4, Joined DEF Input

\* What nobody prints any more.
Dead(j) == ~NotExeced(j) /\ proc[j].pc # "running"

LEMMA DueOfDead ==
    ASSUME NEW j, Dead(j), NEW complaint, NEW before
    PROVE  Due(j, complaint, before) = <<>>
  BY DEF Due, Dead

LEMMA DueOfRunning ==
    ASSUME NEW j, proc[j].pc = "running", ~(j > shell.forked),
           NEW complaint, NEW before
    PROVE  Due(j, complaint, before)
              = proc[j].todo \o Taken(proc[j].wants, Input(j, before))
  BY DEF Due, NotExeced

\* What a program that is left alone delivers of the same input.
LEMMA DueKept ==
    ASSUME shell' = shell, NEW j \in 1 .. N, proc'[j] = proc[j],
           NEW complaint, NEW before, NEW after,
           Input(j, after)' = Input(j, before)
    PROVE  Due(j, complaint, after)' = Due(j, complaint, before)
  BY DEF Due, NotExeced, Said, N

LEMMA InputKept ==
    ASSUME shell' = shell, NEW j \in 1 .. N, NEW before,
           j # 1 => pipe'[shell.pipes[j - 1]] = pipe[shell.pipes[j - 1]]
    PROVE  Input(j, before)' = Input(j, before)
  BY DEF Input

\* The pipe before a program is no other program's.
LEMMA PipesApart ==
    ASSUME LineShape, PipesMade, NEW k \in 1 .. N - 1, NEW l \in 1 .. N - 1, k # l
    PROVE  shell.pipes[k] # shell.pipes[l]
  BY DEF PipesMade, Injection, IsInjective

\* Nobody holds the read end of the pipe after a program, or the write end of
\* the one before it: the program there has ended.
LEMMA NobodyReads ==
    ASSUME LineShape, HoldsEnds, KeepsEnds \/ AllForked, shell.forked \in Nat,
           NEW k \in 1 .. N - 1, k <= shell.forked, ~Held(<<shell.pipes[k], "r">>)
    PROVE  Dead(k + 1)
  <1>1. k \in Nat /\ N \in Nat /\ k + 1 \in Positions /\ k + 1 > 1 /\ k + 1 <= N
    BY SizeAssumption DEF LineShape, Positions
  <1>2. k + 1 \notin Live
    <2> SUFFICES ASSUME k + 1 \in Live
                 PROVE  FALSE
      OBVIOUS
    <2>1. PICK j \in Nat : j = k + 1
      BY <1>1
    <2>2. <<shell.pipes[j - 1], "r">> \in proc[j].ends
      BY <1>1, <2>1 DEF HoldsEnds
    <2>3. j - 1 = k
      BY <1>1, <2>1
    <2> QED BY <2>1, <2>2, <2>3 DEF Held, Live
  <1>3. ~(k + 1 > shell.forked)
    <2>1. CASE KeepsEnds
      BY <2>1 DEF KeepsEnds, Held
    <2>2. CASE AllForked
      BY <1>1, <2>2 DEF AllForked
    <2> QED BY <2>1, <2>2
  <1> QED BY <1>1, <1>2, <1>3 DEF Dead, NotExeced, Live

LEMMA NobodyWrites ==
    ASSUME LineShape, HoldsEnds, shell.forked \in Nat,
           NEW k \in 1 .. N - 1, k <= shell.forked, ~Held(<<shell.pipes[k], "w">>)
    PROVE  Dead(k)
  <1>1. k \in Nat /\ N \in Nat /\ k \in Positions /\ k < N
    BY SizeAssumption DEF LineShape, Positions
  <1>2. k \notin Live
    BY <1>1 DEF HoldsEnds, Held
  <1> QED BY <1>1, <1>2 DEF Dead, NotExeced, Live
----------------------------------------------------------------------------
(* Steps of a program. *)

\* Everything but what the program itself, and the one after it, deliver is the
\* same after its step.
LEMMA FlowAround ==
    ASSUME shell' = shell, LineShape, NEW i \in 1 .. N, NEW complaint,
           NEW rest, Flows(rest, complaint), NEW own \in Seq(Tokens),
           \A j \in 1 .. N : j # i => proc'[j] = proc[j],
           \A j \in 1 .. N : j # i /\ j # i + 1 /\ j # 1 =>
               pipe'[shell.pipes[j - 1]] = pipe[shell.pipes[j - 1]],
           own = Due(i, complaint, rest[i - 1])',
           i # N => Due(i + 1, complaint, own)' = rest[i + 1]
    PROVE  LET new == [rest EXCEPT ![i] = own] IN
           Flows(new, complaint)' /\ (i # N => new[N] = rest[N]) /\ new[i] = own
  <1> DEFINE new == [rest EXCEPT ![i] = own]
  <1>1. N \in Nat /\ N' = N /\ i \in 0 .. N /\ i # 0
    BY DEF LineShape, N
  <1>2. /\ rest \in [0 .. N -> Seq(Tokens)] /\ rest[0] = <<>>
        /\ \A j \in 1 .. N : rest[j] = Due(j, complaint, rest[j - 1])
    BY DEF Flows
  <1>3. /\ new \in [0 .. N -> Seq(Tokens)] /\ new[i] = own
        /\ \A j \in 0 .. N : j # i => new[j] = rest[j]
    BY <1>1, <1>2
  <1> HIDE DEF new
  <1>4. ASSUME NEW j \in 1 .. N
        PROVE  new[j] = Due(j, complaint, new[j - 1])'
    <2>1. j \in 0 .. N /\ j - 1 \in 0 .. N
      BY <1>1
    <2>2. CASE j = i
      <3>1. new[j - 1] = rest[i - 1]
        BY <1>3, <2>1, <2>2
      <3> QED BY <1>3, <2>2, <3>1
    <2>3. CASE j = i + 1
      <3>1. j - 1 = i /\ i # N /\ j # i
        BY <1>1, <2>3
      <3>2. new[j - 1] = own
        BY <1>3, <3>1
      <3> QED BY <1>3, <2>1, <2>3, <3>1, <3>2
    <2>4. CASE j # i /\ j # i + 1
      <3>1. new[j - 1] = rest[j - 1] /\ new[j] = rest[j]
        BY <1>1, <1>3, <2>1, <2>4
      <3>2. Input(j, rest[j - 1])' = Input(j, rest[j - 1])
        BY <2>4, InputKept
      <3>3. Due(j, complaint, rest[j - 1])' = Due(j, complaint, rest[j - 1])
        BY <2>4, <3>2, DueKept
      <3> QED BY <1>2, <3>1, <3>3
    <2> QED BY <2>2, <2>3, <2>4
  <1>5. new[0] = <<>>
    BY <1>1, <1>2, <1>3
  <1>6. Flows(new, complaint)'
    BY <1>1, <1>3, <1>4, <1>5 DEF Flows
  <1> QED BY <1>1, <1>3, <1>6 DEF new

LEMMA FlowSame ==
    ASSUME shell' = shell, LineShape, NEW i \in 1 .. N, NEW complaint,
           NEW rest, Flows(rest, complaint),
           \A j \in 1 .. N : j # i => proc'[j] = proc[j],
           \A j \in 1 .. N : j # i /\ j # 1 =>
               pipe'[shell.pipes[j - 1]] = pipe[shell.pipes[j - 1]],
           rest[i] = Due(i, complaint, rest[i - 1])'
    PROVE  \E new : Flows(new, complaint)' /\ new[N] = rest[N]
  <1> DEFINE own == rest[i]
             new == [rest EXCEPT ![i] = own]
  <1>1. N \in Nat /\ i \in 0 .. N
    BY DEF LineShape
  <1>2. own \in Seq(Tokens)
    BY <1>1 DEF Flows
  <1>3. i # N => Due(i + 1, complaint, own)' = rest[i + 1]
    <2> SUFFICES ASSUME i # N
                 PROVE  Due(i + 1, complaint, own)' = rest[i + 1]
      OBVIOUS
    <2>1. PICK j \in 1 .. N : j = i + 1
      BY <1>1
    <2>2. j # i /\ j # 1 /\ j - 1 = i
      BY <1>1, <2>1
    <2>3. Input(j, own)' = Input(j, own)
      BY <2>2, InputKept
    <2>4. Due(j, complaint, own)' = Due(j, complaint, own)
      BY <2>2, <2>3, DueKept
    <2>5. rest[j] = Due(j, complaint, own)
      BY <2>2 DEF Flows
    <2> QED BY <2>1, <2>4, <2>5
  <1>4. own = Due(i, complaint, rest[i - 1])'
    OBVIOUS
  <1> HIDE DEF own
  <1>5. Flows(new, complaint)' /\ (i # N => new[N] = rest[N]) /\ new[i] = own
    BY <1>2, <1>3, <1>4, FlowAround
  <1>6. new[N] = rest[N]
    BY <1>5 DEF own
  <1> QED BY <1>5, <1>6

\* The state of a line whose programs are at work.
Working(statuses, failed) ==
    /\ ChildrenOK(statuses) /\ LineShape /\ PipesMade /\ Family(failed)
    /\ shell.forked \in 0 .. N /\ HoldsEnds
    /\ KeepsEnds \/ AllForked

LEMMA WorkingTypes ==
    ASSUME NEW statuses, NEW failed, Working(statuses, failed), NEW i \in 1 .. N
    PROVE  /\ i \in Positions /\ N \in Nat \ {0} /\ shell.forked \in Nat
           /\ proc \in [Positions -> ChildType(statuses)]
           /\ pipe \in [PipeIds -> Seq(Tokens)]
           /\ i # 1 => /\ i - 1 \in 1 .. N - 1 /\ shell.pipes[i - 1] \in PipeIds
                       /\ i - 1 <= shell.forked \/ i > shell.forked
                       /\ pipe[shell.pipes[i - 1]] \in Seq(Tokens)
           /\ i # N => i \in 1 .. N - 1 /\ shell.pipes[i] \in PipeIds
  <1>1. N \in Nat \ {0} /\ shell.forked \in Nat /\ i \in Positions
    BY SizeAssumption DEF Working, LineShape, Positions
  <1>2. i # 1 => i - 1 \in 1 .. N - 1 /\ (i - 1 <= shell.forked \/ i > shell.forked)
    BY <1>1
  <1>3. i # N => i \in 1 .. N - 1
    BY <1>1
  <1>4. \A k \in 1 .. N - 1 : shell.pipes[k] \in PipeIds
    BY DEF Working, PipesMade, Injection
  <1>5. /\ pipe \in [PipeIds -> Seq(Tokens)]
        /\ proc \in [Positions -> ChildType(statuses)]
    BY DEF Working, ChildrenOK, ChildType
  <1> QED BY <1>1, <1>2, <1>3, <1>4, <1>5

LEMMA ExecFlows ==
    ASSUME NEW statuses, NEW failed, Working(statuses, failed),
           NEW complaint \in Seq(Tokens), NEW rest, Flows(rest, complaint),
           NEW i \in 1 .. N, i <= shell.forked, Exec(i, Said(i, complaint))
    PROVE  \E new : Flows(new, complaint)' /\ new[N] = rest[N]
  <1> DEFINE todo  == Prints(shell.cmds[i], Said(i, complaint))
             wants == Wants(shell.cmds[i])
             input == Input(i, rest[i - 1])
  <1>1. /\ proc[i].pc = "forked" /\ UNCHANGED <<shell, pipe, out>>
        /\ proc' = [proc EXCEPT ![i] =
                  [@ EXCEPT !.pc = "running", !.inp = Stdin(i),
                            !.out = Stdout(i), !.ends = AfterClosing(i),
                            !.todo = todo, !.wants = wants]]
    BY DEF Exec
  <1>2. i \in Positions /\ proc \in [Positions -> ChildType(statuses)]
        /\ i \in Nat /\ shell.forked \in Nat
    BY WorkingTypes DEF Positions
  <1>3. rest[i] = todo \o Taken(wants, input)
    BY <1>1 DEF Flows, Due, NotExeced
  <1>4. input' = input
    BY <1>1 DEF Input
  <1> HIDE DEF todo, wants, input
  <1>5. /\ proc'[i].pc = "running" /\ proc'[i].todo = todo /\ proc'[i].wants = wants
        /\ \A j \in 1 .. N : j # i => proc'[j] = proc[j]
    BY <1>1, <1>2 DEF ChildType
  <1>6. ~(i > shell'.forked)
    BY <1>1, <1>2
  <1>7. Due(i, complaint, rest[i - 1])' = todo \o Taken(wants, input)
    BY <1>4, <1>5, <1>6, DueOfRunning DEF Due, NotExeced, input
  <1> QED BY <1>1, <1>3, <1>5, <1>7, FlowSame, ZenonT(40) DEF Working

LEMMA WritePipeFlows ==
    ASSUME NEW statuses, NEW failed, Working(statuses, failed),
           NEW complaint \in Seq(Tokens), NEW rest, Flows(rest, complaint),
           NEW i \in 1 .. N, i <= shell.forked, WritePipe(i)
    PROVE  \E new : Flows(new, complaint)' /\ new[N] = rest[N]
  <1> DEFINE todo  == proc[i].todo
             wants == proc[i].wants
             more  == Taken(wants, Input(i, rest[i - 1]))
  <1>1. /\ i \in Positions /\ proc \in [Positions -> ChildType(statuses)]
        /\ i \in Nat /\ shell.forked \in Nat /\ N \in Nat
        /\ pipe \in [PipeIds -> Seq(Tokens)] /\ LineShape /\ PipesMade
    BY WorkingTypes DEF Positions, Working
  <1>2. /\ proc[i].pc = "running" /\ todo # <<>> /\ todo \in Seq(Tokens)
        /\ UNCHANGED <<shell, out>> /\ proc[i].out # Terminal
    BY <1>1 DEF WritePipe, Writing, Running, ChildType
  <1>3. Connected(i)
    BY <1>1, <1>2 DEF Working, Family
  <1>4. i # N /\ proc[i].out = shell.pipes[i] /\ i \in 1 .. N - 1
    BY <1>1, <1>2, <1>3 DEF Connected, Stdout
  <1>5. PICK k \in PipeIds : k = shell.pipes[i]
    BY <1>4, WorkingTypes
  <1>6. /\ pipe' = [pipe EXCEPT ![k] = Append(@, Head(todo))]
        /\ proc' = [proc EXCEPT ![i].todo = Tail(@)]
    BY <1>4, <1>5 DEF WritePipe
  <1>7. rest[i] = todo \o more /\ rest \in [0 .. N -> Seq(Tokens)]
    <2>1. ~(i > shell.forked)
      BY <1>1
    <2>2. rest[i] = Due(i, complaint, rest[i - 1])
      BY DEF Flows
    <2>3. rest[i] = todo \o more
      BY <1>2, <2>1, <2>2, DueOfRunning
    <2> QED BY <2>3 DEF Flows
  <1>8. more \in Seq(Tokens)
    <2>1. i - 1 \in 0 .. N
      BY <1>1
    <2>2. rest[i - 1] \in Seq(Tokens)
      BY <1>7, <2>1
    <2>3. Input(i, rest[i - 1]) \in Seq(Tokens)
      BY <1>1, <2>2, InputType DEF Working
    <2> QED BY <2>3, TakenType
  <1> HIDE DEF more
  <1>9. PICK own \in Seq(Tokens), h \in Tokens :
          /\ own = Tail(todo) \o more /\ h = Head(todo)
          /\ <<h>> \o own = rest[i]
    <2>1. todo \in Seq(Tokens) /\ todo # <<>>
      BY <1>2
    <2> HIDE DEF todo
    <2>2. /\ Head(todo) \in Tokens /\ Tail(todo) \in Seq(Tokens)
          /\ <<Head(todo)>> \o (Tail(todo) \o more) = todo \o more
      BY <1>8, <2>1, HeadAndTail
    <2>3. Tail(todo) \o more \in Seq(Tokens)
      BY <1>8, <2>2, Joined
    <2> QED BY <1>7, <2>2, <2>3
  <1> DEFINE new == [rest EXCEPT ![i] = own]
  <1>10. /\ proc'[i].pc = "running" /\ proc'[i].todo = Tail(todo) /\ proc'[i].wants = wants
         /\ \A j \in 1 .. N : j # i => proc'[j] = proc[j]
    BY <1>1, <1>2, <1>6 DEF ChildType
  <1>11. \A j \in 1 .. N : j # i + 1 /\ j # 1 =>
             pipe'[shell.pipes[j - 1]] = pipe[shell.pipes[j - 1]]
    <2> SUFFICES ASSUME NEW j \in 1 .. N, j # i + 1, j # 1
                 PROVE  pipe'[shell.pipes[j - 1]] = pipe[shell.pipes[j - 1]]
      OBVIOUS
    <2>1. j - 1 \in 1 .. N - 1 /\ shell.pipes[j - 1] \in PipeIds
      BY WorkingTypes
    <2>2. j - 1 # i
      BY <1>1
    <2>3. shell.pipes[j - 1] # k
      BY <1>1, <1>4, <1>5, <2>1, <2>2, PipesApart
    <2> QED BY <1>1, <1>6, <2>1, <2>3
  <1>12. own = Due(i, complaint, rest[i - 1])'
    <2>1. i # 1 => i # i + 1
      BY <1>1
    <2>2. Input(i, rest[i - 1])' = Input(i, rest[i - 1])
      BY <1>2, <1>11, <2>1, InputKept
    <2>3. more = Taken(wants, Input(i, rest[i - 1]))
      BY DEF more
    <2>4. ~(i > shell'.forked)
      BY <1>1, <1>2
    <2>5. Due(i, complaint, rest[i - 1])' =
             proc'[i].todo \o Taken(proc'[i].wants, Input(i, rest[i - 1])')
      BY <1>10, <2>4 DEF Due, NotExeced
    <2> QED BY <1>9, <1>10, <2>2, <2>3, <2>5
  <1>13. Due(i + 1, complaint, own)' = rest[i + 1]
    <2>1. PICK j \in 1 .. N : j = i + 1
      BY <1>1, <1>4
    <2>2. j # i /\ j # 1 /\ j - 1 = i
      BY <1>1, <2>1
    <2>3. pipe[k] \in Seq(Tokens) /\ pipe'[k] = Append(pipe[k], h)
      BY <1>1, <1>6, <1>9
    <2>4. pipe'[k] \o own = pipe[k] \o rest[i]
      <3>1. PICK held \in Seq(Tokens) : held = pipe[k]
        BY <2>3
      <3>2. Append(held, h) \o own = held \o (<<h>> \o own)
        OBVIOUS
      <3> QED BY <1>9, <2>3, <3>1, <3>2
    <2>5. Input(j, own)' = Input(j, rest[i])
      BY <1>2, <1>5, <2>2, <2>4 DEF Input
    <2>6. Due(j, complaint, own)' = Due(j, complaint, rest[i])
      BY <1>2, <1>10, <2>2, <2>5, DueKept
    <2>7. rest[j] = Due(j, complaint, rest[i])
      BY <2>2 DEF Flows
    <2> QED BY <2>1, <2>6, <2>7
  <1>14. \A j \in 1 .. N : j # i /\ j # i + 1 /\ j # 1 =>
             pipe'[shell.pipes[j - 1]] = pipe[shell.pipes[j - 1]]
    BY <1>11
  <1>15. Flows(new, complaint)' /\ (i # N => new[N] = rest[N])
    BY <1>1, <1>2, <1>10, <1>12, <1>13, <1>14, FlowAround, SMTT(30)
  <1> QED BY <1>4, <1>15

LEMMA SigpipeFlows ==
    ASSUME NEW statuses, NEW failed, Working(statuses, failed),
           NEW complaint \in Seq(Tokens), NEW rest, Flows(rest, complaint),
           NEW i \in 1 .. N, i <= shell.forked, Sigpipe(i)
    PROVE  \E new : Flows(new, complaint)' /\ new[N] = rest[N]
  <1> DEFINE own == <<>>
             new == [rest EXCEPT ![i] = own]
  <1>1. /\ i \in Positions /\ proc \in [Positions -> ChildType(statuses)]
        /\ i \in Nat /\ shell.forked \in Nat /\ N \in Nat /\ LineShape /\ HoldsEnds
        /\ KeepsEnds \/ AllForked
    BY WorkingTypes DEF Positions, Working
  <1>2. /\ proc[i].pc = "running" /\ UNCHANGED <<shell, pipe, out>>
        /\ proc[i].out # Terminal /\ ~Held(<<proc[i].out, "r">>)
        /\ proc' = [proc EXCEPT ![i] = [Nobody EXCEPT !.pc = "zombie", !.status = SIGPIPE]]
    BY DEF Sigpipe, Writing, Running, Die
  <1>3. Connected(i)
    BY <1>1, <1>2 DEF Working, Family
  <1>4. i # N /\ proc[i].out = shell.pipes[i] /\ i \in 1 .. N - 1
    BY <1>1, <1>2, <1>3 DEF Connected, Stdout
  <1>5. Dead(i + 1)
    BY <1>1, <1>2, <1>4, NobodyReads
  <1>6. proc'[i].pc = "zombie" /\ \A j \in 1 .. N : j # i => proc'[j] = proc[j]
    BY <1>1, <1>2 DEF Nobody
  <1>7. own = Due(i, complaint, rest[i - 1])'
    <2>1. ~(i > shell'.forked)
      BY <1>1, <1>2
    <2> QED BY <1>6, <2>1 DEF Due, NotExeced
  <1>8. Due(i + 1, complaint, own)' = rest[i + 1]
    <2>1. PICK j \in 1 .. N : j = i + 1
      BY <1>1, <1>4
    <2>2. j # i
      BY <1>1, <2>1
    <2>3. Dead(j) /\ Dead(j)'
      BY <1>2, <1>5, <1>6, <2>1, <2>2 DEF Dead, NotExeced
    <2>4. rest[j] = <<>>
      BY <2>3, DueOfDead DEF Flows
    <2>5. Due(j, complaint, own)' = <<>>
      BY <2>3 DEF Due, Dead
    <2> QED BY <2>1, <2>4, <2>5
  <1>9. own \in Seq(Tokens)
    OBVIOUS
  <1> HIDE DEF own
  <1>10. Flows(new, complaint)' /\ (i # N => new[N] = rest[N])
    BY <1>1, <1>2, <1>6, <1>7, <1>8, <1>9, FlowAround
  <1> QED BY <1>4, <1>10

LEMMA ReadPipeFlows ==
    ASSUME NEW statuses, NEW failed, Working(statuses, failed),
           NEW complaint \in Seq(Tokens), NEW rest, Flows(rest, complaint),
           NEW i \in 1 .. N, i <= shell.forked, ReadPipe(i)
    PROVE  \E new : Flows(new, complaint)' /\ new[N] = rest[N]
  <1>1. /\ i \in Positions /\ proc \in [Positions -> ChildType(statuses)]
        /\ i \in Nat /\ shell.forked \in Nat /\ N \in Nat
        /\ pipe \in [PipeIds -> Seq(Tokens)] /\ LineShape /\ PipesMade
    BY WorkingTypes DEF Positions, Working
  <1>2. /\ proc[i].pc = "running" /\ proc[i].todo = <<>>
        /\ proc[i].wants \in {"one", "all"}
        /\ UNCHANGED <<shell, out>> /\ proc[i].inp # Terminal
    BY <1>1 DEF ReadPipe, Reading, Running, ChildType
  <1>3. Connected(i)
    BY <1>1, <1>2 DEF Working, Family
  <1>4. i # 1 /\ proc[i].inp = shell.pipes[i - 1]
    BY <1>1, <1>2, <1>3 DEF Connected, Stdin
  <1>5. PICK k \in PipeIds : k = shell.pipes[i - 1]
    BY <1>4, WorkingTypes
  <1>6. PICK h \in Tokens, held \in Seq(Tokens) :
          /\ held = pipe[k] /\ held # <<>> /\ h = Head(held)
          /\ pipe' = [pipe EXCEPT ![k] = Tail(held)]
          /\ proc' = HasRead(i, h)
    <2>1. pipe[k] \in Seq(Tokens) /\ pipe[k] # <<>>
      BY <1>1, <1>4, <1>5 DEF ReadPipe
    <2>2. Head(pipe[k]) \in Tokens
      BY <2>1
    <2> QED BY <1>4, <1>5, <2>1, <2>2 DEF ReadPipe
  <1>7. PICK wants \in {"none", "all"} :
          wants = IF proc[i].wants = "one" THEN "none" ELSE "all"
    OBVIOUS
  <1>8. /\ proc'[i].pc = "running" /\ proc'[i].todo = <<h>> /\ proc'[i].wants = wants
        /\ \A j \in 1 .. N : j # i => proc'[j] = proc[j]
    <2> DEFINE todo == <<h>>
    <2>1. proc' = [proc EXCEPT ![i].todo = todo, ![i].wants = wants]
      BY <1>1, <1>2, <1>6, <1>7 DEF HasRead, ChildType
    <2>0. todo \in Seq(Tokens)
      OBVIOUS
    <2> HIDE DEF todo
    <2>2. \A j \in 1 .. N : j # i => proc'[j] = proc[j]
      <3>1. \A j \in 1 .. N : j \in Positions
        BY WorkingTypes
      <3> QED BY <1>1, <2>1, <3>1
    <2>3. /\ proc'[i].pc = proc[i].pc
          /\ proc'[i].todo = todo /\ proc'[i].wants = wants
      BY <1>1, <2>1 DEF ChildType
    <2> QED BY <1>2, <2>2, <2>3 DEF todo
  <1>9. \A j \in 1 .. N : j # i /\ j # 1 =>
             pipe'[shell.pipes[j - 1]] = pipe[shell.pipes[j - 1]]
    <2> SUFFICES ASSUME NEW j \in 1 .. N, j # i, j # 1
                 PROVE  pipe'[shell.pipes[j - 1]] = pipe[shell.pipes[j - 1]]
      OBVIOUS
    <2>1. j - 1 \in 1 .. N - 1 /\ shell.pipes[j - 1] \in PipeIds /\ i - 1 \in 1 .. N - 1
      BY <1>4, WorkingTypes
    <2>2. j - 1 # i - 1
      BY <1>1
    <2>3. shell.pipes[j - 1] # k
      BY <1>1, <1>5, <2>1, <2>2, PipesApart
    <2> QED BY <1>1, <1>6, <2>1, <2>3
  <1>10. rest[i] = Due(i, complaint, rest[i - 1])'
    <2>1. rest[i - 1] \in Seq(Tokens)
      <3>1. i - 1 \in 0 .. N
        BY <1>1
      <3> QED BY <3>1 DEF Flows
    <2>2. Input(i, rest[i - 1]) = held \o rest[i - 1]
      BY <1>4, <1>5, <1>6 DEF Input
    <2>3. Input(i, rest[i - 1])' = Tail(held) \o rest[i - 1]
      <3>1. pipe'[k] = Tail(held)
        BY <1>1, <1>6
      <3> QED BY <1>2, <1>4, <1>5, <3>1 DEF Input
    <2>4. ~(i > shell.forked) /\ ~(i > shell'.forked)
      BY <1>1, <1>2
    <2>5. rest[i] = <<>> \o Taken(proc[i].wants, held \o rest[i - 1])
      <3>1. rest[i] = Due(i, complaint, rest[i - 1])
        BY DEF Flows
      <3>2. rest[i] = proc[i].todo \o Taken(proc[i].wants, Input(i, rest[i - 1]))
        BY <1>2, <2>4, <3>1, DueOfRunning
      <3> QED BY <1>2, <2>2, <3>2
    <2>6. Due(i, complaint, rest[i - 1])' = <<h>> \o Taken(wants, Tail(held) \o rest[i - 1])
      BY <1>8, <2>3, <2>4 DEF Due, NotExeced
    <2>7. PICK before \in Seq(Tokens) : before = rest[i - 1]
      BY <2>1
    <2>8. held \o before # <<>> /\ Head(held \o before) = h
          /\ <<h>> \o (Tail(held) \o before) = held \o before
      <3>1. held # <<>> /\ h = Head(held)
        BY <1>6
      <3>2. held \o before # <<>> /\ Head(held \o before) = h
        BY <3>1
      <3>3. <<h>> \o (Tail(held) \o before) = held \o before
        BY <3>1
      <3> QED BY <3>2, <3>3
    <2>9. CASE proc[i].wants = "all"
      <3>1. Taken(proc[i].wants, held \o before) = held \o before
            /\ Taken(wants, Tail(held) \o before) = Tail(held) \o before
        BY <1>7, <2>9 DEF Taken
      <3>2. held \o before \in Seq(Tokens)
        BY Joined
      <3>3. rest[i] = held \o before
        BY <2>5, <2>7, <3>1, <3>2, Joined
      <3> QED BY <2>6, <2>7, <2>8, <3>1, <3>3
    <2>10. CASE proc[i].wants = "one"
      <3>1. Taken(proc[i].wants, held \o before) = <<h>>
            /\ Taken(wants, Tail(held) \o before) = <<>>
        BY <1>7, <2>8, <2>10 DEF Taken
      <3>2. <<>> \o <<h>> = <<h>> \o <<>>
        OBVIOUS
      <3> QED BY <2>5, <2>6, <2>7, <3>1, <3>2
    <2> QED BY <1>2, <2>9, <2>10
  <1> QED BY <1>1, <1>2, <1>8, <1>9, <1>10, FlowSame

LEMMA ReadEndFlows ==
    ASSUME NEW statuses, NEW failed, Working(statuses, failed),
           NEW complaint \in Seq(Tokens), NEW rest, Flows(rest, complaint),
           NEW i \in 1 .. N, i <= shell.forked, NEW ended, ReadEnd(i, ended)
    PROVE  \E new : Flows(new, complaint)' /\ new[N] = rest[N]
  <1>1. /\ i \in Positions /\ proc \in [Positions -> ChildType(statuses)]
        /\ i \in Nat /\ shell.forked \in Nat /\ N \in Nat /\ LineShape /\ HoldsEnds
    BY WorkingTypes DEF Positions, Working
  <1>2. /\ proc[i].pc = "running" /\ proc[i].todo = <<>>
        /\ proc' = [proc EXCEPT ![i].wants = "none"] /\ UNCHANGED <<shell, pipe, out>>
        /\ proc[i].inp # Terminal =>
              pipe[proc[i].inp] = <<>> /\ ~Held(<<proc[i].inp, "w">>)
    BY DEF ReadEnd, Reading, Running
  <1>3. Connected(i)
    BY <1>1, <1>2 DEF Working, Family
  <1>4. Input(i, rest[i - 1]) = <<>>
    <2>1. CASE i = 1
      BY <2>1 DEF Input
    <2>2. CASE i # 1
      <3>1. proc[i].inp = shell.pipes[i - 1] /\ i - 1 \in 1 .. N - 1
            /\ shell.pipes[i - 1] \in PipeIds /\ i - 1 <= shell.forked
        BY <1>1, <1>3, <2>2, WorkingTypes DEF Connected, Stdin
      <3>2. pipe[shell.pipes[i - 1]] = <<>> /\ ~Held(<<shell.pipes[i - 1], "w">>)
        BY <1>2, <3>1, PipeIdsAreNat
      <3>3. Dead(i - 1)
        BY <1>1, <3>1, <3>2, NobodyWrites
      <3>4. i - 1 \in 1 .. N
        BY <1>1, <3>1
      <3>5. rest[i - 1] = <<>>
        BY <3>3, <3>4, DueOfDead DEF Flows
      <3>6. <<>> \o <<>> = <<>>
        OBVIOUS
      <3> QED BY <2>2, <3>2, <3>5, <3>6 DEF Input
    <2> QED BY <2>1, <2>2
  <1>5. /\ proc'[i].pc = "running" /\ proc'[i].todo = <<>> /\ proc'[i].wants = "none"
        /\ \A j \in 1 .. N : j # i => proc'[j] = proc[j]
    BY <1>1, <1>2 DEF ChildType
  <1>6. \A wants : Taken(wants, <<>>) = <<>>
    BY DEF Taken
  <1>7. rest[i] = Due(i, complaint, rest[i - 1])'
    <2>1. Input(i, rest[i - 1])' = <<>>
      BY <1>2, <1>4 DEF Input
    <2>2. ~(i > shell.forked) /\ ~(i > shell'.forked)
      BY <1>1, <1>2
    <2>3. rest[i] = <<>> \o <<>>
      <3>1. rest[i] = Due(i, complaint, rest[i - 1])
        BY DEF Flows
      <3>2. rest[i] = proc[i].todo \o Taken(proc[i].wants, Input(i, rest[i - 1]))
        BY <1>2, <2>2, <3>1, DueOfRunning
      <3> QED BY <1>2, <1>4, <1>6, <3>2
    <2>4. Due(i, complaint, rest[i - 1])' = <<>> \o <<>>
      BY <1>5, <1>6, <2>1, <2>2 DEF Due, NotExeced
    <2> QED BY <2>3, <2>4
  <1> QED BY <1>1, <1>2, <1>5, <1>7, FlowSame

LEMMA ExitFlows ==
    ASSUME NEW statuses, NEW failed, Working(statuses, failed),
           NEW complaint \in Seq(Tokens), NEW rest, Flows(rest, complaint),
           NEW i \in 1 .. N, i <= shell.forked, ExitProg(i, failed)
    PROVE  \E new : Flows(new, complaint)' /\ new[N] = rest[N]
  <1> DEFINE status == Exited(ExitArg(shell.cmds[i], failed))
  <1>1. /\ i \in Positions /\ proc \in [Positions -> ChildType(statuses)]
        /\ i \in Nat /\ shell.forked \in Nat /\ LineShape
    BY WorkingTypes DEF Positions, Working
  <1>2. /\ proc[i].pc = "running" /\ proc[i].todo = <<>> /\ proc[i].wants = "none"
        /\ UNCHANGED <<shell, pipe, out>>
        /\ proc' = [proc EXCEPT ![i] = [Nobody EXCEPT !.pc = "zombie", !.status = status]]
    BY DEF ExitProg, Running, Die
  <1>3. proc'[i].pc = "zombie" /\ \A j \in 1 .. N : j # i => proc'[j] = proc[j]
    <2> HIDE DEF status
    <2> QED BY <1>1, <1>2 DEF Nobody
  <1>4. ~(i > shell.forked) /\ ~(i > shell'.forked)
    BY <1>1, <1>2
  <1>5. rest[i] = <<>>
    <2>1. rest[i] = Due(i, complaint, rest[i - 1])
      BY DEF Flows
    <2>2. Taken(proc[i].wants, Input(i, rest[i - 1])) = <<>>
      BY <1>2 DEF Taken
    <2>3. rest[i] = proc[i].todo \o Taken(proc[i].wants, Input(i, rest[i - 1]))
      BY <1>2, <1>4, <2>1, DueOfRunning
    <2>4. rest[i] = <<>> \o <<>>
      BY <1>2, <2>2, <2>3
    <2> QED BY <2>4
  <1>6. rest[i] = Due(i, complaint, rest[i - 1])'
    BY <1>3, <1>4, <1>5 DEF Due, NotExeced
  <1> QED BY <1>1, <1>2, <1>3, <1>6, FlowSame

\* A program that prints where the line's output goes is the last one, and has
\* one token less to deliver.
LEMMA PrintFlows ==
    ASSUME NEW statuses, NEW failed, Working(statuses, failed),
           NEW complaint \in Seq(Tokens), NEW rest, Flows(rest, complaint),
           NEW i \in 1 .. N, i <= shell.forked, Writing(i), proc[i].out = Terminal,
           proc' = [proc EXCEPT ![i].todo = Tail(@)], UNCHANGED <<shell, pipe>>
    PROVE  /\ i = N /\ Head(proc[i].todo) \in Tokens
           /\ \E new : /\ Flows(new, complaint)'
                       /\ new[N] \in Seq(Tokens)
                       /\ rest[N] = <<Head(proc[i].todo)>> \o new[N]
  <1> DEFINE todo  == proc[i].todo
             wants == proc[i].wants
             more  == Taken(wants, Input(i, rest[i - 1]))
  <1>1. /\ i \in Positions /\ proc \in [Positions -> ChildType(statuses)]
        /\ i \in Nat /\ shell.forked \in Nat /\ N \in Nat \ {0} /\ LineShape /\ PipesMade
    BY WorkingTypes DEF Positions, Working
  <1>2. proc[i].pc = "running" /\ todo # <<>> /\ todo \in Seq(Tokens)
    BY <1>1 DEF Writing, Running, ChildType
  <1>3. i = N
    <2>1. Connected(i)
      BY <1>1, <1>2 DEF Working, Family
    <2> QED BY <1>1, <2>1, StdTypes DEF Connected
  <1>4. rest[i] = todo \o more /\ rest \in [0 .. N -> Seq(Tokens)]
    <2>1. ~(i > shell.forked)
      BY <1>1
    <2>2. rest[i] = Due(i, complaint, rest[i - 1])
      BY DEF Flows
    <2>3. rest[i] = todo \o more
      BY <1>2, <2>1, <2>2, DueOfRunning
    <2> QED BY <2>3 DEF Flows
  <1>5. more \in Seq(Tokens)
    <2>1. i - 1 \in 0 .. N
      BY <1>1
    <2>2. rest[i - 1] \in Seq(Tokens)
      BY <1>4, <2>1
    <2>3. Input(i, rest[i - 1]) \in Seq(Tokens)
      BY <1>1, <2>2, InputType DEF Working
    <2> QED BY <2>3, TakenType
  <1> HIDE DEF more
  <1>6. PICK own \in Seq(Tokens), h \in Tokens :
          /\ own = Tail(todo) \o more /\ h = Head(todo)
          /\ <<h>> \o own = rest[i]
    <2>1. todo \in Seq(Tokens) /\ todo # <<>>
      BY <1>2
    <2> HIDE DEF todo
    <2>2. /\ Head(todo) \in Tokens /\ Tail(todo) \in Seq(Tokens)
          /\ <<Head(todo)>> \o (Tail(todo) \o more) = todo \o more
      BY <1>5, <2>1, HeadAndTail
    <2>3. Tail(todo) \o more \in Seq(Tokens)
      BY <1>5, <2>2, Joined
    <2> QED BY <1>4, <2>2, <2>3
  <1> DEFINE new == [rest EXCEPT ![i] = own]
  <1>7. /\ proc'[i].pc = "running" /\ proc'[i].todo = Tail(todo) /\ proc'[i].wants = wants
        /\ \A j \in 1 .. N : j # i => proc'[j] = proc[j]
    BY <1>1, <1>2 DEF ChildType
  <1>8. own = Due(i, complaint, rest[i - 1])'
    <2>1. Input(i, rest[i - 1])' = Input(i, rest[i - 1])
      BY InputKept
    <2>2. more = Taken(wants, Input(i, rest[i - 1]))
      BY DEF more
    <2>3. ~(i > shell'.forked)
      BY <1>1
    <2>4. Due(i, complaint, rest[i - 1])' =
             proc'[i].todo \o Taken(proc'[i].wants, Input(i, rest[i - 1])')
      BY <1>7, <2>3 DEF Due, NotExeced
    <2> QED BY <1>6, <1>7, <2>1, <2>2, <2>4
  <1>9. Flows(new, complaint)' /\ new[i] = own
    BY <1>1, <1>3, <1>7, <1>8, FlowAround, SMTT(30)
  <1>10. new[N] \in Seq(Tokens) /\ rest[N] = <<h>> \o new[N]
    BY <1>3, <1>6, <1>9
  <1> QED BY <1>3, <1>6, <1>9, <1>10

LEMMA EndsKept ==
    ASSUME shell' = shell, HoldsEnds, NEW i \in Positions,
           \A j \in Positions \ {i} : proc'[j] = proc[j],
           proc'[i].pc \in {"forked", "running"} =>
              i \in Live /\ proc'[i].ends = proc[i].ends
    PROVE  HoldsEnds'
  <1> SUFFICES ASSUME NEW j \in Positions, proc'[j].pc \in {"forked", "running"}
               PROVE  /\ j < N => <<shell.pipes[j], "w">> \in proc'[j].ends
                      /\ j > 1 => <<shell.pipes[j - 1], "r">> \in proc'[j].ends
    BY DEF HoldsEnds, Live, N
  <1>1. j \in Live /\ proc'[j].ends = proc[j].ends
    BY DEF Live
  <1> QED BY <1>1 DEF HoldsEnds

LEMMA ExecHolds ==
    ASSUME NEW statuses, NEW failed, Working(statuses, failed),
           NEW i \in 1 .. N, NEW failure, Exec(i, failure)
    PROVE  HoldsEnds'
  <1> DEFINE todo   == Prints(shell.cmds[i], failure)
             wants  == Wants(shell.cmds[i])
             ends   == AfterClosing(i)
             inp    == Stdin(i)
             stdout == Stdout(i)
  <1>1. /\ shell' = shell
        /\ proc' = [proc EXCEPT ![i] =
                  [@ EXCEPT !.pc = "running", !.inp = inp, !.out = stdout,
                            !.ends = ends, !.todo = todo, !.wants = wants]]
    BY DEF Exec
  <1>2. /\ i \in Positions /\ proc \in [Positions -> ChildType(statuses)]
        /\ N \in Nat /\ i \in Nat /\ HoldsEnds
    BY WorkingTypes DEF Working, Positions
  <1>3. /\ i < N => <<shell.pipes[i], "w">> \in ends
        /\ i > 1 => <<shell.pipes[i - 1], "r">> \in ends
    <2>1. ASSUME i < N
          PROVE  <<shell.pipes[i], "w">> \in ends
      <3>1. shell.pipes[i] \in PipeIds
        BY <1>2, <2>1, WorkingTypes
      <3>2. <<shell.pipes[i], "w">> \in AllEnds
        BY <3>1, EndsTypes
      <3> QED BY <2>1, <3>2 DEF AfterClosing, Stdout
    <2>2. ASSUME i > 1
          PROVE  <<shell.pipes[i - 1], "r">> \in ends
      <3>1. shell.pipes[i - 1] \in PipeIds
        BY <1>2, <2>2, WorkingTypes
      <3>2. <<shell.pipes[i - 1], "r">> \in AllEnds
        BY <3>1, EndsTypes
      <3> QED BY <2>2, <3>2 DEF AfterClosing, Stdin
    <2> QED BY <2>1, <2>2
  <1> HIDE DEF todo, wants, ends, inp, stdout
  <1>4. proc'[i].ends = ends /\ \A j \in Positions \ {i} : proc'[j] = proc[j]
    BY <1>1, <1>2 DEF ChildType
  <1> SUFFICES ASSUME NEW j \in Positions, proc'[j].pc \in {"forked", "running"}
               PROVE  /\ j < N => <<shell.pipes[j], "w">> \in proc'[j].ends
                      /\ j > 1 => <<shell.pipes[j - 1], "r">> \in proc'[j].ends
    BY <1>1 DEF HoldsEnds, Live, N
  <1>5. CASE j = i
    BY <1>3, <1>4, <1>5
  <1>6. CASE j # i
    <2>1. proc'[j] = proc[j] /\ j \in Live
      BY <1>4, <1>6 DEF Live
    <2> QED BY <1>2, <2>1 DEF HoldsEnds
  <1> QED BY <1>5, <1>6

LEMMA ChildFlows ==
    ASSUME NEW statuses, NEW failed, Working(statuses, failed),
           NEW complaint \in Seq(Tokens), NEW rest, Flows(rest, complaint),
           NEW i \in 1 .. N, i <= shell.forked, NEW ended,
           Child(i, Said(i, complaint), failed, ended)
    PROVE  HoldsEnds' /\ \E new : Flows(new, complaint)' /\ new[N] = rest[N]
  <1>1. \E new : Flows(new, complaint)' /\ new[N] = rest[N]
    BY ExecFlows, WritePipeFlows, SigpipeFlows, ReadPipeFlows, ReadEndFlows, ExitFlows
       DEF Child
  <1>2. /\ i \in Positions /\ proc \in [Positions -> ChildType(statuses)] /\ HoldsEnds
    BY WorkingTypes DEF Working
  <1>3. CASE Exec(i, Said(i, complaint))
    BY <1>1, <1>3, ExecHolds
  <1>4. CASE WritePipe(i) \/ ReadPipe(i) \/ ReadEnd(i, ended)
    <2>1. shell' = shell /\ i \in Live
      BY <1>2, <1>4 DEF WritePipe, ReadPipe, ReadEnd, Writing, Reading, Running, Live
    <2>2. /\ proc'[i].ends = proc[i].ends
          /\ \A j \in Positions \ {i} : proc'[j] = proc[j]
      <3>1. CASE WritePipe(i)
        BY <1>2, <3>1 DEF WritePipe, ChildType
      <3>2. CASE ReadPipe(i)
        <4> DEFINE todo  == <<Head(pipe[proc[i].inp])>>
                   wants == IF proc[i].wants = "one" THEN "none" ELSE proc[i].wants
        <4>1. proc' = [proc EXCEPT ![i].todo = todo, ![i].wants = wants]
          BY <3>2 DEF ReadPipe, HasRead
        <4> HIDE DEF todo, wants
        <4> QED BY <1>2, <4>1 DEF ChildType
      <3>3. CASE ReadEnd(i, ended)
        BY <1>2, <3>3 DEF ReadEnd, ChildType
      <3> QED BY <1>4, <3>1, <3>2, <3>3
    <2> QED BY <1>1, <1>2, <2>1, <2>2, EndsKept
  <1>5. CASE Sigpipe(i) \/ ExitProg(i, failed)
    <2>1. PICK status : Die(i, status)
      BY <1>5 DEF Sigpipe, ExitProg
    <2>2. shell' = shell
      BY <2>1 DEF Die
    <2>3. proc'[i].pc = "zombie" /\ \A j \in Positions \ {i} : proc'[j] = proc[j]
      BY <1>2, <2>1 DEF Die, Nobody
    <2> QED BY <1>1, <1>2, <2>2, <2>3, EndsKept
  <1> QED BY <1>1, <1>3, <1>4, <1>5 DEF Child
----------------------------------------------------------------------------
(* What a line promises. *)

LEMMA FilterIs ==
    ASSUME NEW cmd, NEW input \in Seq(Tokens)
    PROVE  /\ Filter(input, cmd) = Prints(cmd, <<>>) \o Taken(Wants(cmd), input)
           /\ Filter(input, cmd) \in Seq(Tokens)
  <1>1. Text \in Seq(Tokens) /\ <<>> \in Seq(Tokens)
    BY DEF Text, Tokens
  <1>2. CASE cmd = "gen"
    <2>1. Filter(input, cmd) = Text /\ Wants(cmd) = "none"
      BY <1>2 DEF Filter, Wants
    <2>2. Prints(cmd, <<>>) = Text /\ Taken("none", input) = <<>>
      BY <1>2 DEF Prints, Taken
    <2> QED BY <1>1, <2>1, <2>2, Joined
  <1>3. CASE cmd = "cat"
    <2>1. Filter(input, cmd) = input /\ Wants(cmd) = "all"
      BY <1>3 DEF Filter, Wants
    <2>2. Prints(cmd, <<>>) = <<>> /\ Taken("all", input) = input
      BY <1>3 DEF Prints, Taken
    <2> QED BY <2>1, <2>2, Joined
  <1>4. CASE cmd = "head"
    <2>1. Filter(input, cmd) = SubSeq(input, 1, IF input = <<>> THEN 0 ELSE 1)
          /\ Wants(cmd) = "one"
      BY <1>4 DEF Filter, Wants
    <2>2. Prints(cmd, <<>>) = <<>>
      BY <1>4 DEF Prints
    <2>3. SubSeq(input, 1, IF input = <<>> THEN 0 ELSE 1) = Taken("one", input)
      <3>1. input = <<>> => SubSeq(input, 1, 0) = <<>>
        OBVIOUS
      <3>2. ASSUME input # <<>>
            PROVE  SubSeq(input, 1, 1) = <<Head(input)>>
        <4>1. Len(input) \in Nat /\ Len(input) >= 1 /\ Head(input) = input[1]
          BY <3>2
        <4>2. SubSeq(input, 1, 1) = [k \in 1 .. 1 |-> input[1]]
          BY <4>1
        <4>3. [k \in 1 .. 1 |-> input[1]] = <<input[1]>>
          OBVIOUS
        <4> QED BY <4>1, <4>2, <4>3
      <3> QED BY <3>1, <3>2 DEF Taken
    <2>4. Taken("one", input) \in Seq(Tokens)
      BY TakenType
    <2> QED BY <2>1, <2>2, <2>3, <2>4, Joined
  <1>5. CASE cmd \notin {"gen", "cat", "head"}
    <2>1. Filter(input, cmd) = <<>> /\ Wants(cmd) = "none"
      BY <1>5 DEF Filter, Wants
    <2>2. Prints(cmd, <<>>) = <<>> /\ Taken("none", input) = <<>>
      BY <1>5 DEF Prints, Taken
    <2> QED BY <1>1, <2>1, <2>2, Joined
  <1> QED BY <1>2, <1>3, <1>4, <1>5

LEMMA ComposedIs ==
    ASSUME NEW cmds \in Seq(AllCmds)
    PROVE  \E printed \in [0 .. Len(cmds) -> Seq(Tokens)] :
              /\ printed[0] = <<>> /\ Composed(cmds) = printed[Len(cmds)]
              /\ \A k \in 1 .. Len(cmds) : printed[k] = Filter(printed[k - 1], cmds[k])
  <1> DEFINE n == Len(cmds)
             step == [p \in (1 .. n) \X Seq(Tokens) |-> Filter(p[2], cmds[p[1]])]
             Prints1(f) == f = [k \in 0 .. n |-> IF k = 0 THEN <<>>
                                                 ELSE Filter(f[k - 1], cmds[k])]
             printed == CHOOSE f : Prints1(f)
  <1>1. n \in Nat /\ <<>> \in Seq(Tokens)
    OBVIOUS
  <1>2. step \in [(1 .. n) \X Seq(Tokens) -> Seq(Tokens)]
    BY FilterIs
  <1>3. \A k \in 1 .. n, input \in Seq(Tokens) : step[<<k, input>>] = Filter(input, cmds[k])
    OBVIOUS
  <1> HIDE DEF step
  <1>4. PICK f \in [0 .. n -> Seq(Tokens)] : Follows(f, n, <<>>, step)
    BY <1>1, <1>2, Recursive
  <1>5. Prints1(f)
    <2>1. \A k \in 1 .. n : f[k] = Filter(f[k - 1], cmds[k])
      <3> SUFFICES ASSUME NEW k \in 1 .. n
                   PROVE  f[k] = Filter(f[k - 1], cmds[k])
        OBVIOUS
      <3>1. k - 1 \in 0 .. n /\ f[k - 1] \in Seq(Tokens)
        OBVIOUS
      <3> QED BY <1>3, <1>4, <3>1 DEF Follows
    <2>2. \A k \in 0 .. n : k # 0 => k \in 1 .. n
      BY <1>1
    <2>3. f[0] = <<>>
      BY <1>4 DEF Follows
    <2> QED BY <2>1, <2>2, <2>3
  <1>6. Prints1(printed)
    <2> HIDE DEF Prints1
    <2> QED BY <1>5
  <1>7. Composed(cmds) = printed[n]
    BY DEF Composed
  <1> HIDE DEF printed
  <1>8. printed[0] = <<>> /\ printed = [k \in 0 .. n |-> printed[k]]
    BY <1>1, <1>6
  <1>9. ASSUME NEW k \in 1 .. n
        PROVE  printed[k] = Filter(printed[k - 1], cmds[k])
    <2>1. k \in 0 .. n /\ k # 0
      BY <1>1
    <2> QED BY <1>6, <2>1, Zenon
  <1> DEFINE T == {k \in 0 .. n : printed[k] \in Seq(Tokens)}
  <1>10. 0 \in T
    <2>1. 0 \in 0 .. n
      BY <1>1
    <2>2. printed[0] \in Seq(Tokens)
      BY <1>1, <1>8, Zenon
    <2> QED BY <2>1, <2>2
  <1>11. ASSUME NEW k \in 1 .. n, k - 1 \in T
         PROVE  k \in T
    <2>1. printed[k - 1] \in Seq(Tokens) /\ k \in 0 .. n
      BY <1>1, <1>11
    <2>2. Filter(printed[k - 1], cmds[k]) \in Seq(Tokens)
      BY <2>1, FilterIs
    <2> QED BY <1>9, <2>1, <2>2
  <1> HIDE DEF T
  <1>12. 0 .. n \subseteq T
    BY <1>1, <1>10, <1>11, UpTo
  <1>13. printed \in [0 .. n -> Seq(Tokens)]
    <2>1. \A k \in 0 .. n : printed[k] \in Seq(Tokens)
      BY <1>12 DEF T
    <2> QED BY <1>8, <2>1
  <1> QED BY <1>7, <1>8, <1>9, <1>13

\* A line that has not begun has its composition before it.
LEMMA Beginning ==
    ASSUME NEW cmds \in Seq(AllCmds), cmds # <<>>, NEW complaint \in Seq(Tokens)
    PROVE  \E rest \in [0 .. Len(cmds) -> Seq(Tokens)] :
              /\ rest[0] = <<>>
              /\ \A j \in 1 .. Len(cmds) :
                    rest[j] = Prints(cmds[j], IF j = Len(cmds) THEN complaint ELSE <<>>)
                              \o Taken(Wants(cmds[j]), rest[j - 1])
              /\ rest[Len(cmds)] = Composed(cmds) \o
                    (IF cmds[Len(cmds)] \in NotFound THEN complaint ELSE <<>>)
  <1> DEFINE n == Len(cmds)
             Says(j) == IF j = n THEN complaint ELSE <<>>
  <1>1. n \in Nat /\ n # 0 /\ n \in 0 .. n /\ n \in 1 .. n /\ n - 1 \in 0 .. n
    OBVIOUS
  <1>2. PICK printed \in [0 .. n -> Seq(Tokens)] :
              /\ printed[0] = <<>> /\ Composed(cmds) = printed[n]
              /\ \A k \in 1 .. n : printed[k] = Filter(printed[k - 1], cmds[k])
    BY ComposedIs
  <1> DEFINE last == Prints(cmds[n], complaint) \o Taken(Wants(cmds[n]), printed[n - 1])
             rest == [j \in 0 .. n |-> IF j = n THEN last ELSE printed[j]]
  <1>3. last \in Seq(Tokens)
    <2>1. printed[n - 1] \in Seq(Tokens)
      BY <1>1
    <2>2. /\ Prints(cmds[n], complaint) \in Seq(Tokens)
          /\ Taken(Wants(cmds[n]), printed[n - 1]) \in Seq(Tokens)
      BY <2>1, PrintsType, TakenType
    <2> QED BY <2>2
  <1>4. last = printed[n] \o (IF cmds[n] \in NotFound THEN complaint ELSE <<>>)
    <2>1. printed[n - 1] \in Seq(Tokens) /\ printed[n] \in Seq(Tokens)
      BY <1>1
    <2>2. printed[n] = Prints(cmds[n], <<>>) \o Taken(Wants(cmds[n]), printed[n - 1])
      BY <1>1, <1>2, <2>1, FilterIs
    <2>3. CASE cmds[n] \in NotFound
      <3>1. /\ Prints(cmds[n], complaint) = complaint /\ Prints(cmds[n], <<>>) = <<>>
            /\ Wants(cmds[n]) = "none"
        BY <2>3 DEF Prints, Wants, NotFound
      <3>2. Taken(Wants(cmds[n]), printed[n - 1]) = <<>>
        BY <3>1 DEF Taken
      <3>3. last = complaint /\ printed[n] = <<>>
        BY <2>2, <3>1, <3>2
      <3> QED BY <2>3, <3>3
    <2>4. CASE cmds[n] \notin NotFound
      <3>1. Prints(cmds[n], complaint) = Prints(cmds[n], <<>>)
        BY <2>4 DEF Prints
      <3> QED BY <2>1, <2>2, <2>4, <3>1
    <2> QED BY <2>3, <2>4
  <1> HIDE DEF last
  <1>5. /\ rest \in [0 .. n -> Seq(Tokens)] /\ rest[n] = last
        /\ \A j \in 0 .. n : j # n => rest[j] = printed[j]
    BY <1>1, <1>3
  <1> HIDE DEF rest
  <1>6. ASSUME NEW j \in 1 .. n
        PROVE  rest[j] = Prints(cmds[j], Says(j)) \o Taken(Wants(cmds[j]), rest[j - 1])
    <2>1. j \in 0 .. n /\ j - 1 \in 0 .. n /\ j - 1 # n
      BY <1>1
    <2>2. rest[j - 1] = printed[j - 1] /\ printed[j - 1] \in Seq(Tokens)
      BY <1>5, <2>1
    <2>3. CASE j = n
      BY <1>5, <2>2, <2>3 DEF last
    <2>4. CASE j # n
      <3>1. rest[j] = Filter(printed[j - 1], cmds[j])
        BY <1>2, <1>5, <2>1, <2>4
      <3> QED BY <2>2, <2>4, <3>1, FilterIs
    <2> QED BY <2>3, <2>4
  <1>7. /\ rest \in [0 .. Len(cmds) -> Seq(Tokens)] /\ rest[0] = <<>>
        /\ rest[Len(cmds)] = Composed(cmds) \o
              (IF cmds[Len(cmds)] \in NotFound THEN complaint ELSE <<>>)
    BY <1>1, <1>2, <1>4, <1>5
  <1> QED BY <1>6, <1>7
----------------------------------------------------------------------------
(* What the steps of the process that forks do to it. *)

\* When the pipes have been made, everything is still to come.
LEMMA PipesDeliver ==
    ASSUME LineShape, shell'.cmds = shell.cmds, shell'.forked = 0,
           NEW new \in Injection(1 .. N - 1, PipeIds), shell'.pipes = new,
           pipe' = [k \in PipeIds |-> IF k \in Range(new) THEN <<>> ELSE pipe[k]],
           out' = <<>>, NEW complaint \in Seq(Tokens)
    PROVE  Delivers(complaint)'
  <1>1. /\ N \in Nat \ {0} /\ N' = N /\ N = Len(shell.cmds)
        /\ shell.cmds \in Seq(AllCmds) /\ shell.cmds # <<>>
    BY DEF LineShape, N
  <1>2. PICK rest \in [0 .. N -> Seq(Tokens)] :
          /\ rest[0] = <<>>
          /\ \A j \in 1 .. N :
                rest[j] = Prints(shell.cmds[j], IF j = N THEN complaint ELSE <<>>)
                          \o Taken(Wants(shell.cmds[j]), rest[j - 1])
          /\ rest[N] = Composed(shell.cmds) \o
                (IF shell.cmds[N] \in NotFound THEN complaint ELSE <<>>)
    <2>1. PICK cmds \in Seq(AllCmds) : cmds = shell.cmds /\ cmds # <<>> /\ Len(cmds) = N
      BY <1>1
    <2>2. \E rest \in [0 .. Len(cmds) -> Seq(Tokens)] :
            /\ rest[0] = <<>>
            /\ \A j \in 1 .. Len(cmds) :
                  rest[j] = Prints(cmds[j], IF j = Len(cmds) THEN complaint ELSE <<>>)
                            \o Taken(Wants(cmds[j]), rest[j - 1])
            /\ rest[Len(cmds)] = Composed(cmds) \o
                  (IF cmds[Len(cmds)] \in NotFound THEN complaint ELSE <<>>)
      BY <2>1, Beginning, Zenon
    <2> QED BY <2>1, <2>2, Zenon
  <1>3. ASSUME NEW j \in 1 .. N
        PROVE  rest[j] = Due(j, complaint, rest[j - 1])'
    <2>1. j > 0 /\ j - 1 \in 0 .. N /\ (j # 1 => j - 1 \in 1 .. N - 1)
      BY <1>1
    <2>2. Input(j, rest[j - 1])' = rest[j - 1]
      <3>1. CASE j = 1
        BY <1>2, <3>1 DEF Input
      <3>2. CASE j # 1
        <4>1. new[j - 1] \in PipeIds /\ new[j - 1] \in Range(new)
          BY <2>1, <3>2 DEF Injection, Range
        <4>2. pipe'[new[j - 1]] = <<>>
          BY <4>1
        <4>3. rest[j - 1] \in Seq(Tokens)
          BY <2>1
        <4>4. <<>> \o rest[j - 1] = rest[j - 1]
          BY <4>3
        <4> QED BY <3>2, <4>2, <4>4 DEF Input
      <3> QED BY <3>1, <3>2
    <2>3. NotExeced(j)'
      BY <2>1 DEF NotExeced
    <2>4. Said(j, complaint)' = IF j = N THEN complaint ELSE <<>>
      BY <1>1 DEF Said
    <2> QED BY <1>2, <2>2, <2>3, <2>4 DEF Due
  <1>4. Flows(rest, complaint)'
    BY <1>1, <1>2, <1>3 DEF Flows
  <1>5. Promised(complaint)' = rest[N]
    BY <1>1, <1>2 DEF Promised, Composition
  <1>6. <<>> \o rest[N] = rest[N]
    <2>1. rest[N] \in Seq(Tokens)
      BY <1>1
    <2> QED BY <2>1
  <1> QED BY <1>1, <1>4, <1>5, <1>6 DEF Delivers

\* It does not touch what the programs still have to deliver when it forks one,
\* closes pipes or waits for one that has ended.
LEMMA StillDelivers ==
    ASSUME shell'.cmds = shell.cmds, shell'.pipes = shell.pipes,
           UNCHANGED <<pipe, out>>, NEW complaint, Delivers(complaint),
           \A j \in 1 .. N : /\ NotExeced(j)' <=> NotExeced(j)
                             /\ Dead(j)' <=> Dead(j)
                             /\ proc[j].pc = "running" => proc'[j] = proc[j]
    PROVE  Delivers(complaint)'
  <1>1. N' = N /\ Promised(complaint)' = Promised(complaint)
    BY DEF N, Promised, Composition
  <1>2. PICK rest \in [0 .. N -> Seq(Tokens)] :
          Flows(rest, complaint) /\ out \o rest[N] = Promised(complaint)
    BY DEF Delivers
  <1>3. ASSUME NEW j \in 1 .. N
        PROVE  Due(j, complaint, rest[j - 1])' = Due(j, complaint, rest[j - 1])
    <2>1. Input(j, rest[j - 1])' = Input(j, rest[j - 1])
      BY DEF Input
    <2>2. Said(j, complaint)' = Said(j, complaint)
      BY <1>1 DEF Said
    <2>3. CASE NotExeced(j)
      BY <2>1, <2>2, <2>3 DEF Due
    <2>4. CASE Dead(j)
      BY <2>4 DEF Due, Dead
    <2>5. CASE ~NotExeced(j) /\ ~Dead(j)
      <3>1. proc[j].pc = "running" /\ proc'[j] = proc[j]
        BY <2>5 DEF Dead
      <3> QED BY <2>1, <2>5, <3>1 DEF Due
    <2> QED BY <2>3, <2>4, <2>5
  <1>4. Flows(rest, complaint)'
    BY <1>1, <1>2, <1>3 DEF Flows
  <1> QED BY <1>1, <1>2, <1>4 DEF Delivers

\* A child is forked with the ends its parent keeps for it.
LEMMA ForkHolds ==
    ASSUME LineShape, HoldsEnds, KeepsEnds, NEW i \in 1 .. N, shell.forked = i - 1,
           shell'.cmds = shell.cmds, shell'.pipes = shell.pipes,
           proc'[i].ends = shell.ends,
           \A j \in Positions \ {i} : proc'[j] = proc[j]
    PROVE  HoldsEnds'
  <1>1. N \in Nat /\ N' = N
    BY DEF LineShape, N
  <1> SUFFICES ASSUME NEW j \in Positions, proc'[j].pc \in {"forked", "running"}
               PROVE  /\ j < N => <<shell.pipes[j], "w">> \in proc'[j].ends
                      /\ j > 1 => <<shell.pipes[j - 1], "r">> \in proc'[j].ends
    BY <1>1 DEF HoldsEnds, Live
  <1>2. CASE j = i
    <2>1. i < N => i \in 1 .. N - 1 /\ i > shell.forked
      BY <1>1
    <2>2. ASSUME i > 1
          PROVE  <<shell.pipes[i - 1], "r">> \in shell.ends
      <3>1. PICK k \in 1 .. N - 1 : k = i - 1 /\ k + 1 > shell.forked
        BY <1>1, <2>2
      <3> QED BY <3>1 DEF KeepsEnds
    <2> QED BY <1>2, <2>1, <2>2 DEF KeepsEnds
  <1>3. CASE j # i
    BY <1>3 DEF HoldsEnds, Live
  <1> QED BY <1>2, <1>3
----------------------------------------------------------------------------
(* What the steps of the programs do to it. *)

LEMMA ChildDelivers ==
    ASSUME NEW statuses, NEW failed, Working(statuses, failed),
           NEW complaint \in Seq(Tokens), Delivers(complaint),
           NEW i \in 1 .. N, i <= shell.forked, NEW ended,
           Child(i, Said(i, complaint), failed, ended), UNCHANGED <<shell, out>>
    PROVE  HoldsEnds' /\ Delivers(complaint)'
  <1>1. PICK rest \in [0 .. N -> Seq(Tokens)] :
          Flows(rest, complaint) /\ out \o rest[N] = Promised(complaint)
    BY DEF Delivers
  <1>2. HoldsEnds' /\ \E new : Flows(new, complaint)' /\ new[N] = rest[N]
    BY <1>1, ChildFlows, ZenonT(40)
  <1>3. PICK new : Flows(new, complaint)' /\ new[N] = rest[N]
    BY <1>2
  <1>4. new \in [0 .. N' -> Seq(Tokens)]
    BY <1>3 DEF Flows
  <1>5. N' = N /\ Promised(complaint)' = Promised(complaint)
    BY DEF N, Promised, Composition
  <1> QED BY <1>1, <1>2, <1>3, <1>4, <1>5 DEF Delivers

LEMMA PrintDelivers ==
    ASSUME NEW statuses, NEW failed, Working(statuses, failed),
           NEW complaint \in Seq(Tokens), Delivers(complaint),
           NEW i \in 1 .. N, i <= shell.forked, Writing(i), proc[i].out = Terminal,
           proc' = [proc EXCEPT ![i].todo = Tail(@)], UNCHANGED <<shell, pipe>>,
           out' = Append(out, Head(proc[i].todo))
    PROVE  HoldsEnds' /\ Delivers(complaint)'
  <1>1. PICK rest \in [0 .. N -> Seq(Tokens)] :
          Flows(rest, complaint) /\ out \o rest[N] = Promised(complaint)
    BY DEF Delivers
  <1>2. /\ i = N /\ Head(proc[i].todo) \in Tokens
        /\ \E new : /\ Flows(new, complaint)'
                    /\ new[N] \in Seq(Tokens)
                    /\ rest[N] = <<Head(proc[i].todo)>> \o new[N]
    BY <1>1, PrintFlows
  <1>3. PICK new : /\ Flows(new, complaint)'
                   /\ new[N] \in Seq(Tokens)
                   /\ rest[N] = <<Head(proc[i].todo)>> \o new[N]
    BY <1>2
  <1>4. new \in [0 .. N' -> Seq(Tokens)]
    BY <1>3 DEF Flows
  <1>5. N' = N /\ Promised(complaint)' = Promised(complaint)
    BY DEF N, Promised, Composition
  <1>6. out' \o new[N] = out \o rest[N]
    <2>1. PICK token \in Tokens : token = Head(proc[i].todo)
      BY <1>2
    <2>2. PICK later \in Seq(Tokens) : later = new[N]
      BY <1>3
    <2>3. PICK printed \in Seq(Tokens) : printed = out
      BY DEF Working, ChildrenOK
    <2>4. Append(printed, token) \o later = printed \o (<<token>> \o later)
      OBVIOUS
    <2> QED BY <1>3, <2>1, <2>2, <2>3, <2>4
  <1>7. HoldsEnds'
    <2> DEFINE todo == Tail(proc[i].todo)
    <2>1. /\ i \in Positions /\ proc \in [Positions -> ChildType(statuses)] /\ HoldsEnds
      BY WorkingTypes DEF Working
    <2>2. i \in Live
      BY <2>1 DEF Writing, Running, Live
    <2>3. proc' = [proc EXCEPT ![i].todo = todo]
      OBVIOUS
    <2> HIDE DEF todo
    <2>4. proc'[i].ends = proc[i].ends /\ \A j \in Positions \ {i} : proc'[j] = proc[j]
      BY <2>1, <2>3 DEF ChildType
    <2> QED BY <2>1, <2>2, <2>4, EndsKept
  <1> QED BY <1>1, <1>3, <1>4, <1>5, <1>6, <1>7 DEF Delivers

\* When all programs have ended, what was promised has been printed.
LEMMA AllDelivered ==
    ASSUME NEW complaint, Delivers(complaint), out \in Seq(Tokens),
           N \in Nat, N # 0 => Dead(N)
    PROVE  out = Promised(complaint)
  <1>1. PICK rest \in [0 .. N -> Seq(Tokens)] :
          Flows(rest, complaint) /\ out \o rest[N] = Promised(complaint)
    BY DEF Delivers
  <1>2. rest[N] = <<>>
    <2>1. CASE N = 0
      BY <1>1, <2>1 DEF Flows
    <2>2. CASE N # 0
      <3>1. rest[N] = Due(N, complaint, rest[N - 1])
        BY <1>1, <2>2 DEF Flows
      <3> QED BY <2>2, <3>1, DueOfDead
    <2> QED BY <2>1, <2>2
  <1>3. out \o <<>> = out
    OBVIOUS
  <1> QED BY <1>1, <1>2, <1>3

\* What a line of commands composes to; one without commands promises nothing.
LEMMA ComposedType ==
    ASSUME NEW cmds \in Seq(AllCmds)
    PROVE  Composed(cmds) \in Seq(Tokens)
  <1>1. PICK printed \in [0 .. Len(cmds) -> Seq(Tokens)] :
          Composed(cmds) = printed[Len(cmds)]
    BY ComposedIs
  <1> QED BY <1>1

LEMMA NothingPromised == Composed(<<>>) = <<>>
  <1>1. <<>> \in Seq(AllCmds) /\ Len(<<>>) = 0
    OBVIOUS
  <1>2. PICK printed : printed[0] = <<>> /\ Composed(<<>>) = printed[Len(<<>>)]
    BY <1>1, ComposedIs
  <1> QED BY <1>1, <1>2
=============================================================================
