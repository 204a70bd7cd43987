# Verification of SysProg-Drexel

TLA+ modules, TLC runs and TLAPS proofs for the C programs of this repository: a
student database on a sparse file, three local shells, a remote shell, and two
versions of a string utility. `PROJECT.json` maps every definition to the lines
it models and lists runs, mutants, findings, hazards and theorems.

## 1. Inventory

| Component | Source | State | Operations | Hard behaviour | What makes it correct |
|---|---|---|---|---|---|
| Student database | `2-StudentDB/starter/sdbsc.c`, `db.h`, `sdbsc.h` | `student.db`, `.tmp_student.db`; per process: descriptors, offsets, loop variables | `-a -c -d -f -p -x -z -h` | processes sharing files; `rename` under open descriptors; crashes and failing system calls in the middle of a compression; 32-bit offsets | it is a map from ids to gpas; records stay in the slot of their id; compression keeps the students; every command ends |
| Remote shell server | `6-RShell/starter/rsh_server.c` | listener, backlog, the session's socket, `io_buff` | accept, receive a command, built-ins, run a pipeline on the socket, reply, close | TCP splits and joins messages; clients that die; SIGPIPE; one session at a time | requests and replies in step; no leaked session; ends only when asked |
| Remote shell client | `6-RShell/starter/rsh_cli.c` | socket, buffers | connect, prompt, send, receive until EOF, clean up | the same streams from the other end | every command answered, or the session seen to be over |
| Remote shell's parser and local loop | `6-RShell/starter/dshlib.c`, `dsh_cli.c` | command buffers | parse a line | the directory does not link as committed (see 6) | as for the third shell |
| Third shell | `5-shellp3/starter/dshlib.c` | command buffers, pipes, child processes, last return code | parse, built-ins, fork/exec, pipelines | descriptor tables of several processes, `fork` and `pipe` failing half-way, waits | every pipe end closed, every child waited for, readers see the end of their input |
| Second shell | `4-shellp2/starter/dshlib.c` | one command buffer, last return code | parse, built-ins, fork/exec | argument limits, quotes | arguments as typed; `rc` reports the last return code |
| First shell | `3-ShellP1/starter/dshlib.c`, `dsh_cli.c` | a command list that is never cleared | read a line, `build_cmd_list`, print | limits on names, arguments and commands; what earlier lines left | the list is the line's commands |
| String utilities | `1-C-Refresher/stringfun.c`, `1a-C-Refresher/starter/stringfun.c` | one buffer | set up, count, reverse, print words, replace | length of the input against length of the buffer | agree with the textbook definitions |

Interactions: the database's processes share files and nothing else. The remote
shell's client and server exchange bytes over TCP; the server runs the same
pipelines as the third shell, with the socket in place of the terminal. The
shells share their parsers by copy.

`hazards` in `PROJECT.json` lists, at its line, what a test would hardly reach in
each component, with the properties that look for it.

## 2. Modules

| Module | What it is |
|---|---|
| `StudentDB` | every process that runs `sdbsc`, its files and the kernel's inodes; one action per system call another process can observe |
| `StudentStore` | the abstract specification: a map, and commands that take effect at one instant |
| `StudentDBMap` | the refinement mapping from the first to the second |
| `StudentDB_proofs` | the theorems about `StudentDB`, the last of which is that it implements `StudentStore` |
| `RemoteShell` | one server, its clients and their connections |
| `RemoteShell_proofs` | the theorems about `RemoteShell`: its sessions, and its protocol |
| `Pipeline` | the children of a pipeline and their pipes, common to the two that follow |
| `PipeShell` | the third shell, which forks them |
| `RshPipeline` | `rsh_execute_pipeline()` of the remote shell's server, which forks them on a client's socket |
| `Pipeline_proofs`, `PipeShell_proofs`, `RshPipeline_proofs` | the lemmas about pipelines, and the theorems about the two |
| `Splitting` | the words of a sequence, by intervals: what the loops of parsers and string functions are compared with |
| `Recursion` | for the proofs: induction and recursive functions over the positions of a sequence, and what `Splitting` computes |
| `CmdList` | the first shell: `build_cmd_list()` and the loop around it |
| `CmdBuff` | the second shell: `build_cmd_buff()`, the built-ins, the loop with its child |
| `ShellVersions`, `ShellVersions_proofs` | the two of them given the same lines, and the theorems about them |
| `StringFun`, `StringFun1a` | the functions of the two string utilities |
| `StringTools`, `StringTools_proofs` | the two of them run with the same arguments, and the theorems about them |
| `MCStudentDB`, `MCRemoteShell`, `MCPipeShell`, `MCRshPipeline`, `MCShells`, `MCStringFun` | the constants for TLC |

### StudentDB

`disk`, `dir` and `proc` are the contents of the inodes, the two names of the
directory, and `main()`'s variables in every process. A file is the sequence of
its 64-byte records. Names of students, the output's wording and the access mode
are left out.

`Start` is a user running a command line; `MainUsage` and `MainOpen` are `main()`
up to its `switch`; `AddGet`/`AddWrite` and `DelGet`/`DelWrite` are the two system
calls of `add_student` and `del_student`, with whatever another process does between
them; `CountRead`, `PrintRead` and `CompressRead` are one iteration of the loop in
`count_db_records`, `print_db` and `compress_db`; `CompressOpen`, `CompressWrite`,
`CompressRename` and `CompressReopen` are the rest of `compress_db`; `ZeroReopen` is
`-z`; `Exit` closes the files. `Crash` can happen to a process at any point. `lseek`
is folded into the read or write it precedes: it changes only the process's own
descriptor.

`open_db` keeps inodes, not just names, because `compress_db` renames a file over
one that another process has open: that process goes on with the unlinked file,
which the kernel frees only when its last descriptor is closed (`Leave`).

`Slot` is the 32-bit product `id * STUDENT_RECORD_SIZE` in records: it wraps at
`2 * HALF`. The makefile compiles without optimisation, so the overflow, undefined in
C, is what the multiplication instruction does.

`IOFaults` names the system calls that may fail, of `open`, `read`, `write` and `rename`.
A short write is not modelled.

### StudentStore and StudentDBMap

The store is what the slots of `student.db` hold. A command is invoked, takes effect
at one instant with an exit code, a count and the set of students it reports, and
returns; a process that is killed has had its whole effect or none.
`ImplementsStore` says that the program is one of this specification's
implementations. It holds for one process at a time and without `-x`: the findings
below say what goes wrong otherwise.

### RemoteShell

A connection is two byte streams and what each end knows of the other: `srv` is the
server's end, `reset` says that a reset is on its way to both ends or has arrived.
`recv` takes any prefix of a stream (`Chunks`), so messages are split and joined in
every way. Bytes are abstracted to tokens, a line is its command's token repeated to
its length plus a NUL, a reply consists of `"text"` and `"EOF"` tokens.

`Accept`, `ServerRecv`, `ServerRecvEnd`, `ServerSend`, `ServerSendFails` and
`ServerClose` are the server's loop; `Reply` and `After` are the branches over the
command, from `exit` to a pipeline. `ServerSigpipe` is a `send` on a connection that
has been reset when the signal is raised. `ProgWrite`, `ProgRead` and `ProgExit`
abstract the processes of a pipeline to one program that prints, or reads the
socket, and ends. `Connect`, `Type`, `EndInput`, `ClientRecv`, `ClientRecvEnd` and
`ClientFinal` are the client; `Kill` ends it at any point. With `SysFaults` a failing `malloc`
ends a session, and a failing `pipe` or `accept` the server (`PipeFails`, `AcceptFails`).

### Pipeline, PipeShell and RshPipeline

`shell` is the process that forks: the line as typed (`input_buffer`), its commands, the
loop index, how many children it has forked, `pipes[]`, the pipe ends it holds, and its
return code. `proc` is its children by their position in the line: all children of a line
are waited for before the next line is read, so positions name them. `pipe` is what the
pipes hold and `out` what the line's programs have printed on the terminal, or sent to the
client.

A descriptor table is the set of pipe ends it holds; `Held` says whether anybody
holds an end, which decides between waiting, the end of the input and `SIGPIPE`.
`Exec` connects the child's standard streams and closes the ends of the line's pipes
(`AfterClosing`); `WritePipe`, `Sigpipe`, `ReadPipe`, `ReadEnd` and `ExitProg` are the
program. Programs are external: one that prints, one that copies its input, one that
copies its beginning and stops, one that fails, one that asks the server to stop
(`EXIT_SC`) and one that does not exist. A child of which `execvp` failed calls `exit`,
which prints what its copy of the parent's stdio buffer holds: nothing on a terminal
(`OnTerminal`), the prompt otherwise.

A line that needs more pipes than are free does not begin (`NewPipes # {}`): `NPipes`
bounds what failing forks may leak, not the program. Which of the free ones a line gets
makes no difference to it, so `MakePipes` takes some.

`PipeShell` adds `exec_local_cmd_loop()`: `ReadLine`, `Fork`, `ForkFails`, `Close` after
each fork, `Wait` and `WaitFails`. `Parsed` is what the loop does with the commands
between the pipe characters. The single command of lines 157-182 is a pipeline of
one: no pipes, one child, except that a failing `fork` goes back to the prompt at once.

`RshPipeline` adds `rsh_execute_pipeline()`, which differs where it matters: the server
closes the pipes only when all children are forked (`Close`), a failing `fork` returns at
once without closing or waiting (`ForkFails`), the code is the last program's unless any
exits with `EXIT_SC` (`ExitCode`), and the client's socket is the first program's input
and the last one's output and error output. `client` is whether the client still reads:
what is sent to one that has gone away is lost, and may be answered by a reset, after
which a write raises `SIGPIPE` in the program. `SendEof` is the step after the function
has returned; what the socket does with it as a stream of bytes is in `RemoteShell`.

### CmdList, CmdBuff and ShellVersions

A line is a sequence of cells; a word like `exit` may stand in one of them. `CmdList`
keeps the command list as the cells of each command, `exe` first and `args` right
behind, because `main()` never clears it: `strncpy` and `String` are what the C library
does to cells, so a name without a terminator or longer than `exe` shows in what is
printed, as do cells of an earlier line. `ListReadLine` is one iteration of `main()`.

`Scan` in `CmdBuff` applies `Cell`, the body of `build_cmd_buff()`'s loop, to one cell of the
buffer after the other: terminators are written into it and `argv` is the cells where
arguments begin. `BuffReadLine` is the
loop up to the fork, `Fork`, `ForkFails`, `ChildEnds` and `Wait` the rest. The third
shell and the remote shell have the same parser.

`ShellVersions` types each line to both. Its reference definitions split lines by
intervals (`Pieces` of `Splitting`), and `Typed` is the quoted form of a list of arguments.

### StringFun, StringFun1a and StringTools

The functions are operators on memory: the buffer's cells and what the heap holds
behind them, since `setup_buff()` returns the length of its input, which may exceed the
buffer when blanks collapse. A loop is a function of the number of iterations made
(`Stored`, `Swaps`, `Prints`, `Moved`), in the order of the code: an overlapping move
copies cell by cell. `StringTools` runs `main()` of both programs with
the same arguments and states what they should print by positions and intervals.

## 3. Runs

The passing runs:

| Run | Question | Bounds |
|---|---|---|
| `db_solo` | Does a compression keep the students and leave no holes, when it may be killed anywhere, fail, and run again? What does a failing system call leave behind? | one process, three students: a hole at the start, in the middle, at the end; gpas in and out of range; `open`, `write` and `rename` may fail |
| `db_map` | Is the program a map? | one process, two ids and every id and gpa just outside the ranges, a negative id, all options but `-x` |
| `db_shared` | What still holds when two processes work without `-x`? | two processes, two ids |
| `db_shared_compress` | Can two compressions, or a compression and an add, corrupt or hang each other's copy? | two processes, one id, six inodes: two names, and two descriptors per process |
| `rsh_sessions` | Do two clients and the server stay in step, and does everyone get an answer? | two commands per client out of eight kinds; a backlog of one, so that connecting may block; a buffer of three tokens, so that replies come in up to three chunks |
| `rsh_kills` | Does the server survive its clients? | the same with clients killed, `malloc`, `pipe` and `accept` failing, and a program that reads the socket |
| `pipe_lines` | Does a pipeline do what its commands say, whatever the interleaving and whatever an earlier line has leaked? | fifteen lines of one to four commands, three kept; pipes of one token, so that every writer of two has to wait; `fork` may fail as long as four pipes leave room for another line |
| `rsh_pipeline` | Does the server reply with the pipeline's output, all of it before the EOF, and come back, whatever its programs and its client do? | fourteen pipelines of one to three commands, pipes of one token; a failing `fork` ends the session that is modelled |
| `shells` | Do the parsers find the line's commands and arguments, whatever the line before left behind? Do they agree? | any two of about 110 lines: all of up to three characters over a letter, a blank, a pipe and a quote; quoted lists; lines beyond each limit. Two commands, two arguments, four cells for a name |
| `string_fun` | Do the loops of the string utilities compute what their definitions say? | a buffer of four cells, every string of up to five characters over two letters and two blanks, sixteen pairs to replace |

The bounds are small because the interesting state is: two processes are enough for every
race between a look-up and a write, three slots for every position of a hole, one client
in service and one waiting for every order of accept, close and connect, three programs
for one that both reads and writes a pipe, two lines for one that finds what another left,
and one character more than the buffer for every relation of the length to the text and to
the buffer. `HALF = 4` keeps the wrap of the offset within reach of ids that fit the run.
The remote shell's runs switch the deadlock check off: when all clients have left, a
server waits in `accept` for ever. So do the third shell's: it ends with `exit` or its
input, and so do the first two; the string utilities end; the server's session in
`rsh_pipeline` ends after a failing `fork`.

The runs that end in a violation each contradict a line of the repository's own
documentation, quoted under `findings`:

| Run | What it shows |
|---|---|
| `v_add_race` | two processes add the same id and both report success |
| `v_rsh_sigpipe` | a client killed while it is answered ends the server |

Other properties are checked where the code satisfies them, and TLC finds them violated
where it does not; the runs leave these cases out:

- With `x` among the `Opts` of `db_shared`, `RecordsInPlace`: after a compression the
  remaining students are in slots that are not theirs, although
  `a2-directions.md:79` says where a student is located.
- With `IdArgs = {1, 9}` (the offset of 9 wraps to 1 when `HALF` is 4),
  `OnlyDeleteRemoves`: `-d` with a huge id deletes a student with a small one.
- With `IOFaults = {"read"}`, `AddNeverOverwrites` by a single `-a`, because a look-up
  that fails reads as an empty slot, and `CompressKeepsStudents` by `-a` and `-x`,
  because a read that fails ends the copy, which then replaces the database.
- With a program that prints byte 4, or a line that fills `io_buff` before its NUL,
  `InSync`: the client prompts while part of a reply is still to come.
- With `OnTerminal = FALSE`, `OutputIsComposition` by lines with a missing program: the
  prompt appears again, or is what the next program reads.
- With a failing `fork`: the third shell keeps the ends of the line's pipes (a
  descriptor leak in the sense of `5-shellp3/readme.md:33`) and may wait for ever, for a
  program that writes to a pipe of which only the shell holds the other end; the server
  sends the EOF, which by `rsh_server.c:262-266` says that the command is finished, while
  programs of it still run. Hence `AllForked` in the properties of both.
- With lines of more than `CMD_MAX` commands, `OutputIsComposition` and `ReturnCodeOfLast`,
  if they are read of the line as typed: the third shell runs the first `CMD_MAX` commands
  without a word (line 96), so `gen | cat | cat | head` prints what `gen | cat | cat` does
  and the status kept is that of the last command kept. The comment above the function
  lists "`ERR_TOO_MANY_COMMANDS` too many pipes used" as an error it returns and "`CMD_ERR_PIPE_LIMIT`
  print on `ERR_TOO_MANY_COMMANDS`" as its message (`5-shellp3/starter/dshlib.c:35`, 42 and
  46). Both properties are stated for lines within the limit (`WithinLimit`), on which the
  commands kept are those typed; the longer line stays in the run for what it leaves behind.
- With blank commands, on a line of their own or between pipe characters, `ListIsLine`, if
  it calls for a warning: `build_cmd_list()` returns `WARN_NO_CMDS` for the empty string
  only, and counts and prints a blank command as one without a name.
  `3-ShellP1/starter/dsh_cli.c:33` has `WARN_NO_CMDS` for "the user command was empty" and
  line 41 "`CMD_WARN_NO_CMD` if the user entered a blank command". The property is stated
  for lines of commands with names (`NoneBlank`), and for the empty line.
- With names of `EXE_MAX - 1` characters or more, `ListIsLine`: the first shell prints
  what lies behind `exe`. `build_cmd_list()` never returns `ERR_CMD_OR_ARGS_TOO_BIG`, which
  its comment promises.
- `-c` of the first string utility prints 0 for every string (`count_words`), and of
  the second one less than the number of letters; `-w` of the second prints numbers
  only. `StringFun` and `StringFun1a` model what the code does, and no property calls
  for the words.
- A replacement whose target runs on into the padding may write behind the buffer:
  `ReplaceIsSplice` is about occurrences within the text.

`rsh_server.c:245-254` says that a session lasts until `exit` or `stop-server`; the
return at line 393 ends it after the first program (`After`). No property calls for
the documented behaviour; `EveryoneLeaves` shows that the client notices.

`rsh_server.c:486-490` says that `rsh_execute_pipeline()` returns the exit code of the last
command; lines 573-574 return `EXIT_SC` if any program of the pipeline exits with it, for
the caller to react to. `CodeOfPipeline` follows the code.

## 4. Fairness

`StudentDB`: `WF_vars(Run(p))` for every process, since the kernel schedules a
process that can run. Starting a command and being killed are not fair. A process
never waits for another one: `Terminates` is about scans of a file that another
process extends, and holds because no file grows beyond the last student's slot.

`RemoteShell`: weak fairness of the server, of the programs it runs, of each client's
process, and of each user. That users do something at the prompt in the end is an
assumption about people, not about the code. Without it, one idle client starves all
others, because the server serves one client at a time; `MaxCmds` makes them leave
after a few commands. `EveryoneLeaves` is checked for programs that end by
themselves; a program that reads the socket waits for its client, which waits for
it, and only `Reaped` (the client is killed) is claimed then.

`PipeShell`: weak fairness of the shell and of every child. Typing is not fair: the
shell may stay at its prompt. `EveryLineEnds` needs no more, because every program of
the model ends when its input does. `ShellVersions` is the same with one child.

`RshPipeline`: weak fairness of the server and of every program; clients need neither
ask nor leave. A pipeline whose first program reads the socket waits for its client,
which waits for the reply: `ServerReturns` claims that the server comes back from it when
the client has gone away, and from all others without that.

## 5. Proofs

`StudentDB_proofs` holds for any number of processes, any sets of ids, gpas and
options, and any size of the ranges; the assumptions are those `StudentDB` names:
`NullAssumption`, `RangeAssumption` (the last student's slot lies within half the
offset range), `ArgvAssumption` and `FaultsAssumption`.

`TypeCorrect`: `Spec => []TypeOK`. `TypeOK` is not inductive. That a write stays within
`MAX_STD_ID + 1` records needs what the process knew before it: that `-a` has
validated its id, that `-d` has found a record in its slot (a negative or wrapped id
included), that a compression has written no more records than it has read, and
has read one more than it has written when it is about to write. `TypeInv` adds this
to the types of the files, the directory and the processes (`LocalOK`).

`NoSelfCopy`: `Spec => []FilesDistinct`. The argument follows a file's life: the file
named `.tmp_student.db` is never the database (`TmpNotDatabase`), and nobody has it
open as the database (`TmpNotRead`). A compression that has opened it as its copy
keeps the two descriptors it has, whatever the names become. `DistinctInv` is the
conjunction of the three.

`AddressingCorrect`: without `-x`, `Spec => []RecordsInPlace`. `PlaceInv` says it of
every inode instead of the one named `student.db`, and that no process is compressing.

`DeletionsOnly`: without `-x` and with ids whose offsets do not wrap,
`Spec => OnlyDeleteRemoves`. The same invariant: a write to a slot can remove only the
student whose id names the slot. Both preconditions are necessary
(see 3).

`CompressionPacks`, `CompressionKeeps` and `AdditionsOnly` are about one process whose
`read()` does not fail (`Solo`), killed anywhere and with every other call failing.
`CopyInv` says how far a compression has come: the descriptors are those of the two
names, and the copy is `Packed(file, n)` of the `n` records read, less the one that is
about to be written. So the rename makes `Records(file)` the database, which has the
same students (`PackedAll`), and every other step leaves the database alone. Both
parts of `Solo` are necessary: a second process changes the file behind the scan, and a
read that fails ends it. `AdditionsOnly` needs only that nobody compresses if
there are several processes: `Within` says what a step puts into the
database beyond what was there, and only the write of `-a` puts a record.

`StoreRefined`: `Spec => ImplementsStore`, the step
simulation of the abstract map, for any number of students, any ids and gpas, and
processes killed anywhere. `Inv` adds to the two invariants above what a process has
done of its command (`InStep`): the look-up of `-a` and `-d` is still true when they
write, and a scan has counted, or printed, exactly the slots before its offset. The
simulation has one lemma per action: a command takes effect where it gets its answer,
by a write, by a look-up that refuses or finds, or by the end of a scan; everything
before is a stutter. Its
hypotheses are `Alone`: one process, since two of them break it (`v_add_race`); no `-x`,
after which records are not in their slots; no failing calls, which the store has no
answer for; an inode for the database; and ids whose offsets do not wrap.

`RemoteShell_proofs` holds for any set of clients, any command lines among those of
`AllCmds` and any program outputs, any buffer of more than two tokens and any backlog,
with or without kills and failing system calls; the assumptions are those `RemoteShell`
names: `CmdsAssumption`, `OutputAssumption`, `BoundAssumption`, `FaultAssumption` and
`ClientAssumption` (the value for "no client" is not a client).

`TypeCorrect`: `Spec => []TypeOK`. The server's steps use the fields of the client it
serves and the head of the reply it sends, so `RshInv` adds to the types when there is a
client (`Serving`) and when there is a reply (`Replying`).

`NoLeak`: `Spec => []NoLeakedSession`. `SessionInv` strengthens it by `Serving` and
`Waiting`: no connection is in the backlog twice, so `accept` takes it out of the
queue, and a client that has not connected yet has no connection. All steps but
`Connect`, `Accept`, `ServerClose` and the end of the server leave what the invariant
speaks of alone (`SameSession`).

The other two theorems have two hypotheses that the code needs (see 3): no line fills
`io_buff` (`ShortLines`) and no program prints the EOF character (`NoEofPrinted`).

`KeepsInSync`: `Spec => []InSync`, with clients killed and calls failing. `SyncInv` says
where a client's command is, of five places: nowhere (`Quiet`); in the stream to the
server or partly in `io_buff` (`Unanswered`: the two together are the line that was
typed); being run or answered (`Answering`: no EOF has been sent); answered (`Answered`:
what the client has not yet received ends with the only EOF); or given up by the server
(`Abandoned`). A receive takes any part of a stream, so each of these is about the
concatenation of what is in the stream and what is in the buffer. A connection that has
been reset promises nothing, and the client finds out before it prompts.

`EndsOnRequest`: `Spec => []StopsOnlyOnRequest`, without kills and failing calls. The
server is ended by a command it was sent or by SIGPIPE. `OrderInv` shows that the first
is what the user typed, and that the second does not happen: whoever
leaves first has nothing more to receive, since the client waits for the whole reply
unless it has asked for the session's end (`Orderly`, `Obeying`). Both further
hypotheses are necessary: `v_rsh_sigpipe` shows the one, and a failing `pipe()` or
`accept()` ends the server (`PipeFails`, `AcceptFails`).

`Pipeline_proofs`, `PipeShell_proofs` and `RshPipeline_proofs` hold for any lines, any
limit on commands, any number of pipes and any capacity, with `fork()` failing and, in the
server's case, clients going away at any time.

`TypeCorrect` and `NothingStaysBehind` of `PipeShell`, and `TypeCorrect` and `EofComesLast` of
`RshPipeline`, follow from `Stage`: what the parent has made, forked, closed and waited for
by its program counter and loop index, hence which pipe ends it still holds
(`Remaining`) and which children can exist. `Family` adds what every child is by its
position: the pipes next to it while it runs, its program's status or SIGPIPE's when it
has ended.

`ReturnCodeIsOfLast`, for lines within `CMD_MAX`: the last program cannot be ended by
SIGPIPE, for it writes to the terminal (`LastEnded`), so the code is what it passed to
`exit()`. `CodeIsOfPipeline`: the same while the client is there; `Collected` carries it
from the zombies to `st_list[]` as the loop waits for them in order.

`OutputComposes`, for lines within `CMD_MAX`, and `ReplyComposes`, both for output that is
a terminal or a socket (`OnTerminal`: see 3), are about the programs. `Due` is what the
program at a position has still to deliver: what it has to say, and of its input as much
as it wants, where its input is what its pipe holds and what is due from the program
before; nothing, if it has ended or nobody will read it. `Flows` defines this along the
line, and `Delivers` says that what is printed and what is due from the last program add
up to the composition of the commands, whatever the interleaving. Every step of a program
keeps the sum. Two steps do so for a reason outside the program itself: a reader finds the
end of its input only when the writer has ended (`HoldsEnds`, and `KeepsEnds` for the
programs not yet forked), and SIGPIPE reaches a writer only when its reader has ended.
When all have been waited for, nothing is due.

`ShellVersions_proofs` holds for any lines of any length below `ARG_MAX - 1`, any limits
on commands, names and arguments of more than one, and a failing `fork()`. The
assumptions are those `CmdList` and `ShellVersions` name; `LineAssumption` says that a
line holds no NUL, since it is a C string, and `ArgAssumption` that the arguments of
`RoundTrip` hold no quote: the parser has no way to quote one.

`ArgumentsLieApart`, `LastCodeIsOfProgram` and half of `TypeCorrect` follow from
`BuffInv`: the buffer and `argv` are what a parse leaves, a command that is run has a
name, and the child is where the loop's program counter says. What a parse leaves is an
induction over the cells (`InLoop`): every argument begun ends before the next one
begins, and what lies behind the cell under the loop is still the line.

`ArgumentsReturn` is the correctness of the parser on quoted forms. Three relations say
where the loop stands among the arguments typed: between two (`Between`), inside one
that has no quotes, which the next blank or the end of the line will end (`Within`), or
with `argv` full (`Complete`). `QuotedScan` takes the loop through one argument,
`BlankEnds` over the blank behind it, and `AfterTyped` through all; `LineInv` keeps what
has been parsed with the line it came from (`Gets`).

`PrintedListIsTheLine`, for lines without blank commands, is about a list that is never
cleared, so `ListInv` says that it is what `build_cmd_list()` made of the line and of some
earlier list (`Made`), and `MadeHolds` that the earlier list does not show. `CommandIs`
does so for one command by its number of words: with none or one, the name's copy and the
terminator put at the head of `args`; with several, the name cut at the first space and
the copy of what follows (`CopyBegins`, `StringIs`). That `strtok()` finds what `Pieces`
defines is `TokensArePieces`. The other half of `TypeCorrect` follows from `ListInv`.

`ParsersFindTheSameWords` joins the two: on a line of plain words the second shell's
loop finds the words by intervals (`AfterWords`, by the same three relations), and the
first shell's name and arguments are a part of the line of which the pieces are the
line's words without the first (`NameAndWords`, from `PartPieces`).

`StringTools_proofs` holds for any arguments, any size of the buffer and any memory
behind it; the assumptions are that arguments hold no NUL and that what a string's
length makes a function read is there (`ArgAssumption`). A run is one call of each
`main()`, so the invariant, `RunInv`, says only that what has run is what `main()`
returns; the work is in the loops, each with an invariant over its iterations:

- `Keeps`, for `BufferHoldsTheInput`: after `n` characters the buffer lists those of the
  first `n` positions that are kept, nothing has been refused, and `prev_char` is a
  blank if and only if the last character seen was one. That the buffer is never
  overrun, fitting input or not, is `StoredFits`.
- `Exchanged`, for `ReverseTurnsRound` and `ReversalsAreTheSame`: after `k` passes the
  first and the last `k` cells are exchanged and those between them are not.
- `Shifted`, for `ReplaceSplicesTheText`: what has been moved is where it should be, and
  what is still to be moved has not been overwritten. This is where the direction
  matters.
- `PrintsTo`, for `TheWordsArePrinted`: the words printed are those that begin in the
  cells seen, and the last one lacks its length as long as it is open.

Induction. The provers cannot instantiate the library's induction theorems, which take
an operator. `Recursion` proves what is needed from the existence of least elements
(`WFMin`, which takes a set): a set that contains 0 and every successor contains all
positions (`UpTo`), and a function that is defined by recursion over positions exists
and satisfies its equation. `Packed`, `Parsed`, `Composed`, the flow of a line, the
parsers' and the string functions' loops are therefore recursive functions over
positions. `Recursion` also proves what the definitions of `Splitting` mean:
`Enumerates` says cell by cell which intervals have been seen, and a sequence enumerates
all of them if and only if it is `Pieces` (`PiecesAre`, `PiecesEnumerate`).

Only model-checked are the liveness properties: `Terminates`, `EveryoneLeaves`,
`Reaped`, `EveryLineEnds`, `ServerReturns` and `PromptReturns`, which are out of the
provers' reach. Every invariant, every action property and the refinement of a passing
run has its theorem. What the theorems assume beyond the named assumptions on the
constants (one process, no `-x`, short lines, and so on) is also what the runs assume,
and section 3 says what goes wrong without it.

## 6. Not modelled, and why

- The remote shell does not link as committed: `dsh_cli.c` is a copy of the third
  shell's `dshlib.c`, without `main()`, and `build_cmd_list()` and `free_cmd_list()` for
  `cmd_buff_t` are declared and not defined. `RemoteShell` takes their meaning from
  the calls in `rsh_server.c`.
- `boot_server()` failing (the server never runs), threads (not implemented).
- Short writes and signals in the database; disk space other than running out of inodes.
- `dragon.c` (an empty stub), usage texts, printed formats, makefiles, binaries.
- `pipe()` failing in the third shell: the rest of the array is uninitialised and the
  children close whatever it holds.
- `malloc()` failing outside the server, `chdir()`, lines that `fgets()` splits.

## 7. Plan

Written so far, in this order: `StudentDB` and its proofs, `StudentStore`,
`StudentDBMap`, `RemoteShell`, `Pipeline` and `PipeShell`, `RshPipeline`, `StringFun`,
`StringFun1a`, `CmdList`, `CmdBuff`; then the theorems about `RemoteShell`, `PipeShell`,
`RshPipeline`, the refinement of `StudentStore`, the compression, the parsers and the string
functions. Left:

1. A weaker abstract specification for several processes without `-x`, whose additions
   may overwrite, and the step simulation of it.
2. What a compression loses when another process writes meanwhile: the records whose
   slots the copy has passed, as a bound on the difference of the two databases.
