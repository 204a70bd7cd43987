----------------------------- MODULE StudentDB -----------------------------
(***************************************************************************)
(* The student database program sdbsc (src/2-StudentDB/starter/sdbsc.c).   *)
(* Every invocation of the program is a process that runs main() once on   *)
(* the files of one directory, student.db and .tmp_student.db.  A process  *)
(* takes one step per system call that another process can observe; the    *)
(* kernel's inodes are modelled, because compress_db() replaces a file     *)
(* other processes may still hold open.                                    *)
(*                                                                         *)
(* A file is the sequence of its 64-byte records: the record at byte       *)
(* 64 * s is file[s + 1].  Names are abstracted away, a record is an id    *)
(* and a gpa.                                                              *)
(***************************************************************************)
EXTENDS Integers, Sequences, FiniteSets

CONSTANTS Procs,        \* processes that run sdbsc
          Inodes,       \* files the directory's file system can hold
          NULL,         \* no file; as a descriptor: the -1 of a failed open
          MAX_STD_ID, MAX_STD_GPA,
          Opts,         \* the options users type: see Argv
          IdArgs,       \* the ids they type (any int)
          GpaArgs,      \* the gpas they type
          HALF,         \* records in half of the 32-bit offset range (2^25)
          IOFaults      \* the system calls that may fail

VARIABLES disk,         \* the records of every inode
          dir,          \* the inode each file name is linked to, or NULL
          proc          \* the local state of main() in each process

vars == <<disk, dir, proc>>

DB_FILE     == "student.db"
TMP_DB_FILE == ".tmp_student.db"
Names       == {DB_FILE, TMP_DB_FILE}

MIN_STD_ID  == 1
MIN_STD_GPA == 0

NO_ERROR       == 0
ERR_DB_FILE    == -1
SRCH_NOT_FOUND == -3

EXIT_OK        == 0
EXIT_FAIL_DB   == 1
EXIT_FAIL_ARGS == 2

\* "?" stands for an unknown option and for an option with the wrong number
\* of arguments; "-" for a command line without an option.
AllOpts == {"a", "c", "d", "f", "p", "x", "z", "h", "?", "-"}

SysCalls == {"open", "read", "write", "rename"}

ASSUME NullAssumption   == NULL \notin Inodes
ASSUME RangeAssumption  == /\ MAX_STD_ID \in Nat \ {0}
                           /\ MAX_STD_GPA \in Nat
                           /\ HALF \in Nat /\ HALF > MAX_STD_ID
ASSUME ArgvAssumption   == /\ Opts \subseteq AllOpts
                           /\ IdArgs \subseteq Int
                           /\ GpaArgs \subseteq Int
ASSUME FaultsAssumption == IOFaults \subseteq SysCalls
----------------------------------------------------------------------------
(* Records and files. *)

student_t == [id : 0 .. MAX_STD_ID, gpa : 0 .. MAX_STD_GPA]
EMPTY_STUDENT_RECORD == [id |-> 0, gpa |-> 0]

File == Seq(student_t)

\* Mutant: students are packed from the file's first slot.
SlotFromZero(id) == id - 1

\* The slot `id * STUDENT_RECORD_SIZE' addresses.  The product is an int: it
\* wraps at 2^32 bytes, that is at 2 * HALF records, and may be negative.
Slot(id) == ((id + HALF) % (2 * HALF)) - HALF

\* write() of one record at a slot: a gap before it reads as zeros.
Write(file, slot, record) ==
    [k \in 1 .. (IF slot < Len(file) THEN Len(file) ELSE slot + 1) |->
        IF k = slot + 1 THEN record
        ELSE IF k <= Len(file) THEN file[k] ELSE EMPTY_STUDENT_RECORD]

\* Mutant: deleted records are taken for students.
AnyRecord(record) == TRUE

\* The comparison with an empty record that tells a student from a hole.
IsStudent(record) == record # EMPTY_STUDENT_RECORD

\* Mutant: the reads of a scan all start at the same offset.
AdvanceNot(off) == off

\* A read() moves the file offset to the next record.
Advance(off) == off + 1

\* What the first n records of a file, and all of them, are besides holes and
\* deleted records, in file order.
Packed(file, n) ==
    LET packed[k \in 0 .. Len(file)] ==
            IF k = 0 THEN <<>>
            ELSE IF file[k] = EMPTY_STUDENT_RECORD THEN packed[k - 1]
            ELSE Append(packed[k - 1], file[k])
    IN  packed[n]
Records(file) == Packed(file, Len(file))

\* Whether a system call fails for a reason outside the program.
Fault(call) == IF call \in IOFaults THEN BOOLEAN ELSE {FALSE}

----------------------------------------------------------------------------
(* Command lines and processes. *)

Argv == [opt : Opts \cap {"a"}, id : IdArgs, gpa : GpaArgs]
            \cup [opt : Opts \cap {"d", "f"}, id : IdArgs, gpa : {0}]
            \cup [opt : Opts \ {"a", "d", "f"}, id : {0}, gpa : {0}]

NoArgv == [opt |-> "-", id |-> 0, gpa |-> 0]

CompressPcs == {"x_open", "x_read", "x_write", "x_rename", "x_reopen"}
Pcs == {"idle", "main", "add_get", "add_write", "del_get", "del_write",
        "find", "count", "print", "zero", "done"} \cup CompressPcs

\* fd and tmp_fd are the open files (NULL: none), off and tmp_off their file
\* offsets in records; record is compress_db's buffer; count and seen are
\* what the process has reported; exit_code is main's.
Idle == [pc |-> "idle", argv |-> NoArgv, fd |-> NULL, tmp_fd |-> NULL,
         off |-> 0, tmp_off |-> 0, record |-> EMPTY_STUDENT_RECORD,
         count |-> 0, seen |-> {}, exit_code |-> EXIT_OK]

ProcState ==
    [pc : Pcs, argv : Argv \cup {NoArgv},
     fd : Inodes \cup {NULL}, tmp_fd : Inodes \cup {NULL},
     off : 0 .. MAX_STD_ID + 1, tmp_off : 0 .. MAX_STD_ID + 1,
     record : student_t, count : 0 .. MAX_STD_ID + 1,
     seen : SUBSET student_t,
     exit_code : {EXIT_OK, EXIT_FAIL_DB, EXIT_FAIL_ARGS}]

Linked(i) == \E n \in Names : dir[n] = i
HeldBy(p, i) == i \in {proc[p].fd, proc[p].tmp_fd}
Unused == {i \in Inodes : ~Linked(i) /\ \A p \in Procs : ~HeldBy(p, i)}

Init == /\ disk = [i \in Inodes |-> <<>>]
        /\ dir = [n \in Names |-> NULL]
        /\ proc = [p \in Procs |-> Idle]
----------------------------------------------------------------------------
(* The functions of sdbsc.c that main's operations share. *)

\* The descriptors open(name, O_RDWR | O_CREAT) can return.
OpenResults(name) ==
    LET file == IF dir[name] # NULL THEN {dir[name]}
                ELSE IF Unused = {} THEN {NULL}
                ELSE {CHOOSE i \in Unused : TRUE}
    IN  IF "open" \in IOFaults THEN file \cup {NULL} ELSE file

\* Mutants: O_TRUNC is never passed to open(); it always is.
open_db_keep(name, should_truncate, fd) ==
    IF fd = NULL THEN UNCHANGED <<disk, dir>>
    ELSE /\ dir' = [dir EXCEPT ![name] = fd]
         /\ disk' = IF dir[name] = NULL
                    THEN [disk EXCEPT ![fd] = <<>>] ELSE disk
open_db_trunc(name, should_truncate, fd) ==
    IF fd = NULL THEN UNCHANGED <<disk, dir>>
    ELSE /\ dir' = [dir EXCEPT ![name] = fd]
         /\ disk' = [disk EXCEPT ![fd] = <<>>]

\* The effect of open_db() on the file system when it returns fd.
open_db(name, should_truncate, fd) ==
    IF fd = NULL
    THEN UNCHANGED <<disk, dir>>
    ELSE /\ dir' = [dir EXCEPT ![name] = fd]
         /\ disk' = IF should_truncate \/ dir[name] = NULL
                    THEN [disk EXCEPT ![fd] = <<>>] ELSE disk

\* get_student()'s return code; a read error looks like the end of the file.
get_student(file, id, fault) ==
    IF Slot(id) < 0 THEN ERR_DB_FILE
    ELSE IF \/ fault
            \/ Slot(id) >= Len(file)
            \/ ~IsStudent(file[Slot(id) + 1])
         THEN SRCH_NOT_FOUND ELSE NO_ERROR

\* The test of the loops that read a file from start to end: read() returned
\* a whole record.
ReadOne(file, off, fault) == ~fault /\ off < Len(file)

\* Mutants: no upper bound on the gpa; the lower one excluded.
validate_range_open(id, gpa) ==
    IF id < MIN_STD_ID \/ id > MAX_STD_ID \/ gpa < MIN_STD_GPA
    THEN EXIT_FAIL_ARGS ELSE NO_ERROR
validate_range_strict(id, gpa) ==
    IF \/ id < MIN_STD_ID \/ id > MAX_STD_ID
       \/ gpa <= MIN_STD_GPA \/ gpa > MAX_STD_GPA
    THEN EXIT_FAIL_ARGS ELSE NO_ERROR

validate_range(id, gpa) ==
    IF \/ id < MIN_STD_ID \/ id > MAX_STD_ID
       \/ gpa < MIN_STD_GPA \/ gpa > MAX_STD_GPA
    THEN EXIT_FAIL_ARGS ELSE NO_ERROR

At(p, label) == proc[p].pc = label
Goto(p, label) == proc' = [proc EXCEPT ![p].pc = label]
Finish(p, code) ==
    proc' = [proc EXCEPT ![p].pc = "done", ![p].exit_code = code]

----------------------------------------------------------------------------
(* main(): one process runs it from exec to exit. *)

Start(p) ==
    /\ At(p, "idle")
    /\ \E argv \in Argv :
          proc' = [proc EXCEPT ![p].pc = "main", ![p].argv = argv]
    /\ UNCHANGED <<disk, dir>>

\* Where the switch over the option leads once the database is open.
Entry(argv) ==
    CASE argv.opt = "a" -> IF validate_range(argv.id, argv.gpa) = NO_ERROR
                           THEN "add_get" ELSE "done"
      [] argv.opt = "c" -> "count"
      [] argv.opt = "d" -> "del_get"
      [] argv.opt = "f" -> "find"
      [] argv.opt = "p" -> "print"
      [] argv.opt = "x" -> "x_open"
      [] argv.opt = "z" -> "zero"
      [] OTHER -> "done"

\* No option, or -h: exit before the database is opened.
MainUsage(p) ==
    /\ At(p, "main")
    /\ proc[p].argv.opt \in {"-", "h"}
    /\ Finish(p, IF proc[p].argv.opt = "h" THEN EXIT_OK ELSE EXIT_FAIL_DB)
    /\ UNCHANGED <<disk, dir>>

MainOpen(p) ==
    /\ At(p, "main")
    /\ proc[p].argv.opt \notin {"-", "h"}
    /\ \E fd \in OpenResults(DB_FILE) :
          /\ open_db(DB_FILE, FALSE, fd)
          /\ IF fd = NULL
             THEN Finish(p, EXIT_FAIL_DB)
             ELSE LET entry == Entry(proc[p].argv)
                  IN  proc' = [proc EXCEPT
                        ![p].pc = entry, ![p].fd = fd,
                        ![p].exit_code = IF entry = "done"
                                         THEN EXIT_FAIL_ARGS ELSE EXIT_OK]

\* Leaving the process closes its files: an inode no name and no other
\* process refers to is freed.
Leave(p) ==
    /\ proc' = [proc EXCEPT ![p] = Idle]
    /\ disk' = [i \in Inodes |->
                   IF Linked(i) \/ \E q \in Procs \ {p} : HeldBy(q, i)
                   THEN disk[i] ELSE <<>>]
    /\ UNCHANGED dir

Exit(p)  == At(p, "done") /\ Leave(p)
Crash(p) == ~At(p, "idle") /\ Leave(p)
----------------------------------------------------------------------------
(* -a: add_student() looks the slot up, then writes it. *)

AddGet(p) ==
    /\ At(p, "add_get")
    /\ \E fault \in Fault("read") :
          IF get_student(disk[proc[p].fd], proc[p].argv.id, fault) = NO_ERROR
          THEN Finish(p, EXIT_FAIL_DB) ELSE Goto(p, "add_write")
    /\ UNCHANGED <<disk, dir>>

AddWrite(p) ==
    /\ At(p, "add_write")
    /\ \E fault \in Fault("write") :
          IF fault
          THEN Finish(p, EXIT_FAIL_DB) /\ UNCHANGED disk
          ELSE LET argv == proc[p].argv IN
               /\ disk' = [disk EXCEPT ![proc[p].fd] =
                     Write(@, Slot(argv.id), [id |-> argv.id, gpa |-> argv.gpa])]
               /\ Finish(p, EXIT_OK)
    /\ UNCHANGED dir

(* -d: del_student() looks the slot up, then writes an empty record. *)

DelGet(p) ==
    /\ At(p, "del_get")
    /\ \E fault \in Fault("read") :
          IF get_student(disk[proc[p].fd], proc[p].argv.id, fault) # NO_ERROR
          THEN Finish(p, EXIT_FAIL_DB) ELSE Goto(p, "del_write")
    /\ UNCHANGED <<disk, dir>>

DelWrite(p) ==
    /\ At(p, "del_write")
    /\ \E fault \in Fault("write") :
          IF fault
          THEN Finish(p, EXIT_FAIL_DB) /\ UNCHANGED disk
          ELSE /\ disk' = [disk EXCEPT ![proc[p].fd] =
                     Write(@, Slot(proc[p].argv.id), EMPTY_STUDENT_RECORD)]
               /\ Finish(p, EXIT_OK)
    /\ UNCHANGED dir

(* -f: get_student(), then print_student(). *)

Find(p) ==
    /\ At(p, "find")
    /\ \E fault \in Fault("read") :
          LET id   == proc[p].argv.id
              file == disk[proc[p].fd]
          IN  IF get_student(file, id, fault) = NO_ERROR
              THEN proc' = [proc EXCEPT ![p].pc = "done",
                                        ![p].seen = {file[Slot(id) + 1]}]
              ELSE Finish(p, EXIT_FAIL_DB)
    /\ UNCHANGED <<disk, dir>>

(* -c and -p: one step per record read, until read() returns no record. *)

CountRead(p) ==
    /\ At(p, "count")
    /\ \E fault \in Fault("read") :
          LET file == disk[proc[p].fd]
              off  == proc[p].off
          IN  IF ReadOne(file, off, fault)
              THEN proc' = [proc EXCEPT
                     ![p].off = Advance(off),
                     ![p].count = IF IsStudent(file[off + 1])
                                  THEN @ + 1 ELSE @]
              ELSE Finish(p, EXIT_OK)
    /\ UNCHANGED <<disk, dir>>

PrintRead(p) ==
    /\ At(p, "print")
    /\ \E fault \in Fault("read") :
          LET file == disk[proc[p].fd]
              off  == proc[p].off
          IN  IF ReadOne(file, off, fault)
              THEN proc' = [proc EXCEPT
                     ![p].off = Advance(off),
                     ![p].seen = @ \cup {r \in {file[off + 1]} : IsStudent(r)}]
              ELSE Finish(p, EXIT_OK)
    /\ UNCHANGED <<disk, dir>>

(* -z: close, then open again with O_TRUNC. *)

ZeroReopen(p) ==
    /\ At(p, "zero")
    /\ \E fd \in OpenResults(DB_FILE) :
          /\ open_db(DB_FILE, TRUE, fd)
          /\ proc' = [proc EXCEPT ![p].pc = "done", ![p].fd = fd,
                ![p].exit_code = IF fd = NULL THEN EXIT_FAIL_DB ELSE EXIT_OK]
----------------------------------------------------------------------------
(* -x: compress_db() copies the records into the temporary file, renames   *)
(* it over the database and opens the database again.                      *)

CompressOpen(p) ==
    /\ At(p, "x_open")
    /\ \E fd \in OpenResults(TMP_DB_FILE) :
          /\ open_db(TMP_DB_FILE, TRUE, fd)
          /\ IF fd = NULL
             THEN Finish(p, EXIT_FAIL_DB)
             ELSE proc' = [proc EXCEPT ![p].pc = "x_read", ![p].tmp_fd = fd]

CompressRead(p) ==
    /\ At(p, "x_read")
    /\ \E fault \in Fault("read") :
          LET file == disk[proc[p].fd]
              off  == proc[p].off
          IN  IF ~ReadOne(file, off, fault)
              THEN Goto(p, "x_rename")
              ELSE proc' = [proc EXCEPT
                     ![p].off = Advance(off), ![p].record = file[off + 1],
                     ![p].pc = IF IsStudent(file[off + 1])
                               THEN "x_write" ELSE "x_read"]
    /\ UNCHANGED <<disk, dir>>

CompressWrite(p) ==
    /\ At(p, "x_write")
    /\ \E fault \in Fault("write") :
          IF fault
          THEN /\ proc' = [proc EXCEPT ![p].pc = "done", ![p].tmp_fd = NULL,
                                       ![p].exit_code = EXIT_FAIL_DB]
               /\ UNCHANGED disk
          ELSE /\ disk' = [disk EXCEPT ![proc[p].tmp_fd] =
                             Write(@, proc[p].tmp_off, proc[p].record)]
               /\ proc' = [proc EXCEPT ![p].pc = "x_read",
                                       ![p].tmp_off = @ + 1]
    /\ UNCHANGED dir

\* Mutant: a link, which leaves the temporary name in place.
linked == [dir EXCEPT ![DB_FILE] = dir[TMP_DB_FILE]]

\* rename(TMP_DB_FILE, DB_FILE)
renamed == [dir EXCEPT ![DB_FILE] = dir[TMP_DB_FILE], ![TMP_DB_FILE] = NULL]

\* close(fd), close(tmp_fd) and rename(), which fails if another process
\* has renamed the temporary file first.
CompressRename(p) ==
    /\ At(p, "x_rename")
    /\ \E fault \in Fault("rename") :
          LET ok == ~fault /\ dir[TMP_DB_FILE] # NULL
          IN  /\ dir' = IF ok THEN renamed ELSE dir
              /\ proc' = [proc EXCEPT
                    ![p].fd = NULL, ![p].tmp_fd = NULL,
                    ![p].pc = IF ok THEN "x_reopen" ELSE "done",
                    ![p].exit_code = IF ok THEN EXIT_OK ELSE EXIT_FAIL_DB]
    /\ UNCHANGED disk

CompressReopen(p) ==
    /\ At(p, "x_reopen")
    /\ \E fd \in OpenResults(DB_FILE) :
          /\ open_db(DB_FILE, FALSE, fd)
          /\ proc' = [proc EXCEPT ![p].pc = "done", ![p].fd = fd,
                ![p].exit_code = IF fd = NULL THEN EXIT_FAIL_DB ELSE EXIT_OK]

Compress(p) == \/ CompressOpen(p) \/ CompressRead(p) \/ CompressWrite(p)
               \/ CompressRename(p) \/ CompressReopen(p)
----------------------------------------------------------------------------
(* The specification. *)

\* What a process does once it has started, unless it is killed.
Run(p) == \/ MainUsage(p) \/ MainOpen(p)
          \/ AddGet(p) \/ AddWrite(p) \/ DelGet(p) \/ DelWrite(p)
          \/ Find(p) \/ CountRead(p) \/ PrintRead(p) \/ ZeroReopen(p)
          \/ Compress(p) \/ Exit(p)

Next == \E p \in Procs : Start(p) \/ Run(p) \/ Crash(p)

\* The kernel schedules every process that can run; users need not start
\* programs, and nothing need crash.
Fairness == \A p \in Procs : WF_vars(Run(p))

Spec == Init /\ [][Next]_vars
FairSpec == Spec /\ Fairness
----------------------------------------------------------------------------
(* Properties. *)

\* The database as a program opening it now would see it.
Database == IF dir[DB_FILE] = NULL THEN <<>> ELSE disk[dir[DB_FILE]]

\* Every record ever stored is empty or a student within the ranges of db.h,
\* the files never outgrow the last student's slot, and the processes'
\* variables have their types.
TypeOK == /\ disk \in [Inodes -> File]
          /\ \A i \in Inodes : Len(disk[i]) <= MAX_STD_ID + 1
          /\ dir \in [Names -> Inodes \cup {NULL}]
          /\ proc \in [Procs -> ProcState]

\* A student's record is where get_student() looks for it, in the slot its
\* id names: two students never share a slot and no student has two.
RecordsInPlace ==
    \A k \in 1 .. Len(Database) :
        Database[k] # EMPTY_STUDENT_RECORD => Database[k].id = k - 1

\* compress_db() never copies a file onto itself: the file it reads is not
\* the one it truncated and writes, whatever names other processes' renames
\* have moved meanwhile.
FilesDistinct ==
    \A p \in Procs :
        proc[p].pc \in {"x_read", "x_write"} => proc[p].fd # proc[p].tmp_fd

\* A compression that reports success leaves no hole and no deleted record.
\* (Only with one process: another one could delete before this one exits.)
CompressPacks ==
    \A p \in Procs :
        (At(p, "done") /\ proc[p].argv.opt = "x" /\ proc[p].exit_code = EXIT_OK)
            => Database = Records(Database)

\* No step of compress_db(), and no crash within it, changes which students
\* the database holds, their order or their number.
CompressKeepsStudents ==
    [][\A p \in Procs :
          (proc[p].pc \in CompressPcs /\ proc'[p] # proc[p])
              => Records(Database') = Records(Database)]_vars

\* A student that disappears from the database was deleted by -d with its
\* own id, or by -z.
Stored(id) == \E k \in 1 .. Len(Database) : Database[k].id = id
OnlyDeleteRemoves ==
    [][\A id \in 1 .. MAX_STD_ID :
          (Stored(id) /\ ~Stored(id)')
              => \E p \in Procs :
                    \/ DelWrite(p) /\ proc[p].argv.id = id
                    \/ ZeroReopen(p)]_vars

\* A student that appears in the database was added by -a with that id: a
\* compression never brings a deleted student back, not even after one that
\* failed or crashed and left its temporary file behind.  (With several
\* processes, only if none compresses: one could delete while one copies.)
OnlyAddStores ==
    [][\A id \in 1 .. MAX_STD_ID :
          (~Stored(id) /\ Stored(id)')
              => \E p \in Procs : AddWrite(p) /\ proc[p].argv.id = id]_vars

\* add_student() never replaces the record of a student it finds stored: two
\* processes that add the same id do not both report that they added it.
AddNeverOverwrites ==
    [][\A p \in Procs :
          (AddWrite(p) /\ proc'[p].exit_code = EXIT_OK)
              => get_student(disk[proc[p].fd], proc[p].argv.id, FALSE)
                    # NO_ERROR]_vars

\* Every program that is started exits, unless it is killed first (which
\* ends it too): no scan of a file another process extends runs for ever.
Terminates == \A p \in Procs : ~At(p, "idle") ~> At(p, "idle")
=============================================================================
