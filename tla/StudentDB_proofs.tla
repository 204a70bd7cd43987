-------------------------- MODULE StudentDB_proofs --------------------------
(***************************************************************************)
(* Proofs about StudentDB, for any number of processes, any set of command *)
(* lines, any size of the database, with or without I/O faults; what needs *)
(* one process, or that no read() fails, assumes Solo.  Then that, one     *)
(* process at a time, it implements StudentStore under the mapping of      *)
(* StudentDBMap, for any number of students, any ids and gpas that are     *)
(* typed, and with processes that are killed.                              *)
(***************************************************************************)
EXTENDS StudentDBMap, Recursion, FiniteSetTheorems

LEMMA SlotInRange ==
    ASSUME NEW id \in 0 .. MAX_STD_ID
    PROVE  Slot(id) = id
  <1>1. HALF \in Nat /\ MAX_STD_ID \in Nat /\ id < HALF
    BY RangeAssumption
  <1>2. (id + HALF) % (2 * HALF) = id + HALF
    BY <1>1, SMT
  <1> QED BY <1>1, <1>2 DEF Slot

LEMMA SlotInt ==
    ASSUME NEW id \in Int
    PROVE  Slot(id) \in Int
  <1>1. HALF \in Nat /\ HALF > 0
    BY RangeAssumption
  <1>2. (id + HALF) % (2 * HALF) \in Int
    BY <1>1, SMT
  <1> QED BY <1>1, <1>2 DEF Slot

LEMMA WriteType ==
    ASSUME NEW file \in File, Len(file) <= MAX_STD_ID + 1,
           NEW slot \in 0 .. MAX_STD_ID, NEW record \in student_t
    PROVE  /\ Write(file, slot, record) \in File
           /\ Len(Write(file, slot, record)) <= MAX_STD_ID + 1
           /\ \A k \in 1 .. Len(Write(file, slot, record)) :
                 \/ k = slot + 1 /\ Write(file, slot, record)[k] = record
                 \/ k <= Len(file) /\ Write(file, slot, record)[k] = file[k]
                 \/ Write(file, slot, record)[k] = EMPTY_STUDENT_RECORD
  <1> DEFINE n == IF slot < Len(file) THEN Len(file) ELSE slot + 1
  <1>1. Len(file) \in Nat /\ n \in Nat /\ n <= MAX_STD_ID + 1
    BY RangeAssumption DEF File
  <1>2. EMPTY_STUDENT_RECORD \in student_t
    BY RangeAssumption DEF EMPTY_STUDENT_RECORD, student_t
  <1>3. \A k \in 1 .. n : k <= Len(file) => file[k] \in student_t
    BY <1>1 DEF File
  <1> DEFINE e(k) == IF k = slot + 1 THEN record
                     ELSE IF k <= Len(file) THEN file[k]
                     ELSE EMPTY_STUDENT_RECORD
  <1>4. \A k \in 1 .. n : e(k) \in student_t
    BY <1>2, <1>3
  <1>5. Write(file, slot, record) = [k \in 1 .. n |-> e(k)]
    BY DEF Write
  <1> HIDE DEF n, e
  <1>6. [k \in 1 .. n |-> e(k)] \in Seq(student_t)
    BY <1>1, <1>4
  <1>7. Len([k \in 1 .. n |-> e(k)]) = n
    BY <1>1
  <1>8. \A k \in 1 .. n : [j \in 1 .. n |-> e(j)][k] = e(k)
    OBVIOUS
  <1>9. \A k \in 1 .. n : \/ k = slot + 1 /\ e(k) = record
                          \/ k <= Len(file) /\ e(k) = file[k]
                          \/ e(k) = EMPTY_STUDENT_RECORD
    BY DEF e
  <1> QED BY <1>1, <1>5, <1>6, <1>7, <1>8, <1>9 DEF File
----------------------------------------------------------------------------
(* Type correctness.  TypeOK is not inductive: that a step writes inside   *)
(* the file's bounds depends on what the process established before.       *)

UsesFd == {"add_get", "add_write", "del_get", "del_write", "find", "count",
           "print", "x_open", "x_read", "x_write"}

\* What a process at a label knows about its own variables.
LocalOK(s) ==
    /\ s.pc \in UsesFd => s.fd \in Inodes
    /\ s.pc \in {"x_read", "x_write"} => s.tmp_fd \in Inodes
    /\ s.tmp_off <= s.off
    /\ s.count <= s.off
    /\ s.pc = "x_write" => s.tmp_off < s.off
    /\ s.pc \in {"add_get", "add_write"} =>
            s.argv.id \in 1 .. MAX_STD_ID /\ s.argv.gpa \in 0 .. MAX_STD_GPA
    /\ s.pc = "del_write" => Slot(s.argv.id) \in 0 .. MAX_STD_ID

DiskOK == disk \in [Inodes -> {f \in File : Len(f) <= MAX_STD_ID + 1}]
DirOK  == dir \in [Names -> Inodes \cup {NULL}]
ProcOK == proc \in [Procs -> {s \in ProcState : LocalOK(s)}]

TypeInv == DiskOK /\ DirOK /\ ProcOK

LEMMA OpenType ==
    ASSUME DiskOK, DirOK, NEW name \in Names, NEW fd \in OpenResults(name),
           NEW trunc \in BOOLEAN, open_db(name, trunc, fd)
    PROVE  /\ fd \in Inodes \cup {NULL}
           /\ fd # NULL => \/ fd = dir[name]
                           \/ dir[name] = NULL /\ fd \in Unused
           /\ DiskOK' /\ DirOK'
  <1>1. Unused \subseteq Inodes
    BY DEF Unused
  <1>2. Unused # {} => (CHOOSE i \in Unused : TRUE) \in Unused
    OBVIOUS
  <1>3. /\ fd \in Inodes \cup {NULL}
        /\ fd # NULL => \/ fd = dir[name]
                        \/ dir[name] = NULL /\ fd \in Unused
    BY <1>1, <1>2 DEF OpenResults, DirOK
  <1>4. DirOK'
    BY <1>3 DEF open_db, DirOK
  <1>5. <<>> \in File /\ Len(<<>>) = 0
    BY DEF File
  <1>6. DiskOK'
    BY <1>3, <1>5, RangeAssumption DEF open_db, DiskOK
  <1> QED BY <1>3, <1>4, <1>6

LEMMA TypeInvInit == Init => TypeInv
  <1> SUFFICES ASSUME Init PROVE TypeInv
    OBVIOUS
  <1>1. DiskOK
    BY RangeAssumption DEF Init, DiskOK, File
  <1>2. DirOK
    BY DEF Init, DirOK
  <1>3. Idle \in ProcState /\ LocalOK(Idle)
    BY RangeAssumption, ArgvAssumption
    DEF Idle, ProcState, LocalOK, Pcs, CompressPcs, UsesFd, NoArgv, student_t,
        EMPTY_STUDENT_RECORD, EXIT_OK
  <1>4. ProcOK
    BY <1>3 DEF Init, ProcOK
  <1> QED BY <1>1, <1>2, <1>4 DEF TypeInv

LEMMA FinishType ==
    ASSUME ProcOK, NEW p \in Procs,
           NEW code \in {EXIT_OK, EXIT_FAIL_DB, EXIT_FAIL_ARGS},
           Finish(p, code)
    PROVE  ProcOK'
  <1> DEFINE s == [proc[p] EXCEPT !.pc = "done", !.exit_code = code]
  <1>1. proc[p] \in ProcState /\ LocalOK(proc[p])
    BY DEF ProcOK
  <1>2. s \in ProcState
    BY <1>1 DEF ProcState, Pcs
  <1>3. LocalOK(s)
    BY <1>1 DEF ProcState, LocalOK, UsesFd
  <1>4. proc' = [proc EXCEPT ![p] = s]
    BY DEF Finish, ProcOK, ProcState
  <1> HIDE DEF s
  <1> QED BY <1>2, <1>3, <1>4 DEF ProcOK

LEMMA GotoType ==
    ASSUME ProcOK, NEW p \in Procs, NEW label \in Pcs, Goto(p, label),
           LocalOK([proc[p] EXCEPT !.pc = label])
    PROVE  ProcOK'
  <1> DEFINE s == [proc[p] EXCEPT !.pc = label]
  <1>1. proc[p] \in ProcState
    BY DEF ProcOK
  <1>2. s \in ProcState
    BY <1>1 DEF ProcState
  <1>3. proc' = [proc EXCEPT ![p] = s]
    BY DEF Goto, ProcOK, ProcState
  <1> HIDE DEF s
  <1> QED BY <1>2, <1>3 DEF ProcOK, s

\* The reads of one record: the offset stays within the longest file.
LEMMA ReadOneType ==
    ASSUME DiskOK, NEW fd \in Inodes, NEW off \in 0 .. MAX_STD_ID + 1,
           NEW fault \in BOOLEAN, ReadOne(disk[fd], off, fault)
    PROVE  off + 1 \in 1 .. MAX_STD_ID + 1 /\ disk[fd][off + 1] \in student_t
  <1>1. disk[fd] \in Seq(student_t) /\ Len(disk[fd]) <= MAX_STD_ID + 1
    BY DEF DiskOK, File
  <1>2. Len(disk[fd]) \in Nat /\ off < Len(disk[fd])
    BY <1>1 DEF ReadOne
  <1> QED BY <1>1, <1>2, RangeAssumption

LEMMA GetStudentFound ==
    ASSUME DiskOK, NEW fd \in Inodes, NEW id \in Int, NEW fault \in BOOLEAN,
           get_student(disk[fd], id, fault) = NO_ERROR
    PROVE  Slot(id) \in 0 .. MAX_STD_ID /\ disk[fd][Slot(id) + 1] \in student_t
  <1>1. disk[fd] \in Seq(student_t) /\ Len(disk[fd]) <= MAX_STD_ID + 1
    BY DEF DiskOK, File
  <1>2. Slot(id) \in Int /\ Len(disk[fd]) \in Nat
    BY <1>1, SlotInt
  <1>3. ~(Slot(id) < 0) /\ ~(Slot(id) >= Len(disk[fd]))
    BY DEF get_student, NO_ERROR, ERR_DB_FILE, SRCH_NOT_FOUND
  <1> QED BY <1>1, <1>2, <1>3, RangeAssumption

LEMMA FaultType == \A c : Fault(c) \subseteq BOOLEAN
  BY DEF Fault

LEMMA ArgvType ==
    ASSUME ProcOK, NEW p \in Procs
    PROVE  /\ proc[p] \in ProcState /\ LocalOK(proc[p])
           /\ proc[p].argv.id \in Int /\ proc[p].argv.gpa \in Int
  <1>1. proc[p] \in ProcState /\ LocalOK(proc[p])
    BY DEF ProcOK
  <1>2. proc[p].argv \in Argv \/ proc[p].argv = NoArgv
    BY <1>1 DEF ProcState
  <1>3. NoArgv.id \in Int /\ NoArgv.gpa \in Int
    BY DEF NoArgv
  <1>4. \A argv \in Argv : argv.id \in Int /\ argv.gpa \in Int
    <2>2. TAKE argv \in Argv
    <2>3. CASE argv \in [opt : Opts \cap {"a"}, id : IdArgs, gpa : GpaArgs]
      BY <2>3, ArgvAssumption
    <2>4. CASE argv \in [opt : Opts \cap {"d", "f"}, id : IdArgs, gpa : {0}]
      <3>1. argv.id \in Int
        BY <2>4, ArgvAssumption
      <3>2. argv.gpa \in {0}
        BY <2>4
      <3> QED BY <3>1, <3>2
    <2>5. CASE argv \in [opt : Opts \ {"a", "d", "f"}, id : {0}, gpa : {0}]
      BY <2>5
    <2> QED BY <2>2, <2>3, <2>4, <2>5 DEF Argv
  <1> QED BY <1>1, <1>2, <1>3, <1>4

LEMMA StartType ==
    ASSUME TypeInv, NEW p \in Procs, Start(p)
    PROVE  TypeInv'
  <1>1. PICK argv \in Argv :
            proc' = [proc EXCEPT ![p].pc = "main", ![p].argv = argv]
    BY DEF Start
  <1> DEFINE s == [proc[p] EXCEPT !.pc = "main", !.argv = argv]
  <1>2. proc[p] \in ProcState /\ LocalOK(proc[p])
    BY DEF TypeInv, ProcOK
  <1>3. s \in ProcState /\ LocalOK(s)
    BY <1>2 DEF ProcState, Pcs, LocalOK, UsesFd
  <1>4. ProcOK'
    BY <1>1, <1>3 DEF TypeInv, ProcOK, ProcState
  <1> QED BY <1>4 DEF TypeInv, Start, DiskOK, DirOK

LEMMA MainType ==
    ASSUME TypeInv, NEW p \in Procs, MainUsage(p) \/ MainOpen(p)
    PROVE  TypeInv'
  <1>1. CASE MainUsage(p)
    <2>1. ProcOK'
      BY <1>1, FinishType DEF TypeInv, MainUsage
    <2> QED BY <1>1, <2>1 DEF TypeInv, MainUsage, DiskOK, DirOK
  <1>2. CASE MainOpen(p)
    <2>1. PICK fd \in OpenResults(DB_FILE) : MainOpen(p)!3!(fd)
      BY <1>2 DEF MainOpen
    <2>2. /\ fd \in Inodes \cup {NULL} /\ DiskOK' /\ DirOK'
      BY <2>1, OpenType DEF TypeInv, Names
    <2>3. CASE fd = NULL
      BY <2>1, <2>2, <2>3, FinishType DEF TypeInv
    <2>4. CASE fd # NULL
      <3> DEFINE entry == Entry(proc[p].argv)
                 code == IF entry = "done" THEN EXIT_FAIL_ARGS ELSE EXIT_OK
                 s == [proc[p] EXCEPT !.pc = entry, !.fd = fd,
                                      !.exit_code = code]
      <3>1. /\ proc[p] \in ProcState /\ LocalOK(proc[p])
            /\ proc[p].argv.id \in Int /\ proc[p].argv.gpa \in Int
        BY ArgvType DEF TypeInv
      <3>2. entry \in {"add_get", "count", "del_get", "find", "print",
                       "x_open", "zero", "done"}
        BY DEF Entry
      <3>3. entry = "add_get" => /\ proc[p].argv.id \in 1 .. MAX_STD_ID
                                 /\ proc[p].argv.gpa \in 0 .. MAX_STD_GPA
        BY <3>1, RangeAssumption
        DEF Entry, validate_range, NO_ERROR, EXIT_FAIL_ARGS, MIN_STD_ID,
            MIN_STD_GPA
      <3>4. proc' = [proc EXCEPT ![p].pc = entry, ![p].fd = fd,
                        ![p].exit_code = code]
        BY <2>1, <2>4
      <3>8. code \in {EXIT_OK, EXIT_FAIL_DB, EXIT_FAIL_ARGS}
        OBVIOUS
      <3> HIDE DEF entry, code
      <3>5. s \in ProcState
        BY <2>2, <3>1, <3>2, <3>8 DEF ProcState, Pcs, CompressPcs
      <3>6. LocalOK(s)
        BY <2>2, <2>4, <3>1, <3>2, <3>3 DEF LocalOK, ProcState, UsesFd
      <3>7. ProcOK'
        BY <3>4, <3>5, <3>6 DEF TypeInv, ProcOK, ProcState
      <3> QED BY <2>2, <3>7 DEF TypeInv
    <2> QED BY <2>3, <2>4
  <1> QED BY <1>1, <1>2

\* Freeing an inode empties it, whether the process exits or is killed.
LEMMA LeaveType ==
    ASSUME TypeInv, NEW p \in Procs, Leave(p)
    PROVE  TypeInv'
  <1>1. Idle \in ProcState /\ LocalOK(Idle)
    BY RangeAssumption, ArgvAssumption
    DEF Idle, ProcState, LocalOK, Pcs, CompressPcs, UsesFd, NoArgv, student_t,
        EMPTY_STUDENT_RECORD, EXIT_OK
  <1>2. ProcOK'
    BY <1>1 DEF Leave, TypeInv, ProcOK
  <1>3. <<>> \in File /\ Len(<<>>) = 0
    BY DEF File
  <1>4. DiskOK'
    BY <1>3, RangeAssumption DEF Leave, TypeInv, DiskOK
  <1> QED BY <1>2, <1>4 DEF Leave, TypeInv, DirOK

\* The two writes of the database file itself.
LEMMA AddType ==
    ASSUME TypeInv, NEW p \in Procs, AddGet(p) \/ AddWrite(p)
    PROVE  TypeInv'
  <1>1. /\ proc[p] \in ProcState /\ LocalOK(proc[p])
        /\ proc[p].argv.id \in Int
    BY ArgvType DEF TypeInv
  <1>2. CASE AddGet(p)
    <2>1. LocalOK([proc[p] EXCEPT !.pc = "add_write"])
      BY <1>1, <1>2 DEF AddGet, At, LocalOK, UsesFd, ProcState
    <2>2. Finish(p, EXIT_FAIL_DB) \/ Goto(p, "add_write")
      BY <1>2 DEF AddGet
    <2>3. ProcOK'
      BY <2>1, <2>2, FinishType, GotoType DEF TypeInv, Pcs
    <2> QED BY <1>2, <2>3 DEF AddGet, TypeInv, DiskOK, DirOK
  <1>3. CASE AddWrite(p)
    <2> DEFINE argv == proc[p].argv
               new  == [id |-> argv.id, gpa |-> argv.gpa]
               fd   == proc[p].fd
    <2>1. /\ fd \in Inodes
          /\ argv.id \in 1 .. MAX_STD_ID /\ argv.gpa \in 0 .. MAX_STD_GPA
      BY <1>1, <1>3 DEF AddWrite, At, LocalOK, UsesFd
    <2>2. Slot(argv.id) \in 0 .. MAX_STD_ID
      BY <2>1, SlotInRange
    <2>3. new \in student_t
      BY <2>1 DEF student_t
    <2>4. /\ disk[fd] \in File /\ Len(disk[fd]) <= MAX_STD_ID + 1
      BY <2>1 DEF TypeInv, DiskOK
    <2>5. /\ Write(disk[fd], Slot(argv.id), new) \in File
          /\ Len(Write(disk[fd], Slot(argv.id), new)) <= MAX_STD_ID + 1
      BY <2>2, <2>3, <2>4, WriteType
    <2>6. \/ UNCHANGED disk
          \/ disk' = [disk EXCEPT ![fd] = Write(@, Slot(argv.id), new)]
      BY <1>3 DEF AddWrite
    <2> HIDE DEF new
    <2>7. DiskOK'
      BY <2>5, <2>6 DEF TypeInv, DiskOK
    <2>8. ProcOK'
      BY <1>3, FinishType DEF AddWrite, TypeInv
    <2> QED BY <1>3, <2>7, <2>8 DEF AddWrite, TypeInv, DirOK
  <1> QED BY <1>2, <1>3

LEMMA DelType ==
    ASSUME TypeInv, NEW p \in Procs, DelGet(p) \/ DelWrite(p)
    PROVE  TypeInv'
  <1>1. /\ proc[p] \in ProcState /\ LocalOK(proc[p])
        /\ proc[p].argv.id \in Int
    BY ArgvType DEF TypeInv
  <1>2. CASE DelGet(p)
    <2> DEFINE id == proc[p].argv.id
    <2>1. PICK fault \in Fault("read") :
             IF get_student(disk[proc[p].fd], id, fault) # NO_ERROR
             THEN Finish(p, EXIT_FAIL_DB) ELSE Goto(p, "del_write")
      BY <1>2 DEF DelGet
    <2>2. proc[p].fd \in Inodes /\ fault \in BOOLEAN
      BY <1>1, <1>2, FaultType DEF DelGet, At, LocalOK, UsesFd
    <2>3. CASE get_student(disk[proc[p].fd], id, fault) # NO_ERROR
      BY <1>2, <2>1, <2>3, FinishType DEF DelGet, TypeInv, DiskOK, DirOK
    <2>4. CASE get_student(disk[proc[p].fd], id, fault) = NO_ERROR
      <3>1. Slot(id) \in 0 .. MAX_STD_ID
        BY <1>1, <2>2, <2>4, GetStudentFound DEF TypeInv
      <3>2. LocalOK([proc[p] EXCEPT !.pc = "del_write"])
        BY <1>1, <2>2, <3>1 DEF LocalOK, UsesFd, ProcState
      <3>3. ProcOK'
        BY <2>1, <2>4, <3>2, GotoType DEF TypeInv, Pcs
      <3> QED BY <1>2, <3>3 DEF DelGet, TypeInv, DiskOK, DirOK
    <2> QED BY <2>3, <2>4
  <1>3. CASE DelWrite(p)
    <2> DEFINE slot == Slot(proc[p].argv.id)
               fd   == proc[p].fd
    <2>1. fd \in Inodes /\ slot \in 0 .. MAX_STD_ID
      BY <1>1, <1>3 DEF DelWrite, At, LocalOK, UsesFd
    <2>2. EMPTY_STUDENT_RECORD \in student_t
      BY RangeAssumption DEF EMPTY_STUDENT_RECORD, student_t
    <2>3. /\ disk[fd] \in File /\ Len(disk[fd]) <= MAX_STD_ID + 1
      BY <2>1 DEF TypeInv, DiskOK
    <2>4. /\ Write(disk[fd], slot, EMPTY_STUDENT_RECORD) \in File
          /\ Len(Write(disk[fd], slot, EMPTY_STUDENT_RECORD)) <= MAX_STD_ID + 1
      BY <2>1, <2>2, <2>3, WriteType
    <2>5. \/ UNCHANGED disk
          \/ disk' = [disk EXCEPT ![fd] = Write(@, slot, EMPTY_STUDENT_RECORD)]
      BY <1>3 DEF DelWrite
    <2>6. DiskOK'
      BY <2>4, <2>5 DEF TypeInv, DiskOK
    <2>7. ProcOK'
      BY <1>3, FinishType DEF DelWrite, TypeInv
    <2> QED BY <1>3, <2>6, <2>7 DEF DelWrite, TypeInv, DirOK
  <1> QED BY <1>2, <1>3

\* The three commands that only read.
LEMMA FindType ==
    ASSUME TypeInv, NEW p \in Procs, Find(p)
    PROVE  TypeInv'
  <1> DEFINE id == proc[p].argv.id
             file == disk[proc[p].fd]
             s == [proc[p] EXCEPT !.pc = "done", !.seen = {file[Slot(id) + 1]}]
  <1>1. /\ proc[p] \in ProcState /\ LocalOK(proc[p]) /\ id \in Int
    BY ArgvType DEF TypeInv
  <1>2. PICK fault \in Fault("read") :
           IF get_student(file, id, fault) = NO_ERROR
           THEN proc' = [proc EXCEPT ![p].pc = "done",
                                     ![p].seen = {file[Slot(id) + 1]}]
           ELSE Finish(p, EXIT_FAIL_DB)
    BY DEF Find
  <1>3. proc[p].fd \in Inodes /\ fault \in BOOLEAN
    BY <1>1, FaultType DEF Find, At, LocalOK, UsesFd
  <1>4. CASE get_student(file, id, fault) = NO_ERROR
    <2>1. file[Slot(id) + 1] \in student_t
      BY <1>1, <1>3, <1>4, GetStudentFound DEF TypeInv
    <2> DEFINE r == file[Slot(id) + 1]
    <2>2. proc' = [proc EXCEPT ![p].pc = "done", ![p].seen = {r}]
      BY <1>2, <1>4
    <2> HIDE DEF r
    <2>3. [proc[p] EXCEPT !.pc = "done", !.seen = {r}] \in ProcState
      BY <1>1, <2>1 DEF ProcState, Pcs, r
    <2>4. LocalOK([proc[p] EXCEPT !.pc = "done", !.seen = {r}])
      BY <1>1 DEF LocalOK, UsesFd, ProcState
    <2>5. ProcOK'
      BY <2>2, <2>3, <2>4 DEF TypeInv, ProcOK, ProcState
    <2> QED BY <2>5 DEF Find, TypeInv, DiskOK, DirOK
  <1>5. CASE get_student(file, id, fault) # NO_ERROR
    BY <1>2, <1>5, FinishType DEF Find, TypeInv, DiskOK, DirOK
  <1> QED BY <1>4, <1>5

LEMMA ScanType ==
    ASSUME TypeInv, NEW p \in Procs, CountRead(p) \/ PrintRead(p)
    PROVE  TypeInv'
  <1> DEFINE file == disk[proc[p].fd]
             off  == proc[p].off
             r    == file[off + 1]
  <1>1. proc[p] \in ProcState /\ LocalOK(proc[p])
    BY ArgvType DEF TypeInv
  <1>2. proc[p].fd \in Inodes /\ off \in 0 .. MAX_STD_ID + 1
    BY <1>1 DEF CountRead, PrintRead, At, LocalOK, UsesFd, ProcState
  <1>3. CASE CountRead(p)
    <2>1. PICK fault \in Fault("read") :
             IF ReadOne(file, off, fault)
             THEN proc' = [proc EXCEPT
                    ![p].off = off + 1,
                    ![p].count = IF r # EMPTY_STUDENT_RECORD
                                 THEN @ + 1 ELSE @]
             ELSE Finish(p, EXIT_OK)
      BY <1>3 DEF CountRead, Advance, IsStudent
    <2>2. fault \in BOOLEAN
      BY FaultType
    <2>3. CASE ReadOne(file, off, fault)
      <3> DEFINE c == IF r # EMPTY_STUDENT_RECORD
                      THEN proc[p].count + 1 ELSE proc[p].count
                 o == off + 1
                 s == [proc[p] EXCEPT !.off = o, !.count = c]
      <3>1. off + 1 \in 1 .. MAX_STD_ID + 1
        BY <1>2, <2>2, <2>3, ReadOneType DEF TypeInv
      <3>2. proc[p].count \in Nat /\ proc[p].count <= off
        BY <1>1 DEF LocalOK, ProcState
      <3>3. c \in 0 .. MAX_STD_ID + 1 /\ c <= off + 1
        BY <3>1, <3>2, <1>2, RangeAssumption
      <3>4. proc' = [proc EXCEPT ![p].off = o, ![p].count = c]
        BY <2>1, <2>3 DEF TypeInv, ProcOK
      <3>8. o \in 0 .. MAX_STD_ID + 1 /\ o = off + 1
        BY <3>1, RangeAssumption
      <3> HIDE DEF c, o
      <3>5. s \in ProcState
        BY <1>1, <3>3, <3>8 DEF ProcState
      <3>6. LocalOK(s)
        BY <1>1, <1>2, <1>3, <3>3, <3>8 DEF LocalOK, UsesFd, ProcState, CountRead, At
      <3>7. ProcOK'
        BY <3>4, <3>5, <3>6 DEF TypeInv, ProcOK, ProcState
      <3> QED BY <1>3, <3>7 DEF CountRead, TypeInv, DiskOK, DirOK
    <2>4. CASE ~ReadOne(file, off, fault)
      BY <1>3, <2>1, <2>4, FinishType DEF CountRead, TypeInv, DiskOK, DirOK
    <2> QED BY <2>3, <2>4
  <1>4. CASE PrintRead(p)
    <2>1. PICK fault \in Fault("read") :
             IF ReadOne(file, off, fault)
             THEN proc' = [proc EXCEPT
                    ![p].off = off + 1,
                    ![p].seen = @ \cup {x \in {r} : IsStudent(x)}]
             ELSE Finish(p, EXIT_OK)
      BY <1>4 DEF PrintRead, Advance
    <2>2. fault \in BOOLEAN
      BY FaultType
    <2>3. CASE ReadOne(file, off, fault)
      <3> DEFINE c == proc[p].seen \cup {x \in {r} : IsStudent(x)}
                 o == off + 1
                 s == [proc[p] EXCEPT !.off = o, !.seen = c]
      <3>1. off + 1 \in 1 .. MAX_STD_ID + 1 /\ r \in student_t
        BY <1>2, <2>2, <2>3, ReadOneType DEF TypeInv
      <3>2. proc[p].seen \in SUBSET student_t
        BY <1>1 DEF ProcState
      <3>3. c \in SUBSET student_t
        BY <3>1, <3>2
      <3>4. proc' = [proc EXCEPT ![p].off = o, ![p].seen = c]
        BY <2>1, <2>3 DEF TypeInv, ProcOK
      <3>8. o \in 0 .. MAX_STD_ID + 1 /\ o = off + 1
        BY <3>1, RangeAssumption
      <3> HIDE DEF c, o
      <3>5. s \in ProcState
        BY <1>1, <3>3, <3>8 DEF ProcState
      <3>6. LocalOK(s)
        BY <1>1, <1>2, <1>4, <3>8 DEF LocalOK, UsesFd, ProcState, PrintRead, At
      <3>7. ProcOK'
        BY <3>4, <3>5, <3>6 DEF TypeInv, ProcOK, ProcState
      <3> QED BY <1>4, <3>7 DEF PrintRead, TypeInv, DiskOK, DirOK
    <2>4. CASE ~ReadOne(file, off, fault)
      BY <1>4, <2>1, <2>4, FinishType DEF PrintRead, TypeInv, DiskOK, DirOK
    <2> QED BY <2>3, <2>4
  <1> QED BY <1>3, <1>4

\* The two operations that end by opening the database again.
LEMMA ReopenType ==
    ASSUME TypeInv, NEW p \in Procs, ZeroReopen(p) \/ CompressReopen(p)
    PROVE  TypeInv'
  <1>1. PICK fd \in OpenResults(DB_FILE) :
           /\ open_db(DB_FILE, TRUE, fd) \/ open_db(DB_FILE, FALSE, fd)
           /\ proc' = [proc EXCEPT ![p].pc = "done", ![p].fd = fd,
                ![p].exit_code = IF fd = NULL THEN EXIT_FAIL_DB ELSE EXIT_OK]
    BY DEF ZeroReopen, CompressReopen
  <1>2. fd \in Inodes \cup {NULL} /\ DiskOK' /\ DirOK'
    BY <1>1, OpenType DEF TypeInv, Names
  <1> DEFINE code == IF fd = NULL THEN EXIT_FAIL_DB ELSE EXIT_OK
             s == [proc[p] EXCEPT !.pc = "done", !.fd = fd,
                                  !.exit_code = code]
  <1>3. proc[p] \in ProcState /\ LocalOK(proc[p])
    BY ArgvType DEF TypeInv
  <1>4. code \in {EXIT_OK, EXIT_FAIL_DB, EXIT_FAIL_ARGS}
    OBVIOUS
  <1>5. proc' = [proc EXCEPT ![p].pc = "done", ![p].fd = fd,
                             ![p].exit_code = code]
    BY <1>1
  <1> HIDE DEF code
  <1>6. s \in ProcState /\ LocalOK(s)
    BY <1>2, <1>3, <1>4 DEF ProcState, Pcs, LocalOK, UsesFd
  <1>7. ProcOK'
    BY <1>5, <1>6 DEF TypeInv, ProcOK, ProcState
  <1> QED BY <1>2, <1>7 DEF TypeInv

\* compress_db(): what is written to the temporary file is never longer than
\* what was read from the database.
LEMMA CompressOpenType ==
    ASSUME TypeInv, NEW p \in Procs, CompressOpen(p)
    PROVE  TypeInv'
  <1>1. PICK fd \in OpenResults(TMP_DB_FILE) : CompressOpen(p)!2!(fd)
    BY DEF CompressOpen
  <1>2. fd \in Inodes \cup {NULL} /\ DiskOK' /\ DirOK'
    BY <1>1, OpenType DEF TypeInv, Names
  <1>3. proc[p] \in ProcState /\ LocalOK(proc[p]) /\ proc[p].pc = "x_open"
    BY ArgvType DEF TypeInv, CompressOpen, At
  <1>4. CASE fd = NULL
    BY <1>1, <1>2, <1>4, FinishType DEF TypeInv
  <1>5. CASE fd # NULL
    <2> DEFINE s == [proc[p] EXCEPT !.pc = "x_read", !.tmp_fd = fd]
    <2>1. s \in ProcState /\ LocalOK(s)
      BY <1>2, <1>3, <1>5 DEF ProcState, Pcs, CompressPcs, LocalOK, UsesFd
    <2>2. ProcOK'
      BY <1>1, <1>5, <2>1 DEF TypeInv, ProcOK, ProcState
    <2> QED BY <1>2, <2>2 DEF TypeInv
  <1> QED BY <1>4, <1>5

LEMMA CompressReadType ==
    ASSUME TypeInv, NEW p \in Procs, CompressRead(p)
    PROVE  TypeInv'
  <1> DEFINE file == disk[proc[p].fd]
             off  == proc[p].off
             r    == file[off + 1]
  <1>1. proc[p] \in ProcState /\ LocalOK(proc[p]) /\ proc[p].pc = "x_read"
    BY ArgvType DEF TypeInv, CompressRead, At
  <1>2. /\ proc[p].fd \in Inodes /\ proc[p].tmp_fd \in Inodes
        /\ off \in 0 .. MAX_STD_ID + 1
    BY <1>1 DEF LocalOK, UsesFd, ProcState
  <1>3. PICK fault \in Fault("read") :
           IF ~ReadOne(file, off, fault)
           THEN Goto(p, "x_rename")
           ELSE proc' = [proc EXCEPT
                  ![p].off = off + 1, ![p].record = r,
                  ![p].pc = IF r # EMPTY_STUDENT_RECORD
                            THEN "x_write" ELSE "x_read"]
    BY DEF CompressRead, Advance, IsStudent
  <1>4. CASE ~ReadOne(file, off, fault)
    <2>1. LocalOK([proc[p] EXCEPT !.pc = "x_rename"])
      BY <1>1 DEF LocalOK, UsesFd, ProcState
    <2>2. ProcOK'
      BY <1>3, <1>4, <2>1, GotoType DEF TypeInv, Pcs, CompressPcs
    <2> QED BY <2>2 DEF CompressRead, TypeInv, DiskOK, DirOK
  <1>5. CASE ReadOne(file, off, fault)
    <2> DEFINE o == off + 1
               label == IF r # EMPTY_STUDENT_RECORD THEN "x_write" ELSE "x_read"
               s == [proc[p] EXCEPT !.off = o, !.record = r, !.pc = label]
    <2>1. off + 1 \in 1 .. MAX_STD_ID + 1 /\ r \in student_t
      BY <1>2, <1>5, FaultType, ReadOneType DEF TypeInv
    <2>2. o \in 0 .. MAX_STD_ID + 1 /\ o = off + 1
      BY <2>1, RangeAssumption
    <2>3. label \in {"x_write", "x_read"}
      OBVIOUS
    <2>4. proc' = [proc EXCEPT ![p].off = o, ![p].record = r, ![p].pc = label]
      BY <1>3, <1>5
    <2> HIDE DEF o, label, r
    <2>5. s \in ProcState
      BY <1>1, <2>1, <2>2, <2>3 DEF ProcState, Pcs, CompressPcs
    <2>6. LocalOK(s)
      BY <1>1, <1>2, <2>2, <2>3 DEF LocalOK, UsesFd, ProcState
    <2>7. ProcOK'
      BY <2>4, <2>5, <2>6 DEF TypeInv, ProcOK, ProcState
    <2> QED BY <2>7 DEF CompressRead, TypeInv, DiskOK, DirOK
  <1> QED BY <1>4, <1>5

LEMMA CompressWriteType ==
    ASSUME TypeInv, NEW p \in Procs, CompressWrite(p)
    PROVE  TypeInv'
  <1> DEFINE tmp  == proc[p].tmp_fd
             toff == proc[p].tmp_off
             new  == Write(disk[tmp], toff, proc[p].record)
  <1>1. proc[p] \in ProcState /\ LocalOK(proc[p]) /\ proc[p].pc = "x_write"
    BY ArgvType DEF TypeInv, CompressWrite, At
  <1>2. PICK fault \in Fault("write") :
           IF fault
           THEN /\ proc' = [proc EXCEPT ![p].pc = "done", ![p].tmp_fd = NULL,
                                        ![p].exit_code = EXIT_FAIL_DB]
                /\ UNCHANGED disk
           ELSE /\ disk' = [disk EXCEPT ![tmp] =
                              Write(@, toff, proc[p].record)]
                /\ proc' = [proc EXCEPT ![p].pc = "x_read",
                                        ![p].tmp_off = @ + 1]
    BY DEF CompressWrite
  <1>3. CASE fault
    <2> DEFINE s == [proc[p] EXCEPT !.pc = "done", !.tmp_fd = NULL,
                                    !.exit_code = EXIT_FAIL_DB]
    <2>1. s \in ProcState /\ LocalOK(s)
      BY <1>1 DEF ProcState, Pcs, CompressPcs, LocalOK, UsesFd
    <2>2. proc' = [proc EXCEPT ![p] = s]
      BY <1>2, <1>3 DEF TypeInv, ProcOK, ProcState
    <2>3. ProcOK'
      BY <2>1, <2>2 DEF TypeInv, ProcOK
    <2> QED BY <1>2, <1>3, <2>3 DEF CompressWrite, TypeInv, DiskOK, DirOK
  <1>4. CASE ~fault
    <2>1. /\ tmp \in Inodes /\ proc[p].fd \in Inodes
          /\ proc[p].record \in student_t
          /\ toff \in Nat /\ toff < proc[p].off
          /\ proc[p].off \in 0 .. MAX_STD_ID + 1
      BY <1>1 DEF LocalOK, UsesFd, ProcState
    <2>2. toff \in 0 .. MAX_STD_ID
      BY <2>1, RangeAssumption
    <2>3. /\ disk[tmp] \in File /\ Len(disk[tmp]) <= MAX_STD_ID + 1
      BY <2>1 DEF TypeInv, DiskOK
    <2>4. new \in File /\ Len(new) <= MAX_STD_ID + 1
      BY <2>1, <2>2, <2>3, WriteType
    <2>5. disk' = [disk EXCEPT ![tmp] = new]
      BY <1>2, <1>4
    <2> HIDE DEF new
    <2>6. DiskOK'
      BY <2>4, <2>5 DEF TypeInv, DiskOK
    <2> DEFINE o == toff + 1
               s == [proc[p] EXCEPT !.pc = "x_read", !.tmp_off = o]
    <2>7. proc' = [proc EXCEPT ![p].pc = "x_read", ![p].tmp_off = o]
      BY <1>2, <1>4 DEF TypeInv, ProcOK
    <2>8. o \in 0 .. MAX_STD_ID + 1 /\ o <= proc[p].off
      BY <2>1, <2>2, RangeAssumption
    <2> HIDE DEF o
    <2>9. s \in ProcState /\ LocalOK(s)
      BY <1>1, <2>1, <2>8 DEF ProcState, Pcs, CompressPcs, LocalOK, UsesFd
    <2>10. ProcOK'
      BY <2>7, <2>9 DEF TypeInv, ProcOK, ProcState
    <2> QED BY <2>6, <2>10 DEF CompressWrite, TypeInv, DirOK
  <1> QED BY <1>3, <1>4

LEMMA CompressRenameType ==
    ASSUME TypeInv, NEW p \in Procs, CompressRename(p)
    PROVE  TypeInv'
  <1>1. PICK fault \in Fault("rename") : CompressRename(p)!2!(fault)
    BY DEF CompressRename
  <1> DEFINE ok    == ~fault /\ dir[TMP_DB_FILE] # NULL
             label == IF ok THEN "x_reopen" ELSE "done"
             code  == IF ok THEN EXIT_OK ELSE EXIT_FAIL_DB
             s == [proc[p] EXCEPT !.fd = NULL, !.tmp_fd = NULL,
                                  !.pc = label, !.exit_code = code]
  <1>2. proc[p] \in ProcState /\ LocalOK(proc[p])
    BY ArgvType DEF TypeInv
  <1>3. proc' = [proc EXCEPT ![p].fd = NULL, ![p].tmp_fd = NULL,
                             ![p].pc = label, ![p].exit_code = code]
    BY <1>1
  <1>4. DirOK'
    BY <1>1 DEF TypeInv, DirOK, Names, renamed
  <1>5. /\ label \in {"x_reopen", "done"}
        /\ code \in {EXIT_OK, EXIT_FAIL_DB, EXIT_FAIL_ARGS}
    OBVIOUS
  <1> HIDE DEF label, code
  <1>6. s \in ProcState /\ LocalOK(s)
    BY <1>2, <1>5, ZenonT(40) DEF ProcState, Pcs, CompressPcs, LocalOK, UsesFd
  <1>7. ProcOK'
    BY <1>3, <1>6 DEF TypeInv, ProcOK, ProcState
  <1> QED BY <1>4, <1>7 DEF CompressRename, TypeInv, DiskOK

LEMMA TypeInvNext == TypeInv /\ [Next]_vars => TypeInv'
  <1> SUFFICES ASSUME TypeInv, [Next]_vars PROVE TypeInv'
    OBVIOUS
  <1>1. CASE UNCHANGED vars
    BY <1>1 DEF vars, TypeInv, DiskOK, DirOK, ProcOK
  <1>2. CASE Next
    <2>1. PICK p \in Procs : Start(p) \/ Run(p) \/ Crash(p)
      BY <1>2 DEF Next
    <2>2. CASE Start(p)
      BY <2>2, StartType
    <2>3. CASE Crash(p)
      BY <2>3, LeaveType DEF Crash
    <2>4. CASE Run(p)
      BY <2>4, MainType, AddType, DelType, FindType, ScanType, ReopenType,
         CompressOpenType, CompressReadType, CompressWriteType,
         CompressRenameType, LeaveType
      DEF Run, Compress, Exit
    <2> QED BY <2>1, <2>2, <2>3, <2>4
  <1> QED BY <1>1, <1>2

LEMMA TypeInvImpliesTypeOK == TypeInv => TypeOK
  BY DEF TypeInv, DiskOK, DirOK, ProcOK, TypeOK

LEMMA TypeInvariant == Spec => []TypeInv
  BY TypeInvInit, TypeInvNext, PTL DEF Spec

\* Whatever programs run together, fail and crash, the files hold only whole
\* records of students within the ranges of db.h, and never outgrow them.
THEOREM TypeCorrect == Spec => []TypeOK
  BY TypeInvariant, TypeInvImpliesTypeOK, PTL
----------------------------------------------------------------------------
(* compress_db() never copies a file onto itself.  The argument follows an  *)
(* inode's life: it is reachable first through the temporary name only, and *)
(* while it is, no process reads it as the database.                        *)

TmpNotDatabase ==
    dir[DB_FILE] # NULL => dir[DB_FILE] # dir[TMP_DB_FILE]

TmpNotRead ==
    dir[TMP_DB_FILE] # NULL => \A q \in Procs : proc[q].fd # dir[TMP_DB_FILE]

DistinctInv == TmpNotDatabase /\ TmpNotRead /\ FilesDistinct

Copying(s) == s.pc \in {"x_read", "x_write"}

\* Steps that open nothing.
LEMMA DistinctQuiet ==
    ASSUME DistinctInv, UNCHANGED dir,
           \A q \in Procs :
              /\ proc'[q].fd \in {proc[q].fd, NULL}
              /\ Copying(proc'[q]) => /\ Copying(proc[q])
                                      /\ proc'[q].fd = proc[q].fd
                                      /\ proc'[q].tmp_fd = proc[q].tmp_fd
    PROVE  DistinctInv'
  <1>1. TmpNotDatabase'
    BY DEF DistinctInv, TmpNotDatabase
  <1>2. TmpNotRead'
    BY DEF DistinctInv, TmpNotRead
  <1>3. FilesDistinct'
    BY DEF DistinctInv, FilesDistinct, Copying
  <1> QED BY <1>1, <1>2, <1>3 DEF DistinctInv

\* Steps that open the database.
LEMMA DistinctOpenDb ==
    ASSUME TypeInv, DistinctInv, NEW p \in Procs,
           NEW fd \in OpenResults(DB_FILE), NEW trunc \in BOOLEAN,
           open_db(DB_FILE, trunc, fd), fd # NULL,
           proc'[p].fd = fd, ~Copying(proc'[p]),
           \A q \in Procs \ {p} : proc'[q] = proc[q]
    PROVE  DistinctInv'
  <1>1. \/ fd = dir[DB_FILE]
        \/ dir[DB_FILE] = NULL /\ fd \in Unused
    BY OpenType DEF TypeInv, Names
  <1>2. dir' = [dir EXCEPT ![DB_FILE] = fd]
    BY DEF open_db
  <1>3. fd # dir[TMP_DB_FILE]
    BY <1>1 DEF DistinctInv, TmpNotDatabase, Unused, Linked, Names
  <1>4. dir'[DB_FILE] = fd /\ dir'[TMP_DB_FILE] = dir[TMP_DB_FILE]
    BY <1>2 DEF TypeInv, DirOK, Names, DB_FILE, TMP_DB_FILE
  <1>5. TmpNotDatabase'
    BY <1>3, <1>4 DEF TmpNotDatabase
  <1>6. TmpNotRead'
    BY <1>3, <1>4 DEF DistinctInv, TmpNotRead
  <1>7. FilesDistinct'
    BY DEF DistinctInv, FilesDistinct, Copying
  <1> QED BY <1>5, <1>6, <1>7 DEF DistinctInv

LEMMA DistinctOpenTmp ==
    ASSUME TypeInv, DistinctInv, NEW p \in Procs, CompressOpen(p)
    PROVE  DistinctInv'
  <1>1. PICK fd \in OpenResults(TMP_DB_FILE) : CompressOpen(p)!2!(fd)
    BY DEF CompressOpen
  <1>2. proc[p] \in ProcState /\ LocalOK(proc[p]) /\ proc[p].pc = "x_open"
    BY ArgvType DEF TypeInv, CompressOpen, At
  <1>3. CASE fd = NULL
    <2>1. UNCHANGED dir /\ Finish(p, EXIT_FAIL_DB)
      BY <1>1, <1>3 DEF open_db
    <2> QED BY <2>1, DistinctQuiet DEF Finish, TypeInv, ProcOK, ProcState, Copying
  <1>4. CASE fd # NULL
    <2>1. \/ fd = dir[TMP_DB_FILE]
          \/ dir[TMP_DB_FILE] = NULL /\ fd \in Unused
      BY <1>1, <1>4, OpenType DEF TypeInv, Names
    <2>2. dir'[TMP_DB_FILE] = fd /\ dir'[DB_FILE] = dir[DB_FILE]
      BY <1>1, <1>4 DEF open_db, TypeInv, DirOK, Names, DB_FILE, TMP_DB_FILE
    <2>3. \A q \in Procs : proc[q].fd # fd
      BY <1>4, <2>1 DEF DistinctInv, TmpNotRead, Unused, HeldBy
    <2>4. dir[DB_FILE] # NULL => dir[DB_FILE] # fd
      BY <1>4, <2>1 DEF DistinctInv, TmpNotDatabase, Unused, Linked, Names
    <2>5. proc' = [proc EXCEPT ![p].pc = "x_read", ![p].tmp_fd = fd]
      BY <1>1, <1>4
    <2>6. /\ \A q \in Procs : proc'[q].fd = proc[q].fd
          /\ proc'[p].tmp_fd = fd
          /\ \A q \in Procs \ {p} : proc'[q] = proc[q]
      BY <2>5 DEF TypeInv, ProcOK, ProcState
    <2>7. TmpNotDatabase'
      BY <2>2, <2>4 DEF TmpNotDatabase
    <2>8. TmpNotRead'
      BY <2>2, <2>3, <2>6 DEF TmpNotRead
    <2>9. FilesDistinct'
      BY <2>3, <2>6 DEF DistinctInv, FilesDistinct
    <2> QED BY <2>7, <2>8, <2>9 DEF DistinctInv
  <1> QED BY <1>3, <1>4

LEMMA DistinctRename ==
    ASSUME TypeInv, DistinctInv, NEW p \in Procs, CompressRename(p)
    PROVE  DistinctInv'
  <1>1. PICK fault \in Fault("rename") : CompressRename(p)!2!(fault)
    BY DEF CompressRename
  <1>2. /\ proc'[p].fd = NULL /\ ~Copying(proc'[p])
        /\ \A q \in Procs \ {p} : proc'[q] = proc[q]
    BY <1>1 DEF TypeInv, ProcOK, ProcState, Copying
  <1>3. CASE dir' = dir
    BY <1>2, <1>3, DistinctQuiet DEF Copying
  <1>4. CASE dir' # dir
    <2>1. dir'[TMP_DB_FILE] = NULL
      BY <1>1, <1>4 DEF TypeInv, DirOK, Names, DB_FILE, TMP_DB_FILE, renamed
    <2> QED BY <1>2, <2>1
            DEF DistinctInv, TmpNotDatabase, TmpNotRead, FilesDistinct, Copying
  <1> QED BY <1>3, <1>4

LEMMA DistinctMainOpen ==
    ASSUME TypeInv, DistinctInv, NEW p \in Procs, MainOpen(p)
    PROVE  DistinctInv'
  <1>1. PICK fd \in OpenResults(DB_FILE) : MainOpen(p)!3!(fd)
    BY DEF MainOpen
  <1>2. CASE fd = NULL
    <2>1. UNCHANGED dir /\ Finish(p, EXIT_FAIL_DB)
      BY <1>1, <1>2 DEF open_db
    <2> QED BY <2>1, DistinctQuiet DEF Finish, TypeInv, ProcOK, ProcState, Copying
  <1>3. CASE fd # NULL
    <2> DEFINE entry == Entry(proc[p].argv)
    <2>1. entry \notin {"x_read", "x_write"}
      BY DEF Entry
    <2>2. PICK code : proc' = [proc EXCEPT ![p].pc = entry, ![p].fd = fd,
                                           ![p].exit_code = code]
      BY <1>1, <1>3
    <2> HIDE DEF entry
    <2>3. /\ proc'[p].fd = fd /\ ~Copying(proc'[p])
          /\ \A q \in Procs \ {p} : proc'[q] = proc[q]
      BY <2>1, <2>2 DEF TypeInv, ProcOK, ProcState, Copying
    <2> QED BY <1>1, <1>3, <2>3, DistinctOpenDb
  <1> QED BY <1>2, <1>3

LEMMA DistinctReopen ==
    ASSUME TypeInv, DistinctInv, NEW p \in Procs,
           ZeroReopen(p) \/ CompressReopen(p)
    PROVE  DistinctInv'
  <1>1. PICK fd \in OpenResults(DB_FILE), trunc \in BOOLEAN,
             code \in {EXIT_OK, EXIT_FAIL_DB} :
           /\ open_db(DB_FILE, trunc, fd)
           /\ proc' = [proc EXCEPT ![p].pc = "done", ![p].fd = fd,
                                   ![p].exit_code = code]
    BY DEF ZeroReopen, CompressReopen
  <1>2. /\ proc'[p].fd = fd /\ ~Copying(proc'[p])
        /\ \A q \in Procs \ {p} : proc'[q] = proc[q]
    BY <1>1 DEF TypeInv, ProcOK, ProcState, Copying
  <1>3. CASE fd = NULL
    BY <1>1, <1>2, <1>3, DistinctQuiet DEF open_db, Copying
  <1>4. CASE fd # NULL
    BY <1>1, <1>2, <1>4, DistinctOpenDb
  <1> QED BY <1>3, <1>4

\* The other steps keep every descriptor, or close the process's own.
LEMMA DistinctOthers ==
    ASSUME TypeInv, DistinctInv, NEW p \in Procs,
           \/ Start(p) \/ MainUsage(p) \/ AddGet(p) \/ AddWrite(p)
           \/ DelGet(p) \/ DelWrite(p) \/ Find(p) \/ CountRead(p)
           \/ PrintRead(p) \/ CompressRead(p) \/ CompressWrite(p)
           \/ Exit(p) \/ Crash(p)
    PROVE  DistinctInv'
  <1>1. UNCHANGED dir
    BY DEF Start, MainUsage, AddGet, AddWrite, DelGet, DelWrite, Find,
           CountRead, PrintRead, CompressRead, CompressWrite, Exit, Crash, Leave
  <1>2. proc[p] \in ProcState /\ proc \in [Procs -> ProcState]
    BY DEF TypeInv, ProcOK
  <1> DEFINE Kept == /\ proc'[p].fd \in {proc[p].fd, NULL}
                     /\ Copying(proc'[p]) => /\ Copying(proc[p])
                                             /\ proc'[p].fd = proc[p].fd
                                             /\ proc'[p].tmp_fd = proc[p].tmp_fd
                     /\ \A q \in Procs \ {p} : proc'[q] = proc[q]
  <1>3. \A code : Finish(p, code) => Kept
    BY <1>2 DEF Finish, ProcState, Copying
  <1>4. \A label : Goto(p, label) /\ (label \in {"x_read", "x_write"} => Copying(proc[p])) => Kept
    BY <1>2 DEF Goto, ProcState, Copying
  <1>5. Kept
    <2>1. CASE Start(p)
      <3>1. PICK argv : proc' = [proc EXCEPT ![p].pc = "main", ![p].argv = argv]
        BY <2>1 DEF Start
      <3>2. /\ proc'[p].pc = "main" /\ proc'[p].fd = proc[p].fd
            /\ \A q \in Procs \ {p} : proc'[q] = proc[q]
        BY <1>2, <3>1 DEF ProcState
      <3> QED BY <3>2 DEF Copying
    <2>2. CASE MainUsage(p) \/ AddGet(p) \/ AddWrite(p) \/ DelGet(p) \/ DelWrite(p)
      BY <1>3, <1>4, <2>2 DEF MainUsage, AddGet, AddWrite, DelGet, DelWrite
    <2>3. CASE Find(p)
      BY <1>2, <1>3, <2>3 DEF Find, ProcState, Copying
    <2>4. CASE CountRead(p)
      BY <1>2, <1>3, <2>4 DEF CountRead, At, ProcState, Copying
    <2>5. CASE PrintRead(p)
      BY <1>2, <1>3, <2>5 DEF PrintRead, At, ProcState, Copying
    <2>6. CASE CompressRead(p)
      BY <1>2, <1>4, <2>6 DEF CompressRead, At, ProcState, Copying
    <2>7. CASE CompressWrite(p)
      BY <1>2, <1>3, <2>7 DEF CompressWrite, At, ProcState, Copying
    <2>8. CASE Exit(p) \/ Crash(p)
      BY <1>2, <2>8 DEF Exit, Crash, Leave, Idle, Copying
    <2> HIDE DEF Kept
    <2> QED BY <2>1, <2>2, <2>3, <2>4, <2>5, <2>6, <2>7, <2>8
  <1>6. \A q \in Procs :
              /\ proc'[q].fd \in {proc[q].fd, NULL}
              /\ Copying(proc'[q]) => /\ Copying(proc[q])
                                      /\ proc'[q].fd = proc[q].fd
                                      /\ proc'[q].tmp_fd = proc[q].tmp_fd
    BY <1>5
  <1> QED BY <1>1, <1>6, DistinctQuiet

\* The names and descriptors stay apart in every step.
LEMMA DistinctInvNext == TypeInv /\ DistinctInv /\ [Next]_vars => DistinctInv'
  <1> SUFFICES ASSUME TypeInv, DistinctInv, [Next]_vars PROVE DistinctInv'
    OBVIOUS
  <1>1. CASE UNCHANGED vars
    BY <1>1 DEF vars, DistinctInv, TmpNotDatabase, TmpNotRead, FilesDistinct
  <1>2. CASE Next
    BY <1>2, DistinctOthers, DistinctMainOpen, DistinctReopen,
       DistinctOpenTmp, DistinctRename
    DEF Next, Run, Compress
  <1> QED BY <1>1, <1>2

\* However many compressions run together, none reads the file it writes.
THEOREM NoSelfCopy == Spec => []FilesDistinct
  <1>1. Init => DistinctInv
    BY DEF Init, DistinctInv, TmpNotDatabase, TmpNotRead, FilesDistinct, Idle,
           Names
  <1>2. DistinctInv => FilesDistinct
    BY DEF DistinctInv
  <1> QED BY <1>1, <1>2, DistinctInvNext, TypeInvariant, PTL DEF Spec
----------------------------------------------------------------------------
(* Without -x, a record never leaves the slot its id names: in every file a *)
(* process may have open, not only in the one the name leads to.            *)

InPlace(file) == \A k \in 1 .. Len(file) :
                    file[k] # EMPTY_STUDENT_RECORD => file[k].id = k - 1

PlaceInv == /\ \A i \in Inodes : InPlace(disk[i])
            /\ \A p \in Procs : /\ proc[p].pc \notin CompressPcs
                                /\ proc[p].argv.opt # "x"

LEMMA WriteInPlace ==
    ASSUME NEW file \in File, Len(file) <= MAX_STD_ID + 1, InPlace(file),
           NEW slot \in 0 .. MAX_STD_ID, NEW record \in student_t,
           record = EMPTY_STUDENT_RECORD \/ record.id = slot
    PROVE  InPlace(Write(file, slot, record))
  <1> DEFINE new == Write(file, slot, record)
  <1>1. /\ Len(new) \in Nat
        /\ \A k \in 1 .. Len(new) :
              \/ k = slot + 1 /\ new[k] = record
              \/ k <= Len(file) /\ new[k] = file[k]
              \/ new[k] = EMPTY_STUDENT_RECORD
    BY WriteType DEF File
  <1>2. Len(file) \in Nat
    BY DEF File
  <1> HIDE DEF new
  <1>3. InPlace(new)
    BY <1>1, <1>2 DEF InPlace
  <1> QED BY <1>3 DEF new

LEMMA OpenInPlace ==
    ASSUME TypeInv, \A i \in Inodes : InPlace(disk[i]),
           NEW name \in Names, NEW fd \in OpenResults(name),
           NEW trunc \in BOOLEAN, open_db(name, trunc, fd)
    PROVE  \A i \in Inodes : InPlace(disk'[i])
  <1>1. fd \in Inodes \cup {NULL}
    BY OpenType DEF TypeInv
  <1>2. InPlace(<<>>)
    BY DEF InPlace
  <1> QED BY <1>1, <1>2 DEF open_db, TypeInv, DiskOK

LEMMA NoCompressArgv ==
    ASSUME "x" \notin Opts, NEW argv \in Argv
    PROVE  argv.opt # "x"
  <1>1. CASE argv \in [opt : Opts \cap {"a"}, id : IdArgs, gpa : GpaArgs]
    BY <1>1
  <1>2. CASE argv \in [opt : Opts \cap {"d", "f"}, id : IdArgs, gpa : {0}]
    BY <1>2
  <1>3. CASE argv \in [opt : Opts \ {"a", "d", "f"}, id : {0}, gpa : {0}]
    BY <1>3
  <1> QED BY <1>1, <1>2, <1>3 DEF Argv

\* Which files change, and how, in a step that is not a compression's.
LEMMA DiskStep ==
    ASSUME TypeInv, NEW p \in Procs, Start(p) \/ Run(p) \/ Crash(p),
           ~Compress(p)
    PROVE  \/ UNCHANGED disk
           \/ Leave(p)
           \/ \E fd \in OpenResults(DB_FILE) :
                 open_db(DB_FILE, FALSE, fd)
           \/ ZeroReopen(p)
           \/ /\ AddWrite(p)
              /\ proc[p].fd \in Inodes
              /\ proc[p].argv.id \in 1 .. MAX_STD_ID
              /\ proc[p].argv.gpa \in 0 .. MAX_STD_GPA
              /\ disk' = [disk EXCEPT ![proc[p].fd] =
                            Write(@, proc[p].argv.id, [id |-> proc[p].argv.id,
                                                gpa |-> proc[p].argv.gpa])]
           \/ /\ DelWrite(p)
              /\ proc[p].fd \in Inodes
              /\ Slot(proc[p].argv.id) \in 0 .. MAX_STD_ID
              /\ disk' = [disk EXCEPT ![proc[p].fd] =
                            Write(@, Slot(proc[p].argv.id), EMPTY_STUDENT_RECORD)]
  <1>1. proc[p] \in ProcState /\ LocalOK(proc[p])
    BY ArgvType DEF TypeInv
  <1>2. CASE AddWrite(p)
    <2>1. /\ proc[p].fd \in Inodes
          /\ proc[p].argv.id \in 1 .. MAX_STD_ID
          /\ proc[p].argv.gpa \in 0 .. MAX_STD_GPA
      BY <1>1, <1>2 DEF AddWrite, At, LocalOK, UsesFd
    <2>2. Slot(proc[p].argv.id) = proc[p].argv.id
      BY <2>1, SlotInRange
    <2> QED BY <1>2, <2>1, <2>2 DEF AddWrite
  <1>3. CASE DelWrite(p)
    <2>1. /\ proc[p].fd \in Inodes
          /\ Slot(proc[p].argv.id) \in 0 .. MAX_STD_ID
      BY <1>1, <1>3 DEF DelWrite, At, LocalOK, UsesFd
    <2> QED BY <1>3, <2>1 DEF DelWrite
  <1>4. CASE MainOpen(p)
    BY <1>4 DEF MainOpen
  <1>5. CASE ZeroReopen(p)
    BY <1>5
  <1>6. CASE Exit(p) \/ Crash(p)
    BY <1>6 DEF Exit, Crash
  <1>7. CASE \/ Start(p) \/ MainUsage(p) \/ AddGet(p) \/ DelGet(p)
             \/ Find(p) \/ CountRead(p) \/ PrintRead(p)
    BY <1>7 DEF Start, MainUsage, AddGet, DelGet, Find, CountRead, PrintRead
  <1> QED BY <1>2, <1>3, <1>4, <1>5, <1>6, <1>7 DEF Run

LEMMA PlaceDisk ==
    ASSUME TypeInv, PlaceInv, NEW p \in Procs,
           Start(p) \/ Run(p) \/ Crash(p), ~Compress(p)
    PROVE  \A i \in Inodes : InPlace(disk'[i])
  <1>1. \A i \in Inodes : InPlace(disk[i])
    BY DEF PlaceInv
  <1>2. \A i \in Inodes : disk[i] \in File /\ Len(disk[i]) <= MAX_STD_ID + 1
    BY DEF TypeInv, DiskOK
  <1>3. CASE UNCHANGED disk
    BY <1>1, <1>3
  <1>4. CASE Leave(p)
    <2>1. InPlace(<<>>)
      BY DEF InPlace
    <2> QED BY <1>1, <1>4, <2>1 DEF Leave
  <1>5. CASE \/ \E fd \in OpenResults(DB_FILE) : open_db(DB_FILE, FALSE, fd)
             \/ ZeroReopen(p)
    BY <1>1, <1>5, OpenInPlace DEF ZeroReopen, Names
  <1>6. ASSUME NEW fd \in Inodes, NEW slot \in 0 .. MAX_STD_ID,
               NEW record \in student_t,
               record = EMPTY_STUDENT_RECORD \/ record.id = slot,
               disk' = [disk EXCEPT ![fd] = Write(@, slot, record)]
        PROVE  \A i \in Inodes : InPlace(disk'[i])
    <2>1. InPlace(Write(disk[fd], slot, record))
      BY <1>1, <1>2, <1>6, WriteInPlace
    <2>2. disk \in [Inodes -> File]
      BY <1>2 DEF TypeInv, DiskOK
    <2> QED BY <1>1, <1>6, <2>1, <2>2
  <1>7. CASE /\ proc[p].fd \in Inodes
             /\ proc[p].argv.id \in 1 .. MAX_STD_ID
             /\ proc[p].argv.gpa \in 0 .. MAX_STD_GPA
             /\ disk' = [disk EXCEPT ![proc[p].fd] =
                            Write(@, proc[p].argv.id, [id |-> proc[p].argv.id,
                                                gpa |-> proc[p].argv.gpa])]
    <2> DEFINE new == [id |-> proc[p].argv.id, gpa |-> proc[p].argv.gpa]
    <2>1. new \in student_t /\ new.id = proc[p].argv.id
      BY <1>7 DEF student_t
    <2>2. proc[p].argv.id \in 0 .. MAX_STD_ID
      BY <1>7
    <2> HIDE DEF new
    <2>3. disk' = [disk EXCEPT ![proc[p].fd] = Write(@, proc[p].argv.id, new)]
      BY <1>7 DEF new
    <2> QED BY <1>6, <1>7, <2>1, <2>2, <2>3
  <1>8. CASE /\ proc[p].fd \in Inodes
             /\ Slot(proc[p].argv.id) \in 0 .. MAX_STD_ID
             /\ disk' = [disk EXCEPT ![proc[p].fd] =
                           Write(@, Slot(proc[p].argv.id), EMPTY_STUDENT_RECORD)]
    <2>1. EMPTY_STUDENT_RECORD \in student_t
      BY RangeAssumption DEF EMPTY_STUDENT_RECORD, student_t
    <2> QED BY <1>6, <1>8, <2>1
  <1> QED BY <1>3, <1>4, <1>5, <1>7, <1>8, DiskStep

LEMMA PlaceProc ==
    ASSUME "x" \notin Opts, TypeInv, PlaceInv, NEW p \in Procs,
           Start(p) \/ Run(p) \/ Crash(p)
    PROVE  /\ ~Compress(p)
           /\ \A q \in Procs : /\ proc'[q].pc \notin CompressPcs
                               /\ proc'[q].argv.opt # "x"
  <1>1. /\ proc \in [Procs -> ProcState]
        /\ proc[p].pc \notin CompressPcs /\ proc[p].argv.opt # "x"
    BY DEF TypeInv, ProcOK, PlaceInv
  <1>2. ~Compress(p)
    BY <1>1 DEF Compress, CompressOpen, CompressRead, CompressWrite,
                CompressRename, CompressReopen, At, CompressPcs
  <1> DEFINE Kept == /\ proc'[p].pc \notin CompressPcs
                     /\ proc'[p].argv.opt # "x"
                     /\ \A q \in Procs \ {p} : proc'[q] = proc[q]
  <1>3. \A code : Finish(p, code) => Kept
    BY <1>1 DEF Finish, ProcState, CompressPcs
  <1>4. \A label : Goto(p, label) /\ label \notin CompressPcs => Kept
    BY <1>1 DEF Goto, ProcState
  <1>5. Kept
    <2>1. CASE Start(p)
      <3>1. PICK argv \in Argv :
               proc' = [proc EXCEPT ![p].pc = "main", ![p].argv = argv]
        BY <2>1 DEF Start
      <3>2. argv.opt # "x"
        BY NoCompressArgv
      <3> QED BY <1>1, <3>1, <3>2 DEF ProcState, CompressPcs
    <2>2. CASE MainUsage(p) \/ AddGet(p) \/ AddWrite(p) \/ DelGet(p) \/ DelWrite(p)
      BY <1>3, <1>4, <2>2
      DEF MainUsage, AddGet, AddWrite, DelGet, DelWrite, CompressPcs
    <2>3. CASE Find(p)
      BY <1>1, <1>3, <2>3 DEF Find, ProcState, CompressPcs
    <2>4. CASE CountRead(p)
      BY <1>1, <1>3, <2>4 DEF CountRead, At, ProcState, CompressPcs
    <2>5. CASE PrintRead(p)
      BY <1>1, <1>3, <2>5 DEF PrintRead, At, ProcState, CompressPcs
    <2>6. CASE ZeroReopen(p)
      BY <1>1, <2>6 DEF ZeroReopen, ProcState, CompressPcs
    <2>7. CASE Exit(p) \/ Crash(p)
      BY <1>1, <2>7 DEF Exit, Crash, Leave, Idle, NoArgv, CompressPcs
    <2>8. CASE MainOpen(p)
      <3> DEFINE entry == Entry(proc[p].argv)
      <3>1. entry \notin CompressPcs
        BY <1>1 DEF Entry, CompressPcs
      <3>2. \/ Finish(p, EXIT_FAIL_DB)
            \/ \E fd, code : proc' = [proc EXCEPT ![p].pc = entry, ![p].fd = fd,
                                                ![p].exit_code = code]
        BY <2>8 DEF MainOpen
      <3> HIDE DEF entry
      <3>3. CASE Finish(p, EXIT_FAIL_DB)
        BY <1>3, <3>3
      <3>4. ASSUME NEW fd, NEW code,
                   proc' = [proc EXCEPT ![p].pc = entry, ![p].fd = fd,
                                        ![p].exit_code = code]
            PROVE  Kept
        BY <1>1, <3>1, <3>4 DEF ProcState
      <3> HIDE DEF Kept
      <3> QED BY <3>2, <3>3, <3>4
    <2> HIDE DEF Kept
    <2> QED BY <1>2, <2>1, <2>2, <2>3, <2>4, <2>5, <2>6, <2>7, <2>8 DEF Run
  <1> QED BY <1>2, <1>5 DEF PlaceInv

LEMMA PlaceInvInductive ==
    ASSUME "x" \notin Opts
    PROVE  /\ Init => PlaceInv
           /\ TypeInv /\ PlaceInv /\ [Next]_vars => PlaceInv'
  <1>1. Init => PlaceInv
    BY DEF Init, PlaceInv, InPlace, Idle, NoArgv, CompressPcs
  <1>2. ASSUME TypeInv, PlaceInv, [Next]_vars PROVE PlaceInv'
    <2>1. CASE UNCHANGED vars
      BY <1>2, <2>1 DEF vars, PlaceInv
    <2>2. CASE Next
      BY <1>2, <2>2, PlaceDisk, PlaceProc DEF Next, PlaceInv
    <2> QED BY <1>2, <2>1, <2>2
  <1> QED BY <1>1, <1>2

LEMMA PlaceInvariant ==
    ASSUME "x" \notin Opts
    PROVE  Spec => [](TypeInv /\ PlaceInv)
  BY PlaceInvInductive, TypeInvariant, PTL DEF Spec

\* As long as nobody compresses the database, get_student() finds every
\* student in the slot it computes, whatever runs concurrently.
THEOREM AddressingCorrect ==
    ASSUME "x" \notin Opts
    PROVE  Spec => []RecordsInPlace
  <1>1. TypeInv /\ PlaceInv => RecordsInPlace
    BY DEF TypeInv, DirOK, Names, PlaceInv, InPlace, RecordsInPlace, Database
  <1> QED BY <1>1, PlaceInvariant, PTL

LEMMA DirKept ==
    ASSUME TypeInv, NEW p \in Procs, Start(p) \/ Run(p) \/ Crash(p),
           ~Compress(p), dir[DB_FILE] # NULL
    PROVE  dir'[DB_FILE] = dir[DB_FILE]
  <1>1. ASSUME NEW fd \in OpenResults(DB_FILE), NEW trunc \in BOOLEAN,
               open_db(DB_FILE, trunc, fd)
        PROVE  dir'[DB_FILE] = dir[DB_FILE]
    <2>1. fd # NULL => fd = dir[DB_FILE]
      BY <1>1, OpenType DEF TypeInv, Names
    <2> QED BY <1>1, <2>1 DEF open_db, TypeInv, DirOK, Names
  <1>2. CASE MainOpen(p) \/ ZeroReopen(p)
    BY <1>1, <1>2 DEF MainOpen, ZeroReopen
  <1>3. CASE ~MainOpen(p) /\ ~ZeroReopen(p)
    BY <1>3 DEF Start, Run, Crash, Exit, Leave, MainUsage, AddGet, AddWrite,
                DelGet, DelWrite, Find, CountRead, PrintRead
  <1> QED BY <1>2, <1>3

LEMMA WriteKeeps ==
    ASSUME NEW file \in File, NEW slot \in 0 .. MAX_STD_ID, NEW record,
           NEW k \in 1 .. Len(file)
    PROVE  /\ k \in 1 .. Len(Write(file, slot, record))
           /\ Write(file, slot, record)[k] = IF k = slot + 1 THEN record
                                             ELSE file[k]
  <1> DEFINE n == IF slot < Len(file) THEN Len(file) ELSE slot + 1
             e(j) == IF j = slot + 1 THEN record
                     ELSE IF j <= Len(file) THEN file[j]
                     ELSE EMPTY_STUDENT_RECORD
  <1>1. n \in Nat /\ k \in 1 .. n /\ k <= Len(file)
    BY RangeAssumption DEF File
  <1>2. Write(file, slot, record) = [j \in 1 .. n |-> e(j)]
    BY DEF Write
  <1>3. e(k) = IF k = slot + 1 THEN record ELSE file[k]
    BY <1>1
  <1> HIDE DEF n, e
  <1>4. Len([j \in 1 .. n |-> e(j)]) = n /\ [j \in 1 .. n |-> e(j)][k] = e(k)
    BY <1>1
  <1> QED BY <1>1, <1>2, <1>3, <1>4

LEMMA SlotOfArgv ==
    ASSUME \A id \in IdArgs : Slot(id) = id, TypeInv, NEW p \in Procs
    PROVE  Slot(proc[p].argv.id) = proc[p].argv.id
  <1>1. proc[p].argv \in Argv \/ proc[p].argv = NoArgv
    BY DEF TypeInv, ProcOK, ProcState
  <1>2. Slot(0) = 0
    BY SlotInRange, RangeAssumption
  <1>3. NoArgv.id = 0
    BY DEF NoArgv
  <1>4. ASSUME NEW argv \in Argv PROVE argv.id \in IdArgs \/ argv.id = 0
    <2>1. CASE argv \in [opt : Opts \cap {"a"}, id : IdArgs, gpa : GpaArgs]
      BY <2>1
    <2>2. CASE argv \in [opt : Opts \cap {"d", "f"}, id : IdArgs, gpa : {0}]
      BY <2>2
    <2>3. CASE argv \in [opt : Opts \ {"a", "d", "f"}, id : {0}, gpa : {0}]
      BY <2>3
    <2> QED BY <1>4, <2>1, <2>2, <2>3 DEF Argv
  <1> QED BY <1>1, <1>2, <1>3, <1>4

\* As long as nobody compresses it and nobody asks for an id whose offset
\* wraps, a student leaves the database by its own deletion or by -z only.
THEOREM DeletionsOnly ==
    ASSUME "x" \notin Opts, \A id \in IdArgs : Slot(id) = id
    PROVE  Spec => OnlyDeleteRemoves
  <1> DEFINE Step == \A id \in 1 .. MAX_STD_ID :
                       (Stored(id) /\ ~Stored(id)')
                          => \E p \in Procs :
                                \/ DelWrite(p) /\ proc[p].argv.id = id
                                \/ ZeroReopen(p)
  <1>1. ASSUME TypeInv, PlaceInv, [Next]_vars PROVE Step \/ UNCHANGED vars
    <2>1. SUFFICES ASSUME Next PROVE Step
      BY <1>1
    <2>2. PICK p \in Procs : Start(p) \/ Run(p) \/ Crash(p)
      BY <2>1 DEF Next
    <2>3. SUFFICES ASSUME NEW id \in 1 .. MAX_STD_ID, Stored(id), ~Stored(id)',
                          ~ZeroReopen(p)
                   PROVE  DelWrite(p) /\ proc[p].argv.id = id
      OBVIOUS
    <2> DEFINE db == dir[DB_FILE]
    <2>4. db \in Inodes /\ disk[db] \in File /\ Len(disk[db]) <= MAX_STD_ID + 1
          /\ InPlace(disk[db]) /\ Database = disk[db]
      BY <1>1, <2>3 DEF Stored, Database, TypeInv, DirOK, DiskOK, Names, PlaceInv
    <2>5. PICK k \in 1 .. Len(disk[db]) : disk[db][k].id = id
      BY <2>3, <2>4 DEF Stored
    <2>6. k = id + 1
      <3>1. disk[db][k] # EMPTY_STUDENT_RECORD
        BY <2>5 DEF EMPTY_STUDENT_RECORD
      <3> QED BY <2>4, <2>5, <3>1 DEF InPlace, File
    <2>7. ~Compress(p)
      BY <1>1, <2>2, PlaceProc
    <2>8. dir'[DB_FILE] = db
      BY <1>1, <2>2, <2>4, <2>7, DirKept, NullAssumption
    <2>9. Database' = disk'[db]
      BY <2>4, <2>8, NullAssumption DEF Database
    <2>10. ~(k \in 1 .. Len(disk'[db]) /\ disk'[db][k].id = id)
      BY <2>3, <2>9 DEF Stored
    <2>11. disk'[db] # disk[db]
      BY <2>5, <2>10
    <2> HIDE DEF db
    <2>12. ASSUME NEW fd \in Inodes, NEW slot \in 0 .. MAX_STD_ID, NEW record,
                  disk' = [disk EXCEPT ![fd] = Write(@, slot, record)]
           PROVE  slot = id /\ record.id # id
      <3>1. disk'[db] = Write(disk[db], slot, record)
        BY <1>1, <2>4, <2>11, <2>12 DEF TypeInv, DiskOK
      <3>2. /\ k \in 1 .. Len(disk'[db])
            /\ disk'[db][k] = IF k = slot + 1 THEN record ELSE disk[db][k]
        BY <2>4, <3>1, WriteKeeps
      <3> QED BY <2>5, <2>6, <2>10, <3>2
    <2>13. ~Leave(p)
      BY <2>4, <2>11 DEF Leave, Linked, Names, db
    <2>14. ~\E fd \in OpenResults(DB_FILE) : open_db(DB_FILE, FALSE, fd)
      BY <2>4, <2>11, NullAssumption DEF open_db, db
    <2>15. disk' # disk
      BY <2>11
    <2>16. ~(/\ AddWrite(p)
             /\ proc[p].fd \in Inodes
             /\ proc[p].argv.id \in 1 .. MAX_STD_ID
             /\ disk' = [disk EXCEPT ![proc[p].fd] =
                            Write(@, proc[p].argv.id, [id |-> proc[p].argv.id,
                                                gpa |-> proc[p].argv.gpa])])
      <3> DEFINE new == [id |-> proc[p].argv.id, gpa |-> proc[p].argv.gpa]
      <3>1. new.id = proc[p].argv.id
        OBVIOUS
      <3>2. \A j \in 1 .. MAX_STD_ID : j \in 0 .. MAX_STD_ID
        BY RangeAssumption
      <3> HIDE DEF new
      <3>3. ~(/\ proc[p].fd \in Inodes /\ proc[p].argv.id \in 1 .. MAX_STD_ID
              /\ disk' = [disk EXCEPT ![proc[p].fd] =
                             Write(@, proc[p].argv.id, new)])
        BY <2>12, <3>1, <3>2
      <3> QED BY <3>3 DEF new
    <2>17. /\ DelWrite(p) /\ proc[p].fd \in Inodes
           /\ Slot(proc[p].argv.id) \in 0 .. MAX_STD_ID
           /\ disk' = [disk EXCEPT ![proc[p].fd] =
                          Write(@, Slot(proc[p].argv.id), EMPTY_STUDENT_RECORD)]
      BY <1>1, <2>2, <2>3, <2>7, <2>13, <2>14, <2>15, <2>16, DiskStep
    <2>18. Slot(proc[p].argv.id) = id
      BY <2>12, <2>17
    <2> QED BY <1>1, <2>17, <2>18, SlotOfArgv
  <1>2. TypeInv /\ PlaceInv /\ [Next]_vars => [Step]_vars
    BY <1>1
  <1> QED BY <1>2, PlaceInvariant, PTL DEF OnlyDeleteRemoves, Spec
----------------------------------------------------------------------------
(* compress_db() keeps the students, as long as no other process changes   *)
(* the files and no read() fails: what it has copied is always the packed  *)
(* form of what it has read.                                               *)

Solo == (\A p, q \in Procs : p = q) /\ "read" \notin IOFaults

\* What a compression has done of its copy, and what a process keeps for it.
CopyInStep(s) ==
    /\ s.pc \in {"idle", "main", "x_open"} => s.off = 0 /\ s.tmp_off = 0
    /\ s.pc = "idle" => s.argv = NoArgv
    /\ s.pc \notin CompressPcs \cup {"idle", "main", "done"} => s.argv.opt # "x"
    /\ s.pc \in {"x_open", "x_read", "x_write", "x_rename"} =>
          dir[DB_FILE] # NULL /\ s.fd = dir[DB_FILE]
    /\ s.pc \in {"x_read", "x_write", "x_rename"} =>
          dir[TMP_DB_FILE] # NULL /\ s.tmp_fd = dir[TMP_DB_FILE]
    /\ s.pc \in {"x_read", "x_write"} =>
          s.off <= Len(Database) /\ s.tmp_off = Len(disk[s.tmp_fd])
    /\ s.pc = "x_read" => disk[s.tmp_fd] = Packed(Database, s.off)
    /\ s.pc = "x_write" =>
          Append(disk[s.tmp_fd], s.record) = Packed(Database, s.off)
    /\ s.pc = "x_rename" => disk[s.tmp_fd] = Records(Database)
    /\ s.pc = "x_reopen" => dir[DB_FILE] # NULL /\ Database = Records(Database)
    /\ (s.pc = "done" /\ s.argv.opt = "x" /\ s.exit_code = EXIT_OK) =>
          Database = Records(Database)

CopyInv == \A p \in Procs : CopyInStep(proc[p])
----------------------------------------------------------------------------
(* The packed form of a file. *)

LEMMA PackedSteps ==
    ASSUME NEW file \in File
    PROVE  /\ Packed(file, 0) = <<>>
           /\ \A k \in 1 .. Len(file) :
                Packed(file, k) = IF file[k] = EMPTY_STUDENT_RECORD
                                  THEN Packed(file, k - 1)
                                  ELSE Append(Packed(file, k - 1), file[k])
  <1> DEFINE n == Len(file)
             Take(k, f) == IF file[k] = EMPTY_STUDENT_RECORD THEN f
                           ELSE Append(f, file[k])
             step == [p \in (1 .. n) \X File |-> Take(p[1], p[2])]
             Packs(f) == f = [k \in 0 .. n |->
                                IF k = 0 THEN <<>>
                                ELSE IF file[k] = EMPTY_STUDENT_RECORD
                                THEN f[k - 1]
                                ELSE Append(f[k - 1], file[k])]
             packed == CHOOSE f : Packs(f)
  <1>1. n \in Nat /\ <<>> \in File
    BY DEF File
  <1>2. ASSUME NEW k \in 1 .. n, NEW f \in File
        PROVE  Take(k, f) \in File
    BY DEF File
  <1>3. step \in [(1 .. n) \X File -> File]
    BY <1>2
  <1>4. \A k \in 1 .. n, f \in File : step[<<k, f>>] = Take(k, f)
    OBVIOUS
  <1> HIDE DEF step
  <1>5. PICK f \in [0 .. n -> File] : Follows(f, n, <<>>, step)
    BY <1>1, <1>3, Recursive
  <1>6. Packs(f)
    <2>1. \A k \in 1 .. n : f[k] = Take(k, f[k - 1])
      <3> SUFFICES ASSUME NEW k \in 1 .. n
                   PROVE  f[k] = Take(k, f[k - 1])
        OBVIOUS
      <3>1. k - 1 \in 0 .. n /\ f[k - 1] \in File
        BY <1>1
      <3> QED BY <1>4, <1>5, <3>1 DEF Follows
    <2>2. \A k \in 0 .. n : k # 0 => k \in 1 .. n
      BY <1>1
    <2>3. f[0] = <<>>
      BY <1>5 DEF Follows
    <2> QED BY <2>1, <2>2, <2>3
  <1>7. Packs(packed)
    <2> HIDE DEF Packs
    <2> QED BY <1>6
  <1>8. \A k : Packed(file, k) = packed[k]
    BY DEF Packed
  <1> HIDE DEF packed
  <1>9. packed[0] = <<>>
    BY <1>1, <1>7
  <1>10. \A k \in 1 .. n : packed[k] = Take(k, packed[k - 1])
    <2> SUFFICES ASSUME NEW k \in 1 .. n
                 PROVE  packed[k] = Take(k, packed[k - 1])
      OBVIOUS
    <2>1. k \in 0 .. n /\ k # 0
      BY <1>1
    <2> QED BY <1>7, <2>1, Zenon
  <1> QED BY <1>8, <1>9, <1>10

LEMMA PackedNext ==
    ASSUME NEW file \in File, NEW n \in Nat, n < Len(file)
    PROVE  Packed(file, n + 1) = IF file[n + 1] = EMPTY_STUDENT_RECORD
                                 THEN Packed(file, n)
                                 ELSE Append(Packed(file, n), file[n + 1])
  <1> DEFINE k == n + 1
  <1>1. k \in 1 .. Len(file) /\ k - 1 = n
    BY DEF File
  <1> HIDE DEF k
  <1>2. Packed(file, k) = IF file[k] = EMPTY_STUDENT_RECORD
                          THEN Packed(file, n)
                          ELSE Append(Packed(file, n), file[k])
    BY <1>1, PackedSteps
  <1> QED BY <1>2 DEF k

\* What is packed: students of the file, and no more than have been read.
LEMMA PackedType ==
    ASSUME NEW file \in File, NEW n \in 0 .. Len(file)
    PROVE  /\ Packed(file, n) \in File
           /\ Len(Packed(file, n)) <= n
           /\ \A j \in 1 .. Len(Packed(file, n)) :
                /\ Packed(file, n)[j] # EMPTY_STUDENT_RECORD
                /\ \E i \in 1 .. Len(file) : Packed(file, n)[j] = file[i]
  <1> DEFINE From(i) == {f \in File : Len(f) <= i /\ \A j \in 1 .. Len(f) :
                           /\ f[j] # EMPTY_STUDENT_RECORD
                           /\ \E m \in 1 .. Len(file) : f[j] = file[m]}
             T == {i \in 0 .. Len(file) : Packed(file, i) \in From(i)}
  <1>1. Len(file) \in Nat
    BY DEF File
  <1>2. 0 \in T
    <2>1. Packed(file, 0) = <<>>
      BY PackedSteps
    <2>2. <<>> \in From(0)
      BY DEF File
    <2> HIDE DEF From
    <2> QED BY <1>1, <2>1, <2>2
  <1>3. ASSUME NEW k \in 1 .. Len(file), k - 1 \in T
        PROVE  k \in T
    <2> DEFINE f == Packed(file, k - 1)
    <2>1. f \in From(k - 1) /\ k \in 0 .. Len(file) /\ Len(f) \in Nat
      BY <1>1, <1>3 DEF File
    <2>2. f \in From(k)
      BY <2>1
    <2>3. Packed(file, k) = IF file[k] = EMPTY_STUDENT_RECORD THEN f
                            ELSE Append(f, file[k])
      BY PackedSteps
    <2> HIDE DEF f
    <2>4. ASSUME file[k] # EMPTY_STUDENT_RECORD
          PROVE  Append(f, file[k]) \in From(k)
      <3> DEFINE g == Append(f, file[k])
      <3>1. file[k] \in student_t
        BY DEF File
      <3>2. /\ g \in File /\ Len(g) = Len(f) + 1 /\ g[Len(f) + 1] = file[k]
            /\ \A j \in 1 .. Len(f) : g[j] = f[j]
        BY <2>1, <3>1 DEF File
      <3> HIDE DEF g
      <3>3. Len(g) <= k
        BY <2>1, <3>2
      <3>4. \A j \in 1 .. Len(g) : j \in 1 .. Len(f) \/ j = Len(f) + 1
        BY <2>1, <3>2
      <3>5. \A j \in 1 .. Len(g) :
              /\ g[j] # EMPTY_STUDENT_RECORD
              /\ \E m \in 1 .. Len(file) : g[j] = file[m]
        BY <2>1, <2>4, <3>2, <3>4
      <3> QED BY <3>2, <3>3, <3>5 DEF g
    <2> QED BY <2>1, <2>2, <2>3, <2>4
  <1> HIDE DEF T
  <1>4. n \in T
    BY <1>1, <1>2, <1>3, UpTo
  <1> QED BY <1>4 DEF T

\* A file without holes is packed.
LEMMA PackedAll ==
    ASSUME NEW file \in File,
           \A j \in 1 .. Len(file) : file[j] # EMPTY_STUDENT_RECORD
    PROVE  Records(file) = file
  <1> DEFINE n == Len(file)
             T == {i \in 0 .. n : Packed(file, i) = SubSeq(file, 1, i)}
  <1>1. n \in Nat
    BY DEF File
  <1>2. 0 \in T
    <2>1. Packed(file, 0) = <<>>
      BY PackedSteps
    <2>2. SubSeq(file, 1, 0) = <<>>
      BY DEF File
    <2>3. 0 \in 0 .. n
      BY <1>1
    <2> QED BY <2>1, <2>2, <2>3, Zenon
  <1>3. ASSUME NEW k \in 1 .. n, k - 1 \in T
        PROVE  k \in T
    <2>1. Packed(file, k) = Append(SubSeq(file, 1, k - 1), file[k])
      BY <1>3, PackedSteps
    <2>2. SubSeq(file, 1, k) = Append(SubSeq(file, 1, k - 1), file[k])
      BY <1>1 DEF File
    <2> QED BY <1>1, <2>1, <2>2
  <1> HIDE DEF T
  <1>4. n \in T
    <2>1. 0 .. n \subseteq T
      BY <1>1, <1>2, <1>3, UpTo
    <2> QED BY <1>1, <2>1
  <1>5. SubSeq(file, 1, n) = file
    BY DEF File
  <1> QED BY <1>4, <1>5 DEF T, Records

LEMMA RecordsTwice ==
    ASSUME NEW file \in File
    PROVE  Records(Records(file)) = Records(file)
  <1>1. Len(file) \in 0 .. Len(file)
    BY DEF File
  <1>2. /\ Records(file) \in File
        /\ \A j \in 1 .. Len(Records(file)) :
             Records(file)[j] # EMPTY_STUDENT_RECORD
    BY <1>1, PackedType DEF Records
  <1> QED BY <1>2, PackedAll

\* A write at the end of a file.
LEMMA WriteAtEnd ==
    ASSUME NEW file \in File, NEW record \in student_t
    PROVE  Write(file, Len(file), record) = Append(file, record)
  <1> DEFINE n == Len(file) + 1
             e(k) == IF k = n THEN record
                     ELSE IF k <= Len(file) THEN file[k]
                     ELSE EMPTY_STUDENT_RECORD
  <1>1. Len(file) \in Nat
    BY DEF File
  <1>2. Write(file, Len(file), record) = [k \in 1 .. n |-> e(k)]
    BY <1>1 DEF Write
  <1>3. Append(file, record) = [k \in 1 .. n |-> IF k = n THEN record ELSE file[k]]
    <2> DEFINE g == Append(file, record)
    <2>1. /\ g \in Seq(student_t) /\ Len(g) = n /\ g[n] = record
          /\ \A k \in 1 .. Len(file) : g[k] = file[k]
      BY DEF File
    <2> HIDE DEF g
    <2>2. g = [k \in 1 .. n |-> g[k]]
      BY <2>1
    <2>3. \A k \in 1 .. n : g[k] = IF k = n THEN record ELSE file[k]
      BY <1>1, <2>1
    <2>4. g = [k \in 1 .. n |-> IF k = n THEN record ELSE file[k]]
      BY <2>2, <2>3
    <2> QED BY <2>4 DEF g
  <1>4. \A k \in 1 .. n : e(k) = IF k = n THEN record ELSE file[k]
    BY <1>1
  <1> QED BY <1>2, <1>3, <1>4
----------------------------------------------------------------------------
(* Every step keeps CopyInv. *)

LEMMA DatabaseIsFile ==
    ASSUME TypeInv
    PROVE  /\ Database \in File
           /\ dir[DB_FILE] # NULL => /\ dir[DB_FILE] \in Inodes
                                     /\ Database = disk[dir[DB_FILE]]
  <1>1. dir[DB_FILE] \in Inodes \cup {NULL}
    BY DEF TypeInv, DirOK, Names
  <1>2. <<>> \in File
    BY DEF File
  <1> QED BY <1>1, <1>2 DEF Database, TypeInv, DiskOK

\* The only process.
LEMMA CopyInvAfter ==
    ASSUME Solo, NEW p \in Procs, CopyInStep(proc[p])'
    PROVE  CopyInv'
  <1>1. \A q \in Procs : q = p
    BY DEF Solo
  <1> QED BY <1>1 DEF CopyInv

LEMMA OtherCommand ==
    ASSUME Solo, NEW p \in Procs,
           proc'[p].pc \notin CompressPcs \cup {"idle", "main"},
           proc'[p].argv.opt # "x"
    PROVE  CopyInv'
  <1>1. CopyInStep(proc[p])'
    BY DEF CopyInStep, CompressPcs
  <1> QED BY <1>1, CopyInvAfter

LEMMA FailedCommand ==
    ASSUME Solo, NEW p \in Procs,
           proc'[p].pc = "done", proc'[p].exit_code # EXIT_OK
    PROVE  CopyInv'
  <1>1. CopyInStep(proc[p])'
    BY DEF CopyInStep, CompressPcs
  <1> QED BY <1>1, CopyInvAfter

\* Where main's switch leads.
LEMMA EntryValues ==
    ASSUME NEW argv, argv.opt \in AllOpts \ {"-", "h", "x"}
    PROVE  \/ /\ argv.opt = "a" /\ Entry(argv) = "add_get"
              /\ validate_range(argv.id, argv.gpa) = NO_ERROR
           \/ /\ argv.opt = "a" /\ Entry(argv) = "done"
              /\ validate_range(argv.id, argv.gpa) # NO_ERROR
           \/ argv.opt = "c" /\ Entry(argv) = "count"
           \/ argv.opt = "d" /\ Entry(argv) = "del_get"
           \/ argv.opt = "f" /\ Entry(argv) = "find"
           \/ argv.opt = "p" /\ Entry(argv) = "print"
           \/ argv.opt = "z" /\ Entry(argv) = "zero"
           \/ argv.opt = "?" /\ Entry(argv) = "done"
  <1>1. CASE argv.opt = "a"
    <2>1. Entry(argv) = IF validate_range(argv.id, argv.gpa) = NO_ERROR
                        THEN "add_get" ELSE "done"
      BY <1>1, Zenon DEF Entry
    <2> QED BY <1>1, <2>1
  <1>2. CASE argv.opt = "c"
    BY <1>2, Zenon DEF Entry
  <1>3. CASE argv.opt = "d"
    BY <1>3, Zenon DEF Entry
  <1>4. CASE argv.opt = "f"
    BY <1>4, Zenon DEF Entry
  <1>5. CASE argv.opt = "p"
    BY <1>5, Zenon DEF Entry
  <1>6. CASE argv.opt = "z"
    BY <1>6, Zenon DEF Entry
  <1>7. CASE argv.opt = "?"
    BY <1>7, Zenon DEF Entry
  <1> QED BY <1>1, <1>2, <1>3, <1>4, <1>5, <1>6, <1>7 DEF AllOpts

LEMMA EntryOfCompress ==
    ASSUME NEW argv, argv.opt = "x"
    PROVE  Entry(argv) = "x_open"
  BY Zenon DEF Entry

LEMMA OptType ==
    ASSUME TypeInv, NEW p \in Procs
    PROVE  proc[p].argv.opt \in AllOpts
  <1>1. proc[p].argv \in Argv \/ proc[p].argv = NoArgv
    BY DEF TypeInv, ProcOK, ProcState
  <1>2. CASE proc[p].argv = NoArgv
    BY <1>2 DEF NoArgv, AllOpts
  <1>3. ASSUME NEW argv \in Argv PROVE argv.opt \in AllOpts
    <2>1. CASE argv \in [opt : Opts \cap {"a"}, id : IdArgs, gpa : GpaArgs]
      BY <2>1, ArgvAssumption
    <2>2. CASE argv \in [opt : Opts \cap {"d", "f"}, id : IdArgs, gpa : {0}]
      BY <2>2, ArgvAssumption
    <2>3. CASE argv \in [opt : Opts \ {"a", "d", "f"}, id : {0}, gpa : {0}]
      BY <2>3, ArgvAssumption
    <2> QED BY <1>3, <2>1, <2>2, <2>3 DEF Argv
  <1> QED BY <1>1, <1>2, <1>3

LEMMA CopyStart ==
    ASSUME Solo, TypeInv, CopyInv, NEW p \in Procs, Start(p)
    PROVE  CopyInv'
  <1>1. PICK argv \in Argv :
          proc' = [proc EXCEPT ![p].pc = "main", ![p].argv = argv]
    BY DEF Start
  <1>2. proc[p].off = 0 /\ proc[p].tmp_off = 0
    BY DEF Start, At, CopyInv, CopyInStep
  <1>3. /\ proc'[p].pc = "main" /\ proc'[p].off = 0 /\ proc'[p].tmp_off = 0
    BY <1>1, <1>2 DEF TypeInv, ProcOK, ProcState
  <1>4. CopyInStep(proc[p])'
    BY <1>3 DEF CopyInStep, CompressPcs
  <1> QED BY <1>4, CopyInvAfter

LEMMA CopyLeave ==
    ASSUME Solo, TypeInv, NEW p \in Procs, Leave(p)
    PROVE  CopyInv'
  <1>1. proc'[p] = Idle
    BY DEF Leave, TypeInv, ProcOK
  <1>2. /\ proc'[p].pc = "idle" /\ proc'[p].off = 0 /\ proc'[p].tmp_off = 0
        /\ proc'[p].argv = NoArgv
    BY <1>1 DEF Idle
  <1>3. CopyInStep(proc[p])'
    BY <1>2 DEF CopyInStep, CompressPcs
  <1> QED BY <1>3, CopyInvAfter

LEMMA CopyMain ==
    ASSUME Solo, TypeInv, CopyInv, NEW p \in Procs,
           MainUsage(p) \/ MainOpen(p)
    PROVE  CopyInv'
  <1> DEFINE argv  == proc[p].argv
             entry == Entry(argv)
  <1>1. CASE MainUsage(p)
    <2>1. /\ proc'[p].pc = "done" /\ proc'[p].argv = argv
          /\ argv.opt \in {"-", "h"}
      BY <1>1 DEF MainUsage, Finish, TypeInv, ProcOK, ProcState
    <2>2. "x" \notin {"-", "h"}
      OBVIOUS
    <2>3. proc'[p].argv.opt # "x" /\ "done" \notin CompressPcs \cup {"idle", "main"}
      BY <2>1, <2>2 DEF CompressPcs
    <2> QED BY <2>1, <2>3, OtherCommand
  <1>2. CASE MainOpen(p)
    <2>1. PICK fd \in OpenResults(DB_FILE) :
          /\ open_db(DB_FILE, FALSE, fd)
          /\ IF fd = NULL
             THEN Finish(p, EXIT_FAIL_DB)
             ELSE proc' = [proc EXCEPT
                     ![p].pc = entry, ![p].fd = fd,
                     ![p].exit_code = IF entry = "done"
                                      THEN EXIT_FAIL_ARGS ELSE EXIT_OK]
      BY <1>2 DEF MainOpen
    <2>2. argv.opt \in AllOpts \ {"-", "h"}
      BY <1>2, OptType DEF MainOpen
    <2>3. CASE fd = NULL
      <3>1. proc'[p].pc = "done" /\ proc'[p].exit_code # EXIT_OK
        BY <2>1, <2>3 DEF Finish, TypeInv, ProcOK, ProcState, EXIT_OK,
                          EXIT_FAIL_DB
      <3> QED BY <3>1, FailedCommand
    <2>4. CASE fd # NULL
      <3> HIDE DEF entry
      <3>1. /\ proc'[p].pc = entry /\ proc'[p].fd = fd /\ proc'[p].argv = argv
            /\ proc'[p].off = proc[p].off /\ proc'[p].tmp_off = proc[p].tmp_off
        BY <2>1, <2>4 DEF TypeInv, ProcOK, ProcState
      <3>2. CASE argv.opt = "x"
        <4>1. entry = "x_open"
          BY <3>2, EntryOfCompress DEF entry
        <4>2. dir'[DB_FILE] = fd
          BY <2>1, <2>4 DEF open_db, TypeInv, DirOK, Names
        <4>3. proc[p].off = 0 /\ proc[p].tmp_off = 0
          BY <1>2 DEF CopyInv, CopyInStep, MainOpen, At
        <4>4. CopyInStep(proc[p])'
          BY <2>4, <3>1, <4>1, <4>2, <4>3 DEF CopyInStep, CompressPcs
        <4> QED BY <4>4, CopyInvAfter
      <3>3. CASE argv.opt # "x"
        <4>1. entry \in {"add_get", "done", "count", "del_get", "find",
                         "print", "zero"}
          BY <2>2, <3>3, EntryValues DEF entry
        <4>2. entry \notin CompressPcs \cup {"idle", "main"}
          BY <4>1 DEF CompressPcs
        <4> QED BY <3>1, <3>3, <4>2, OtherCommand
      <3> QED BY <3>2, <3>3
    <2> QED BY <2>3, <2>4
  <1> QED BY <1>1, <1>2

\* The other commands never come near the labels of a compression.
LEMMA CopyOthers ==
    ASSUME Solo, TypeInv, CopyInv, NEW p \in Procs,
           \/ AddGet(p) \/ AddWrite(p) \/ DelGet(p) \/ DelWrite(p)
           \/ Find(p) \/ CountRead(p) \/ PrintRead(p) \/ ZeroReopen(p)
    PROVE  CopyInv'
  <1>1. proc[p] \in ProcState /\ proc \in [Procs -> ProcState]
    BY DEF TypeInv, ProcOK
  <1>2. proc[p].pc \in {"add_get", "add_write", "del_get", "del_write",
                        "find", "count", "print", "zero"}
    BY DEF AddGet, AddWrite, DelGet, DelWrite, Find, CountRead, PrintRead,
           ZeroReopen, At
  <1>3. proc[p].argv.opt # "x"
    BY <1>2 DEF CopyInv, CopyInStep, CompressPcs
  <1> DEFINE Labels == {"add_write", "del_write", "count", "print", "done"}
             Kept == proc'[p].pc \in Labels /\ proc'[p].argv = proc[p].argv
  <1>4. \A code : Finish(p, code) => Kept
    BY <1>1 DEF Finish, ProcState
  <1>5. \A label \in Labels : Goto(p, label) => Kept
    BY <1>1 DEF Goto, ProcState
  <1>6. Kept
    <2>1. CASE AddGet(p) \/ AddWrite(p) \/ DelGet(p) \/ DelWrite(p)
      BY <1>4, <1>5, <2>1 DEF AddGet, AddWrite, DelGet, DelWrite
    <2>2. CASE Find(p)
      BY <1>1, <1>4, <2>2 DEF Find, ProcState
    <2>3. CASE CountRead(p)
      BY <1>1, <1>4, <2>3 DEF CountRead, At, ProcState
    <2>4. CASE PrintRead(p)
      BY <1>1, <1>4, <2>4 DEF PrintRead, At, ProcState
    <2>5. CASE ZeroReopen(p)
      <3>1. PICK fd \in OpenResults(DB_FILE) :
              proc' = [proc EXCEPT ![p].pc = "done", ![p].fd = fd,
                 ![p].exit_code = IF fd = NULL THEN EXIT_FAIL_DB ELSE EXIT_OK]
        BY <2>5 DEF ZeroReopen
      <3> QED BY <1>1, <3>1 DEF ProcState
    <2> HIDE DEF Kept
    <2> QED BY <2>1, <2>2, <2>3, <2>4, <2>5
  <1>7. proc'[p].pc \notin CompressPcs \cup {"idle", "main"}
    BY <1>6 DEF CompressPcs
  <1> QED BY <1>3, <1>6, <1>7, OtherCommand
\* What a compression may make of the database.
Compressed == Database' = Database \/ Database' = Records(Database)

LEMMA CopyOpen ==
    ASSUME Solo, TypeInv, DistinctInv, CopyInv, NEW p \in Procs,
           CompressOpen(p)
    PROVE  CopyInv' /\ Compressed
  <1>1. PICK fd \in OpenResults(TMP_DB_FILE) :
          /\ open_db(TMP_DB_FILE, TRUE, fd)
          /\ IF fd = NULL
             THEN Finish(p, EXIT_FAIL_DB)
             ELSE proc' = [proc EXCEPT ![p].pc = "x_read", ![p].tmp_fd = fd]
    BY DEF CompressOpen
  <1>2. /\ proc[p].pc = "x_open" /\ proc[p].off = 0 /\ proc[p].tmp_off = 0
        /\ dir[DB_FILE] # NULL /\ proc[p].fd = dir[DB_FILE]
    BY DEF CompressOpen, At, CopyInv, CopyInStep
  <1>3. CASE fd = NULL
    <2>1. proc'[p].pc = "done" /\ proc'[p].exit_code # EXIT_OK
      BY <1>1, <1>3 DEF Finish, TypeInv, ProcOK, ProcState, EXIT_OK, EXIT_FAIL_DB
    <2>2. Database' = Database
      BY <1>1, <1>3 DEF open_db, Database
    <2> QED BY <2>1, <2>2, FailedCommand DEF Compressed
  <1>4. CASE fd # NULL
    <2>1. /\ fd \in Inodes
          /\ \/ fd = dir[TMP_DB_FILE]
             \/ dir[TMP_DB_FILE] = NULL /\ fd \in Unused
      BY <1>1, <1>4, OpenType DEF TypeInv, Names
    <2>2. dir[DB_FILE] # fd
      BY <1>2, <2>1 DEF DistinctInv, TmpNotDatabase, Unused, Linked, Names
    <2>3. dir'[TMP_DB_FILE] = fd /\ dir'[DB_FILE] = dir[DB_FILE]
      BY <1>1, <1>4 DEF open_db, TypeInv, DirOK, Names, DB_FILE, TMP_DB_FILE
    <2>4. disk' = [disk EXCEPT ![fd] = <<>>]
      BY <1>1, <1>4 DEF open_db
    <2>5. disk'[fd] = <<>> /\ disk'[dir[DB_FILE]] = disk[dir[DB_FILE]]
      BY <2>1, <2>2, <2>4 DEF TypeInv, DiskOK
    <2>6. Database' = Database
      BY <1>2, <2>3, <2>5 DEF Database
    <2>7. /\ proc'[p].pc = "x_read" /\ proc'[p].tmp_fd = fd
          /\ proc'[p].off = 0 /\ proc'[p].tmp_off = 0
          /\ proc'[p].fd = proc[p].fd
      BY <1>1, <1>2, <1>4 DEF TypeInv, ProcOK, ProcState
    <2>8. Packed(Database, 0) = <<>> /\ Len(Database) \in Nat
      BY DatabaseIsFile, PackedSteps DEF File
    <2>9. CopyInStep(proc[p])'
      BY <1>2, <1>4, <2>3, <2>5, <2>6, <2>7, <2>8 DEF CopyInStep, CompressPcs
    <2> QED BY <2>6, <2>9, CopyInvAfter DEF Compressed
  <1> QED BY <1>3, <1>4

LEMMA CopyRead ==
    ASSUME Solo, TypeInv, CopyInv, NEW p \in Procs, CompressRead(p)
    PROVE  CopyInv' /\ Compressed
  <1> DEFINE off == proc[p].off
             tmp == proc[p].tmp_fd
  <1>1. PICK fault \in Fault("read") :
          IF ~ReadOne(disk[proc[p].fd], off, fault)
          THEN Goto(p, "x_rename")
          ELSE proc' = [proc EXCEPT
                 ![p].off = Advance(off),
                 ![p].record = disk[proc[p].fd][off + 1],
                 ![p].pc = IF IsStudent(disk[proc[p].fd][off + 1])
                           THEN "x_write" ELSE "x_read"]
    BY DEF CompressRead
  <1>2. proc[p].pc = "x_read" /\ UNCHANGED <<disk, dir>>
    BY DEF CompressRead, At
  <1>3. /\ dir[DB_FILE] # NULL /\ proc[p].fd = dir[DB_FILE]
        /\ dir[TMP_DB_FILE] # NULL /\ tmp = dir[TMP_DB_FILE]
        /\ off <= Len(Database) /\ proc[p].tmp_off = Len(disk[tmp])
        /\ disk[tmp] = Packed(Database, off)
    BY <1>2 DEF CopyInv, CopyInStep
  <1>4. Database \in File /\ Database = disk[proc[p].fd] /\ Database' = Database
    BY <1>2, <1>3, DatabaseIsFile DEF Database
  <1>5. off \in Nat /\ Len(Database) \in Nat
    BY <1>4, RangeAssumption DEF TypeInv, ProcOK, ProcState, File
  <1>6. ReadOne(disk[proc[p].fd], off, fault) <=> off < Len(Database)
    BY <1>4 DEF Solo, Fault, ReadOne
  <1>7. CASE off < Len(Database)
    <2>1. proc' = [proc EXCEPT
                 ![p].off = off + 1,
                 ![p].record = Database[off + 1],
                 ![p].pc = IF Database[off + 1] # EMPTY_STUDENT_RECORD
                           THEN "x_write" ELSE "x_read"]
      BY <1>1, <1>4, <1>6, <1>7 DEF Advance, IsStudent
    <2>2. /\ proc'[p].off = off + 1 /\ proc'[p].record = Database[off + 1]
          /\ proc'[p].pc = IF Database[off + 1] # EMPTY_STUDENT_RECORD
                           THEN "x_write" ELSE "x_read"
          /\ proc'[p].fd = proc[p].fd /\ proc'[p].tmp_fd = tmp
          /\ proc'[p].tmp_off = proc[p].tmp_off
      BY <2>1 DEF TypeInv, ProcOK, ProcState
    <2>3. off + 1 \in 1 .. Len(Database) /\ off + 1 - 1 = off
      BY <1>5, <1>7
    <2>4. Packed(Database, off + 1) =
             IF Database[off + 1] = EMPTY_STUDENT_RECORD
             THEN disk[tmp] ELSE Append(disk[tmp], Database[off + 1])
      BY <1>3, <1>4, <1>5, <1>7, PackedNext, Zenon
    <2>5. /\ proc'[p].fd = dir'[DB_FILE] /\ dir'[DB_FILE] # NULL
          /\ proc'[p].tmp_fd = dir'[TMP_DB_FILE] /\ dir'[TMP_DB_FILE] # NULL
          /\ proc'[p].off <= Len(Database')
          /\ proc'[p].tmp_off = Len(disk'[proc'[p].tmp_fd])
          /\ disk'[proc'[p].tmp_fd] = disk[tmp] /\ Database' = Database
      BY <1>2, <1>3, <1>4, <1>5, <1>7, <2>2
    <2>6. CASE Database[off + 1] = EMPTY_STUDENT_RECORD
      <3>1. proc'[p].pc = "x_read" /\ disk[tmp] = Packed(Database, off + 1)
        BY <2>2, <2>4, <2>6
      <3>2. CopyInStep(proc[p])'
        BY <2>2, <2>5, <3>1 DEF CopyInStep, CompressPcs
      <3> QED BY <1>4, <3>2, CopyInvAfter DEF Compressed
    <2>7. CASE Database[off + 1] # EMPTY_STUDENT_RECORD
      <3>1. /\ proc'[p].pc = "x_write"
            /\ Append(disk[tmp], Database[off + 1]) = Packed(Database, off + 1)
        BY <2>2, <2>4, <2>7
      <3>2. CopyInStep(proc[p])'
        BY <2>2, <2>5, <3>1 DEF CopyInStep, CompressPcs
      <3> QED BY <1>4, <3>2, CopyInvAfter DEF Compressed
    <2> QED BY <2>6, <2>7
  <1>8. CASE ~(off < Len(Database))
    <2>1. Goto(p, "x_rename")
      BY <1>1, <1>6, <1>8
    <2>2. /\ proc'[p].pc = "x_rename" /\ proc'[p].fd = proc[p].fd
          /\ proc'[p].tmp_fd = tmp
      BY <2>1 DEF Goto, TypeInv, ProcOK, ProcState
    <2>3. off = Len(Database)
      BY <1>3, <1>5, <1>8
    <2>4. disk[tmp] = Records(Database)
      BY <1>3, <2>3 DEF Records
    <2>5. CopyInStep(proc[p])'
      BY <1>2, <1>3, <1>4, <2>2, <2>4 DEF CopyInStep, CompressPcs
    <2> QED BY <1>4, <2>5, CopyInvAfter DEF Compressed
  <1> QED BY <1>7, <1>8

LEMMA CopyWrite ==
    ASSUME Solo, TypeInv, DistinctInv, CopyInv, NEW p \in Procs,
           CompressWrite(p)
    PROVE  CopyInv' /\ Compressed
  <1> DEFINE tmp    == proc[p].tmp_fd
             record == proc[p].record
  <1>1. PICK fault \in Fault("write") :
          IF fault
          THEN /\ proc' = [proc EXCEPT ![p].pc = "done", ![p].tmp_fd = NULL,
                                       ![p].exit_code = EXIT_FAIL_DB]
               /\ UNCHANGED disk
          ELSE /\ disk' = [disk EXCEPT ![tmp] =
                             Write(@, proc[p].tmp_off, record)]
               /\ proc' = [proc EXCEPT ![p].pc = "x_read",
                                       ![p].tmp_off = @ + 1]
    BY DEF CompressWrite
  <1>2. proc[p].pc = "x_write" /\ dir' = dir
    BY DEF CompressWrite, At
  <1>3. /\ dir[DB_FILE] # NULL /\ proc[p].fd = dir[DB_FILE]
        /\ dir[TMP_DB_FILE] # NULL /\ tmp = dir[TMP_DB_FILE]
        /\ proc[p].off <= Len(Database) /\ proc[p].tmp_off = Len(disk[tmp])
        /\ Append(disk[tmp], record) = Packed(Database, proc[p].off)
    BY <1>2 DEF CopyInv, CopyInStep
  <1>4. CASE fault
    <2>1. proc'[p].pc = "done" /\ proc'[p].exit_code # EXIT_OK
      BY <1>1, <1>4 DEF TypeInv, ProcOK, ProcState, EXIT_OK, EXIT_FAIL_DB
    <2>2. Database' = Database
      BY <1>1, <1>2, <1>4 DEF Database
    <2> QED BY <2>1, <2>2, FailedCommand DEF Compressed
  <1>5. CASE ~fault
    <2>1. tmp \in Inodes /\ disk[tmp] \in File /\ record \in student_t
      BY <1>2, <1>3 DEF TypeInv, DirOK, DiskOK, Names, ProcOK, ProcState
    <2>2. disk' = [disk EXCEPT ![tmp] = Append(disk[tmp], record)]
      BY <1>1, <1>3, <1>5, <2>1, WriteAtEnd
    <2>3. /\ disk'[tmp] = Append(disk[tmp], record)
          /\ disk'[dir[DB_FILE]] = disk[dir[DB_FILE]]
      BY <1>2, <1>3, <2>1, <2>2
      DEF TypeInv, DiskOK, DistinctInv, TmpNotDatabase
    <2>4. Database' = Database
      BY <1>2, <1>3, <2>3 DEF Database
    <2>5. /\ proc'[p].pc = "x_read" /\ proc'[p].tmp_off = proc[p].tmp_off + 1
          /\ proc'[p].fd = proc[p].fd /\ proc'[p].tmp_fd = tmp
          /\ proc'[p].off = proc[p].off
      BY <1>1, <1>5 DEF TypeInv, ProcOK, ProcState
    <2>6. Len(Append(disk[tmp], record)) = Len(disk[tmp]) + 1
      BY <2>1 DEF File
    <2>7. CopyInStep(proc[p])'
      BY <1>2, <1>3, <2>3, <2>4, <2>5, <2>6 DEF CopyInStep, CompressPcs
    <2> QED BY <2>4, <2>7, CopyInvAfter DEF Compressed
  <1>6. fault \in BOOLEAN
    BY FaultType
  <1> QED BY <1>4, <1>5, <1>6

LEMMA CopyRename ==
    ASSUME Solo, TypeInv, CopyInv, NEW p \in Procs, CompressRename(p)
    PROVE  CopyInv' /\ Compressed
  <1>1. PICK fault \in Fault("rename") :
          LET ok == ~fault /\ dir[TMP_DB_FILE] # NULL
          IN  /\ dir' = IF ok THEN renamed ELSE dir
              /\ proc' = [proc EXCEPT
                    ![p].fd = NULL, ![p].tmp_fd = NULL,
                    ![p].pc = IF ok THEN "x_reopen" ELSE "done",
                    ![p].exit_code = IF ok THEN EXIT_OK ELSE EXIT_FAIL_DB]
    BY DEF CompressRename
  <1>2. proc[p].pc = "x_rename" /\ disk' = disk
    BY DEF CompressRename, At
  <1>3. /\ dir[DB_FILE] # NULL /\ dir[TMP_DB_FILE] # NULL
        /\ disk[dir[TMP_DB_FILE]] = Records(Database)
    BY <1>2 DEF CopyInv, CopyInStep
  <1>4. CASE fault
    <2>1. proc'[p].pc = "done" /\ proc'[p].exit_code # EXIT_OK
      BY <1>1, <1>4 DEF TypeInv, ProcOK, ProcState, EXIT_OK, EXIT_FAIL_DB
    <2>2. Database' = Database
      BY <1>1, <1>2, <1>4 DEF Database
    <2> QED BY <2>1, <2>2, FailedCommand DEF Compressed
  <1>5. CASE ~fault
    <2>1. dir'[DB_FILE] = dir[TMP_DB_FILE]
      BY <1>1, <1>3, <1>5
      DEF renamed, TypeInv, DirOK, Names, DB_FILE, TMP_DB_FILE
    <2>2. Database' = Records(Database)
      BY <1>2, <1>3, <2>1 DEF Database
    <2>3. Records(Database') = Database'
      BY <2>2, DatabaseIsFile, RecordsTwice
    <2>4. proc'[p].pc = "x_reopen"
      BY <1>1, <1>3, <1>5 DEF TypeInv, ProcOK, ProcState
    <2>5. CopyInStep(proc[p])'
      <3>1. Records(Database)' = Records(Database')
        BY DEF Records, Packed
      <3> QED BY <1>3, <2>1, <2>3, <2>4, <3>1 DEF CopyInStep, CompressPcs
    <2> QED BY <2>2, <2>5, CopyInvAfter DEF Compressed
  <1>6. fault \in BOOLEAN
    BY FaultType
  <1> QED BY <1>4, <1>5, <1>6

LEMMA CopyReopen ==
    ASSUME Solo, TypeInv, CopyInv, NEW p \in Procs, CompressReopen(p)
    PROVE  CopyInv' /\ Compressed
  <1>1. PICK fd \in OpenResults(DB_FILE) :
          /\ open_db(DB_FILE, FALSE, fd)
          /\ proc' = [proc EXCEPT ![p].pc = "done", ![p].fd = fd,
                ![p].exit_code = IF fd = NULL THEN EXIT_FAIL_DB ELSE EXIT_OK]
    BY DEF CompressReopen
  <1>2. dir[DB_FILE] # NULL /\ Database = Records(Database)
    BY DEF CompressReopen, At, CopyInv, CopyInStep
  <1>3. fd = NULL \/ fd = dir[DB_FILE]
    BY <1>2 DEF OpenResults
  <1>4. disk' = disk /\ dir'[DB_FILE] = dir[DB_FILE]
    BY <1>1, <1>2, <1>3 DEF open_db, TypeInv, DirOK, Names
  <1>5. Database' = Database
    BY <1>4 DEF Database
  <1>6. proc'[p].pc = "done"
    BY <1>1 DEF TypeInv, ProcOK, ProcState
  <1>7. CopyInStep(proc[p])'
    <2>1. Records(Database)' = Records(Database')
      BY DEF Records, Packed
    <2> QED BY <1>2, <1>5, <1>6, <2>1 DEF CopyInStep, CompressPcs
  <1> QED BY <1>5, <1>7, CopyInvAfter DEF Compressed

LEMMA CopyCompress ==
    ASSUME Solo, TypeInv, DistinctInv, CopyInv, NEW p \in Procs, Compress(p)
    PROVE  CopyInv' /\ Compressed
  BY CopyOpen, CopyRead, CopyWrite, CopyRename, CopyReopen DEF Compress

LEMMA CopyInvNext ==
    ASSUME Solo
    PROVE  /\ Init => CopyInv
           /\ TypeInv /\ DistinctInv /\ CopyInv /\ [Next]_vars => CopyInv'
  <1>1. ASSUME Init
        PROVE  CopyInv
    <2>1. /\ Idle.pc = "idle" /\ Idle.off = 0 /\ Idle.tmp_off = 0
          /\ Idle.argv = NoArgv
      BY DEF Idle
    <2>2. CopyInStep(Idle)
      BY <2>1 DEF CopyInStep, CompressPcs
    <2> QED BY <1>1, <2>2 DEF Init, CopyInv
  <1>2. ASSUME TypeInv, DistinctInv, CopyInv, [Next]_vars
        PROVE  CopyInv'
    <2>1. CASE UNCHANGED vars
      <3>1. Database' = Database
        BY <2>1 DEF vars, Database
      <3> QED BY <1>2, <2>1, <3>1 DEF vars, CopyInv, CopyInStep
    <2>2. CASE Next
      BY <1>2, <2>2, CopyStart, CopyLeave, CopyMain, CopyOthers, CopyCompress
      DEF Next, Run, Exit, Crash
    <2> QED BY <1>2, <2>1, <2>2
  <1> QED BY <1>1, <1>2

LEMMA CopyInvariant ==
    ASSUME Solo
    PROVE  Spec => [](TypeInv /\ DistinctInv /\ CopyInv)
  <1>1. Init => DistinctInv
    BY DEF Init, DistinctInv, TmpNotDatabase, TmpNotRead, FilesDistinct, Idle,
           Names
  <1> QED BY <1>1, DistinctInvNext, CopyInvNext, TypeInvariant, PTL DEF Spec

\* A compression that reports success has packed the database.
THEOREM CompressionPacks ==
    ASSUME Solo
    PROVE  Spec => []CompressPacks
  <1>1. CopyInv => CompressPacks
    BY DEF CopyInv, CopyInStep, CompressPacks, At
  <1> QED BY <1>1, CopyInvariant, PTL

\* The files a process that ends leaves behind.
LEMMA LeaveKeeps ==
    ASSUME TypeInv, NEW p \in Procs, Leave(p)
    PROVE  Database' = Database
  <1>1. ASSUME dir[DB_FILE] # NULL
        PROVE  disk'[dir[DB_FILE]] = disk[dir[DB_FILE]]
    <2>1. dir[DB_FILE] \in Inodes /\ Linked(dir[DB_FILE])
      BY <1>1, DatabaseIsFile DEF Names, Linked
    <2> QED BY <2>1 DEF Leave
  <1> QED BY <1>1 DEF Leave, Database

\* Whatever a compression does, fails to do, or leaves undone when it is
\* killed: the database holds the same students in the same order.
THEOREM CompressionKeeps ==
    ASSUME Solo
    PROVE  Spec => CompressKeepsStudents
  <1> DEFINE Kept == \A p \in Procs :
                        (proc[p].pc \in CompressPcs /\ proc'[p] # proc[p])
                            => Records(Database') = Records(Database)
  <1>1. TypeInv /\ DistinctInv /\ CopyInv /\ [Next]_vars => [Kept]_vars
    <2> SUFFICES ASSUME TypeInv, DistinctInv, CopyInv, Next,
                        NEW p \in Procs, proc[p].pc \in CompressPcs
                 PROVE  Records(Database') = Records(Database)
      OBVIOUS
    <2>1. PICK q \in Procs : Start(q) \/ Run(q) \/ Crash(q)
      BY DEF Next
    <2>2. q = p
      BY DEF Solo
    <2>3. Compress(p) \/ Crash(p)
      BY <2>1, <2>2 DEF Start, Run, MainUsage, MainOpen, AddGet, AddWrite,
         DelGet, DelWrite, Find, CountRead, PrintRead, ZeroReopen, Exit, At,
         CompressPcs
    <2>4. Database' = Database \/ Database' = Records(Database)
      BY <2>3, CopyCompress, LeaveKeeps DEF Compressed, Crash
    <2> QED BY <2>4, DatabaseIsFile, RecordsTwice
  <1> QED BY <1>1, CopyInvariant, PTL DEF CompressKeepsStudents, Spec
----------------------------------------------------------------------------
(* Where the students of the database come from. *)

\* Every student of the one file is in the other.
Within(new, old) == \A k \in 1 .. Len(new) : new[k] # EMPTY_STUDENT_RECORD =>
                        \E j \in 1 .. Len(old) : old[j] = new[k]

\* A student is new only if its record is.
LEMMA StoredWithin ==
    ASSUME Within(Database', Database), NEW id \in 1 .. MAX_STD_ID, Stored(id)'
    PROVE  Stored(id)
  <1>1. PICK k \in 1 .. Len(Database') : Database'[k].id = id
    BY DEF Stored
  <1>2. Database'[k] # EMPTY_STUDENT_RECORD
    BY <1>1 DEF EMPTY_STUDENT_RECORD
  <1> QED BY <1>1, <1>2 DEF Within, Stored

LEMMA SameWithin ==
    ASSUME Database' = Database
    PROVE  Within(Database', Database)
  BY DEF Within

\* Opening the database, to empty it or not.
LEMMA OpenWithin ==
    ASSUME TypeInv, NEW trunc \in BOOLEAN, NEW fd \in OpenResults(DB_FILE),
           open_db(DB_FILE, trunc, fd)
    PROVE  Within(Database', Database)
  <1>1. CASE fd = NULL
    <2>1. Database' = Database
      BY <1>1 DEF open_db, Database
    <2> QED BY <2>1, SameWithin
  <1>2. CASE fd # NULL
    <2>1. /\ fd \in Inodes
          /\ dir[DB_FILE] # NULL => fd = dir[DB_FILE]
      BY <1>2, OpenType DEF TypeInv, Names
    <2>2. dir'[DB_FILE] = fd
      BY <1>2 DEF open_db, TypeInv, DirOK, Names
    <2>3. Database' = disk'[fd]
      BY <1>2, <2>2 DEF Database
    <2>4. CASE trunc \/ dir[DB_FILE] = NULL
      <3>1. disk'[fd] = <<>>
        BY <1>2, <2>1, <2>4 DEF open_db, TypeInv, DiskOK
      <3> QED BY <2>3, <3>1 DEF Within
    <2>5. CASE ~(trunc \/ dir[DB_FILE] = NULL)
      <3>1. Database' = Database
        BY <1>2, <2>1, <2>3, <2>5 DEF open_db, Database
      <3> QED BY <3>1, SameWithin
    <2> QED BY <2>4, <2>5
  <1> QED BY <1>1, <1>2

\* The write of one record puts nothing else into the database.
LEMMA WriteWithin ==
    ASSUME TypeInv, NEW i \in Inodes, NEW slot \in 0 .. MAX_STD_ID,
           NEW record \in student_t,
           disk' = [disk EXCEPT ![i] = Write(@, slot, record)], dir' = dir
    PROVE  \A k \in 1 .. Len(Database') :
              Database'[k] \notin {EMPTY_STUDENT_RECORD, record} =>
                  \E j \in 1 .. Len(Database) : Database[j] = Database'[k]
  <1>1. disk \in [Inodes -> {f \in File : Len(f) <= MAX_STD_ID + 1}]
    BY DEF TypeInv, DiskOK
  <1>2. CASE dir[DB_FILE] = i
    <2>1. i # NULL
      BY NullAssumption
    <2>2. Database = disk[i] /\ Database' = Write(disk[i], slot, record)
      BY <1>1, <1>2, <2>1 DEF Database
    <2> DEFINE new == Write(disk[i], slot, record)
    <2>3. \A k \in 1 .. Len(new) :
             \/ k = slot + 1 /\ new[k] = record
             \/ k <= Len(disk[i]) /\ new[k] = disk[i][k]
             \/ new[k] = EMPTY_STUDENT_RECORD
      BY <1>1, WriteType
    <2>4. Len(new) \in Nat /\ Len(disk[i]) \in Nat
      BY <1>1, WriteType DEF File
    <2> HIDE DEF new
    <2> QED BY <2>2, <2>3, <2>4 DEF new
  <1>3. CASE dir[DB_FILE] # i
    <2>1. Database' = Database
      BY <1>1, <1>3, DatabaseIsFile DEF Database
    <2> QED BY <2>1
  <1> QED BY <1>2, <1>3

\* Nor does the write of an empty record.
LEMMA EraseWithin ==
    ASSUME TypeInv, NEW i \in Inodes, NEW slot \in 0 .. MAX_STD_ID,
           disk' = [disk EXCEPT ![i] = Write(@, slot, EMPTY_STUDENT_RECORD)],
           dir' = dir
    PROVE  Within(Database', Database)
  <1>1. EMPTY_STUDENT_RECORD \in student_t
    BY RangeAssumption DEF EMPTY_STUDENT_RECORD, student_t
  <1>2. \A k \in 1 .. Len(Database') :
           Database'[k] \notin {EMPTY_STUDENT_RECORD, EMPTY_STUDENT_RECORD} =>
               \E j \in 1 .. Len(Database) : Database[j] = Database'[k]
    BY <1>1, WriteWithin
  <1> QED BY <1>2 DEF Within

\* No step but an addition stores a student, if compressions keep them.
LEMMA AddsOnly ==
    ASSUME TypeInv, NEW p \in Procs, Start(p) \/ Run(p) \/ Crash(p),
           Compress(p) => Within(Database', Database),
           NEW id \in 1 .. MAX_STD_ID, ~Stored(id), Stored(id)'
    PROVE  AddWrite(p) /\ proc[p].argv.id = id
  <1>1. ~Within(Database', Database)
    BY StoredWithin
  <1>2. Database' # Database
    BY <1>1, SameWithin
  <1>3. ~(UNCHANGED <<disk, dir>>)
    BY <1>2 DEF Database
  <1>4. ~Exit(p) /\ ~Crash(p)
    BY <1>2, LeaveKeeps DEF Exit, Crash
  <1>5. ~MainOpen(p) /\ ~ZeroReopen(p)
    BY <1>1, OpenWithin DEF MainOpen, ZeroReopen
  <1>6. AddWrite(p) \/ DelWrite(p)
    BY <1>1, <1>3, <1>4, <1>5 DEF Run, Start, MainUsage, AddGet, DelGet, Find,
                                  CountRead, PrintRead
  <1>7. proc[p] \in ProcState /\ LocalOK(proc[p])
    BY DEF TypeInv, ProcOK
  <1>8. PICK k \in 1 .. Len(Database') : Database'[k].id = id
    BY DEF Stored
  <1>9. /\ Database'[k] # EMPTY_STUDENT_RECORD
        /\ ~\E j \in 1 .. Len(Database) : Database[j] = Database'[k]
    BY <1>8 DEF EMPTY_STUDENT_RECORD, Stored
  <1>10. ~DelWrite(p)
    <2> SUFFICES ASSUME DelWrite(p)
                 PROVE  FALSE
      OBVIOUS
    <2> DEFINE i    == proc[p].fd
               slot == Slot(proc[p].argv.id)
    <2>1. i \in Inodes /\ slot \in 0 .. MAX_STD_ID
      BY <1>7, RangeAssumption DEF DelWrite, At, LocalOK, UsesFd
    <2>2. /\ disk' = [disk EXCEPT ![i] = Write(@, slot, EMPTY_STUDENT_RECORD)]
          /\ dir' = dir
      BY <1>3 DEF DelWrite
    <2> HIDE DEF i, slot
    <2> QED BY <1>1, <2>1, <2>2, EraseWithin
  <1>11. ASSUME AddWrite(p)
         PROVE  proc[p].argv.id = id
    <2> DEFINE record == [id |-> proc[p].argv.id, gpa |-> proc[p].argv.gpa]
    <2>1. /\ proc[p].fd \in Inodes
          /\ proc[p].argv.id \in 1 .. MAX_STD_ID
          /\ proc[p].argv.gpa \in 0 .. MAX_STD_GPA
      BY <1>7, <1>11 DEF AddWrite, At, LocalOK, UsesFd
    <2>2. record \in student_t /\ Slot(proc[p].argv.id) \in 0 .. MAX_STD_ID
          /\ record.id = proc[p].argv.id
      BY <2>1, SlotInRange DEF student_t
    <2>3. /\ disk' = [disk EXCEPT ![proc[p].fd] =
                Write(@, Slot(proc[p].argv.id), record)]
          /\ dir' = dir
      BY <1>3, <1>11 DEF AddWrite
    <2> HIDE DEF record
    <2>4. Database'[k] = record
      BY <1>9, <2>1, <2>2, <2>3, WriteWithin
    <2> QED BY <1>8, <2>2, <2>4
  <1> QED BY <1>6, <1>10, <1>11

\* A student appears in the database by its own addition only, whatever a
\* compression finds of one that failed or was killed; with several processes,
\* as long as none compresses.
THEOREM AdditionsOnly ==
    ASSUME Solo \/ "x" \notin Opts
    PROVE  Spec => OnlyAddStores
  <1> DEFINE Added == \A id \in 1 .. MAX_STD_ID :
                        (~Stored(id) /\ Stored(id)')
                            => \E p \in Procs : AddWrite(p) /\ proc[p].argv.id = id
  <1>1. CASE Solo
    <2>1. TypeInv /\ DistinctInv /\ CopyInv /\ [Next]_vars => [Added]_vars
      <3> SUFFICES ASSUME TypeInv, DistinctInv, CopyInv, Next,
                          NEW id \in 1 .. MAX_STD_ID, ~Stored(id), Stored(id)'
                   PROVE  \E p \in Procs : AddWrite(p) /\ proc[p].argv.id = id
        OBVIOUS
      <3>1. PICK p \in Procs : Start(p) \/ Run(p) \/ Crash(p)
        BY DEF Next
      <3>2. ASSUME Compress(p)
            PROVE  Within(Database', Database)
        <4>1. Database \in File /\ Len(Database) \in 0 .. Len(Database)
          BY DatabaseIsFile DEF File
        <4>2. Within(Records(Database), Database)
          BY <4>1, PackedType DEF Within, Records
        <4>3. Database' = Database \/ Database' = Records(Database)
          BY <1>1, <3>2, CopyCompress DEF Compressed
        <4> QED BY <4>2, <4>3, SameWithin
      <3> QED BY <3>1, <3>2, AddsOnly
    <2> QED BY <1>1, <2>1, CopyInvariant, PTL DEF OnlyAddStores, Spec
  <1>2. CASE "x" \notin Opts
    <2>1. TypeInv /\ PlaceInv /\ [Next]_vars => [Added]_vars
      <3> SUFFICES ASSUME TypeInv, PlaceInv, Next,
                          NEW id \in 1 .. MAX_STD_ID, ~Stored(id), Stored(id)'
                   PROVE  \E p \in Procs : AddWrite(p) /\ proc[p].argv.id = id
        OBVIOUS
      <3>1. PICK p \in Procs : Start(p) \/ Run(p) \/ Crash(p)
        BY DEF Next
      <3>2. ~Compress(p)
        BY <1>2, <3>1, PlaceProc
      <3> QED BY <3>1, <3>2, AddsOnly
    <2> QED BY <1>2, <2>1, PlaceInvariant, PTL DEF OnlyAddStores, Spec
  <1> QED BY <1>1, <1>2
----------------------------------------------------------------------------
\* One process at a time; no -x; no system call fails, and the file system
\* has room for the database; no id is typed whose offset wraps.
Alone == /\ \A p, q \in Procs : p = q
         /\ "x" \notin Opts
         /\ IOFaults = {} /\ Inodes # {}
         /\ \A id \in IdArgs : Slot(id) = id

\* The students a file holds before an offset, and their records.
Before(file, off) == {k \in 1 .. MAX_STD_ID :
                        k < off /\ k < Len(file)
                          /\ file[k + 1] # EMPTY_STUDENT_RECORD}
Listed(file, off) == {file[k + 1] : k \in Before(file, off)}

\* The labels of the processes that have the database open.
Working == {"add_get", "add_write", "del_get", "del_write", "find", "count",
            "print", "zero"}

\* What a process has done of its command, of the database at hand.
InStep(s, file) ==
    /\ s.pc = "idle" => s = Idle
    /\ s.pc = "main" => s.fd = NULL /\ s.tmp_fd = NULL /\ s.off = 0
    /\ s.pc \in {"add_get", "add_write"} => s.argv.opt = "a"
    /\ s.pc \in {"del_get", "del_write"} => s.argv.opt = "d"
    /\ s.pc = "find"  => s.argv.opt = "f" /\ s.exit_code = EXIT_OK
    /\ s.pc = "count" => /\ s.argv.opt = "c"
                         /\ s.count = Cardinality(Before(file, s.off))
    /\ s.pc = "print" => /\ s.argv.opt = "p"
                         /\ s.seen = Listed(file, s.off)
    /\ s.pc = "zero"  => s.argv.opt = "z"
    /\ s.pc \notin {"count", "done"} => s.count = 0
    /\ s.pc \notin {"print", "done"} => s.seen = {}
    /\ s.pc = "add_write" => s.argv.id \notin Before(file, Len(file))
    /\ s.pc = "del_write" => s.argv.id \in Before(file, Len(file))

\* The temporary file does not exist, no student has the slot of id 0, and a
\* process that works has the database open.
StoreInv == /\ dir[TMP_DB_FILE] = NULL
            /\ Len(Database) > 0 => Database[1] = EMPTY_STUDENT_RECORD
            /\ \A p \in Procs :
                 /\ InStep(proc[p], Database)
                 /\ proc[p].pc \in Working =>
                      dir[DB_FILE] # NULL /\ proc[p].fd = dir[DB_FILE]

Inv == TypeInv /\ PlaceInv /\ StoreInv
----------------------------------------------------------------------------
(* The refinement mapping. *)

\* What StudentDBMap makes of the state of one process.
CallOf(s) ==
    [phase |-> CASE s.pc = "idle" -> "idle" [] s.pc = "done" -> "done"
                 [] OTHER -> "pending",
     argv  |-> s.argv,
     exit  |-> IF s.pc = "done" THEN s.exit_code ELSE 0,
     seen  |-> IF s.pc = "done" THEN s.seen ELSE {},
     count |-> IF s.pc = "done" THEN s.count ELSE 0]

LEMMA CallOfPhases ==
    ASSUME NEW s
    PROVE  /\ s.pc = "idle" => CallOf(s) = [phase |-> "idle", argv |-> s.argv,
                                 exit |-> 0, seen |-> {}, count |-> 0]
           /\ s.pc = "done" => CallOf(s) = [phase |-> "done", argv |-> s.argv,
                                 exit |-> s.exit_code, seen |-> s.seen,
                                 count |-> s.count]
           /\ s.pc \notin {"idle", "done"} =>
                CallOf(s) = [phase |-> "pending", argv |-> s.argv,
                             exit |-> 0, seen |-> {}, count |-> 0]
  <1>1. s.pc = "idle" => CallOf(s) = [phase |-> "idle", argv |-> s.argv,
                                 exit |-> 0, seen |-> {}, count |-> 0]
    BY Zenon DEF CallOf
  <1>2. s.pc = "done" => CallOf(s) = [phase |-> "done", argv |-> s.argv,
                                 exit |-> s.exit_code, seen |-> s.seen,
                                 count |-> s.count]
    BY Zenon DEF CallOf
  <1>3. ASSUME s.pc # "idle", s.pc # "done"
        PROVE  CallOf(s) = [phase |-> "pending", argv |-> s.argv,
                            exit |-> 0, seen |-> {}, count |-> 0]
    BY <1>3, Zenon DEF CallOf
  <1> QED BY <1>1, <1>2, <1>3

LEMMA CallStep ==
    ASSUME Alone, NEW p \in Procs
    PROVE  /\ call = [q \in Procs |-> CallOf(proc[p])]
           /\ call' = [q \in Procs |-> CallOf(proc'[p])]
           /\ call[p] = CallOf(proc[p])
           /\ \A q \in Procs : q = p
  <1>1. call = [q \in Procs |-> CallOf(proc[q])]
    BY Zenon DEF call, CallOf, At
  <1>2. call' = [q \in Procs |-> CallOf(proc'[q])]
    BY Zenon DEF call, CallOf, At
  <1>3. \A q \in Procs : q = p
    BY DEF Alone
  <1> QED BY <1>1, <1>2, <1>3

LEMMA SameValue ==
    ASSUME NEW a, NEW b, a = b
    PROVE  [q \in Procs |-> a] = [q \in Procs |-> b]
  OBVIOUS

LEMMA StoreValues ==
    /\ DOMAIN store = Before(Database, Len(Database))
    /\ \A i \in DOMAIN store : store[i] = Database[i + 1].gpa
    /\ store = [i \in Before(Database, Len(Database)) |-> Database[i + 1].gpa]
  <1>1. StoredIds = Before(Database, Len(Database))
    BY DEF StoredIds, Before
  <1> QED BY <1>1 DEF store

LEMMA SameStore ==
    ASSUME Database' = Database
    PROVE  store' = store
  BY DEF store, StoredIds

\* A student is stored under its id.
LEMMA StoredRecord ==
    ASSUME NEW file \in File, InPlace(file), NEW off,
           NEW i \in Before(file, off)
    PROVE  file[i + 1] = [id |-> i, gpa |-> file[i + 1].gpa]
  <1>1. /\ i \in 1 .. MAX_STD_ID /\ i < Len(file)
        /\ file[i + 1] # EMPTY_STUDENT_RECORD
    BY DEF Before
  <1>2. i + 1 \in 1 .. Len(file) /\ Len(file) \in Nat
    BY <1>1 DEF File
  <1>3. file[i + 1] \in student_t /\ file[i + 1].id = i
    <2>1. file[i + 1].id = i + 1 - 1
      BY <1>1, <1>2 DEF InPlace
    <2>2. file[i + 1] \in student_t
      BY <1>2 DEF File
    <2> QED BY <1>1, <2>1, <2>2
  <1> QED BY <1>3 DEF student_t

\* A process that works has the database open.
LEMMA AtHand ==
    ASSUME Inv, NEW p \in Procs, proc[p].pc \in Working
    PROVE  /\ proc[p].fd \in Inodes /\ proc[p].fd = dir[DB_FILE]
           /\ dir[DB_FILE] # NULL
           /\ Database = disk[proc[p].fd]
           /\ Database \in File /\ Len(Database) <= MAX_STD_ID + 1
           /\ InPlace(Database)
  <1>1. dir[DB_FILE] # NULL /\ proc[p].fd = dir[DB_FILE]
    BY DEF Inv, StoreInv
  <1>2. proc[p].fd \in Inodes
    BY <1>1 DEF Inv, TypeInv, DirOK, Names
  <1>3. Database = disk[proc[p].fd]
    BY <1>1 DEF Database
  <1> QED BY <1>1, <1>2, <1>3 DEF Inv, TypeInv, DiskOK, PlaceInv

LEMMA DatabaseType ==
    ASSUME Inv
    PROVE  /\ Database \in File /\ Len(Database) <= MAX_STD_ID + 1
           /\ InPlace(Database)
  <1>1. CASE dir[DB_FILE] = NULL
    <2>1. Database = <<>>
      BY <1>1 DEF Database
    <2> QED BY <2>1, RangeAssumption DEF File, InPlace
  <1>2. CASE dir[DB_FILE] # NULL
    <2>1. dir[DB_FILE] \in Inodes
      BY <1>2 DEF Inv, TypeInv, DirOK, Names
    <2>2. Database = disk[dir[DB_FILE]]
      BY <1>2 DEF Database
    <2> QED BY <2>1, <2>2 DEF Inv, TypeInv, DiskOK, PlaceInv
  <1> QED BY <1>1, <1>2

\* get_student() finds the students of the map.
LEMMA FindsStored ==
    ASSUME Alone, Inv, NEW p \in Procs, NEW fault \in Fault("read")
    PROVE  LET id == proc[p].argv.id IN
           /\ fault = FALSE
           /\ Slot(id) = id
           /\ get_student(Database, id, fault) = NO_ERROR
                <=> id \in Before(Database, Len(Database))
  <1> DEFINE id == proc[p].argv.id
  <1>1. fault = FALSE
    BY DEF Alone, Fault
  <1>2. Slot(id) = id /\ id \in Int
    BY SlotOfArgv, ArgvType DEF Alone, Inv, TypeInv
  <1>3. /\ Database \in File /\ Len(Database) <= MAX_STD_ID + 1
        /\ Len(Database) \in Nat
    BY DatabaseType DEF File
  <1>4. Len(Database) > 0 => Database[1] = EMPTY_STUDENT_RECORD
    BY DEF Inv, StoreInv
  <1> HIDE DEF id
  <1>5. get_student(Database, id, fault) = NO_ERROR <=>
          /\ ~(id < 0) /\ ~(id >= Len(Database))
          /\ Database[id + 1] # EMPTY_STUDENT_RECORD
    BY <1>1, <1>2
    DEF get_student, IsStudent, NO_ERROR, ERR_DB_FILE, SRCH_NOT_FOUND
  <1>6. id \in Before(Database, Len(Database)) <=>
          /\ id \in 1 .. MAX_STD_ID /\ id < Len(Database)
          /\ Database[id + 1] # EMPTY_STUDENT_RECORD
    BY DEF Before
  <1>7. id = 0 /\ id < Len(Database) => Database[id + 1] = EMPTY_STUDENT_RECORD
    BY <1>3, <1>4
  <1>8. get_student(Database, id, fault) = NO_ERROR
          <=> id \in Before(Database, Len(Database))
    BY <1>2, <1>3, <1>5, <1>6, <1>7, RangeAssumption
  <1> QED BY <1>1, <1>2, <1>8 DEF id

\* The students of a file after a write to the slot of an id.
LEMMA WriteStores ==
    ASSUME NEW file \in File, Len(file) <= MAX_STD_ID + 1,
           NEW id \in 1 .. MAX_STD_ID, NEW record \in student_t
    PROVE  LET new  == Write(file, id, record)
               kept == Before(file, Len(file)) \ {id}
           IN  /\ Before(new, Len(new)) =
                    IF record = EMPTY_STUDENT_RECORD THEN kept
                                                     ELSE kept \cup {id}
               /\ new[id + 1] = record
               /\ \A k \in kept : new[k + 1] = file[k + 1]
               /\ Len(new) > 0
               /\ (Len(file) > 0 => file[1] = EMPTY_STUDENT_RECORD)
                    => new[1] = EMPTY_STUDENT_RECORD
  <1> DEFINE new  == Write(file, id, record)
             kept == Before(file, Len(file)) \ {id}
             n    == IF id < Len(file) THEN Len(file) ELSE id + 1
             e(j) == IF j = id + 1 THEN record
                     ELSE IF j <= Len(file) THEN file[j]
                     ELSE EMPTY_STUDENT_RECORD
  <1>1. Len(file) \in Nat /\ n \in Nat /\ id + 1 \in 1 .. n /\ Len(file) <= n
        /\ n > 0
    BY RangeAssumption DEF File
  <1>2. new = [j \in 1 .. n |-> e(j)]
    BY DEF Write
  <1>3. \A j \in 1 .. n : e(j) = IF j = id + 1 THEN record
                                 ELSE IF j <= Len(file) THEN file[j]
                                 ELSE EMPTY_STUDENT_RECORD
    OBVIOUS
  <1> HIDE DEF new, n, e
  <1>4. Len(new) = n /\ \A j \in 1 .. n : new[j] = e(j)
    BY <1>1, <1>2
  <1>5. \A k \in 1 .. MAX_STD_ID : k < n =>
           new[k + 1] = IF k = id THEN record
                        ELSE IF k < Len(file) THEN file[k + 1]
                        ELSE EMPTY_STUDENT_RECORD
    <2> SUFFICES ASSUME NEW k \in 1 .. MAX_STD_ID, k < n
                 PROVE  new[k + 1] = IF k = id THEN record
                                     ELSE IF k < Len(file) THEN file[k + 1]
                                     ELSE EMPTY_STUDENT_RECORD
      OBVIOUS
    <2>1. k + 1 \in 1 .. n /\ (k + 1 = id + 1 <=> k = id)
          /\ (k + 1 <= Len(file) <=> k < Len(file))
      BY <1>1, RangeAssumption
    <2> QED BY <1>3, <1>4, <2>1
  <1>6. \A k \in kept : k \in 1 .. MAX_STD_ID /\ k # id /\ k < Len(file)
                        /\ k < n /\ file[k + 1] # EMPTY_STUDENT_RECORD
    BY <1>1, RangeAssumption DEF Before
  <1>7. id < n /\ new[id + 1] = record
    BY <1>1, <1>5
  <1>8. \A k \in kept : new[k + 1] = file[k + 1]
    BY <1>5, <1>6
  <1>9. \A k : k \in Before(new, Len(new)) <=>
                 k \in IF record = EMPTY_STUDENT_RECORD THEN kept
                                                        ELSE kept \cup {id}
    <2>1. \A k : k \in Before(new, Len(new)) <=>
             k \in 1 .. MAX_STD_ID /\ k < n
               /\ new[k + 1] # EMPTY_STUDENT_RECORD
      BY <1>4 DEF Before
    <2>2. \A k : k \in Before(file, Len(file)) <=>
             k \in 1 .. MAX_STD_ID /\ k < Len(file)
               /\ file[k + 1] # EMPTY_STUDENT_RECORD
      BY DEF Before
    <2> QED BY <1>1, <1>5, <1>6, <1>7, <2>1, <2>2
  <1>10. ASSUME Len(file) > 0 => file[1] = EMPTY_STUDENT_RECORD
         PROVE  new[1] = EMPTY_STUDENT_RECORD
    <2>1. 1 \in 1 .. n /\ 1 # id + 1
      BY <1>1
    <2> QED BY <1>1, <1>3, <1>4, <1>10, <2>1
  <1>11. Before(new, Len(new)) =
            IF record = EMPTY_STUDENT_RECORD THEN kept ELSE kept \cup {id}
    BY <1>9
  <1> QED BY <1>1, <1>4, <1>7, <1>8, <1>10, <1>11 DEF new
----------------------------------------------------------------------------
(* The kinds of steps of the specification that the program's steps map to. *)

\* A step in which nobody starts, ends or answers a command.
LEMMA Stutters ==
    ASSUME Alone, NEW p \in Procs, Database' = Database,
           proc[p].pc \notin {"idle", "done"},
           proc'[p].pc \notin {"idle", "done"},
           proc'[p].argv = proc[p].argv
    PROVE  [Store!Next]_(Store!svars)
  <1>1. CallOf(proc'[p]) = CallOf(proc[p])
    BY CallOfPhases
  <1>2. call' = call
    BY <1>1, CallStep
  <1>3. store' = store
    BY SameStore
  <1> QED BY <1>2, <1>3 DEF Store!svars

LEMMA Invokes ==
    ASSUME Alone, NEW p \in Procs, Database' = Database,
           proc[p] = Idle, NEW argv \in Argv,
           proc'[p].pc = "main", proc'[p].argv = argv
    PROVE  [Store!Next]_(Store!svars)
  <1>1. CallOf(proc[p]) = [phase |-> "idle", argv |-> NoArgv, exit |-> 0,
                           seen |-> {}, count |-> 0]
    <2>1. proc[p].pc = "idle" /\ proc[p].argv = NoArgv
      BY DEF Idle
    <2> QED BY <2>1, CallOfPhases
  <1>2. CallOf(proc'[p]) = [phase |-> "pending", argv |-> argv, exit |-> 0,
                            seen |-> {}, count |-> 0]
    BY CallOfPhases
  <1>3. call' = [call EXCEPT ![p].phase = "pending", ![p].argv = argv]
    <2>1. /\ call = [q \in Procs |-> CallOf(proc[p])]
          /\ call' = [q \in Procs |-> CallOf(proc'[p])]
          /\ \A q \in Procs : q = p
      BY CallStep
    <2>2. call = [q \in Procs |-> [phase |-> "idle", argv |-> NoArgv,
                                   exit |-> 0, seen |-> {}, count |-> 0]]
      BY <1>1, <2>1, SameValue
    <2>3. call' = [q \in Procs |-> [phase |-> "pending", argv |-> argv,
                                    exit |-> 0, seen |-> {}, count |-> 0]]
      BY <1>2, <2>1, SameValue
    <2>4. \A q \in Procs : q = p
      BY <2>1
    <2> QED BY <2>2, <2>3, <2>4
  <1>4. call[p].phase = "idle"
    BY <1>1, CallStep
  <1>5. Store!Invoke(p)
    BY <1>3, <1>4, SameStore DEF Store!Invoke
  <1> QED BY <1>5 DEF Store!Next

LEMMA Returns ==
    ASSUME Alone, NEW p \in Procs, Database' = Database,
           proc[p].pc # "idle", proc'[p] = Idle
    PROVE  [Store!Next]_(Store!svars)
  <1>1. call[p].phase # "idle"
    BY CallStep, CallOfPhases
  <1>2. CallOf(proc'[p]) = Store!Nothing
    <2>1. proc'[p].pc = "idle" /\ proc'[p].argv = NoArgv
      BY DEF Idle
    <2> QED BY <2>1, CallOfPhases DEF Store!Nothing
  <1>3. call' = [call EXCEPT ![p] = Store!Nothing]
    BY <1>2, CallStep
  <1>4. Store!Return(p)
    BY <1>1, <1>3, SameStore DEF Store!Return
  <1> QED BY <1>4 DEF Store!Next

\* A step that ends a command answers it.
LEMMA Answers ==
    ASSUME Alone, NEW p \in Procs,
           proc[p].pc \notin {"idle", "done"}, proc'[p].pc = "done",
           proc'[p].argv = proc[p].argv
    PROVE  /\ call[p].argv = proc[p].argv
           /\ Store!Answer(p, proc'[p].exit_code, proc'[p].seen,
                              proc'[p].count)
           /\ Store!Effect(p) => [Store!Next]_(Store!svars)
  <1> DEFINE t == proc'[p]
  <1>1. CallOf(proc[p]) = [phase |-> "pending", argv |-> proc[p].argv,
                           exit |-> 0, seen |-> {}, count |-> 0]
    BY CallOfPhases
  <1>2. CallOf(t) = [phase |-> "done", argv |-> proc[p].argv,
                     exit |-> t.exit_code, seen |-> t.seen,
                     count |-> t.count]
    BY CallOfPhases
  <1>3. /\ call = [q \in Procs |-> CallOf(proc[p])]
        /\ call' = [q \in Procs |-> CallOf(t)]
        /\ call[p] = CallOf(proc[p])
        /\ \A q \in Procs : q = p
    BY CallStep
  <1> HIDE DEF t
  <1>4. call' = [call EXCEPT ![p].phase = "done", ![p].exit = t.exit_code,
                             ![p].seen = t.seen, ![p].count = t.count]
    <2>1. call = [q \in Procs |-> [phase |-> "pending", argv |-> proc[p].argv,
                                   exit |-> 0, seen |-> {}, count |-> 0]]
      BY <1>1, <1>3, SameValue
    <2>2. call' = [q \in Procs |-> [phase |-> "done", argv |-> proc[p].argv,
                                    exit |-> t.exit_code, seen |-> t.seen,
                                    count |-> t.count]]
      BY <1>2, <1>3, SameValue
    <2>3. \A q \in Procs : q = p
      BY <1>3
    <2> QED BY <2>1, <2>2, <2>3
  <1>5. call[p].phase = "pending" /\ call[p].argv = proc[p].argv
    BY <1>1, <1>3
  <1>6. Store!Answer(p, t.exit_code, t.seen, t.count)
    BY <1>4 DEF Store!Answer
  <1>7. Store!Effect(p) => [Store!Next]_(Store!svars)
    BY <1>5 DEF Store!Next, Store!Perform
  <1> QED BY <1>5, <1>6, <1>7 DEF t

\* The instance of StudentStore has its own copy of Cardinality.
LEMMA SameCardinality ==
    ASSUME NEW S
    PROVE  Store!Cardinality(S) = Cardinality(S)
  BY Zenon DEF Cardinality, Store!Cardinality

\* What StudentStore lets a command of each kind answer and do.
LEMMA Effects ==
    ASSUME NEW p \in Procs, NEW argv, call[p].argv = argv, NEW code,
           NEW seen, NEW count, Store!Answer(p, code, seen, count)
    PROVE  LET plain == seen = {} /\ count = 0
               valid == /\ argv.id \in MIN_STD_ID .. MAX_STD_ID
                        /\ argv.gpa \in MIN_STD_GPA .. MAX_STD_GPA
               here  == argv.id \in DOMAIN store
               same  == store' = store
           IN  /\ argv.opt = "a" /\ ~valid /\ plain /\ code = 2 /\ same
                    => Store!Effect(p)
               /\ argv.opt = "a" /\ valid /\ here /\ plain /\ code = 1 /\ same
                    => Store!Effect(p)
               /\ argv.opt = "a" /\ valid /\ ~here /\ plain /\ code = 0
                    /\ store' = Store!With(argv.id, argv.gpa)
                    => Store!Effect(p)
               /\ argv.opt = "d" /\ ~here /\ plain /\ code = 1 /\ same
                    => Store!Effect(p)
               /\ argv.opt = "d" /\ here /\ plain /\ code = 0
                    /\ store' = Store!Without(argv.id)
                    => Store!Effect(p)
               /\ argv.opt = "f" /\ ~here /\ plain /\ code = 1 /\ same
                    => Store!Effect(p)
               /\ argv.opt = "f" /\ here /\ count = 0 /\ code = 0 /\ same
                    /\ seen = {[id |-> argv.id, gpa |-> store[argv.id]]}
                    => Store!Effect(p)
               /\ argv.opt = "c" /\ seen = {} /\ code = 0 /\ same
                    /\ count = Cardinality(DOMAIN store)
                    => Store!Effect(p)
               /\ argv.opt = "p" /\ count = 0 /\ code = 0 /\ same
                    /\ seen = Store!Students
                    => Store!Effect(p)
               /\ argv.opt = "z" /\ plain /\ code = 0 /\ store' = << >>
                    => Store!Effect(p)
  <1> DEFINE plain == seen = {} /\ count = 0
             valid == /\ argv.id \in MIN_STD_ID .. MAX_STD_ID
                      /\ argv.gpa \in MIN_STD_GPA .. MAX_STD_GPA
             here  == argv.id \in DOMAIN store
             same  == store' = store
  <1>1. argv.opt = "a" /\ ~valid /\ plain /\ code = 2 /\ same => Store!Effect(p)
    BY DEF Store!Effect
  <1>2. argv.opt = "a" /\ valid /\ here /\ plain /\ code = 1 /\ same
          => Store!Effect(p)
    BY DEF Store!Effect
  <1>3. argv.opt = "a" /\ valid /\ ~here /\ plain /\ code = 0
          /\ store' = Store!With(argv.id, argv.gpa) => Store!Effect(p)
    BY DEF Store!Effect
  <1>4. argv.opt = "d" /\ ~here /\ plain /\ code = 1 /\ same => Store!Effect(p)
    BY DEF Store!Effect
  <1>5. argv.opt = "d" /\ here /\ plain /\ code = 0
          /\ store' = Store!Without(argv.id) => Store!Effect(p)
    BY DEF Store!Effect
  <1>6. argv.opt = "f" /\ ~here /\ plain /\ code = 1 /\ same => Store!Effect(p)
    BY DEF Store!Effect
  <1>7. argv.opt = "f" /\ here /\ count = 0 /\ code = 0 /\ same
          /\ seen = {[id |-> argv.id, gpa |-> store[argv.id]]}
          => Store!Effect(p)
    BY DEF Store!Effect
  <1>8. argv.opt = "c" /\ seen = {} /\ code = 0 /\ same
          /\ count = Cardinality(DOMAIN store) => Store!Effect(p)
    BY SameCardinality DEF Store!Effect
  <1>9. argv.opt = "p" /\ count = 0 /\ code = 0 /\ same
          /\ seen = Store!Students => Store!Effect(p)
    BY DEF Store!Effect
  <1>10. argv.opt = "z" /\ plain /\ code = 0 /\ store' = << >>
           => Store!Effect(p)
    BY DEF Store!Effect
  <1> QED BY <1>1, <1>2, <1>3, <1>4, <1>5, <1>6, <1>7, <1>8, <1>9, <1>10

\* The options that never look at the database.
LEMMA UsageEffect ==
    ASSUME NEW p \in Procs, NEW argv, call[p].argv = argv, NEW code,
           Store!Answer(p, code, {}, 0), store' = store,
           \/ argv.opt = "h" /\ code = 0
           \/ argv.opt = "-" /\ code = 1
           \/ argv.opt = "?" /\ code = 2
    PROVE  Store!Effect(p)
  <1>1. code = CASE argv.opt = "h" -> 0 [] argv.opt = "-" -> 1
                 [] OTHER -> 2
    BY Zenon
  <1>2. argv.opt \in {"h", "-", "?"}
    OBVIOUS
  <1> DEFINE case == CASE argv.opt = "h" -> 0 [] argv.opt = "-" -> 1
                       [] OTHER -> 2
  <1>3. Store!Answer(p, case, {}, 0)
    BY <1>1, Zenon
  <1> QED BY <1>2, <1>3, Zenon DEF Store!Effect
----------------------------------------------------------------------------
(* Values after the steps of a process. *)

LEMMA FinishValues ==
    ASSUME TypeInv, NEW p \in Procs, NEW code, Finish(p, code)
    PROVE  /\ proc'[p].pc = "done" /\ proc'[p].exit_code = code
           /\ proc'[p].argv = proc[p].argv
           /\ proc'[p].seen = proc[p].seen /\ proc'[p].count = proc[p].count
  BY DEF TypeInv, ProcOK, ProcState, Finish

LEMMA GotoValues ==
    ASSUME TypeInv, NEW p \in Procs, NEW label, Goto(p, label)
    PROVE  /\ proc'[p].pc = label /\ proc'[p].fd = proc[p].fd
           /\ proc'[p].argv = proc[p].argv
           /\ proc'[p].seen = proc[p].seen /\ proc'[p].count = proc[p].count
  BY DEF TypeInv, ProcOK, ProcState, Goto

LEMMA DoneInStep ==
    ASSUME NEW s, s.pc = "done", NEW file
    PROVE  InStep(s, file)
  BY DEF InStep

\* The invariant is about the only process.
LEMMA StoreInvAfter ==
    ASSUME Alone, NEW p \in Procs, dir'[TMP_DB_FILE] = NULL,
           Len(Database') > 0 => Database'[1] = EMPTY_STUDENT_RECORD,
           InStep(proc'[p], Database'),
           proc'[p].pc \in Working =>
               dir'[DB_FILE] # NULL /\ proc'[p].fd = dir'[DB_FILE]
    PROVE  StoreInv'
  BY DEF StoreInv, Alone

LEMMA SameDatabase ==
    ASSUME UNCHANGED <<disk, dir>>
    PROVE  Database' = Database
  BY DEF Database

\* A step that leaves the files alone and ends the command.
LEMMA FinishKeeps ==
    ASSUME Alone, Inv, NEW p \in Procs, UNCHANGED <<disk, dir>>,
           proc'[p].pc = "done"
    PROVE  StoreInv' /\ Database' = Database /\ store' = store
  <1>1. Database' = Database
    BY SameDatabase
  <1>2. InStep(proc'[p], Database')
    BY DoneInStep
  <1>3. StoreInv'
    BY <1>1, <1>2, StoreInvAfter DEF Inv, StoreInv, Working
  <1> QED BY <1>1, <1>3, SameStore
----------------------------------------------------------------------------
(* Every step of the program is a step of the store, or none. *)

LEMMA StartSteps ==
    ASSUME Alone, Inv, NEW p \in Procs, Start(p)
    PROVE  StoreInv' /\ [Store!Next]_(Store!svars)
  <1>1. PICK argv \in Argv :
           proc' = [proc EXCEPT ![p].pc = "main", ![p].argv = argv]
    BY DEF Start
  <1>2. proc[p] = Idle
    BY DEF Start, At, Inv, StoreInv, InStep
  <1>3. Database' = Database /\ UNCHANGED <<disk, dir>>
    BY SameDatabase DEF Start
  <1>4. /\ proc'[p].pc = "main" /\ proc'[p].argv = argv
        /\ proc'[p].fd = NULL /\ proc'[p].tmp_fd = NULL /\ proc'[p].off = 0
        /\ proc'[p].count = 0 /\ proc'[p].seen = {}
    BY <1>1, <1>2 DEF Inv, TypeInv, ProcOK, ProcState, Idle
  <1>5. InStep(proc'[p], Database')
    BY <1>4 DEF InStep
  <1>6. StoreInv'
    BY <1>3, <1>4, <1>5, StoreInvAfter DEF Inv, StoreInv, Working
  <1>7. [Store!Next]_(Store!svars)
    BY <1>2, <1>3, <1>4, Invokes
  <1> QED BY <1>6, <1>7

LEMMA LeaveSteps ==
    ASSUME Alone, Inv, NEW p \in Procs, Exit(p) \/ Crash(p)
    PROVE  StoreInv' /\ [Store!Next]_(Store!svars)
  <1>1. Leave(p) /\ proc[p].pc # "idle"
    BY DEF Exit, Crash, At
  <1>2. proc'[p] = Idle /\ dir' = dir
    BY <1>1 DEF Leave, Inv, TypeInv, ProcOK
  <1>3. Database' = Database
    <2>1. ASSUME dir[DB_FILE] # NULL
          PROVE  disk'[dir[DB_FILE]] = disk[dir[DB_FILE]]
      <3>1. dir[DB_FILE] \in Inodes /\ Linked(dir[DB_FILE])
        BY <2>1 DEF Inv, TypeInv, DirOK, Names, Linked
      <3> QED BY <1>1, <3>1 DEF Leave
    <2> QED BY <1>2, <2>1 DEF Database
  <1>4. /\ proc'[p].pc = "idle"
        /\ proc'[p].count = 0 /\ proc'[p].seen = {}
    BY <1>2 DEF Idle
  <1>5. InStep(proc'[p], Database')
    BY <1>2, <1>4 DEF InStep
  <1>6. StoreInv'
    BY <1>2, <1>3, <1>4, <1>5, StoreInvAfter DEF Inv, StoreInv, Working
  <1>7. [Store!Next]_(Store!svars)
    BY <1>1, <1>2, <1>3, Returns
  <1> QED BY <1>6, <1>7

LEMMA UsageSteps ==
    ASSUME Alone, Inv, NEW p \in Procs, MainUsage(p)
    PROVE  StoreInv' /\ [Store!Next]_(Store!svars)
  <1> DEFINE argv == proc[p].argv
             code == IF argv.opt = "h" THEN EXIT_OK ELSE EXIT_FAIL_DB
  <1>1. /\ proc[p].pc = "main" /\ argv.opt \in {"-", "h"}
        /\ Finish(p, code) /\ UNCHANGED <<disk, dir>>
    BY DEF MainUsage, At
  <1>2. proc[p].count = 0 /\ proc[p].seen = {}
    BY <1>1 DEF Inv, StoreInv, InStep
  <1>3. \/ argv.opt = "h" /\ code = 0
        \/ argv.opt = "-" /\ code = 1
    BY <1>1 DEF EXIT_OK, EXIT_FAIL_DB
  <1> HIDE DEF code
  <1>4. /\ proc'[p].pc = "done" /\ proc'[p].exit_code = code
        /\ proc'[p].argv = argv /\ proc'[p].seen = {} /\ proc'[p].count = 0
    BY <1>1, <1>2, FinishValues DEF Inv
  <1>5. StoreInv' /\ store' = store
    BY <1>1, <1>4, FinishKeeps
  <1>6. /\ call[p].argv = argv /\ Store!Answer(p, code, {}, 0)
        /\ Store!Effect(p) => [Store!Next]_(Store!svars)
    BY <1>1, <1>4, Answers
  <1>7. Store!Effect(p)
    BY <1>3, <1>5, <1>6, UsageEffect
  <1> QED BY <1>5, <1>6, <1>7

\* The values of the store after a step.
LEMMA StoreAfter ==
    store' = [i \in Before(Database', Len(Database')) |-> Database'[i + 1].gpa]
  <1>1. StoredIds' = Before(Database', Len(Database'))
    BY DEF StoredIds, Before
  <1> QED BY <1>1 DEF store

\* A write of one record to the slot of an id, and the end of the command.
LEMMA WriteSteps ==
    ASSUME Alone, Inv, NEW p \in Procs, proc[p].pc \in Working,
           proc[p].argv.id \in 1 .. MAX_STD_ID, NEW record \in student_t,
           disk' = [disk EXCEPT ![proc[p].fd] =
                      Write(@, Slot(proc[p].argv.id), record)],
           dir' = dir, Finish(p, EXIT_OK)
    PROVE  LET id == proc[p].argv.id IN
           /\ StoreInv'
           /\ Database' = Write(Database, id, record)
  <1> DEFINE id == proc[p].argv.id
  <1>1. /\ proc[p].fd \in Inodes /\ proc[p].fd = dir[DB_FILE]
        /\ dir[DB_FILE] # NULL
        /\ Database = disk[proc[p].fd]
        /\ Database \in File /\ Len(Database) <= MAX_STD_ID + 1
    BY AtHand
  <1>2. Slot(id) = id
    BY SlotInRange
  <1>3. disk'[dir[DB_FILE]] = Write(Database, id, record)
    BY <1>1, <1>2 DEF Inv, TypeInv, DiskOK
  <1>4. Database' = Write(Database, id, record)
    BY <1>1, <1>3 DEF Database
  <1>5. Len(Database') > 0 => Database'[1] = EMPTY_STUDENT_RECORD
    BY <1>1, <1>4, WriteStores DEF Inv, StoreInv
  <1>6. proc'[p].pc = "done"
    BY FinishValues DEF Inv
  <1>7. InStep(proc'[p], Database')
    BY <1>6, DoneInStep
  <1>8. StoreInv'
    BY <1>5, <1>6, <1>7, StoreInvAfter DEF Inv, StoreInv, Working
  <1> QED BY <1>4, <1>8

LEMMA FindSteps ==
    ASSUME Alone, Inv, NEW p \in Procs, Find(p)
    PROVE  StoreInv' /\ [Store!Next]_(Store!svars)
  <1> DEFINE argv == proc[p].argv
             id   == argv.id
             here == id \in Before(Database, Len(Database))
  <1>1. PICK fault \in Fault("read") :
          IF get_student(disk[proc[p].fd], id, fault) = NO_ERROR
          THEN proc' = [proc EXCEPT
                 ![p].pc = "done",
                 ![p].seen = {disk[proc[p].fd][Slot(id) + 1]}]
          ELSE Finish(p, EXIT_FAIL_DB)
    BY DEF Find
  <1>2. proc[p].pc = "find" /\ UNCHANGED <<disk, dir>>
    BY DEF Find, At
  <1>3. Database = disk[proc[p].fd] /\ Database \in File /\ InPlace(Database)
    BY <1>2, AtHand DEF Working
  <1>4. IF here
        THEN proc' = [proc EXCEPT ![p].pc = "done",
                                  ![p].seen = {Database[id + 1]}]
        ELSE Finish(p, EXIT_FAIL_DB)
    BY <1>1, <1>3, FindsStored
  <1>5. /\ proc[p].count = 0 /\ proc[p].seen = {} /\ argv.opt = "f"
        /\ proc[p].exit_code = EXIT_OK
    BY <1>2 DEF Inv, StoreInv, InStep
  <1>6. CASE ~here
    <2>1. /\ proc'[p].pc = "done" /\ proc'[p].exit_code = EXIT_FAIL_DB
          /\ proc'[p].argv = argv /\ proc'[p].seen = {} /\ proc'[p].count = 0
      BY <1>4, <1>5, <1>6, FinishValues DEF Inv
    <2>2. StoreInv' /\ store' = store
      BY <1>2, <2>1, FinishKeeps
    <2>3. /\ call[p].argv = argv /\ Store!Answer(p, 1, {}, 0)
          /\ Store!Effect(p) => [Store!Next]_(Store!svars)
      BY <1>2, <2>1, Answers DEF EXIT_FAIL_DB
    <2>4. argv.id \notin DOMAIN store
      BY <1>6, StoreValues
    <2>5. Store!Effect(p)
      BY <1>5, <2>2, <2>3, <2>4, Effects
    <2> QED BY <2>2, <2>3, <2>5
  <1>7. CASE here
    <2>1. /\ proc'[p].pc = "done" /\ proc'[p].exit_code = EXIT_OK
          /\ proc'[p].argv = argv /\ proc'[p].seen = {Database[id + 1]}
          /\ proc'[p].count = 0
      BY <1>4, <1>5, <1>7 DEF Inv, TypeInv, ProcOK, ProcState
    <2>2. StoreInv' /\ store' = store
      BY <1>2, <2>1, FinishKeeps
    <2> DEFINE found == {[id |-> id, gpa |-> store[id]]}
    <2>3. id \in DOMAIN store /\ store[id] = Database[id + 1].gpa
      BY <1>7, StoreValues
    <2>4. Database[id + 1] = [id |-> id, gpa |-> Database[id + 1].gpa]
      BY <1>3, <1>7, StoredRecord
    <2>5. proc'[p].seen = found
      BY <2>1, <2>3, <2>4
    <2> HIDE DEF found
    <2>6. /\ call[p].argv = argv /\ Store!Answer(p, 0, found, 0)
          /\ Store!Effect(p) => [Store!Next]_(Store!svars)
      BY <1>2, <2>1, <2>5, Answers DEF EXIT_OK
    <2>7. found = {[id |-> argv.id, gpa |-> store[argv.id]]}
      BY DEF found
    <2>8. Store!Effect(p)
      BY <1>5, <2>2, <2>3, <2>6, <2>7, Effects
    <2> QED BY <2>2, <2>6, <2>8
  <1> QED BY <1>6, <1>7

LEMMA AddGetSteps ==
    ASSUME Alone, Inv, NEW p \in Procs, AddGet(p)
    PROVE  StoreInv' /\ [Store!Next]_(Store!svars)
  <1> DEFINE argv == proc[p].argv
             here == argv.id \in Before(Database, Len(Database))
  <1>1. PICK fault \in Fault("read") :
          IF get_student(disk[proc[p].fd], argv.id, fault) = NO_ERROR
          THEN Finish(p, EXIT_FAIL_DB) ELSE Goto(p, "add_write")
    BY DEF AddGet
  <1>2. proc[p].pc = "add_get" /\ UNCHANGED <<disk, dir>>
    BY DEF AddGet, At
  <1>3. /\ Database = disk[proc[p].fd] /\ proc[p].fd = dir[DB_FILE]
        /\ dir[DB_FILE] # NULL
    BY <1>2, AtHand DEF Working
  <1>4. IF here THEN Finish(p, EXIT_FAIL_DB) ELSE Goto(p, "add_write")
    BY <1>1, <1>3, FindsStored
  <1>5. /\ proc[p].count = 0 /\ proc[p].seen = {} /\ argv.opt = "a"
    BY <1>2 DEF Inv, StoreInv, InStep
  <1>6. CASE here
    <2>1. /\ proc'[p].pc = "done" /\ proc'[p].exit_code = EXIT_FAIL_DB
          /\ proc'[p].argv = argv /\ proc'[p].seen = {} /\ proc'[p].count = 0
      BY <1>4, <1>5, <1>6, FinishValues DEF Inv
    <2>2. StoreInv' /\ store' = store
      BY <1>2, <2>1, FinishKeeps
    <2>3. /\ call[p].argv = argv /\ Store!Answer(p, 1, {}, 0)
          /\ Store!Effect(p) => [Store!Next]_(Store!svars)
      BY <1>2, <2>1, Answers DEF EXIT_FAIL_DB
    <2>4. /\ argv.id \in MIN_STD_ID .. MAX_STD_ID
          /\ argv.gpa \in MIN_STD_GPA .. MAX_STD_GPA
      BY <1>2 DEF Inv, TypeInv, ProcOK, LocalOK, MIN_STD_ID, MIN_STD_GPA
    <2>5. argv.id \in DOMAIN store
      BY <1>6, StoreValues
    <2>6. Store!Effect(p)
      BY <1>5, <2>2, <2>3, <2>4, <2>5, Effects
    <2> QED BY <2>2, <2>3, <2>6
  <1>7. CASE ~here
    <2>1. /\ proc'[p].pc = "add_write" /\ proc'[p].fd = proc[p].fd
          /\ proc'[p].argv = argv /\ proc'[p].seen = {} /\ proc'[p].count = 0
      BY <1>4, <1>5, <1>7, GotoValues DEF Inv
    <2>2. Database' = Database
      BY <1>2, SameDatabase
    <2>3. InStep(proc'[p], Database')
      BY <1>5, <1>7, <2>1, <2>2 DEF InStep
    <2>4. StoreInv'
      BY <1>2, <1>3, <2>1, <2>2, <2>3, StoreInvAfter DEF Inv, StoreInv
    <2>5. [Store!Next]_(Store!svars)
      BY <1>2, <2>1, <2>2, Stutters
    <2> QED BY <2>4, <2>5
  <1> QED BY <1>6, <1>7

LEMMA AddWriteSteps ==
    ASSUME Alone, Inv, NEW p \in Procs, AddWrite(p)
    PROVE  StoreInv' /\ [Store!Next]_(Store!svars)
  <1> DEFINE argv   == proc[p].argv
             id     == argv.id
             record == [id |-> argv.id, gpa |-> argv.gpa]
             stored == Before(Database, Len(Database))
  <1>1. PICK fault \in Fault("write") :
          IF fault
          THEN Finish(p, EXIT_FAIL_DB) /\ UNCHANGED disk
          ELSE /\ disk' = [disk EXCEPT ![proc[p].fd] =
                             Write(@, Slot(argv.id), record)]
               /\ Finish(p, EXIT_OK)
    BY DEF AddWrite
  <1>2. fault = FALSE
    BY DEF Alone, Fault
  <1>3. /\ disk' = [disk EXCEPT ![proc[p].fd] =
                      Write(@, Slot(argv.id), record)]
        /\ Finish(p, EXIT_OK)
    BY <1>1, <1>2
  <1>4. proc[p].pc = "add_write" /\ dir' = dir
    BY DEF AddWrite, At
  <1>5. /\ proc[p].count = 0 /\ proc[p].seen = {} /\ argv.opt = "a"
        /\ id \notin stored
    BY <1>4 DEF Inv, StoreInv, InStep
  <1>6. id \in 1 .. MAX_STD_ID /\ argv.gpa \in 0 .. MAX_STD_GPA
    BY <1>4 DEF Inv, TypeInv, ProcOK, LocalOK
  <1>7. record \in student_t /\ record # EMPTY_STUDENT_RECORD
        /\ record.gpa = argv.gpa
    BY <1>6, RangeAssumption DEF student_t, EMPTY_STUDENT_RECORD
  <1>8. Database \in File /\ Len(Database) <= MAX_STD_ID + 1
    BY DatabaseType
  <1> HIDE DEF record, stored
  <1>9. StoreInv' /\ Database' = Write(Database, id, record)
    BY <1>3, <1>4, <1>6, <1>7, WriteSteps DEF Working
  <1>10. /\ Before(Database', Len(Database')) = stored \cup {id}
         /\ Database'[id + 1] = record
         /\ \A k \in stored : Database'[k + 1] = Database[k + 1]
    BY <1>5, <1>6, <1>7, <1>8, <1>9, WriteStores DEF stored
  <1>11. store' = Store!With(id, argv.gpa)
    <2>1. DOMAIN store = stored
          /\ \A i \in stored : store[i] = Database[i + 1].gpa
      BY StoreValues DEF stored
    <2>2. store' = [i \in stored \cup {id} |-> Database'[i + 1].gpa]
      BY <1>10, StoreAfter
    <2>3. \A i \in stored \cup {id} : Database'[i + 1].gpa =
                         IF i = id THEN argv.gpa ELSE store[i]
      BY <1>5, <1>7, <1>10, <2>1
    <2> QED BY <2>1, <2>2, <2>3 DEF Store!With
  <1>12. /\ proc'[p].pc = "done" /\ proc'[p].exit_code = EXIT_OK
         /\ proc'[p].argv = argv /\ proc'[p].seen = {} /\ proc'[p].count = 0
    BY <1>3, <1>5, FinishValues DEF Inv
  <1>13. /\ call[p].argv = argv /\ Store!Answer(p, 0, {}, 0)
         /\ Store!Effect(p) => [Store!Next]_(Store!svars)
    BY <1>4, <1>12, Answers DEF EXIT_OK
  <1>14. /\ argv.id \in MIN_STD_ID .. MAX_STD_ID
         /\ argv.gpa \in MIN_STD_GPA .. MAX_STD_GPA
         /\ argv.id \notin DOMAIN store
    BY <1>5, <1>6, StoreValues DEF MIN_STD_ID, MIN_STD_GPA, stored
  <1>15. Store!Effect(p)
    BY <1>5, <1>11, <1>13, <1>14, Effects
  <1> QED BY <1>9, <1>13, <1>15

LEMMA DelGetSteps ==
    ASSUME Alone, Inv, NEW p \in Procs, DelGet(p)
    PROVE  StoreInv' /\ [Store!Next]_(Store!svars)
  <1> DEFINE argv == proc[p].argv
             here == argv.id \in Before(Database, Len(Database))
  <1>1. PICK fault \in Fault("read") :
          IF get_student(disk[proc[p].fd], argv.id, fault) # NO_ERROR
          THEN Finish(p, EXIT_FAIL_DB) ELSE Goto(p, "del_write")
    BY DEF DelGet
  <1>2. proc[p].pc = "del_get" /\ UNCHANGED <<disk, dir>>
    BY DEF DelGet, At
  <1>3. /\ Database = disk[proc[p].fd] /\ proc[p].fd = dir[DB_FILE]
        /\ dir[DB_FILE] # NULL
    BY <1>2, AtHand DEF Working
  <1>4. IF here THEN Goto(p, "del_write") ELSE Finish(p, EXIT_FAIL_DB)
    BY <1>1, <1>3, FindsStored
  <1>5. /\ proc[p].count = 0 /\ proc[p].seen = {} /\ argv.opt = "d"
    BY <1>2 DEF Inv, StoreInv, InStep
  <1>6. CASE ~here
    <2>1. /\ proc'[p].pc = "done" /\ proc'[p].exit_code = EXIT_FAIL_DB
          /\ proc'[p].argv = argv /\ proc'[p].seen = {} /\ proc'[p].count = 0
      BY <1>4, <1>5, <1>6, FinishValues DEF Inv
    <2>2. StoreInv' /\ store' = store
      BY <1>2, <2>1, FinishKeeps
    <2>3. /\ call[p].argv = argv /\ Store!Answer(p, 1, {}, 0)
          /\ Store!Effect(p) => [Store!Next]_(Store!svars)
      BY <1>2, <2>1, Answers DEF EXIT_FAIL_DB
    <2>4. argv.id \notin DOMAIN store
      BY <1>6, StoreValues
    <2>5. Store!Effect(p)
      BY <1>5, <2>2, <2>3, <2>4, Effects
    <2> QED BY <2>2, <2>3, <2>5
  <1>7. CASE here
    <2>1. /\ proc'[p].pc = "del_write" /\ proc'[p].fd = proc[p].fd
          /\ proc'[p].argv = argv /\ proc'[p].seen = {} /\ proc'[p].count = 0
      BY <1>4, <1>5, <1>7, GotoValues DEF Inv
    <2>2. Database' = Database
      BY <1>2, SameDatabase
    <2>3. InStep(proc'[p], Database')
      BY <1>5, <1>7, <2>1, <2>2 DEF InStep
    <2>4. StoreInv'
      BY <1>2, <1>3, <2>1, <2>2, <2>3, StoreInvAfter DEF Inv, StoreInv
    <2>5. [Store!Next]_(Store!svars)
      BY <1>2, <2>1, <2>2, Stutters
    <2> QED BY <2>4, <2>5
  <1> QED BY <1>6, <1>7

LEMMA DelWriteSteps ==
    ASSUME Alone, Inv, NEW p \in Procs, DelWrite(p)
    PROVE  StoreInv' /\ [Store!Next]_(Store!svars)
  <1> DEFINE argv   == proc[p].argv
             id     == argv.id
             stored == Before(Database, Len(Database))
  <1>1. PICK fault \in Fault("write") :
          IF fault
          THEN Finish(p, EXIT_FAIL_DB) /\ UNCHANGED disk
          ELSE /\ disk' = [disk EXCEPT ![proc[p].fd] =
                             Write(@, Slot(argv.id), EMPTY_STUDENT_RECORD)]
               /\ Finish(p, EXIT_OK)
    BY DEF DelWrite
  <1>2. fault = FALSE
    BY DEF Alone, Fault
  <1>3. /\ disk' = [disk EXCEPT ![proc[p].fd] =
                      Write(@, Slot(argv.id), EMPTY_STUDENT_RECORD)]
        /\ Finish(p, EXIT_OK)
    BY <1>1, <1>2
  <1>4. proc[p].pc = "del_write" /\ dir' = dir
    BY DEF DelWrite, At
  <1>5. /\ proc[p].count = 0 /\ proc[p].seen = {} /\ argv.opt = "d"
        /\ id \in stored
    BY <1>4 DEF Inv, StoreInv, InStep
  <1>6. id \in 1 .. MAX_STD_ID
    BY <1>5 DEF Before
  <1>7. EMPTY_STUDENT_RECORD \in student_t
    BY RangeAssumption DEF student_t, EMPTY_STUDENT_RECORD
  <1>8. Database \in File /\ Len(Database) <= MAX_STD_ID + 1
    BY DatabaseType
  <1> HIDE DEF stored
  <1>9. /\ StoreInv'
        /\ Database' = Write(Database, id, EMPTY_STUDENT_RECORD)
    BY <1>3, <1>4, <1>6, <1>7, WriteSteps DEF Working
  <1>10. /\ Before(Database', Len(Database')) = stored \ {id}
         /\ \A k \in stored \ {id} : Database'[k + 1] = Database[k + 1]
    BY <1>6, <1>7, <1>8, <1>9, WriteStores DEF stored
  <1>11. store' = Store!Without(id)
    <2>1. DOMAIN store = stored
          /\ \A i \in stored : store[i] = Database[i + 1].gpa
      BY StoreValues DEF stored
    <2>2. store' = [i \in stored \ {id} |-> Database'[i + 1].gpa]
      BY <1>10, StoreAfter
    <2>3. \A i \in stored \ {id} : Database'[i + 1].gpa = store[i]
      BY <1>10, <2>1
    <2> QED BY <2>1, <2>2, <2>3 DEF Store!Without
  <1>12. /\ proc'[p].pc = "done" /\ proc'[p].exit_code = EXIT_OK
         /\ proc'[p].argv = argv /\ proc'[p].seen = {} /\ proc'[p].count = 0
    BY <1>3, <1>5, FinishValues DEF Inv
  <1>13. /\ call[p].argv = argv /\ Store!Answer(p, 0, {}, 0)
         /\ Store!Effect(p) => [Store!Next]_(Store!svars)
    BY <1>4, <1>12, Answers DEF EXIT_OK
  <1>14. argv.id \in DOMAIN store
    BY <1>5, StoreValues DEF stored
  <1>15. Store!Effect(p)
    BY <1>5, <1>11, <1>13, <1>14, Effects
  <1> QED BY <1>9, <1>13, <1>15
----------------------------------------------------------------------------
(* The scans of -c and -p. *)

\* Reading one more record, past the end or not.
LEMMA BeforeNext ==
    ASSUME NEW file \in File, Len(file) <= MAX_STD_ID + 1,
           Len(file) > 0 => file[1] = EMPTY_STUDENT_RECORD,
           NEW off \in Nat
    PROVE  /\ off < Len(file) =>
                Before(file, off + 1) =
                    IF file[off + 1] = EMPTY_STUDENT_RECORD
                    THEN Before(file, off) ELSE Before(file, off) \cup {off}
           /\ off >= Len(file) => Before(file, off) = Before(file, Len(file))
           /\ Before(file, 0) = {}
           /\ off \notin Before(file, off)
  <1>1. Len(file) \in Nat /\ MAX_STD_ID \in Nat
    BY RangeAssumption DEF File
  <1>2. ASSUME off < Len(file)
        PROVE  Before(file, off + 1) =
                 IF file[off + 1] = EMPTY_STUDENT_RECORD
                 THEN Before(file, off) ELSE Before(file, off) \cup {off}
    <2>1. ASSUME file[off + 1] # EMPTY_STUDENT_RECORD
          PROVE  off \in 1 .. MAX_STD_ID
      <3>1. off # 0
        BY <1>2, <2>1
      <3> QED BY <1>1, <1>2, <3>1
    <2>2. \A k : k \in Before(file, off + 1) <=>
                   \/ k \in Before(file, off)
                   \/ k = off /\ file[off + 1] # EMPTY_STUDENT_RECORD
      BY <1>1, <1>2, <2>1 DEF Before
    <2> QED BY <2>2
  <1>3. off >= Len(file) => Before(file, off) = Before(file, Len(file))
    BY <1>1 DEF Before
  <1> QED BY <1>1, <1>2, <1>3 DEF Before

LEMMA BeforeFinite ==
    ASSUME NEW file, NEW off
    PROVE  IsFiniteSet(Before(file, off))
  <1>1. IsFiniteSet(1 .. MAX_STD_ID)
    BY FS_Interval, RangeAssumption
  <1>2. Before(file, off) \subseteq 1 .. MAX_STD_ID
    BY DEF Before
  <1> QED BY <1>1, <1>2, FS_Subset

\* A step of a scan, which reads a record or ends the command.
LEMMA ScanFacts ==
    ASSUME Alone, Inv, NEW p \in Procs, proc[p].pc \in {"count", "print"},
           NEW fault \in Fault("read")
    PROVE  LET off == proc[p].off IN
           /\ dir[DB_FILE] # NULL /\ proc[p].fd = dir[DB_FILE]
           /\ Database = disk[proc[p].fd]
           /\ Database \in File /\ InPlace(Database)
           /\ off \in Nat
           /\ ReadOne(disk[proc[p].fd], off, fault) <=> off < Len(Database)
           /\ off < Len(Database) =>
                Before(Database, off + 1) =
                    IF Database[off + 1] = EMPTY_STUDENT_RECORD
                    THEN Before(Database, off)
                    ELSE Before(Database, off) \cup {off}
           /\ ~(off < Len(Database)) =>
                Before(Database, off) = Before(Database, Len(Database))
           /\ off \notin Before(Database, off)
  <1> DEFINE off == proc[p].off
  <1>1. /\ proc[p].fd = dir[DB_FILE] /\ dir[DB_FILE] # NULL
        /\ Database = disk[proc[p].fd]
        /\ Database \in File /\ Len(Database) <= MAX_STD_ID + 1
        /\ InPlace(Database)
    BY AtHand DEF Working
  <1>2. off \in Nat
    BY RangeAssumption DEF Inv, TypeInv, ProcOK, ProcState
  <1>3. fault = FALSE
    BY DEF Alone, Fault
  <1>4. ReadOne(disk[proc[p].fd], off, fault) <=> off < Len(Database)
    BY <1>1, <1>3 DEF ReadOne
  <1>5. Len(Database) > 0 => Database[1] = EMPTY_STUDENT_RECORD
    BY DEF Inv, StoreInv
  <1>6. Len(Database) \in Nat
    BY <1>1 DEF File
  <1>7. /\ off < Len(Database) =>
             Before(Database, off + 1) =
                 IF Database[off + 1] = EMPTY_STUDENT_RECORD
                 THEN Before(Database, off)
                 ELSE Before(Database, off) \cup {off}
        /\ off >= Len(Database) =>
             Before(Database, off) = Before(Database, Len(Database))
        /\ off \notin Before(Database, off)
    BY <1>1, <1>2, <1>5, BeforeNext
  <1> HIDE DEF off
  <1>8. ~(off < Len(Database)) => off >= Len(Database)
    BY <1>2, <1>6
  <1> QED BY <1>1, <1>2, <1>4, <1>7, <1>8 DEF off

LEMMA CountSteps ==
    ASSUME Alone, Inv, NEW p \in Procs, CountRead(p)
    PROVE  StoreInv' /\ [Store!Next]_(Store!svars)
  <1> DEFINE off == proc[p].off
  <1>1. PICK fault \in Fault("read") :
          IF ReadOne(disk[proc[p].fd], off, fault)
          THEN proc' = [proc EXCEPT
                 ![p].off = Advance(off),
                 ![p].count = IF IsStudent(disk[proc[p].fd][off + 1])
                              THEN @ + 1 ELSE @]
          ELSE Finish(p, EXIT_OK)
    BY DEF CountRead
  <1>2. proc[p].pc = "count" /\ UNCHANGED <<disk, dir>>
    BY DEF CountRead, At
  <1>3. /\ dir[DB_FILE] # NULL /\ proc[p].fd = dir[DB_FILE]
        /\ Database = disk[proc[p].fd]
        /\ off \in Nat
        /\ ReadOne(disk[proc[p].fd], off, fault) <=> off < Len(Database)
        /\ off < Len(Database) =>
             Before(Database, off + 1) =
                 IF Database[off + 1] = EMPTY_STUDENT_RECORD
                 THEN Before(Database, off)
                 ELSE Before(Database, off) \cup {off}
        /\ ~(off < Len(Database)) =>
             Before(Database, off) = Before(Database, Len(Database))
        /\ off \notin Before(Database, off)
    BY <1>2, ScanFacts
  <1>4. /\ proc[p].seen = {} /\ proc[p].argv.opt = "c"
        /\ proc[p].count = Cardinality(Before(Database, off))
    BY <1>2 DEF Inv, StoreInv, InStep
  <1>5. Database' = Database
    BY <1>2, SameDatabase
  <1>6. CASE off < Len(Database)
    <2>1. proc' = [proc EXCEPT
                     ![p].off = off + 1,
                     ![p].count = IF Database[off + 1] # EMPTY_STUDENT_RECORD
                                  THEN @ + 1 ELSE @]
      BY <1>1, <1>3, <1>6 DEF Advance, IsStudent
    <2>2. /\ proc'[p].pc = "count" /\ proc'[p].argv = proc[p].argv
          /\ proc'[p].fd = proc[p].fd /\ proc'[p].seen = {}
          /\ proc'[p].off = off + 1
          /\ proc'[p].count = IF Database[off + 1] # EMPTY_STUDENT_RECORD
                              THEN proc[p].count + 1 ELSE proc[p].count
      BY <1>2, <1>4, <2>1 DEF Inv, TypeInv, ProcOK, ProcState
    <2>3. Cardinality(Before(Database, off) \cup {off})
             = Cardinality(Before(Database, off)) + 1
      BY <1>3, BeforeFinite, FS_AddElement
    <2>4. proc'[p].count = Cardinality(Before(Database, off + 1))
      BY <1>3, <1>4, <1>6, <2>2, <2>3
    <2>5. InStep(proc'[p], Database')
      BY <1>4, <1>5, <2>2, <2>4 DEF InStep
    <2>6. StoreInv'
      BY <1>2, <1>3, <1>5, <2>2, <2>5, StoreInvAfter DEF Inv, StoreInv
    <2>7. [Store!Next]_(Store!svars)
      BY <1>2, <1>5, <2>2, Stutters
    <2> QED BY <2>6, <2>7
  <1>7. CASE ~(off < Len(Database))
    <2>1. /\ proc'[p].pc = "done" /\ proc'[p].exit_code = EXIT_OK
          /\ proc'[p].argv = proc[p].argv /\ proc'[p].seen = {}
          /\ proc'[p].count = proc[p].count
      BY <1>1, <1>3, <1>4, <1>7, FinishValues DEF Inv
    <2>2. StoreInv' /\ store' = store
      BY <1>2, <2>1, FinishKeeps
    <2> DEFINE number == Cardinality(DOMAIN store)
    <2>3. proc'[p].count = number
      BY <1>3, <1>4, <1>7, <2>1, StoreValues
    <2> HIDE DEF number
    <2>4. /\ call[p].argv = proc[p].argv /\ Store!Answer(p, 0, {}, number)
          /\ Store!Effect(p) => [Store!Next]_(Store!svars)
      BY <1>2, <2>1, <2>3, Answers DEF EXIT_OK
    <2>5. Store!Effect(p)
      BY <1>4, <2>2, <2>4, Effects DEF number
    <2> QED BY <2>2, <2>4, <2>5
  <1> QED BY <1>6, <1>7

\* The listing is complete at the end of the file.
LEMMA ListingComplete ==
    ASSUME Inv
    PROVE  Store!Students = Listed(Database, Len(Database))
  <1> DEFINE ids == Before(Database, Len(Database))
  <1>1. DOMAIN store = ids /\ \A i \in ids : store[i] = Database[i + 1].gpa
    BY StoreValues
  <1>2. \A i \in ids : Database[i + 1] = [id |-> i, gpa |-> Database[i + 1].gpa]
    BY DatabaseType, StoredRecord
  <1>3. \A i \in ids : [id |-> i, gpa |-> store[i]] = Database[i + 1]
    BY <1>1, <1>2
  <1> HIDE DEF ids
  <1>4. Store!Students = {Database[i + 1] : i \in ids}
    BY <1>1, <1>3 DEF Store!Students
  <1> QED BY <1>4 DEF Listed, ids

LEMMA PrintSteps ==
    ASSUME Alone, Inv, NEW p \in Procs, PrintRead(p)
    PROVE  StoreInv' /\ [Store!Next]_(Store!svars)
  <1> DEFINE off == proc[p].off
  <1>1. PICK fault \in Fault("read") :
          IF ReadOne(disk[proc[p].fd], off, fault)
          THEN proc' = [proc EXCEPT
                 ![p].off = Advance(off),
                 ![p].seen = @ \cup
                     {r \in {disk[proc[p].fd][off + 1]} : IsStudent(r)}]
          ELSE Finish(p, EXIT_OK)
    BY DEF PrintRead
  <1>2. proc[p].pc = "print" /\ UNCHANGED <<disk, dir>>
    BY DEF PrintRead, At
  <1>3. /\ dir[DB_FILE] # NULL /\ proc[p].fd = dir[DB_FILE]
        /\ Database = disk[proc[p].fd]
        /\ off \in Nat
        /\ ReadOne(disk[proc[p].fd], off, fault) <=> off < Len(Database)
        /\ off < Len(Database) =>
             Before(Database, off + 1) =
                 IF Database[off + 1] = EMPTY_STUDENT_RECORD
                 THEN Before(Database, off)
                 ELSE Before(Database, off) \cup {off}
        /\ ~(off < Len(Database)) =>
             Before(Database, off) = Before(Database, Len(Database))
    BY <1>2, ScanFacts
  <1>4. /\ proc[p].count = 0 /\ proc[p].argv.opt = "p"
        /\ proc[p].seen = Listed(Database, off)
    BY <1>2 DEF Inv, StoreInv, InStep
  <1>5. Database' = Database
    BY <1>2, SameDatabase
  <1>6. CASE off < Len(Database)
    <2> DEFINE more == {r \in {Database[off + 1]} : r # EMPTY_STUDENT_RECORD}
    <2>1. proc' = [proc EXCEPT ![p].off = off + 1, ![p].seen = @ \cup more]
      BY <1>1, <1>3, <1>6 DEF Advance, IsStudent
    <2>2. Listed(Database, off) \cup more = Listed(Database, off + 1)
      BY <1>3, <1>6 DEF Listed
    <2> HIDE DEF more
    <2>3. /\ proc'[p].pc = "print" /\ proc'[p].argv = proc[p].argv
          /\ proc'[p].fd = proc[p].fd /\ proc'[p].count = 0
          /\ proc'[p].off = off + 1
          /\ proc'[p].seen = proc[p].seen \cup more
      BY <1>2, <1>4, <2>1 DEF Inv, TypeInv, ProcOK, ProcState
    <2>4. proc'[p].seen = Listed(Database, off + 1)
      BY <1>4, <2>2, <2>3
    <2>5. InStep(proc'[p], Database')
      BY <1>4, <1>5, <2>3, <2>4 DEF InStep
    <2>6. StoreInv'
      BY <1>2, <1>3, <1>5, <2>3, <2>5, StoreInvAfter DEF Inv, StoreInv
    <2>7. [Store!Next]_(Store!svars)
      BY <1>2, <1>5, <2>3, Stutters
    <2> QED BY <2>6, <2>7
  <1>7. CASE ~(off < Len(Database))
    <2>1. /\ proc'[p].pc = "done" /\ proc'[p].exit_code = EXIT_OK
          /\ proc'[p].argv = proc[p].argv /\ proc'[p].count = 0
          /\ proc'[p].seen = proc[p].seen
      BY <1>1, <1>3, <1>4, <1>7, FinishValues DEF Inv
    <2>2. StoreInv' /\ store' = store
      BY <1>2, <2>1, FinishKeeps
    <2> DEFINE all == Store!Students
    <2>3. Listed(Database, off) = Listed(Database, Len(Database))
      BY <1>3, <1>7 DEF Listed
    <2>4. proc'[p].seen = all
      BY <1>4, <2>1, <2>3, ListingComplete
    <2> HIDE DEF all
    <2>5. /\ call[p].argv = proc[p].argv /\ Store!Answer(p, 0, all, 0)
          /\ Store!Effect(p) => [Store!Next]_(Store!svars)
      BY <1>2, <2>1, <2>4, Answers DEF EXIT_OK
    <2>6. Store!Effect(p)
      BY <1>4, <2>2, <2>5, Effects DEF all
    <2> QED BY <2>2, <2>5, <2>6
  <1> QED BY <1>6, <1>7
----------------------------------------------------------------------------
(* Opening the database, and the theorem. *)

\* The database can be opened, and opening it shows what it held.
LEMMA OpenSteps ==
    ASSUME Alone, Inv, NEW p \in Procs,
           \/ dir[DB_FILE] # NULL
           \/ proc[p].fd = NULL /\ proc[p].tmp_fd = NULL,
           NEW trunc \in BOOLEAN,
           NEW fd \in OpenResults(DB_FILE), open_db(DB_FILE, trunc, fd)
    PROVE  /\ fd # NULL
           /\ dir'[DB_FILE] = fd /\ dir'[TMP_DB_FILE] = NULL
           /\ Database' = IF trunc THEN <<>> ELSE Database
  <1>1. fd # NULL
    <2>1. CASE dir[DB_FILE] # NULL
      BY <2>1 DEF OpenResults, Alone
    <2>2. CASE dir[DB_FILE] = NULL
      <3>1. PICK i \in Inodes : TRUE
        BY DEF Alone
      <3>2. ~Linked(i)
        BY <2>2, NullAssumption DEF Linked, Names, Inv, StoreInv
      <3>3. \A q \in Procs : ~HeldBy(q, i)
        BY <2>2, NullAssumption DEF HeldBy, Alone
      <3>4. i \in Unused
        BY <3>2, <3>3 DEF Unused
      <3>5. (CHOOSE j \in Unused : TRUE) \in Unused
        BY <3>4
      <3>6. fd \in Unused
        BY <2>2, <3>4, <3>5 DEF OpenResults, Alone
      <3> QED BY <3>6, NullAssumption DEF Unused
    <2> QED BY <2>1, <2>2
  <1>2. /\ dir' = [dir EXCEPT ![DB_FILE] = fd]
        /\ disk' = IF trunc \/ dir[DB_FILE] = NULL
                   THEN [disk EXCEPT ![fd] = <<>>] ELSE disk
    BY <1>1 DEF open_db
  <1>3. dir \in [Names -> Inodes \cup {NULL}]
        /\ disk \in [Inodes -> {f \in File : Len(f) <= MAX_STD_ID + 1}]
    BY DEF Inv, TypeInv, DirOK, DiskOK
  <1>4. DB_FILE \in Names /\ TMP_DB_FILE \in Names /\ DB_FILE # TMP_DB_FILE
    BY DEF Names, DB_FILE, TMP_DB_FILE
  <1>5. dir'[DB_FILE] = fd /\ dir'[TMP_DB_FILE] = NULL
    BY <1>2, <1>3, <1>4 DEF Inv, StoreInv
  <1>6. fd \in Inodes
    BY <1>1, <1>4, OpenType DEF Inv, TypeInv
  <1>7. dir[DB_FILE] # NULL => fd = dir[DB_FILE]
    BY DEF OpenResults, Alone
  <1>8. Database' = disk'[fd]
    BY <1>1, <1>5 DEF Database
  <1>9. CASE trunc \/ dir[DB_FILE] = NULL
    <2>1. disk'[fd] = <<>>
      BY <1>2, <1>3, <1>6, <1>9
    <2>2. dir[DB_FILE] = NULL => Database = <<>>
      BY DEF Database
    <2> QED BY <1>5, <1>8, <1>1, <1>9, <2>1, <2>2
  <1>10. CASE ~(trunc \/ dir[DB_FILE] = NULL)
    <2>1. Database = disk[fd] /\ disk' = disk
      BY <1>2, <1>7, <1>10 DEF Database
    <2> QED BY <1>1, <1>5, <1>8, <1>10, <2>1
  <1> QED BY <1>9, <1>10

\* What -z leaves is the empty store.
LEMMA ZeroSteps ==
    ASSUME Alone, Inv, NEW p \in Procs, ZeroReopen(p)
    PROVE  StoreInv' /\ [Store!Next]_(Store!svars)
  <1>1. PICK fd \in OpenResults(DB_FILE) :
          /\ open_db(DB_FILE, TRUE, fd)
          /\ proc' = [proc EXCEPT ![p].pc = "done", ![p].fd = fd,
                ![p].exit_code = IF fd = NULL THEN EXIT_FAIL_DB ELSE EXIT_OK]
    BY DEF ZeroReopen
  <1>2. proc[p].pc = "zero"
    BY DEF ZeroReopen, At
  <1>3. /\ proc[p].count = 0 /\ proc[p].seen = {} /\ proc[p].argv.opt = "z"
        /\ dir[DB_FILE] # NULL
    BY <1>2 DEF Inv, StoreInv, InStep, Working
  <1>4. /\ fd # NULL /\ dir'[TMP_DB_FILE] = NULL /\ Database' = <<>>
    BY <1>1, <1>3, OpenSteps
  <1>5. /\ proc'[p].pc = "done" /\ proc'[p].exit_code = EXIT_OK
        /\ proc'[p].argv = proc[p].argv /\ proc'[p].seen = {}
        /\ proc'[p].count = 0
    BY <1>1, <1>3, <1>4 DEF Inv, TypeInv, ProcOK, ProcState
  <1>6. InStep(proc'[p], Database')
    BY <1>5, DoneInStep
  <1>7. StoreInv'
    BY <1>4, <1>5, <1>6, StoreInvAfter DEF Working
  <1>8. store' = << >>
    <2>1. Before(<<>>, 0) = {}
      BY RangeAssumption DEF Before
    <2>2. Len(Database') = 0
      BY <1>4
    <2>3. store' = [i \in {} |-> Database'[i + 1].gpa]
      BY <1>4, <2>1, <2>2, StoreAfter
    <2> QED BY <2>3
  <1>9. /\ call[p].argv = proc[p].argv /\ Store!Answer(p, 0, {}, 0)
        /\ Store!Effect(p) => [Store!Next]_(Store!svars)
    BY <1>2, <1>5, Answers DEF EXIT_OK
  <1>10. Store!Effect(p)
    BY <1>3, <1>8, <1>9, Effects
  <1> QED BY <1>7, <1>9, <1>10


LEMMA OpenMainSteps ==
    ASSUME Alone, Inv, NEW p \in Procs, MainOpen(p)
    PROVE  StoreInv' /\ [Store!Next]_(Store!svars)
  <1> DEFINE argv  == proc[p].argv
             entry == Entry(argv)
  <1>1. PICK fd \in OpenResults(DB_FILE) :
          /\ open_db(DB_FILE, FALSE, fd)
          /\ IF fd = NULL
             THEN Finish(p, EXIT_FAIL_DB)
             ELSE proc' = [proc EXCEPT
                     ![p].pc = entry, ![p].fd = fd,
                     ![p].exit_code = IF entry = "done"
                                      THEN EXIT_FAIL_ARGS ELSE EXIT_OK]
    BY DEF MainOpen
  <1>2. proc[p].pc = "main" /\ argv.opt \notin {"-", "h"}
    BY DEF MainOpen, At
  <1>3. /\ proc[p].count = 0 /\ proc[p].seen = {} /\ proc[p].off = 0
        /\ proc[p].fd = NULL /\ proc[p].tmp_fd = NULL
    BY <1>2 DEF Inv, StoreInv, InStep
  <1>4. /\ fd # NULL
        /\ dir'[DB_FILE] = fd /\ dir'[TMP_DB_FILE] = NULL
        /\ Database' = Database
    BY <1>1, <1>3, OpenSteps
  <1>5. argv.opt \in AllOpts \ {"-", "h", "x"}
    <2>1. argv \in Argv \/ argv = NoArgv
      BY DEF Inv, TypeInv, ProcOK, ProcState
    <2>2. argv.opt # "x"
      BY DEF Inv, PlaceInv
    <2>3. argv.opt \in AllOpts
      <3>1. CASE argv = NoArgv
        BY <3>1 DEF NoArgv, AllOpts
      <3>2. CASE argv \in [opt : Opts \cap {"a"}, id : IdArgs, gpa : GpaArgs]
        BY <3>2, ArgvAssumption
      <3>3. CASE argv \in [opt : Opts \cap {"d", "f"}, id : IdArgs, gpa : {0}]
        BY <3>3, ArgvAssumption
      <3>4. CASE argv \in [opt : Opts \ {"a", "d", "f"}, id : {0}, gpa : {0}]
        BY <3>4, ArgvAssumption
      <3> QED BY <2>1, <3>1, <3>2, <3>3, <3>4 DEF Argv
    <2> QED BY <1>2, <2>2, <2>3
  <1> HIDE DEF entry
  <1>6. /\ proc'[p].pc = entry /\ proc'[p].fd = fd /\ proc'[p].argv = argv
        /\ proc'[p].off = 0 /\ proc'[p].count = 0 /\ proc'[p].seen = {}
        /\ proc'[p].exit_code = IF entry = "done"
                                THEN EXIT_FAIL_ARGS ELSE EXIT_OK
    BY <1>1, <1>3, <1>4 DEF Inv, TypeInv, ProcOK, ProcState
  <1>7. \/ /\ argv.opt = "a" /\ entry = "add_get"
           /\ validate_range(argv.id, argv.gpa) = NO_ERROR
        \/ /\ argv.opt = "a" /\ entry = "done"
           /\ validate_range(argv.id, argv.gpa) # NO_ERROR
        \/ argv.opt = "c" /\ entry = "count"
        \/ argv.opt = "d" /\ entry = "del_get"
        \/ argv.opt = "f" /\ entry = "find"
        \/ argv.opt = "p" /\ entry = "print"
        \/ argv.opt = "z" /\ entry = "zero"
        \/ argv.opt = "?" /\ entry = "done"
    BY <1>5, EntryValues DEF entry
  <1>8. CASE entry = "done"
    <2>1. /\ proc'[p].pc = "done" /\ proc'[p].exit_code = EXIT_FAIL_ARGS
      BY <1>6, <1>8
    <2>2. InStep(proc'[p], Database')
      BY <2>1, DoneInStep
    <2>3. StoreInv'
      BY <1>4, <2>1, <2>2, StoreInvAfter DEF Inv, StoreInv, Working
    <2>4. store' = store
      BY <1>4, SameStore
    <2>5. /\ call[p].argv = argv /\ Store!Answer(p, 2, {}, 0)
          /\ Store!Effect(p) => [Store!Next]_(Store!svars)
      BY <1>2, <1>6, <2>1, Answers DEF EXIT_FAIL_ARGS
    <2>6. Store!Effect(p)
      <3>1. CASE argv.opt = "?"
        BY <2>4, <2>5, <3>1, UsageEffect
      <3>2. CASE argv.opt # "?"
        <4>1. argv.opt = "a" /\ validate_range(argv.id, argv.gpa) # NO_ERROR
          BY <1>7, <1>8, <3>2
        <4>2. argv.id \in Int /\ argv.gpa \in Int
          BY ArgvType DEF Inv, TypeInv
        <4>3. ~(/\ argv.id \in MIN_STD_ID .. MAX_STD_ID
                /\ argv.gpa \in MIN_STD_GPA .. MAX_STD_GPA)
          BY <4>1, <4>2, RangeAssumption
          DEF validate_range, MIN_STD_ID, MIN_STD_GPA, NO_ERROR, EXIT_FAIL_ARGS
        <4> QED BY <2>4, <2>5, <4>1, <4>3, Effects
      <3> QED BY <3>1, <3>2
    <2> QED BY <2>3, <2>5, <2>6
  <1>9. CASE entry # "done"
    <2>1. Before(Database, 0) = {}
      BY RangeAssumption DEF Before
    <2>2. Cardinality(Before(Database, 0)) = 0 /\ Listed(Database, 0) = {}
      BY <2>1, FS_EmptySet DEF Listed
    <2>3. proc'[p].exit_code = EXIT_OK
      BY <1>6, <1>9
    <2>4. InStep(proc'[p], Database')
      <3>1. entry \in {"add_get", "del_get", "find", "count", "print", "zero"}
        BY <1>7, <1>9
      <3>2. /\ entry = "add_get" => argv.opt = "a"
            /\ entry = "del_get" => argv.opt = "d"
            /\ entry = "find" => argv.opt = "f"
            /\ entry = "count" => argv.opt = "c"
            /\ entry = "print" => argv.opt = "p"
            /\ entry = "zero" => argv.opt = "z"
        BY <1>7
      <3> QED BY <1>4, <1>6, <2>2, <2>3, <3>1, <3>2 DEF InStep
    <2>5. StoreInv'
      BY <1>4, <1>6, <2>4, StoreInvAfter DEF Inv, StoreInv
    <2>6. entry \notin {"idle", "done"}
      BY <1>7, <1>9
    <2>7. [Store!Next]_(Store!svars)
      BY <1>2, <1>4, <1>6, <2>6, Stutters
    <2> QED BY <2>5, <2>7
  <1> QED BY <1>8, <1>9

\* The invariant and the mapping of every step.
LEMMA NextSteps ==
    ASSUME Alone, Inv, [Next]_vars
    PROVE  Inv' /\ [Store!Next]_(Store!svars)
  <1>1. TypeInv' /\ PlaceInv'
    BY TypeInvNext, PlaceInvInductive DEF Alone, Inv
  <1>2. CASE UNCHANGED vars
    <2>1. Database' = Database /\ UNCHANGED <<disk, dir, proc>>
      BY <1>2, SameDatabase DEF vars
    <2>2. StoreInv'
      BY <2>1 DEF Inv, StoreInv, InStep
    <2>3. store' = store
      BY <2>1, SameStore
    <2>4. call' = call
      BY <2>1 DEF call, At
    <2> QED BY <1>1, <2>2, <2>3, <2>4 DEF Inv, Store!svars
  <1>3. CASE Next
    <2>1. PICK p \in Procs : Start(p) \/ Run(p) \/ Crash(p)
      BY <1>3 DEF Next
    <2>2. ~Compress(p)
      BY <2>1, PlaceProc DEF Alone, Inv
    <2>3. StoreInv' /\ [Store!Next]_(Store!svars)
      BY <2>1, <2>2, StartSteps, LeaveSteps, UsageSteps, OpenMainSteps,
         AddGetSteps, AddWriteSteps, DelGetSteps, DelWriteSteps, FindSteps,
         CountSteps, PrintSteps, ZeroSteps DEF Run
    <2> QED BY <1>1, <2>3 DEF Inv
  <1> QED BY <1>2, <1>3

LEMMA InitStore ==
    ASSUME Alone, Init
    PROVE  Inv /\ Store!Init
  <1>1. TypeInv /\ PlaceInv
    BY TypeInvInit, PlaceInvInductive DEF Alone
  <1>2. Database = <<>>
    BY DEF Init, Database, Names
  <1>3. \A p \in Procs : proc[p] = Idle
    BY DEF Init
  <1>4. InStep(Idle, Database) /\ Idle.pc \notin Working
    BY DEF InStep, Idle, Working
  <1>5. StoreInv
    BY <1>2, <1>3, <1>4 DEF Init, StoreInv, Names
  <1>6. store = << >>
    <2>1. Before(Database, Len(Database)) = {}
      BY <1>2, RangeAssumption DEF Before
    <2> QED BY <2>1, StoreValues
  <1>7. call = [p \in Procs |-> Store!Nothing]
    <2>1. call = [p \in Procs |-> CallOf(proc[p])]
      BY Zenon DEF call, CallOf, At
    <2>2. CallOf(Idle) = Store!Nothing
      <3>1. Idle.pc = "idle" /\ Idle.argv = NoArgv
        BY DEF Idle
      <3> QED BY <3>1, CallOfPhases DEF Store!Nothing
    <2> QED BY <1>3, <2>1, <2>2
  <1> QED BY <1>1, <1>5, <1>6, <1>7 DEF Inv, Store!Init

\* One process at a time, without -x and without failing calls, the program is
\* the map from ids to gpas of StudentStore: every command answers as the map
\* would at one instant of its run, and one that is killed has done its whole
\* update or none of it.
THEOREM StoreRefined ==
    ASSUME Alone
    PROVE  Spec => ImplementsStore
  <1>1. Init => Inv /\ Store!Init
    BY InitStore
  <1>2. Inv /\ [Next]_vars => Inv' /\ [Store!Next]_(Store!svars)
    BY NextSteps
  <1> QED BY <1>1, <1>2, PTL DEF Spec, ImplementsStore, Store!StoreSpec
=============================================================================
