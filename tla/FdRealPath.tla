----------------------------- MODULE FdRealPath -----------------------------
(***************************************************************************)
(* getRegularFileFdRealPath() (UnixFileUtils.c): the path of the file a    *)
(* descriptor refers to, by readlink() of /dev/fd/N or /proc/PID/fd/N and  *)
(* a comparison of the file at that path with the descriptor N.  Between   *)
(* its three system calls files are renamed, replaced and deleted, inodes  *)
(* are reused, and descriptors are closed and reused.                      *)
(***************************************************************************)
EXTENDS Integers

CONSTANTS
  Paths,        \* absolute paths of the file system
  DeletedPath,  \* one of them: the text the kernel gives for a deleted file
  Inodes,       \* what st_dev and st_ino identify
  None,
  NotAPath,     \* the text of a link that is not a path, as of a socket
  MaxEvents     \* bound: actions of others

(* A file is an inode at a time: gen counts the lives of inodes.  stat()   *)
(* shows the inode only.                                                   *)
Kinds == {"regular", "directory", "other"}
Files == [ino: Inodes, gen: 0..MaxEvents, kind: Kinds]

ASSUME FdRealPathAssumption ==
  /\ DeletedPath \in Paths
  /\ {None, NotAPath} \cap Paths = {} /\ None # NotAPath
  /\ None \notin Files
  /\ MaxEvents \in Nat

VARIABLES
  at,        \* the file at each path
  fd,        \* what number N refers to in this process
  foreign,   \* and in the process PID
  own,       \* PID is this process
  held,      \* history: no other thread has closed N since the call
  events,
  pc,
  fdStat,    \* fdStatbuf: the file number N referred to
  realPath,
  answer

othersVars == <<at, fd, foreign, held, events>>
callVars   == <<pc, fdStat, realPath, answer>>
vars == <<othersVars, callVars, own>>

(* A descriptor has the name its file was opened by; the kernel follows    *)
(* renames, and adds " (deleted)" to a name that is no longer there.       *)
Closed == [file |-> None, name |-> None, live |-> FALSE]
Open(file, name) == [file |-> file, name |-> name, live |-> TRUE]
Text(d) == IF d.live THEN d.name ELSE DeletedPath

Named == IF own THEN fd ELSE foreign

-----------------------------------------------------------------------------

Descriptors(tree, kinds) ==
  {Closed}
  \cup {Open(tree[p], p) : p \in {q \in Paths : tree[q] # None}}
  \cup {[file |-> [ino |-> n, gen |-> 0, kind |-> kinds[n]],
         name |-> IF kinds[n] = "other" THEN NotAPath ELSE None,
         live |-> kinds[n] = "other"] : n \in Inodes}

Init ==
  /\ \E kinds \in [Inodes -> Kinds], inode \in [Paths -> Inodes \cup {None}] :
       /\ at = [p \in Paths |->
                  IF inode[p] = None THEN None
                  ELSE [ino |-> inode[p], gen |-> 0, kind |-> kinds[inode[p]]]]
       /\ fd \in Descriptors(at, kinds)
       /\ foreign \in Descriptors(at, kinds)
  /\ own \in BOOLEAN
  /\ held = TRUE
  /\ events = 0
  /\ pc = "fstat"
  /\ fdStat = None /\ realPath = None /\ answer = None

Return(a) ==
  /\ pc' = "done"
  /\ answer' = a

Fstat ==
  /\ pc = "fstat"
  /\ IF fd = Closed
     THEN Return(None) /\ UNCHANGED fdStat
     ELSE fdStat' = fd.file /\ pc' = "readlink" /\ UNCHANGED answer
  /\ UNCHANGED <<othersVars, own, realPath>>

(* readlink(); then what is not a regular file or not an absolute path is  *)
(* refused.                                                                *)
Readlink ==
  /\ pc = "readlink"
  /\ IF Named = Closed
     THEN Return(None) /\ UNCHANGED realPath
     ELSE /\ realPath' = Text(Named)
          /\ IF fdStat.kind # "regular" \/ realPath' \notin Paths
             THEN Return(None)
             ELSE pc' = "stat" /\ UNCHANGED answer
  /\ UNCHANGED <<othersVars, own, fdStat>>

(* st_dev and st_ino are compared *)
SameFile_Any(f) == f # None          \* mutation: that it exists is enough
SameFile(f) == f # None /\ f.ino = fdStat.ino

\* mutation: the comparison the wrong way round
Stat_Reversed ==
  /\ pc = "stat"
  /\ Return(IF ~ SameFile(at[realPath]) THEN realPath ELSE None)
  /\ UNCHANGED <<othersVars, own, fdStat, realPath>>

Stat ==
  /\ pc = "stat"
  /\ Return(IF SameFile(at[realPath]) THEN realPath ELSE None)
  /\ UNCHANGED <<othersVars, own, fdStat, realPath>>

-----------------------------------------------------------------------------
(* Other programs, and other threads of this one.                          *)

Deleted(d, p) ==
  IF d.live /\ d.name = p THEN [file |-> d.file, name |-> p, live |-> FALSE] ELSE d
Renamed(d, p, q) ==
  IF d.live /\ d.name = p THEN Open(d.file, q) ELSE Deleted(d, q)

Rename(p, q) ==
  /\ p # q /\ at[p] # None
  /\ at' = [at EXCEPT ![q] = at[p], ![p] = None]
  /\ fd' = Renamed(fd, p, q)
  /\ foreign' = Renamed(foreign, p, q)
  /\ UNCHANGED held

Unlink(p) ==
  /\ at[p] # None
  /\ at' = [at EXCEPT ![p] = None]
  /\ fd' = Deleted(fd, p)
  /\ foreign' = Deleted(foreign, p)
  /\ UNCHANGED held

(* An inode can be used again when nothing refers to it any more. *)
InUse == {f.ino : f \in {g \in {at[p] : p \in Paths} \cup {fd.file, foreign.file} : g # None}}

Create(p) ==
  /\ at[p] = None
  /\ \E n \in Inodes \ InUse, k \in Kinds :
       at' = [at EXCEPT ![p] = [ino |-> n, gen |-> events + 1, kind |-> k]]
  /\ UNCHANGED <<fd, foreign, held>>

CloseFd ==
  /\ fd # Closed
  /\ fd' = Closed
  /\ held' = FALSE
  /\ UNCHANGED <<at, foreign>>

OpenFd(p) ==
  /\ fd = Closed /\ at[p] # None
  /\ fd' = Open(at[p], p)
  /\ UNCHANGED <<at, foreign, held>>

ForeignReopens(p) ==
  /\ at[p] # None
  /\ foreign' = Open(at[p], p)
  /\ UNCHANGED <<at, fd, held>>

Others ==
  /\ pc # "done"
  /\ events < MaxEvents
  /\ events' = events + 1
  /\ \/ \E p, q \in Paths : Rename(p, q)
     \/ \E p \in Paths : Unlink(p) \/ Create(p) \/ OpenFd(p) \/ ForeignReopens(p)
     \/ CloseFd
  /\ UNCHANGED <<callVars, own>>

Next == Fstat \/ Readlink \/ Stat \/ Others

Spec == Init /\ [][Next]_vars

-----------------------------------------------------------------------------
(* Properties.                                                             *)

(* A path is returned only when at the last of the three calls the file    *)
(* there is the very file, not one with its inode number, that descriptor  *)
(* N referred to at the first; it is a regular file; and that in whatever  *)
(* process PID is, if no other thread closes N during the call             *)
(* (UnixFileUtils.c:159-214).                                              *)
AnswerNamesTheFile ==
  [][answer' # answer /\ held =>
       fdStat.kind = "regular" /\ at[answer'] = fdStat]_vars

(* A regular file that nothing touches is found, when N is this process's. *)
(* (The path of a descriptor of another process is looked up under the     *)
(* same number here, line 160, and its file is then not found.)            *)
FoundWhenUntouched ==
  pc = "done" /\ events = 0 /\ own /\ fd.live /\ fd.file.kind = "regular" =>
    answer = fd.name

=============================================================================
