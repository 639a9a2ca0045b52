-------------------------- MODULE FdRealPathProofs --------------------------
(***************************************************************************)
(* What getRegularFileFdRealPath() answers, for any paths, inodes and      *)
(* number of actions of others.                                            *)
(***************************************************************************)
EXTENDS FdRealPath, TLAPS

-----------------------------------------------------------------------------
(* The inductive invariant.                                                *)

Descs == [file: Files \cup {None}, name: Paths \cup {None, NotAPath}, live: BOOLEAN]

TypeInv ==
  /\ at \in [Paths -> Files \cup {None}]
  /\ fd \in Descs
  /\ foreign \in Descs
  /\ events \in 0..MaxEvents
  /\ held \in BOOLEAN
  /\ pc \in {"fstat", "readlink", "stat", "done"}

(* Two files that are there at the same time have different inodes: what   *)
(* stat() shows is enough to tell them apart while descriptor N keeps the  *)
(* file it had.                                                            *)
There == ({at[p] : p \in Paths} \cup {fd.file, foreign.file}) \ {None}
InodesDiffer == \A f, g \in There : f.ino = g.ino => f = g

(* Descriptor N, unless closed, still refers to what fstat() saw.          *)
HeldInv ==
  /\ fd = Closed \/ fd.file # None
  /\ held /\ pc \in {"readlink", "stat"} => fd.file = fdStat /\ fdStat # None

CallInv ==
  /\ pc # "done" => answer = None
  /\ pc = "stat" => fdStat.kind = "regular" /\ realPath \in Paths

(* How far the call is on a regular file that nothing touches. *)
UntouchedInv ==
  events = 0 /\ own /\ fd.live /\ fd.file.kind = "regular" =>
    /\ fd.file # None /\ fd.name \in Paths /\ at[fd.name] = fd.file
    /\ pc # "fstat" => fdStat = fd.file
    /\ pc = "stat" => realPath = fd.name
    /\ pc = "done" => answer = fd.name

FdRealPathInv == TypeInv /\ InodesDiffer /\ HeldInv /\ CallInv /\ UntouchedInv

-----------------------------------------------------------------------------
(* What a descriptor refers to at first.                                   *)
FirstDesc(d, kinds) ==
  /\ d \in Descs
  /\ d = Closed \/ d.file # None
  /\ d.file # None =>
       d.file = [ino |-> d.file.ino, gen |-> 0, kind |-> kinds[d.file.ino]]
  /\ d.live /\ d.file.kind = "regular" =>
       d.file # None /\ d.name \in Paths /\ at[d.name] = d.file

LEMMA InitialDescriptors ==
  ASSUME NEW kinds \in [Inodes -> Kinds],
         NEW inode \in [Paths -> Inodes \cup {None}],
         at = [p \in Paths |->
                 IF inode[p] = None THEN None
                 ELSE [ino |-> inode[p], gen |-> 0, kind |-> kinds[inode[p]]]]
  PROVE  \A d \in Descriptors(at, kinds) : FirstDesc(d, kinds)
<1> USE FdRealPathAssumption
<1> TAKE d \in Descriptors(at, kinds)
<1> USE DEF FirstDesc
<1>1. \A p \in Paths : at[p] # None =>
        /\ at[p] \in Files
        /\ at[p] = [ino |-> at[p].ino, gen |-> 0, kind |-> kinds[at[p].ino]]
  BY DEF Files
<1>2. CASE d = Closed
  BY <1>2 DEF Closed, Descs
<1>3. ASSUME NEW p \in Paths, at[p] # None, d = Open(at[p], p)
      PROVE  /\ d \in Descs /\ d.file = at[p] /\ d.name = p
  BY <1>1, <1>3 DEF Open, Descs
<1>4. ASSUME NEW n \in Inodes,
             d = [file |-> [ino |-> n, gen |-> 0, kind |-> kinds[n]],
                  name |-> IF kinds[n] = "other" THEN NotAPath ELSE None,
                  live |-> kinds[n] = "other"]
      PROVE  /\ d \in Descs /\ d.file # None
             /\ d.file = [ino |-> n, gen |-> 0, kind |-> kinds[n]]
             /\ d.live => d.file.kind = "other"
  <2>1. [ino |-> n, gen |-> 0, kind |-> kinds[n]] \in Files
    BY DEF Files
  <2> QED
    BY <1>4, <2>1 DEF Descs
<1>5. QED
  <2>1. CASE \E p \in Paths : at[p] # None /\ d = Open(at[p], p)
    <3>1. PICK p \in Paths : at[p] # None /\ d = Open(at[p], p)
      BY <2>1
    <3> QED
      BY <1>1, <1>3, <3>1
  <2>2. CASE \E n \in Inodes :
               d = [file |-> [ino |-> n, gen |-> 0, kind |-> kinds[n]],
                    name |-> IF kinds[n] = "other" THEN NotAPath ELSE None,
                    live |-> kinds[n] = "other"]
    BY <1>4, <2>2
  <2> QED
    BY <1>2, <2>1, <2>2 DEF Descriptors, Closed

LEMMA InitInv == Init => FdRealPathInv
<1> SUFFICES ASSUME Init PROVE FdRealPathInv
  OBVIOUS
<1> USE FdRealPathAssumption
<1>1. PICK kinds \in [Inodes -> Kinds], inode \in [Paths -> Inodes \cup {None}] :
        /\ at = [p \in Paths |->
                   IF inode[p] = None THEN None
                   ELSE [ino |-> inode[p], gen |-> 0, kind |-> kinds[inode[p]]]]
        /\ fd \in Descriptors(at, kinds)
        /\ foreign \in Descriptors(at, kinds)
  BY DEF Init
<1>2. FirstDesc(fd, kinds) /\ FirstDesc(foreign, kinds)
  BY <1>1, InitialDescriptors
<1>3. \A f \in There : f = [ino |-> f.ino, gen |-> 0, kind |-> kinds[f.ino]]
  <2>1. \A p \in Paths : at[p] # None =>
          at[p] = [ino |-> at[p].ino, gen |-> 0, kind |-> kinds[at[p].ino]]
    BY <1>1
  <2> QED
    BY ZenonT(40), <1>2, <2>1 DEF There, FirstDesc
<1>4. TypeInv
  <2>1. at \in [Paths -> Files \cup {None}]
    BY <1>1 DEF Files
  <2> QED
    BY <1>2, <2>1 DEF Init, TypeInv, FirstDesc
<1>5. InodesDiffer
  BY <1>3 DEF InodesDiffer
<1>6. HeldInv
  BY <1>2 DEF Init, HeldInv, FirstDesc
<1>7. CallInv
  BY DEF Init, CallInv
<1>8. UntouchedInv
  BY <1>2 DEF Init, UntouchedInv, FirstDesc
<1> QED
  BY <1>4, <1>5, <1>6, <1>7, <1>8 DEF FdRealPathInv

-----------------------------------------------------------------------------
(* What others do leaves the file of a descriptor alone, unless it is      *)
(* closed or opened.                                                       *)

LEMMA DeletedDesc ==
  ASSUME NEW d \in Descs, NEW p \in Paths
  PROVE  /\ Deleted(d, p) \in Descs /\ Deleted(d, p).file = d.file
         /\ d = Closed => Deleted(d, p) = Closed
<1>1. /\ d.file \in Files \cup {None} /\ d.live \in BOOLEAN
      /\ d = Closed => ~ d.live
  BY DEF Descs, Closed
<1>2. [file |-> d.file, name |-> p, live |-> FALSE] \in Descs
  BY <1>1 DEF Descs
<1>3. CASE d.live /\ d.name = p
  <2>1. Deleted(d, p) = [file |-> d.file, name |-> p, live |-> FALSE]
    BY <1>3, Zenon DEF Deleted
  <2> QED
    BY <1>1, <1>2, <1>3, <2>1
<1>4. CASE ~ (d.live /\ d.name = p)
  <2>1. Deleted(d, p) = d
    BY <1>4, Zenon DEF Deleted
  <2> QED
    BY <2>1
<1> QED
  BY <1>3, <1>4

LEMMA OpenDesc ==
  ASSUME NEW f \in Files \cup {None}, NEW p \in Paths
  PROVE  Open(f, p) \in Descs /\ Open(f, p).file = f
  BY DEF Open, Descs

LEMMA RenamedDesc ==
  ASSUME NEW d \in Descs, NEW p \in Paths, NEW q \in Paths
  PROVE  /\ Renamed(d, p, q) \in Descs /\ Renamed(d, p, q).file = d.file
         /\ d = Closed => Renamed(d, p, q) = Closed
<1>1. CASE d.live /\ d.name = p
  <2>1. d # Closed /\ d.file \in Files \cup {None}
    BY <1>1 DEF Descs, Closed
  <2>2. Renamed(d, p, q) = Open(d.file, q)
    BY <1>1, Zenon DEF Renamed
  <2> QED
    BY <2>1, <2>2, OpenDesc
<1>2. CASE ~ (d.live /\ d.name = p)
  <2>1. Renamed(d, p, q) = Deleted(d, q)
    BY <1>2, Zenon DEF Renamed
  <2> QED
    BY <2>1, DeletedDesc
<1> QED
  BY <1>1, <1>2

LEMMA ClosedDesc == Closed \in Descs /\ Closed.file = None
  BY DEF Closed, Descs

(* The parts of the invariant an action of others can disturb. *)
FilesInv ==
  /\ at \in [Paths -> Files \cup {None}]
  /\ fd \in Descs
  /\ foreign \in Descs
  /\ InodesDiffer
  /\ fd = Closed \/ fd.file # None

(* No file is there that was not. *)
LEMMA FewerFiles ==
  ASSUME InodesDiffer, There' \subseteq There
  PROVE  InodesDiffer'
  BY DEF InodesDiffer

LEMMA OthersStep ==
  ASSUME TypeInv, FilesInv, Others
  PROVE  FilesInv' /\ held' \in BOOLEAN /\ (held' => held /\ (pc # "fstat" /\ fd.file # None => fd'.file = fd.file))
<1> USE FdRealPathAssumption
<1>1. ASSUME NEW p \in Paths, NEW q \in Paths, Rename(p, q)
      PROVE  FilesInv' /\ held' = held /\ fd'.file = fd.file
  <2>1. /\ fd' \in Descs /\ fd'.file = fd.file /\ (fd = Closed => fd' = Closed)
        /\ foreign' \in Descs /\ foreign'.file = foreign.file
    BY <1>1, RenamedDesc DEF Rename, FilesInv
  <2>2. at' \in [Paths -> Files \cup {None}]
    BY <1>1 DEF Rename, FilesInv
  <2>3. \A x \in Paths : at'[x] \in {at[y] : y \in Paths} \cup {None}
    BY <1>1 DEF Rename, FilesInv
  <2>4. There' \subseteq There
    BY <2>1, <2>3 DEF There
  <2> QED
    BY <1>1, <2>1, <2>2, <2>4, FewerFiles DEF FilesInv, Rename
<1>2. ASSUME NEW p \in Paths, Unlink(p)
      PROVE  FilesInv' /\ held' = held /\ fd'.file = fd.file
  <2>1. /\ fd' \in Descs /\ fd'.file = fd.file /\ (fd = Closed => fd' = Closed)
        /\ foreign' \in Descs /\ foreign'.file = foreign.file
    BY <1>2, DeletedDesc DEF Unlink, FilesInv
  <2>2. at' \in [Paths -> Files \cup {None}]
    BY <1>2 DEF Unlink, FilesInv
  <2>3. \A x \in Paths : at'[x] \in {at[y] : y \in Paths} \cup {None}
    BY <1>2 DEF Unlink, FilesInv
  <2>4. There' \subseteq There
    BY <2>1, <2>3 DEF There
  <2> QED
    BY <1>2, <2>1, <2>2, <2>4, FewerFiles DEF FilesInv, Unlink
<1>3. ASSUME NEW p \in Paths, events < MaxEvents, Create(p)
      PROVE  FilesInv' /\ held' = held /\ fd' = fd
  <2>1. PICK n \in Inodes \ InUse, k \in Kinds :
          at' = [at EXCEPT ![p] = [ino |-> n, gen |-> events + 1, kind |-> k]]
    BY <1>3 DEF Create
  <2> DEFINE new == [ino |-> n, gen |-> events + 1, kind |-> k]
  <2>2. new \in Files
    BY <1>3 DEF Files, TypeInv
  <2>3. \A f \in There : f.ino # n
    BY <2>1 DEF There, InUse
  <2>4. There' \subseteq There \cup {new}
    BY <1>3, <2>1 DEF There, Create, FilesInv
  <2>5. InodesDiffer'
    BY <2>3, <2>4 DEF InodesDiffer, FilesInv
  <2>6. at' \in [Paths -> Files \cup {None}]
    BY <2>1, <2>2 DEF FilesInv
  <2> QED
    BY <1>3, <2>5, <2>6 DEF Create, FilesInv
<1>4. ASSUME NEW p \in Paths, OpenFd(p)
      PROVE  FilesInv' /\ held' = held /\ fd.file = None
  <2>1. /\ fd' \in Descs /\ fd'.file = at[p] /\ at[p] # None
        /\ foreign' = foreign /\ at' = at /\ held' = held /\ fd = Closed
    BY <1>4, OpenDesc DEF OpenFd, FilesInv
  <2>2. There' \subseteq There
    BY <2>1 DEF There
  <2> QED
    BY <2>1, <2>2, FewerFiles, ClosedDesc DEF FilesInv
<1>5. ASSUME NEW p \in Paths, ForeignReopens(p)
      PROVE  FilesInv' /\ held' = held /\ fd' = fd
  <2>1. /\ foreign' \in Descs /\ foreign'.file = at[p] /\ at[p] # None
        /\ fd' = fd /\ at' = at /\ held' = held
    BY <1>5, OpenDesc DEF ForeignReopens, FilesInv
  <2>2. There' \subseteq There
    BY <2>1 DEF There
  <2> QED
    BY <2>1, <2>2, FewerFiles DEF FilesInv
<1>6. ASSUME CloseFd
      PROVE  FilesInv' /\ held' = FALSE
  <2>1. There' \subseteq There
    BY <1>6, ClosedDesc DEF There, CloseFd
  <2> QED
    BY <1>6, <2>1, FewerFiles, ClosedDesc DEF FilesInv, CloseFd
<1> QED
  BY <1>1, <1>2, <1>3, <1>4, <1>5, <1>6 DEF Others, TypeInv

LEMMA NextInv == FdRealPathInv /\ [Next]_vars => FdRealPathInv'
<1> SUFFICES ASSUME FdRealPathInv, [Next]_vars PROVE FdRealPathInv'
  OBVIOUS
<1> USE FdRealPathAssumption
<1>1. CASE UNCHANGED vars
  BY <1>1 DEF FdRealPathInv, TypeInv, InodesDiffer, There, HeldInv, CallInv, UntouchedInv,
              vars, othersVars, callVars
<1>2. ASSUME UNCHANGED <<othersVars, own>>, pc' \in {"fstat", "readlink", "stat", "done"}
      PROVE  TypeInv' /\ InodesDiffer' /\ (fd = Closed \/ fd.file # None)'
  BY <1>2 DEF FdRealPathInv, TypeInv, InodesDiffer, There, HeldInv, othersVars
<1>3. CASE Fstat
  BY <1>2, <1>3, ClosedDesc
     DEF FdRealPathInv, Fstat, Return, HeldInv, CallInv, UntouchedInv, othersVars, TypeInv
<1>4. CASE Readlink
  BY <1>2, <1>4, ClosedDesc
     DEF FdRealPathInv, Readlink, Return, HeldInv, CallInv, UntouchedInv, Named, Text,
         othersVars, TypeInv
<1>5. CASE Stat
  BY <1>2, <1>5
     DEF FdRealPathInv, Stat, Return, HeldInv, CallInv, UntouchedInv, SameFile,
         othersVars, TypeInv
<1>6. CASE Others
  <2>1. FilesInv' /\ held' \in BOOLEAN
        /\ (held' => held /\ (pc # "fstat" /\ fd.file # None => fd'.file = fd.file))
    BY <1>6, OthersStep DEF FdRealPathInv, FilesInv, TypeInv, HeldInv
  <2>2. /\ events' \in 1..MaxEvents
        /\ UNCHANGED <<pc, fdStat, realPath, answer, own>>
    BY <1>6 DEF Others, callVars, FdRealPathInv, TypeInv
  <2>3. TypeInv' /\ InodesDiffer'
    BY <2>1, <2>2 DEF FilesInv, FdRealPathInv, TypeInv
  <2>4. HeldInv'
    BY <2>1, <2>2 DEF FilesInv, FdRealPathInv, HeldInv
  <2>5. CallInv' /\ UntouchedInv'
    BY <2>2 DEF FdRealPathInv, CallInv, UntouchedInv
  <2> QED
    BY <2>3, <2>4, <2>5 DEF FdRealPathInv
<1> QED
  BY <1>1, <1>3, <1>4, <1>5, <1>6 DEF Next

(* The files there always have different inodes, N refers to what fstat()  *)
(* saw unless another thread closes it, and the rest of the invariant.     *)
THEOREM Invariance == Spec => []FdRealPathInv
<1> QED
  BY InitInv, NextInv, PTL DEF Spec

(* A regular file that nothing touches is found, whatever its name and the *)
(* other files (getRegularFileFdRealPath()).                               *)
THEOREM UntouchedIsFound == Spec => []FoundWhenUntouched
<1>1. FdRealPathInv => FoundWhenUntouched
  BY DEF FdRealPathInv, UntouchedInv, FoundWhenUntouched
<1> QED
  BY Invariance, <1>1, PTL

(* A path is only returned for the very file the descriptor referred to,   *)
(* for any number of renames, deletions and reused inodes in between.      *)
THEOREM AnswerIsTheFile == Spec => AnswerNamesTheFile
<1>1. FdRealPathInv /\ [Next]_vars =>
        [answer' # answer /\ held => fdStat.kind = "regular" /\ at[answer'] = fdStat]_vars
  <2> SUFFICES ASSUME FdRealPathInv, Next, answer' # answer, held
               PROVE  fdStat.kind = "regular" /\ at[answer'] = fdStat
    OBVIOUS
  <2>1. pc = "stat" /\ SameFile(at[realPath]) /\ answer' = realPath
    BY DEF Next, Fstat, Readlink, Stat, Others, Return, callVars, FdRealPathInv, CallInv
  <2>2. fdStat \in There /\ at[realPath] \in There /\ fdStat.kind = "regular"
    BY <2>1 DEF FdRealPathInv, HeldInv, CallInv, There, SameFile
  <2> QED
    BY <2>1, <2>2 DEF FdRealPathInv, InodesDiffer, SameFile
<1> QED
  BY Invariance, <1>1, PTL DEF Spec, AnswerNamesTheFile

=============================================================================
