--------------------------- MODULE MakePathProofs ---------------------------
(***************************************************************************)
(* The umask of createDirectoryFile(), for all processes, paths, umasks,   *)
(* modes and interferences.                                                *)
(***************************************************************************)
EXTENDS MakePath, WellFoundedInduction, TLAPS

(* Each of the ways a step of make_path() can end, for one process. *)
LEMMA FinishKeeps ==
  ASSUME MakerInv, NEW p \in Makers, NEW r \in {"ok", "failed"},
         Finish(p, r), pc[p] # "idle"
  PROVE  /\ pc' \in [Makers -> Pcs] /\ comp' \in [Makers -> Nat]
         /\ umask' \in [Makers -> SUBSET AllBits]
         /\ MaskInv'
BY DEF MakerInv, TypeOK, MaskInv, Finish, RestoreUmask, Goto, argVars, Pcs

LEMMA GotoKeeps ==
  ASSUME MakerInv, NEW p \in Makers,
         NEW r \in {"mkdir", "chmod", "mkdirFinal", "crashed"},
         Goto(p, r), pc[p] # "idle", UNCHANGED <<maskVars, argVars>>
  PROVE  pc' \in [Makers -> Pcs] /\ MaskInv'
BY DEF MakerInv, TypeOK, MaskInv, Goto, maskVars, argVars, Pcs

LEMMA AdvanceKeeps ==
  ASSUME MakerInv, NEW p \in Makers, Advance(p), pc[p] # "idle"
  PROVE  pc' \in [Makers -> Pcs] /\ comp' \in [Makers -> Nat] /\ MaskInv'
BY DEF MakerInv, TypeOK, MaskInv, Advance, Goto, maskVars, argVars, Pcs

NodeRec == [kind: {"none", "file", "dir"}, mode: SUBSET AllBits]
NodeType == [Components -> NodeRec]

(* What can be written to a component of the path. *)
LEMMA NodeValues ==
  /\ Missing \in NodeRec /\ File \in NodeRec
  /\ \A m \in SUBSET AllBits : Dir(m) \in NodeRec
BY DEF NodeRec, Missing, File, Dir

LEMMA NodeSet ==
  ASSUME NEW n \in NodeType, NEW i, NEW r \in NodeRec
  PROVE  [n EXCEPT ![i] = r] \in NodeType
BY DEF NodeType

LEMMA NodeChmod ==
  ASSUME NEW n \in NodeType, NEW i, NEW m \in SUBSET AllBits
  PROVE  [n EXCEPT ![i].mode = m] \in NodeType
<1>1. CASE i \in Components
  <2>1. n[i] \in NodeRec
    BY <1>1 DEF NodeType
  <2>2. [n[i] EXCEPT !.mode = m] \in NodeRec
    BY <2>1 DEF NodeRec
  <2>3. QED
    BY <2>2, NodeSet
<1>2. CASE i \notin Components
  BY <1>2 DEF NodeType
<1>3. QED
  BY <1>1, <1>2

LEMMA MakerInvInit == Init => MakerInv
<1> SUFFICES ASSUME Init PROVE MakerInv
  OBVIOUS
<1>1. node \in NodeType
  BY MakePathAssumption DEF Init, InitialNodes, NodeType, NodeRec, Missing, File, Dir
<1>2. QED
  BY <1>1, MakePathAssumption
  DEF Init, MakerInv, TypeOK, MaskInv, NodeType, NodeRec, Pcs

LEMMA MakerInvStep ==
  ASSUME MakerInv, [Next]_vars
  PROVE  MakerInv'
<1>0. TypeOK /\ MaskInv /\ node \in NodeType
  BY DEF MakerInv, TypeOK, NodeType, NodeRec
<1> USE MakePathAssumption
<1>1. ASSUME NEW p \in Makers, Call(p)
      PROVE  MakerInv'
  <2>1. /\ umask[p] = original[p] /\ umask[p] \subseteq AllBits
        /\ sOriginalUmask' = [sOriginalUmask EXCEPT ![p] = umask[p]]
        /\ parentMode' = [parentMode EXCEPT ![p] =
                            (AllBits \ umask[p]) \cup {UserWrite, UserExec}]
        /\ before' = [before EXCEPT ![p] = node]
        /\ pc' = [pc EXCEPT ![p] = "path"]
        /\ UNCHANGED <<node, events, trailing, comp, umask, original>>
    BY <1>0, <1>1 DEF Call, MaskInv, TypeOK, Goto, fsVars
  <2>2. PICK um \in BOOLEAN, mode \in Modes :
          /\ userMode' = [userMode EXCEPT ![p] = um]
          /\ nmode' = [nmode EXCEPT ![p] = (AllBits \ umask[p]) \cap mode]
    BY <1>1 DEF Call
  <2>3. TypeOK'
    BY <1>0, <2>1, <2>2 DEF TypeOK, Pcs
  <2>4. MaskInv'
    BY <1>0, <2>1, <2>2 DEF TypeOK, MaskInv
  <2>5. QED
    BY <2>3, <2>4 DEF MakerInv
<1>2. ASSUME NEW p \in Makers, PathExists(p) \/ ChmodPath(p) \/ PathMissing(p)
      PROVE  MakerInv'
  <2>1. CASE PathExists(p)
    BY <1>0, <2>1
    DEF PathExists, MakerInv, TypeOK, MaskInv, Goto, fsVars, maskVars, argVars,
        Pcs
  <2>2. CASE ChmodPath(p)
    <3>1. node' \in NodeType
      <4>1. [node EXCEPT ![Depth].mode = nmode[p]] \in NodeType
        BY <1>0, NodeChmod DEF TypeOK
      <4>2. QED
        BY <1>0, <2>2, <4>1 DEF ChmodPath
    <3>2. pc' \in [Makers -> Pcs] /\ MaskInv'
      BY <1>0, <2>2
      DEF ChmodPath, TypeOK, MaskInv, Goto, maskVars, argVars, Pcs
    <3>3. QED
      BY <1>0, <2>2, <3>1, <3>2
      DEF ChmodPath, MakerInv, TypeOK, NodeType, NodeRec, maskVars, argVars
  <2>3. CASE PathMissing(p)
    BY <1>0, <2>3
    DEF PathMissing, MakerInv, TypeOK, MaskInv, Goto, fsVars, argVars, Pcs
  <2>4. QED
    BY <1>2, <2>1, <2>2, <2>3
<1>3. ASSUME NEW p \in Makers, StatComponent(p) \/ StatFinal(p) \/ Crash(p)
      PROVE  MakerInv'
  <2>1. /\ UNCHANGED <<fsVars, argVars, original, sOriginalUmask>>
        /\ pc[p] # "idle"
    BY <1>3
    DEF StatComponent, StatFinal, Crash, Finish, Advance, maskVars
  <2>2. /\ pc' \in [Makers -> Pcs] /\ comp' \in [Makers -> Nat]
        /\ umask' \in [Makers -> SUBSET AllBits] /\ MaskInv'
    <3>1. CASE \E r \in {"ok", "failed"} : Finish(p, r)
      BY <2>1, <3>1, FinishKeeps
    <3>2. CASE Advance(p)
      BY <1>0, <2>1, <3>2, AdvanceKeeps DEF Advance, maskVars, TypeOK
    <3>3. CASE /\ \E r \in {"mkdir", "chmod", "mkdirFinal", "crashed"} : Goto(p, r)
               /\ UNCHANGED <<comp, maskVars, argVars>>
      BY <1>0, <2>1, <3>3, GotoKeeps DEF maskVars, TypeOK
    <3>4. QED
      BY <1>3, <3>1, <3>2, <3>3 DEF StatComponent, StatFinal, Crash
  <2>3. QED
    BY <1>0, <2>1, <2>2 DEF MakerInv, TypeOK, fsVars, argVars
<1>4. ASSUME NEW p \in Makers,
             MkdirComponent(p) \/ ChmodComponent(p) \/ MkdirFinal(p)
      PROVE  MakerInv'
  <2>1. /\ UNCHANGED <<events, trailing, argVars, original, sOriginalUmask>>
        /\ pc[p] # "idle"
    BY <1>4
    DEF MkdirComponent, ChmodComponent, MkdirFinal, Finish, Advance, maskVars
  <2>2. node' \in NodeType
    <3>1. CASE MkdirComponent(p)
      <4>1. [node EXCEPT ![comp[p]] = Dir({})] \in NodeType
        BY <1>0, NodeSet, NodeValues
      <4>2. QED
        BY <1>0, <3>1, <4>1 DEF MkdirComponent
    <3>2. CASE ChmodComponent(p)
      <4>1. [node EXCEPT ![comp[p]].mode = parentMode[p]] \in NodeType
        BY <1>0, NodeChmod DEF TypeOK
      <4>2. QED
        BY <1>0, <3>2, <4>1 DEF ChmodComponent
    <3>3. CASE MkdirFinal(p)
      <4>1. nmode[p] \ umask[p] \in SUBSET AllBits
        BY <1>0 DEF TypeOK
      <4>2. Dir(nmode[p] \ umask[p]) \in NodeRec
        BY <4>1, NodeValues
      <4>3. [node EXCEPT ![Depth] = Dir(nmode[p] \ umask[p])] \in NodeType
        BY <1>0, <4>2, NodeSet
      <4>4. \/ node' = [node EXCEPT ![Depth] = Dir(nmode[p] \ umask[p])]
            \/ UNCHANGED node
        BY <3>3 DEF MkdirFinal
      <4>5. QED
        BY <1>0, <4>3, <4>4
    <3>4. QED
      BY <1>4, <3>1, <3>2, <3>3
  <2>3. /\ pc' \in [Makers -> Pcs] /\ comp' \in [Makers -> Nat]
        /\ umask' \in [Makers -> SUBSET AllBits] /\ MaskInv'
    <3>1. CASE \E r \in {"ok", "failed"} : Finish(p, r)
      BY <2>1, <3>1, FinishKeeps
    <3>2. CASE Advance(p)
      BY <1>0, <2>1, <3>2, AdvanceKeeps DEF Advance, maskVars, TypeOK
    <3>3. CASE /\ \E r \in {"mkdir", "chmod", "mkdirFinal", "crashed"} : Goto(p, r)
               /\ UNCHANGED <<comp, maskVars, argVars>>
      BY <1>0, <2>1, <3>3, GotoKeeps DEF maskVars, TypeOK
    <3>4. QED
      BY <1>4, <3>1, <3>2, <3>3 DEF MkdirComponent, ChmodComponent, MkdirFinal
  <2>4. QED
    BY <1>0, <2>1, <2>2, <2>3 DEF MakerInv, TypeOK, NodeType, NodeRec, argVars
<1>5. CASE Interfere
  <2>1. node' \in NodeType /\ events' \in Nat
    <3>1. PICK i \in Components : CreateFile(i) \/ RemoveDir(i)
      BY <1>5 DEF Interfere
    <3>2. \/ node' = [node EXCEPT ![i] = File]
          \/ node' = [node EXCEPT ![i] = Missing]
      BY <3>1 DEF CreateFile, RemoveDir
    <3>3. /\ [node EXCEPT ![i] = File] \in NodeType
          /\ [node EXCEPT ![i] = Missing] \in NodeType
      BY <1>0, NodeSet, NodeValues
    <3>4. events' \in Nat
      BY <1>0, <1>5 DEF Interfere, TypeOK
    <3>5. QED
      BY <3>2, <3>3, <3>4
  <2>2. QED
    BY <1>0, <1>5, <2>1
    DEF Interfere, MakerInv, TypeOK, MaskInv, NodeType, NodeRec, maskVars, argVars
<1>6. CASE UNCHANGED vars
  BY <1>0, <1>6
  DEF vars, fsVars, maskVars, argVars, MakerInv, TypeOK, MaskInv
<1>7. QED
  BY <1>1, <1>2, <1>3, <1>4, <1>5, <1>6 DEF Next, MakerStep

(* The types, and the relation of the saved umask to the one in force. *)
THEOREM MakerCorrect == Spec => []MakerInv
BY MakerInvInit, MakerInvStep, PTL DEF Spec

(* Every return of createDirectoryFile() leaves the umask as it was. *)
THEOREM UmaskIsRestored == Spec => []UmaskRestored
<1>1. MakerInv => UmaskRestored
  BY DEF MakerInv, MaskInv, UmaskRestored, Returned
<1>2. QED
  BY <1>1, MakerCorrect, PTL

(* No directory is made or changed to a mode that opens it further than    *)
(* the umask of the process that does it allows, beyond u+wx.              *)
THEOREM UmaskIsRespected == Spec => UmaskRespected
<1>1. ASSUME MakerInv, [Next]_vars,
             NEW i \in Components, node'[i] # node[i], node'[i].kind = "dir"
      PROVE  \E p \in Makers :
               /\ pc'[p] # pc[p]
               /\ node'[i].mode \cap original[p] \subseteq {UserWrite, UserExec}
  <2>0. TypeOK /\ MaskInv /\ node \in NodeType
    BY <1>1 DEF MakerInv, TypeOK, NodeType, NodeRec
  <2>1. ASSUME NEW p \in Makers, NEW m, NEW c,
               m \cap original[p] \subseteq {UserWrite, UserExec}, pc'[p] # pc[p],
               \/ node' = [node EXCEPT ![c] = Dir(m)]
               \/ node' = [node EXCEPT ![c].mode = m]
        PROVE  node'[i].mode \cap original[p] \subseteq {UserWrite, UserExec}
    <3>1. c = i /\ node'[i].mode = m
      <4>1. CASE node' = [node EXCEPT ![c] = Dir(m)]
        BY <1>1, <2>0, <4>1 DEF NodeType, Dir
      <4>2. CASE node' = [node EXCEPT ![c].mode = m]
        BY <1>1, <2>0, <4>2 DEF NodeType, NodeRec
      <4>3. QED
        BY <2>1, <4>1, <4>2
    <3>2. QED
      BY <2>1, <3>1
  <2>2. ASSUME NEW p \in Makers, MkdirComponent(p)
        PROVE  pc'[p] # pc[p] /\ node' = [node EXCEPT ![comp[p]] = Dir({})]
    BY <1>1, <2>0, <2>2 DEF MkdirComponent, Goto, TypeOK
  <2>3. ASSUME NEW p \in Makers, ChmodComponent(p)
        PROVE  /\ pc'[p] # pc[p]
               /\ node' = [node EXCEPT ![comp[p]].mode = parentMode[p]]
    BY <1>1, <2>0, <2>3 DEF ChmodComponent, Advance, Goto, TypeOK
  <2>4. ASSUME NEW p \in Makers, MkdirFinal(p)
        PROVE  /\ pc'[p] # pc[p]
               /\ node' = [node EXCEPT ![Depth] = Dir(nmode[p] \ umask[p])]
    BY <1>1, <2>0, <2>4 DEF MkdirFinal, Finish, Goto, TypeOK
  <2>5. ASSUME NEW p \in Makers, ChmodPath(p)
        PROVE  /\ pc'[p] # pc[p]
               /\ node' = [node EXCEPT ![Depth].mode = nmode[p]]
    BY <1>1, <2>0, <2>5 DEF ChmodPath, Goto, TypeOK
  <2>6. \A p \in Makers :
          /\ {} \cap original[p] \subseteq {UserWrite, UserExec}
          /\ parentMode[p] \cap original[p] \subseteq {UserWrite, UserExec}
          /\ nmode[p] \cap original[p] \subseteq {UserWrite, UserExec}
          /\ (nmode[p] \ umask[p]) \cap original[p] \subseteq {UserWrite, UserExec}
    BY <2>0 DEF MaskInv
  <2>7. ~ Interfere
    BY <1>1, <2>0
    DEF Interfere, CreateFile, RemoveDir, File, Missing, NodeType
  <2>8. \E p \in Makers : MkdirComponent(p) \/ ChmodComponent(p)
                          \/ MkdirFinal(p) \/ ChmodPath(p)
    BY <1>1, <2>7
    DEF Next, MakerStep, Call, PathExists, PathMissing, StatComponent, StatFinal,
        Crash, vars, fsVars
  <2>9. PICK p \in Makers : MkdirComponent(p) \/ ChmodComponent(p)
                            \/ MkdirFinal(p) \/ ChmodPath(p)
    BY <2>8
  <2>10. pc'[p] # pc[p]
    BY <2>2, <2>3, <2>4, <2>5, <2>9
  <2>11. node'[i].mode \cap original[p] \subseteq {UserWrite, UserExec}
    BY <2>1, <2>2, <2>3, <2>4, <2>5, <2>6, <2>9
  <2>12. QED
    BY <2>10, <2>11
<1>2. MakerInv /\ [Next]_vars =>
        [\A i \in Components : node'[i] # node[i] /\ node'[i].kind = "dir" =>
           \E p \in Makers :
             /\ pc'[p] # pc[p]
             /\ node'[i].mode \cap original[p] \subseteq {UserWrite, UserExec}]_vars
  BY <1>1
<1>3. QED
  BY <1>2, MakerCorrect, PTL DEF Spec, UmaskRespected

-----------------------------------------------------------------------------
(* The inductive invariant of the path.                                    *)

(* Whatever is on a path is in a directory. *)
IsTree(n) ==
  \A i, j \in Components : i < j /\ n[j].kind # "none" => n[i].kind = "dir"

(* The part of make_path() that runs under a umask of 0. *)
Making == {"component", "mkdir", "chmod", "mkdirFinal"}

StepInv ==
  /\ IsTree(node)
  /\ \A p \in Makers :
       /\ IsTree(before[p])
       /\ pc[p] = "component" => comp[p] \in 1..(LastInLoop + 1)
       /\ pc[p] \in {"mkdir", "chmod"} => comp[p] \in 1..LastInLoop
       /\ pc[p] = "mkdirFinal" => comp[p] = LastInLoop + 1
       /\ pc[p] \in Making => umask[p] = {}
       /\ pc[p] # "idle" => {UserWrite, UserExec} \subseteq parentMode[p]

(* Without other programs a directory found stays one, and a file at the   *)
(* end of the path cannot be reached: no directory has been made above it. *)
QuietInv ==
  events = 0 =>
    /\ \A p \in Makers : pc[p] = "chmodPath" => IsDir(Depth)
    /\ node[Depth].kind = "file" =>
         \A p \in Makers : pc[p] # "chmod" /\ (pc[p] \in Making => ~ StatPathOK)

(* A closed directory can be reached by the process that is to open it.    *)
ClosedInv ==
  \A i \in 1..(Depth - 1) :
    node[i].kind = "dir" /\ node[i].mode = {} =>
      /\ Reachable(i)
      /\ \E p \in Makers : pc[p] = "crashed" \/ (pc[p] = "chmod" /\ comp[p] = i)

(* What a process that is alone has made of the path so far.               *)
Found(n) ==
  /\ \A j \in 1..(Depth - 1) : n[j].kind = "dir" /\ UserExec \in n[j].mode
  /\ n[Depth].kind # "none"
  /\ trailing => n[Depth].kind = "dir"

Writable(p, i) ==
  before[p][i].kind = "none" /\ i > 1 /\ before[p][i - 1].kind = "dir" =>
    UserWrite \in before[p][i - 1].mode

MadeBefore(p, c) ==
  \A i \in Components :
    i < c =>
      /\ before[p][i].kind # "file"
      /\ node[i] = IF before[p][i].kind = "dir" THEN before[p][i] ELSE Dir(parentMode[p])
      /\ Writable(p, i)

LeftFrom(p, c) == \A i \in Components : i >= c => node[i] = before[p][i]

JobInv(p) ==
  /\ pc[p] \in {"path", "chmodPath"} => node = before[p]
  /\ pc[p] = "chmodPath" => Found(node) /\ IsDir(Depth) /\ userMode[p]
  /\ pc[p] \in Making => ~ Found(before[p]) /\ MadeBefore(p, comp[p])
  /\ pc[p] \in Making \ {"chmod"} => LeftFrom(p, comp[p])
  /\ pc[p] = "mkdir" => ~ StatOK(comp[p])
  /\ pc[p] = "chmod" =>
       /\ before[p][comp[p]].kind = "none" /\ Writable(p, comp[p])
       /\ Reachable(comp[p]) /\ node[comp[p]] = Dir({})
       /\ LeftFrom(p, comp[p] + 1)
  /\ pc[p] = "mkdirFinal" => ~ StatPathOK
  /\ pc[p] = "ok" => CanBeMade(before[p]) /\ \A i \in Components : node[i] = Made(p, i)
  /\ pc[p] = "failed" => ~ CanBeMade(before[p])

AloneInv == \A p \in Makers : Alone(p) => JobInv(p)

PathInv == StepInv /\ QuietInv /\ ClosedInv /\ AloneInv

-----------------------------------------------------------------------------
(* Trees, and what the calls do to one.                                    *)

(* In a tree whatever is at a component has directories above it, however  *)
(* far, when it has one right above it.                                    *)
LEMMA AdjacentIsTree ==
  ASSUME NEW n \in NodeType,
         \A i \in Components \ {1} : n[i].kind # "none" => n[i - 1].kind = "dir"
  PROVE  IsTree(n)
<1> USE MakePathAssumption
<1> SUFFICES ASSUME NEW i \in Components, NEW j \in Components, i < j, n[j].kind # "none",
                    n[i].kind # "dir"
             PROVE  FALSE
  BY DEF IsTree
<1> DEFINE T == {d \in Nat : d \in 1..(j - 1) /\ n[j - d].kind # "dir"}
<1>1. j - i \in T /\ T \in SUBSET Nat
  BY DEF Components
<1>2. PICK d \in T : \A e \in T : ~ (<<e, d>> \in OpToRel(<, Nat))
  <2> HIDE DEF T
  <2> QED
    BY ZenonT(40), <1>1, NatLessThanWellFounded, WFMin
<1>3. \A e \in T : ~ (e < d)
  <2> TAKE e \in T
  <2>1. e < d => <<e, d>> \in OpToRel(<, Nat)
    BY DEF OpToRel
  <2> QED
    BY <1>2, <2>1
<1>4. n[j - d + 1].kind # "none"
  <2>1. CASE d = 1
    BY <2>1 DEF Components
  <2>2. CASE d # 1
    <3>1. d - 1 \in Nat /\ d - 1 \in 1..(j - 1) /\ d - 1 < d /\ j - (d - 1) = j - d + 1
      BY <2>2 DEF Components
    <3>2. n[j - (d - 1)].kind = "dir"
      BY <1>3, <3>1
    <3> QED
      BY <3>1, <3>2
  <2> QED
    BY <2>1, <2>2
<1>5. j - d + 1 \in Components \ {1} /\ (j - d + 1) - 1 = j - d /\ n[j - d].kind # "dir"
  BY DEF Components
<1>6. n[(j - d + 1) - 1].kind = "dir"
  BY <1>4, <1>5
<1> QED
  BY <1>5, <1>6

LEMMA DirValue ==
  ASSUME NEW n \in NodeType, NEW i \in Components, n[i].kind = "dir"
  PROVE  n[i] = Dir(n[i].mode)
BY DEF NodeType, NodeRec, Dir

(* chmod() changes the mode of one component. *)
ChmodIn(n, i, m) == [n EXCEPT ![i].mode = m]

LEMMA Chmod ==
  ASSUME NEW n \in NodeType, NEW i \in Components, NEW m \in SUBSET AllBits
  PROVE  /\ ChmodIn(n, i, m) \in NodeType
         /\ ChmodIn(n, i, m)[i].mode = m
         /\ n[i].kind = "dir" => ChmodIn(n, i, m)[i] = Dir(m)
         /\ \A j \in Components : j # i => ChmodIn(n, i, m)[j] = n[j]
         /\ \A j \in Components : ChmodIn(n, i, m)[j].kind = n[j].kind
<1>1. ChmodIn(n, i, m) \in NodeType
  BY NodeChmod DEF ChmodIn
<1>2. ChmodIn(n, i, m)[i].kind = n[i].kind /\ ChmodIn(n, i, m)[i].mode = m
  BY DEF NodeType, NodeRec, ChmodIn
<1>3. n[i].kind = "dir" => ChmodIn(n, i, m)[i] = Dir(m)
  BY <1>1, <1>2, DirValue
<1>4. \A j \in Components : j # i => ChmodIn(n, i, m)[j] = n[j]
  BY DEF NodeType, ChmodIn
<1> QED
  BY <1>1, <1>2, <1>3, <1>4

LEMMA Moved ==
  ASSUME MakerInv, NEW p \in Makers, NEW r, Goto(p, r)
  PROVE  pc'[p] = r /\ \A q \in Makers : q # p => pc'[q] = pc[q]
BY DEF MakerInv, TypeOK, Goto

(* The process that is alone is the one that acts. *)
LEMMA AloneActs ==
  ASSUME MakerInv, NEW p \in Makers, NEW r, r # "idle", Goto(p, r),
         NEW q \in Makers, Alone(q)', events' \in {events, events + 1}
  PROVE  q = p /\ Alone(p) /\ events' = events
<1>1. events \in Nat
  BY DEF MakerInv, TypeOK
<1>2. events = 0 /\ events' = 0
  BY <1>1 DEF Alone
<1>3. \A o \in Makers \ {q} : pc'[o] = "idle"
  BY DEF Alone
<1>4. q = p
  BY <1>3, Moved
<1> QED
  BY <1>2, <1>3, <1>4, Moved DEF Alone

(* stat() of the path, and the lone process's view of it. *)
LEMMA FoundIsStat == StatPathOK <=> Found(node)
BY MakePathAssumption DEF StatPathOK, StatOK, Reachable, Searchable, IsDir, Found

(* A step of a process keeps what holds of one that is alone. *)
LEMMA AloneKeeps ==
  ASSUME MakerInv, NEW p \in Makers, NEW r, r # "idle", Goto(p, r),
         events' \in {events, events + 1},
         Alone(p) /\ Alone(p)' /\ events' = events => JobInv(p)'
  PROVE  AloneInv'
<1> SUFFICES ASSUME NEW q \in Makers, Alone(q)' PROVE JobInv(q)'
  BY DEF AloneInv
<1> QED
  BY AloneActs

(* A step that leaves the path alone. *)
LEMMA LookKeeps ==
  ASSUME MakerInv, PathInv, NEW p \in Makers, NEW r, Goto(p, r), pc[p] # "crashed",
         UNCHANGED fsVars, \A q \in Makers : q # p => comp'[q] = comp[q],
         pc[p] = "chmod" => r = "crashed" /\ UNCHANGED comp,
         r = "chmodPath" => IsDir(Depth),
         r = "chmod" => FALSE,
         r \in Making => pc[p] \in Making \/ ~ StatPathOK
  PROVE  QuietInv' /\ ClosedInv'
<1> USE DEF PathInv
<1>1. pc'[p] = r /\ \A q \in Makers : q # p => pc'[q] = pc[q]
  BY Moved
<1>2. StatPathOK' = StatPathOK
  BY DEF StatPathOK, StatOK, Reachable, Searchable, IsDir, fsVars
<1>3. QuietInv'
  BY <1>1, <1>2 DEF QuietInv, IsDir, fsVars
<1>4. ClosedInv'
  <2> SUFFICES ASSUME NEW i \in 1..(Depth - 1), node[i].kind = "dir", node[i].mode = {}
               PROVE  /\ Reachable(i)
                      /\ \E q \in Makers : pc'[q] = "crashed" \/ (pc'[q] = "chmod" /\ comp'[q] = i)
    BY DEF ClosedInv, Reachable, Searchable, fsVars
  <2>1. Reachable(i)
    BY DEF ClosedInv
  <2>2. PICK q \in Makers : pc[q] = "crashed" \/ (pc[q] = "chmod" /\ comp[q] = i)
    BY DEF ClosedInv
  <2>3. pc'[q] = "crashed" \/ (pc'[q] = "chmod" /\ comp'[q] = i)
    BY <1>1, <2>2
  <2> QED
    BY <2>1, <2>3
<1> QED
  BY <1>3, <1>4

LEMMA CallStep ==
  ASSUME MakerInv, PathInv, NEW p \in Makers, Call(p)
  PROVE  PathInv'
<1> USE MakePathAssumption DEF PathInv
<1>1. /\ pc[p] \in {"idle", "ok", "failed"} /\ Goto(p, "path")
      /\ parentMode' = [parentMode EXCEPT ![p] =
                          (AllBits \ umask[p]) \cup {UserWrite, UserExec}]
      /\ before' = [before EXCEPT ![p] = node]
      /\ UNCHANGED <<fsVars, comp, umask>>
  BY DEF Call
<1>2. pc'[p] = "path" /\ \A q \in Makers : q # p => pc'[q] = pc[q]
  BY <1>1, Moved
<1>3. /\ before'[p] = node /\ {UserWrite, UserExec} \subseteq parentMode'[p]
      /\ \A q \in Makers : q # p => before'[q] = before[q] /\ parentMode'[q] = parentMode[q]
  BY <1>1 DEF MakerInv, TypeOK
<1>4. StepInv'
  BY <1>1, <1>2, <1>3 DEF StepInv, fsVars, Making, IsTree, LastInLoop, InLoop
<1>5. QuietInv' /\ ClosedInv'
  BY <1>1, LookKeeps DEF Making
<1>6. AloneInv'
  <2>1. JobInv(p)'
    BY <1>1, <1>2, <1>3 DEF JobInv, fsVars, Making
  <2> QED
    BY <1>1, <2>1, AloneKeeps DEF fsVars
<1> QED
  BY <1>4, <1>5, <1>6

(* What a tree says of the components of a path that is found, and of one  *)
(* that can be made.                                                       *)
LEMMA FoundCanBeMade ==
  ASSUME NEW n \in NodeType, Found(n), n[Depth].kind = "dir"
  PROVE  CanBeMade(n) /\ \A i \in Components : n[i].kind = "dir"
<1> USE MakePathAssumption
<1>1. \A i \in Components : n[i].kind = "dir"
  BY DEF Found, Components
<1>2. \A i \in Components \ {1} : UserExec \in n[i - 1].mode
  <2> TAKE i \in Components \ {1}
  <2>1. i - 1 \in 1..(Depth - 1)
    BY DEF Components
  <2> QED
    BY <2>1 DEF Found
<1> QED
  BY <1>1, <1>2 DEF CanBeMade

LEMMA NothingAtTheEnd ==
  ASSUME NEW n \in NodeType, IsTree(n), CanBeMade(n), ~ Found(n)
  PROVE  n[Depth].kind = "none"
<1> USE MakePathAssumption
<1> SUFFICES ASSUME n[Depth].kind # "none" PROVE FALSE
  OBVIOUS
<1>1. Depth \in Components /\ n[Depth].kind = "dir"
  BY DEF CanBeMade, NodeType, NodeRec, Components
<1>2. \A j \in 1..(Depth - 1) : n[j].kind = "dir" /\ UserExec \in n[j].mode
  <2> TAKE j \in 1..(Depth - 1)
  <2>1. j \in Components /\ j < Depth /\ j + 1 \in Components \ {1} /\ (j + 1) - 1 = j
    BY DEF Components
  <2>2. n[j].kind = "dir"
    BY <1>1, <2>1 DEF IsTree
  <2>3. UserExec \in n[(j + 1) - 1].mode
    BY <2>1, <2>2 DEF CanBeMade
  <2> QED
    BY <2>1, <2>2, <2>3
<1> QED
  BY <1>1, <1>2 DEF Found

LEMMA PathExistsStep ==
  ASSUME MakerInv, PathInv, NEW p \in Makers, PathExists(p)
  PROVE  PathInv'
<1> USE MakePathAssumption DEF PathInv
<1>1. PICK r \in {"failed", "chmodPath", "ok"} :
        /\ Goto(p, r)
        /\ r = "failed" <=> ~ IsDir(Depth)
        /\ r = "chmodPath" <=> IsDir(Depth) /\ userMode[p]
  BY DEF PathExists
<1>2. pc[p] = "path" /\ StatPathOK /\ UNCHANGED <<fsVars, comp, maskVars, argVars>>
  BY DEF PathExists
<1>3. pc'[p] = r /\ \A q \in Makers : q # p => pc'[q] = pc[q]
  BY <1>1, Moved
<1>4. StepInv'
  BY <1>2, <1>3 DEF StepInv, fsVars, maskVars, argVars, Making, IsTree, LastInLoop, InLoop
<1>5. QuietInv' /\ ClosedInv'
  BY <1>1, <1>2, LookKeeps DEF Making
<1>6. ASSUME Alone(p) PROVE JobInv(p)'
  <2>1. node = before[p] /\ node \in NodeType /\ Found(node) /\ Depth \in Components
    BY <1>2, <1>6, FoundIsStat DEF AloneInv, JobInv, MakerInv, TypeOK, NodeType, NodeRec, Components
  <2>2. CASE ~ IsDir(Depth)
    <3>1. ~ CanBeMade(before[p])
      BY <2>1, <2>2 DEF CanBeMade, Found, IsDir, NodeType, NodeRec
    <3>2. ~ CanBeMade(before[p])'
      BY <1>2, <3>1 DEF CanBeMade, argVars
    <3> QED
      BY <1>1, <1>3, <2>2, <3>2 DEF JobInv, Making
  <2>3. CASE IsDir(Depth)
    <3>1. CanBeMade(node) /\ \A i \in Components : node[i].kind = "dir"
      BY <2>1, <2>3, FoundCanBeMade DEF IsDir
    <3>2. ~ userMode[p] => \A i \in Components : node[i] = Made(p, i)
      BY <2>1, <3>1 DEF Made
    <3>3. CanBeMade(before[p])' /\ (~ userMode[p] => \A i \in Components : node'[i] = Made(p, i)')
      BY <1>2, <2>1, <3>1, <3>2 DEF CanBeMade, Made, LastInLoop, argVars, fsVars
    <3>4. node' = before'[p] /\ Found(node)' /\ IsDir(Depth)'
      BY <1>2, <2>1, <2>3 DEF Found, IsDir, fsVars, argVars
    <3>5. r \in {"chmodPath", "ok"} /\ (r = "chmodPath" => userMode'[p]) /\ (r = "ok" => ~ userMode[p])
      BY <1>1, <1>2, <2>3 DEF argVars
    <3> QED
      BY <1>3, <3>3, <3>4, <3>5 DEF JobInv, Making
  <2> QED
    BY <2>2, <2>3
<1>7. AloneInv'
  BY <1>1, <1>2, <1>6, AloneKeeps DEF fsVars
<1> QED
  BY <1>4, <1>5, <1>7

-----------------------------------------------------------------------------
(* Steps that look at the path.                                            *)

LEMMA PathMissingStep ==
  ASSUME MakerInv, PathInv, NEW p \in Makers, PathMissing(p)
  PROVE  PathInv'
<1> USE MakePathAssumption DEF PathInv
<1>1. /\ pc[p] = "path" /\ ~ StatPathOK /\ Goto(p, "component")
      /\ comp' = [comp EXCEPT ![p] = 1]
      /\ umask' = [umask EXCEPT ![p] = {}]
      /\ UNCHANGED <<fsVars, argVars>>
  BY DEF PathMissing
<1>2. /\ pc'[p] = "component" /\ comp'[p] = 1 /\ umask'[p] = {}
      /\ \A q \in Makers : q # p => pc'[q] = pc[q] /\ comp'[q] = comp[q] /\ umask'[q] = umask[q]
  BY <1>1, Moved DEF MakerInv, TypeOK
<1>3. StepInv'
  BY <1>1, <1>2 DEF StepInv, fsVars, argVars, Making, IsTree, LastInLoop, InLoop
<1>4. QuietInv' /\ ClosedInv'
  BY <1>1, <1>2, LookKeeps DEF Making
<1>5. ASSUME Alone(p) PROVE JobInv(p)'
  <2>1. node = before[p] /\ ~ Found(before[p])
    BY <1>1, <1>5, FoundIsStat DEF AloneInv, JobInv
  <2>2. ~ Found(before[p])' /\ LeftFrom(p, 1)' /\ MadeBefore(p, 1)'
    BY <1>1, <2>1 DEF Found, LeftFrom, MadeBefore, Components, fsVars, argVars
  <2> QED
    BY <1>2, <2>2 DEF JobInv, Making, LeftFrom, MadeBefore
<1>6. AloneInv'
  BY <1>1, <1>5, AloneKeeps DEF fsVars
<1> QED
  BY <1>3, <1>4, <1>6

(* The components above the one make_path() is at can be walked, and       *)
(* written to where they had nothing in them, if the path can be made.     *)
LEMMA LoneSearchable ==
  ASSUME MakerInv, PathInv, NEW p \in Makers, pc[p] # "idle", CanBeMade(before[p]),
         NEW c \in Components, MadeBefore(p, c),
         NEW j \in Components, j < c
  PROVE  /\ Searchable(j)
         /\ before[p][j + 1].kind = "none" => UserWrite \in node[j].mode
<1> USE MakePathAssumption
<1>1. j + 1 \in Components \ {1} /\ (j + 1) - 1 = j
  BY DEF Components
<1>2. CASE before[p][j].kind = "dir"
  <2>1. node[j] = before[p][j] /\ before[p][(j + 1) - 1].kind = "dir"
    BY <1>1, <1>2 DEF MadeBefore
  <2>2. /\ UserExec \in before[p][(j + 1) - 1].mode
        /\ before[p][j + 1].kind = "none" => UserWrite \in before[p][(j + 1) - 1].mode
    BY <1>1, <2>1 DEF CanBeMade
  <2> QED
    BY <1>1, <1>2, <2>1, <2>2 DEF Searchable
<1>3. CASE before[p][j].kind # "dir"
  <2>1. node[j] = Dir(parentMode[p]) /\ {UserWrite, UserExec} \subseteq parentMode[p]
    BY <1>3 DEF MadeBefore, PathInv, StepInv
  <2> QED
    BY <2>1 DEF Searchable, Dir
<1> QED
  BY <1>2, <1>3

(* A return of make_path() that leaves the path alone. *)
LEMMA ReturnStep ==
  ASSUME MakerInv, PathInv, NEW p \in Makers, NEW r \in {"ok", "failed"},
         pc[p] \in Making, pc[p] # "chmod", Finish(p, r), UNCHANGED fsVars,
         Alone(p) => IF r = "ok"
                     THEN CanBeMade(before[p]) /\ \A i \in Components : node[i] = Made(p, i)
                     ELSE ~ CanBeMade(before[p])
  PROVE  PathInv'
<1> USE DEF PathInv
<1>1. Goto(p, r) /\ RestoreUmask(p) /\ UNCHANGED <<comp, argVars>>
  BY DEF Finish
<1>2. /\ pc'[p] = r
      /\ \A q \in Makers : q # p => pc'[q] = pc[q] /\ umask'[q] = umask[q]
  BY <1>1, Moved DEF RestoreUmask, MakerInv, TypeOK
<1>3. StepInv'
  BY <1>1, <1>2 DEF StepInv, fsVars, argVars, Making, IsTree, LastInLoop, InLoop
<1>4. QuietInv' /\ ClosedInv'
  BY <1>1, <1>2, LookKeeps DEF Making
<1>5. ASSUME Alone(p) PROVE JobInv(p)'
  <2>1. /\ CanBeMade(before[p])' <=> CanBeMade(before[p])
        /\ \A i \in Components : Made(p, i)' = Made(p, i) /\ node'[i] = node[i]
    BY <1>1 DEF CanBeMade, Made, LastInLoop, fsVars, argVars
  <2> QED
    BY <1>2, <1>5, <2>1 DEF JobInv, Making
<1>6. AloneInv'
  BY <1>1, <1>5, AloneKeeps DEF fsVars
<1> QED
  BY <1>3, <1>4, <1>6

LEMMA StatComponentStep ==
  ASSUME MakerInv, PathInv, NEW p \in Makers, StatComponent(p)
  PROVE  PathInv'
<1> USE MakePathAssumption DEF PathInv
<1> DEFINE c == comp[p]
<1>1. /\ pc[p] = "component" /\ c \in 1..LastInLoop /\ c \in Components /\ c <= LastInLoop
      /\ UNCHANGED fsVars
  BY DEF StatComponent, InLoop, StepInv, LastInLoop, Components
<1>2. Alone(p) => /\ ~ Found(before[p]) /\ MadeBefore(p, c) /\ LeftFrom(p, c)
                  /\ node[c] = before[p][c]
  BY <1>1 DEF AloneInv, JobInv, Making, LeftFrom
<1>3. CASE ~ StatOK(c)
  <2>1. Goto(p, "mkdir") /\ UNCHANGED <<comp, umask, argVars>>
    BY <1>3 DEF StatComponent, maskVars
  <2>2. pc'[p] = "mkdir" /\ \A q \in Makers : q # p => pc'[q] = pc[q]
    BY <2>1, Moved
  <2>3. StepInv'
    BY <1>1, <2>1, <2>2 DEF StepInv, fsVars, argVars, Making, IsTree, LastInLoop, InLoop
  <2>4. QuietInv' /\ ClosedInv'
    BY <1>1, <2>1, LookKeeps DEF Making
  <2>5. ASSUME Alone(p) PROVE JobInv(p)'
    <3>1. /\ comp'[p] = c /\ ~ Found(before[p])' /\ MadeBefore(p, c)' /\ LeftFrom(p, c)'
          /\ ~ StatOK(c)'
      BY <1>1, <1>2, <1>3, <2>1, <2>5
         DEF Found, MadeBefore, LeftFrom, Writable, StatOK, Reachable, Searchable, fsVars, argVars
    <3> QED
      BY <2>2, <3>1 DEF JobInv, Making
  <2>6. AloneInv'
    BY <1>1, <2>1, <2>5, AloneKeeps DEF fsVars
  <2> QED
    BY <2>3, <2>4, <2>6
<1>4. CASE StatOK(c) /\ IsDir(c)
  <2>1. /\ Goto(p, "component") /\ comp' = [comp EXCEPT ![p] = @ + 1]
        /\ UNCHANGED <<umask, argVars>>
    BY <1>4 DEF StatComponent, Advance, maskVars
  <2>2. /\ pc'[p] = "component" /\ comp'[p] = c + 1
        /\ \A q \in Makers : q # p => pc'[q] = pc[q] /\ comp'[q] = comp[q]
    BY <2>1, Moved DEF MakerInv, TypeOK
  <2>3. StepInv'
    BY <1>1, <2>1, <2>2 DEF StepInv, fsVars, argVars, Making, IsTree, LastInLoop, InLoop
  <2>4. QuietInv' /\ ClosedInv'
    BY <1>1, <2>1, <2>2, LookKeeps DEF Making
  <2>5. ASSUME Alone(p) PROVE JobInv(p)'
    <3>1. MadeBefore(p, c + 1) /\ LeftFrom(p, c + 1)
      BY <1>1, <1>2, <1>4, <2>5 DEF MadeBefore, LeftFrom, Writable, IsDir, Components
    <3>2. ~ Found(before[p])' /\ MadeBefore(p, comp[p])' /\ LeftFrom(p, comp[p])'
      BY <1>1, <1>2, <2>1, <2>2, <2>5, <3>1
         DEF Found, MadeBefore, LeftFrom, Writable, fsVars, argVars
    <3> QED
      BY <2>2, <3>2 DEF JobInv, Making
  <2>6. AloneInv'
    BY <1>1, <2>1, <2>5, AloneKeeps DEF fsVars
  <2> QED
    BY <2>3, <2>4, <2>6
<1>5. CASE StatOK(c) /\ ~ IsDir(c)
  <2>1. Finish(p, "failed")
    BY <1>5 DEF StatComponent
  <2>2. Alone(p) => ~ CanBeMade(before[p])
    BY <1>1, <1>2, <1>5 DEF CanBeMade, StatOK, IsDir, MakerInv, TypeOK
  <2> QED
    BY <1>1, <2>1, <2>2, ReturnStep DEF Making
<1> QED
  BY <1>3, <1>4, <1>5

LEMMA StatFinalStep ==
  ASSUME MakerInv, PathInv, NEW p \in Makers, StatFinal(p)
  PROVE  PathInv'
<1> USE MakePathAssumption DEF PathInv
<1> DEFINE c == LastInLoop + 1
<1>1. pc[p] = "component" /\ comp[p] = c /\ UNCHANGED fsVars /\ Depth \in Components
  BY DEF StatFinal, InLoop, StepInv, LastInLoop, Components
<1>2. Alone(p) => ~ Found(before[p]) /\ MadeBefore(p, c) /\ LeftFrom(p, c)
  BY <1>1 DEF AloneInv, JobInv, Making
<1>3. CASE StatPathOK
  <2>1. Finish(p, "ok")
    BY <1>3 DEF StatFinal
  <2>2. ASSUME Alone(p)
        PROVE  CanBeMade(before[p]) /\ \A i \in Components : node[i] = Made(p, i)
    <3>1. /\ node \in NodeType /\ before[p] \in NodeType /\ IsTree(before[p])
          /\ Found(node) /\ ~ Found(before[p])
      BY <1>2, <1>3, <2>2, FoundIsStat DEF StepInv, MakerInv, TypeOK, NodeType, NodeRec
    <3>2. before[p][Depth].kind = "none"
      <4> SUFFICES ASSUME before[p][Depth].kind # "none" PROVE FALSE
        OBVIOUS
      <4>1. \A j \in 1..(Depth - 1) : before[p][j].kind = "dir"
        BY <1>1, <3>1 DEF IsTree, Components
      <4>2. \A j \in 1..(Depth - 1) : node[j] = before[p][j]
        BY <1>2, <2>2, <4>1 DEF MadeBefore, LeftFrom, LastInLoop, Components
      <4>3. trailing => before[p][Depth].kind = "dir"
        BY <1>1, <1>2, <2>2, <3>1 DEF MadeBefore, LastInLoop, NodeType, NodeRec, Components
      <4> QED
        BY <3>1, <4>2, <4>3 DEF Found
    <3>3. trailing /\ LastInLoop = Depth
      BY <1>1, <1>2, <2>2, <3>1, <3>2 DEF LeftFrom, LastInLoop, Found, Components
    <3>4. \A i \in Components :
            /\ before[p][i].kind # "file"
            /\ node[i] = IF before[p][i].kind = "dir" THEN before[p][i] ELSE Dir(parentMode[p])
            /\ Writable(p, i)
      BY <1>2, <2>2, <3>3 DEF MadeBefore, Components
    <3>5. CanBeMade(before[p])
      <4> SUFFICES ASSUME NEW i \in Components \ {1}, before[p][i - 1].kind = "dir"
                   PROVE  /\ UserExec \in before[p][i - 1].mode
                          /\ before[p][i].kind = "none" => UserWrite \in before[p][i - 1].mode
        BY <3>4 DEF CanBeMade
      <4>1. i - 1 \in Components /\ i - 1 \in 1..(Depth - 1) /\ i > 1
        BY DEF Components
      <4>2. UserExec \in node[i - 1].mode /\ node[i - 1] = before[p][i - 1]
        BY <3>1, <3>4, <4>1 DEF Found
      <4> QED
        BY <3>4, <4>1, <4>2 DEF Writable
    <3>6. \A i \in Components : node[i] = Made(p, i)
      BY <3>2, <3>3, <3>4 DEF Made, Components
    <3> QED
      BY <3>5, <3>6
  <2> QED
    BY <1>1, <2>1, <2>2, ReturnStep DEF Making
<1>4. CASE ~ StatPathOK
  <2>1. Goto(p, "mkdirFinal") /\ UNCHANGED <<comp, umask, argVars>>
    BY <1>4 DEF StatFinal, maskVars
  <2>2. pc'[p] = "mkdirFinal" /\ \A q \in Makers : q # p => pc'[q] = pc[q]
    BY <2>1, Moved
  <2>3. StepInv'
    BY <1>1, <2>1, <2>2 DEF StepInv, fsVars, argVars, Making, IsTree, LastInLoop, InLoop
  <2>4. QuietInv' /\ ClosedInv'
    BY <1>1, <2>1, LookKeeps DEF Making
  <2>5. ASSUME Alone(p) PROVE JobInv(p)'
    <3>1. /\ ~ Found(before[p])' /\ MadeBefore(p, comp[p])' /\ LeftFrom(p, comp[p])'
          /\ ~ StatPathOK'
      BY <1>1, <1>2, <1>4, <2>1, <2>5
         DEF Found, MadeBefore, LeftFrom, Writable, StatPathOK, StatOK, Reachable, Searchable,
             IsDir, fsVars, argVars
    <3> QED
      BY <2>1, <2>2, <3>1 DEF JobInv, Making
  <2>6. AloneInv'
    BY <1>1, <2>1, <2>5, AloneKeeps DEF fsVars
  <2> QED
    BY <2>3, <2>4, <2>6
<1> QED
  BY <1>3, <1>4

LEMMA CrashStep ==
  ASSUME MakerInv, PathInv, NEW p \in Makers, Crash(p)
  PROVE  PathInv'
<1> USE DEF PathInv
<1>1. /\ pc[p] \notin {"idle", "crashed"} /\ Goto(p, "crashed")
      /\ UNCHANGED <<fsVars, comp, umask, argVars>>
  BY DEF Crash, maskVars
<1>2. pc'[p] = "crashed" /\ \A q \in Makers : q # p => pc'[q] = pc[q]
  BY <1>1, Moved
<1>3. StepInv'
  BY <1>1, <1>2 DEF StepInv, fsVars, argVars, Making, IsTree, LastInLoop, InLoop
<1>4. QuietInv' /\ ClosedInv'
  BY <1>1, LookKeeps DEF Making
<1>5. AloneInv'
  <2>1. JobInv(p)'
    BY <1>2 DEF JobInv, Making
  <2> QED
    BY <1>1, <2>1, AloneKeeps DEF fsVars
<1> QED
  BY <1>3, <1>4, <1>5

-----------------------------------------------------------------------------
(* Steps that change the path.                                             *)

(* Of two paths that differ below a component, the component can be        *)
(* reached on both or on neither.                                          *)
LEMMA SameReachable ==
  ASSUME NEW i \in Components, \A j \in 1..(i - 1) : node'[j] = node[j]
  PROVE  Reachable(i)' <=> Reachable(i)
BY DEF Reachable, Searchable

LEMMA ChmodPathStep ==
  ASSUME MakerInv, PathInv, NEW p \in Makers, ChmodPath(p)
  PROVE  PathInv'
<1> USE MakePathAssumption DEF PathInv
<1>1. /\ pc[p] = "chmodPath" /\ UNCHANGED <<events, trailing, comp, umask, argVars>>
      /\ node \in NodeType /\ nmode[p] \in SUBSET AllBits /\ Depth \in Components
  BY DEF ChmodPath, maskVars, MakerInv, TypeOK, NodeType, NodeRec, Components
<1>2. CASE StatPathOK
  <2>1. Goto(p, "ok") /\ node' = ChmodIn(node, Depth, nmode[p])
    BY <1>2 DEF ChmodPath, ChmodIn
  <2>2. pc'[p] = "ok" /\ \A q \in Makers : q # p => pc'[q] = pc[q]
    BY <2>1, Moved
  <2>3. /\ node[Depth].kind = "dir" => node'[Depth] = Dir(nmode[p])
        /\ \A j \in Components : j # Depth => node'[j] = node[j]
        /\ \A j \in Components : node'[j].kind = node[j].kind
    BY <1>1, <2>1, Chmod
  <2>4. \A i \in Components : Reachable(i)' <=> Reachable(i)
    <3> TAKE i \in Components
    <3>1. \A j \in 1..(i - 1) : node'[j] = node[j]
      BY <2>3 DEF Components
    <3> QED
      BY <3>1, SameReachable
  <2>5. StepInv'
    BY <1>1, <2>2, <2>3 DEF StepInv, argVars, Making, IsTree, LastInLoop, InLoop
  <2>6. QuietInv'
    BY <1>1, <2>2, <2>3, <2>4 DEF QuietInv, IsDir, StatPathOK, StatOK, Making
  <2>7. ClosedInv'
    <3> SUFFICES ASSUME NEW i \in 1..(Depth - 1), node'[i].kind = "dir", node'[i].mode = {}
                 PROVE  /\ Reachable(i)'
                        /\ \E q \in Makers : pc'[q] = "crashed" \/ (pc'[q] = "chmod" /\ comp'[q] = i)
      BY DEF ClosedInv
    <3>1. i \in Components /\ i # Depth /\ node'[i] = node[i]
      BY <2>3 DEF Components
    <3>2. Reachable(i) /\ \E q \in Makers : pc[q] = "crashed" \/ (pc[q] = "chmod" /\ comp[q] = i)
      BY <3>1 DEF ClosedInv
    <3> QED
      BY <1>1, <2>2, <2>4, <3>1, <3>2
  <2>8. ASSUME Alone(p) PROVE JobInv(p)'
    <3>1. node = before[p] /\ Found(node) /\ IsDir(Depth) /\ userMode[p]
      BY <1>1, <2>8 DEF AloneInv, JobInv
    <3>2. CanBeMade(before[p]) /\ \A i \in Components : before[p][i].kind = "dir"
      BY <1>1, <3>1, FoundCanBeMade DEF IsDir
    <3>3. \A i \in Components : before[p][i] # Missing
      BY <3>2 DEF Missing
    <3>4. \A i \in Components : node'[i] = Made(p, i)
      BY <2>3, <3>1, <3>2, <3>3 DEF Made
    <3>5. CanBeMade(before[p])' /\ \A i \in Components : node'[i] = Made(p, i)'
      BY <1>1, <3>2, <3>4 DEF CanBeMade, Made, LastInLoop, argVars
    <3> QED
      BY <2>2, <3>5 DEF JobInv, Making
  <2>9. AloneInv'
    BY <1>1, <2>1, <2>8, AloneKeeps
  <2> QED
    BY <2>5, <2>6, <2>7, <2>9
<1>3. CASE ~ StatPathOK
  <2>1. Goto(p, "failed") /\ UNCHANGED fsVars
    BY <1>1, <1>3 DEF ChmodPath, fsVars
  <2>2. pc'[p] = "failed" /\ \A q \in Makers : q # p => pc'[q] = pc[q]
    BY <2>1, Moved
  <2>3. StepInv'
    BY <1>1, <2>1, <2>2 DEF StepInv, fsVars, argVars, Making, IsTree, LastInLoop, InLoop
  <2>4. QuietInv' /\ ClosedInv'
    BY <1>1, <2>1, LookKeeps DEF Making
  <2>5. ~ Alone(p)
    BY <1>1, <1>3, FoundIsStat DEF AloneInv, JobInv
  <2>6. AloneInv'
    BY <1>1, <2>1, <2>5, AloneKeeps
  <2> QED
    BY <2>3, <2>4, <2>6
<1> QED
  BY <1>2, <1>3

LEMMA MkdirComponentStep ==
  ASSUME MakerInv, PathInv, NEW p \in Makers, MkdirComponent(p)
  PROVE  PathInv'
<1> USE MakePathAssumption DEF PathInv
<1> DEFINE c == comp[p]
<1>1. /\ pc[p] = "mkdir" /\ UNCHANGED <<events, trailing>>
      /\ node \in NodeType /\ c \in Components /\ c \in 1..LastInLoop
  BY DEF MkdirComponent, MakerInv, TypeOK, NodeType, NodeRec, StepInv, LastInLoop, Components
<1>2. Alone(p) => /\ ~ Found(before[p]) /\ MadeBefore(p, c) /\ LeftFrom(p, c)
                  /\ node[c] = before[p][c] /\ ~ StatOK(c)
  BY <1>1 DEF AloneInv, JobInv, Making, LeftFrom, Components
<1>3. CASE MkdirOK(c)
  <2>1. /\ node' = [node EXCEPT ![c] = Dir({})] /\ Goto(p, "chmod")
        /\ UNCHANGED <<comp, umask, argVars>>
    BY <1>3 DEF MkdirComponent, maskVars
  <2>2. pc'[p] = "chmod" /\ comp'[p] = c /\ \A q \in Makers : q # p => pc'[q] = pc[q]
    BY <2>1, Moved
  <2>3. /\ node'[c] = Dir({}) /\ node'[c].kind = "dir"
        /\ \A j \in Components : j # c => node'[j] = node[j]
    BY <1>1, <2>1 DEF NodeType, Dir
  <2>4. node[c].kind = "none" /\ \A j \in 1..(c - 1) : node[j].kind = "dir"
    BY <1>3 DEF MkdirOK, Reachable, Searchable
  <2>5. \A j \in Components : c < j => node[j].kind = "none"
    BY <1>1, <2>4 DEF StepInv, IsTree
  <2>6. StepInv'
    <3>1. IsTree(node')
      BY <1>1, <2>3, <2>4, <2>5 DEF StepInv, IsTree, Components
    <3> QED
      BY <1>1, <2>1, <2>2, <3>1 DEF StepInv, argVars, Making, IsTree, LastInLoop, InLoop
  <2>7. QuietInv'
    <3>1. Depth \in Components /\ node'[Depth].kind # "file"
      BY <1>1, <2>3, <2>5 DEF Components, NodeType, NodeRec
    <3>2. node[Depth].kind = "dir" => node'[Depth].kind = "dir"
      BY <2>3, <3>1
    <3> QED
      BY <1>1, <2>2, <3>1, <3>2 DEF QuietInv, IsDir
  <2>8. ClosedInv'
    <3> SUFFICES ASSUME NEW i \in 1..(Depth - 1), node'[i].kind = "dir", node'[i].mode = {}
                 PROVE  /\ Reachable(i)'
                        /\ \E q \in Makers : pc'[q] = "crashed" \/ (pc'[q] = "chmod" /\ comp'[q] = i)
      BY DEF ClosedInv
    <3>1. i \in Components
      BY DEF Components
    <3>2. i <= c
      BY <1>1, <2>3, <2>5, <3>1 DEF Components, NodeType, NodeRec
    <3>3. Reachable(i)
      <4>1. Reachable(c)
        BY <1>3 DEF MkdirOK
      <4> QED
        BY <1>1, <3>1, <3>2, <4>1 DEF Reachable, Components
    <3>4. Reachable(i)'
      <4>1. \A j \in 1..(i - 1) : node'[j] = node[j]
        BY <2>3, <3>1, <3>2 DEF Components
      <4> QED
        BY <3>1, <3>3, <4>1, SameReachable
    <3>5. CASE i = c
      BY <2>2, <3>4, <3>5
    <3>6. CASE i # c
      <4>1. \E q \in Makers : pc[q] = "crashed" \/ (pc[q] = "chmod" /\ comp[q] = i)
        BY <2>3, <3>1, <3>6 DEF ClosedInv
      <4> QED
        BY <1>1, <2>1, <2>2, <3>4, <4>1
    <3> QED
      BY <3>5, <3>6
  <2>9. ASSUME Alone(p) PROVE JobInv(p)'
    <3>1. before[p][c].kind = "none" /\ Reachable(c)
      BY <1>2, <1>3, <2>4, <2>9 DEF MkdirOK
    <3>2. Writable(p, c)
      <4> SUFFICES ASSUME c > 1, before[p][c - 1].kind = "dir"
                   PROVE  UserWrite \in before[p][c - 1].mode
        BY DEF Writable
      <4>1. c - 1 \in Components /\ c - 1 < c
        BY <1>1 DEF Components
      <4>2. node[c - 1] = before[p][c - 1]
        BY <1>2, <2>9, <4>1 DEF MadeBefore
      <4> QED
        BY <1>3, <4>2 DEF MkdirOK
    <3>3. Reachable(comp[p])'
      <4>1. \A j \in 1..(c - 1) : node'[j] = node[j]
        BY <1>1, <2>3 DEF Components
      <4> QED
        BY <1>1, <2>2, <3>1, <4>1 DEF Reachable, Searchable
    <3>4. MadeBefore(p, comp[p])' /\ LeftFrom(p, comp[p] + 1)'
      BY <1>1, <1>2, <2>1, <2>2, <2>3, <2>9 DEF MadeBefore, LeftFrom, Writable, Components, argVars
    <3>5. ~ Found(before[p])' /\ before'[p][c].kind = "none" /\ Writable(p, comp[p])'
      BY <1>1, <1>2, <2>1, <2>2, <2>9, <3>1, <3>2 DEF Found, Writable, argVars
    <3> QED
      BY <2>2, <2>3, <3>3, <3>4, <3>5 DEF JobInv, Making
  <2>10. AloneInv'
    BY <1>1, <2>1, <2>9, AloneKeeps
  <2> QED
    BY <2>6, <2>7, <2>8, <2>10
<1>4. CASE ~ MkdirOK(c)
  <2>1. Finish(p, "failed") /\ UNCHANGED fsVars
    BY <1>1, <1>4 DEF MkdirComponent, fsVars
  <2>2. ASSUME Alone(p), CanBeMade(before[p]) PROVE FALSE
    <3>1. \A j \in Components : j < c =>
            Searchable(j) /\ (before[p][j + 1].kind = "none" => UserWrite \in node[j].mode)
      BY <1>1, <1>2, <2>2, LoneSearchable
    <3>2. Reachable(c)
      BY <1>1, <3>1 DEF Reachable, Components
    <3>3. node[c].kind = "none" /\ before[p][c].kind = "none"
      BY <1>2, <2>2, <3>2 DEF StatOK
    <3>4. c > 1 => UserWrite \in node[c - 1].mode
      <4>1. c > 1 => c - 1 \in Components /\ c - 1 < c /\ (c - 1) + 1 = c
        BY <1>1 DEF Components
      <4> QED
        BY <3>1, <3>3, <4>1
    <3> QED
      BY <1>4, <3>2, <3>3, <3>4 DEF MkdirOK
  <2> QED
    BY <1>1, <2>1, <2>2, ReturnStep DEF Making
<1> QED
  BY <1>3, <1>4

LEMMA ChmodComponentStep ==
  ASSUME MakerInv, PathInv, NEW p \in Makers, ChmodComponent(p)
  PROVE  PathInv'
<1> USE MakePathAssumption DEF PathInv
<1> DEFINE c == comp[p]
<1>1. /\ pc[p] = "chmod" /\ UNCHANGED <<events, trailing>>
      /\ node \in NodeType /\ c \in Components /\ c \in 1..LastInLoop
      /\ parentMode[p] \in SUBSET AllBits /\ {UserWrite, UserExec} \subseteq parentMode[p]
  BY DEF ChmodComponent, MakerInv, TypeOK, NodeType, NodeRec, StepInv, LastInLoop, Components
<1>2. Alone(p) => /\ ~ Found(before[p]) /\ MadeBefore(p, c) /\ LeftFrom(p, c + 1)
                  /\ before[p][c].kind = "none" /\ Writable(p, c)
                  /\ Reachable(c) /\ node[c] = Dir({})
  BY <1>1 DEF AloneInv, JobInv, Making
<1>3. CASE StatOK(c)
  <2>1. /\ node' = ChmodIn(node, c, parentMode[p])
        /\ Goto(p, "component") /\ comp' = [comp EXCEPT ![p] = @ + 1]
        /\ UNCHANGED <<umask, argVars>>
    BY <1>3 DEF ChmodComponent, ChmodIn, Advance, maskVars
  <2>2. /\ pc'[p] = "component" /\ comp'[p] = c + 1
        /\ \A q \in Makers : q # p => pc'[q] = pc[q] /\ comp'[q] = comp[q]
    BY <2>1, Moved DEF MakerInv, TypeOK
  <2>3. /\ node'[c].mode = parentMode[p]
        /\ node[c].kind = "dir" => node'[c] = Dir(parentMode[p])
        /\ \A j \in Components : j # c => node'[j] = node[j]
        /\ \A j \in Components : node'[j].kind = node[j].kind
    BY <1>1, <2>1, Chmod
  <2>4. StepInv'
    BY <1>1, <2>1, <2>2, <2>3 DEF StepInv, argVars, Making, IsTree, LastInLoop, InLoop
  <2>5. QuietInv'
    <3>1. Depth \in Components
      BY DEF Components
    <3> QED
      BY <1>1, <2>2, <2>3, <3>1 DEF QuietInv, IsDir
  <2>6. ClosedInv'
    <3> SUFFICES ASSUME NEW i \in 1..(Depth - 1), node'[i].kind = "dir", node'[i].mode = {}
                 PROVE  /\ Reachable(i)'
                        /\ \E q \in Makers : pc'[q] = "crashed" \/ (pc'[q] = "chmod" /\ comp'[q] = i)
      BY DEF ClosedInv
    <3>1. i \in Components /\ i # c /\ node'[i] = node[i]
      BY <1>1, <2>3 DEF Components
    <3>2. Reachable(i) /\ \E q \in Makers : pc[q] = "crashed" \/ (pc[q] = "chmod" /\ comp[q] = i)
      BY <3>1 DEF ClosedInv
    <3>3. Reachable(i)'
      <4> SUFFICES ASSUME NEW j \in 1..(i - 1) PROVE Searchable(j)'
        BY DEF Reachable
      <4>1. j \in Components /\ Searchable(j)
        BY <3>1, <3>2 DEF Reachable, Components
      <4>2. j = c => UserExec \in node'[j].mode
        BY <1>1, <2>3
      <4> QED
        BY <2>3, <4>1, <4>2 DEF Searchable
    <3>4. \E q \in Makers : pc'[q] = "crashed" \/ (pc'[q] = "chmod" /\ comp'[q] = i)
      BY <1>1, <2>2, <3>1, <3>2
    <3> QED
      BY <3>3, <3>4
  <2>7. ASSUME Alone(p) PROVE JobInv(p)'
    <3>1. node'[c] = Dir(parentMode[p])
      BY <1>2, <2>3, <2>7 DEF Dir
    <3>2. MadeBefore(p, comp[p])' /\ LeftFrom(p, comp[p])'
      BY <1>1, <1>2, <2>1, <2>2, <2>3, <2>7, <3>1
         DEF MadeBefore, LeftFrom, Writable, Components, argVars
    <3>3. ~ Found(before[p])'
      BY <1>1, <1>2, <2>1, <2>7 DEF Found, argVars
    <3> QED
      BY <2>2, <3>2, <3>3 DEF JobInv, Making
  <2>8. AloneInv'
    BY <1>1, <2>1, <2>7, AloneKeeps
  <2> QED
    BY <2>4, <2>5, <2>6, <2>8
<1>4. CASE ~ StatOK(c)
  <2>1. Finish(p, "failed") /\ UNCHANGED fsVars
    BY <1>1, <1>4 DEF ChmodComponent, fsVars
  <2>2. /\ Goto(p, "failed") /\ RestoreUmask(p) /\ UNCHANGED <<comp, argVars>>
    BY <2>1 DEF Finish
  <2>3. /\ pc'[p] = "failed"
        /\ \A q \in Makers : q # p => pc'[q] = pc[q] /\ umask'[q] = umask[q]
    BY <2>2, Moved DEF RestoreUmask, MakerInv, TypeOK
  <2>4. StepInv'
    BY <1>1, <2>1, <2>2, <2>3 DEF StepInv, fsVars, argVars, Making, IsTree, LastInLoop, InLoop
  <2>5. QuietInv'
    BY <1>1, <2>1, <2>3 DEF QuietInv, IsDir, fsVars, Making, StatPathOK, StatOK, Reachable, Searchable
  <2>6. ClosedInv'
    <3> SUFFICES ASSUME NEW i \in 1..(Depth - 1), node[i].kind = "dir", node[i].mode = {}
                 PROVE  /\ Reachable(i)
                        /\ \E q \in Makers : pc'[q] = "crashed" \/ (pc'[q] = "chmod" /\ comp'[q] = i)
      BY <2>1 DEF ClosedInv, Reachable, Searchable, fsVars
    <3>1. Reachable(i) /\ \E q \in Makers : pc[q] = "crashed" \/ (pc[q] = "chmod" /\ comp[q] = i)
      BY DEF ClosedInv
    <3>2. i # c
      BY <1>4, <3>1 DEF StatOK
    <3> QED
      BY <1>1, <2>2, <2>3, <3>1, <3>2
  <2>7. ~ Alone(p)
    BY <1>2, <1>4 DEF StatOK, Dir
  <2>8. AloneInv'
    BY <1>1, <2>2, <2>7, AloneKeeps
  <2> QED
    BY <2>4, <2>5, <2>6, <2>8
<1> QED
  BY <1>3, <1>4

LEMMA MkdirFinalStep ==
  ASSUME MakerInv, PathInv, NEW p \in Makers, MkdirFinal(p)
  PROVE  PathInv'
<1> USE MakePathAssumption DEF PathInv
<1> DEFINE c == LastInLoop + 1
<1>1. /\ pc[p] = "mkdirFinal" /\ comp[p] = c /\ umask[p] = {}
      /\ UNCHANGED <<events, trailing>>
      /\ node \in NodeType /\ before[p] \in NodeType /\ IsTree(before[p])
      /\ Depth \in Components /\ LastInLoop \in {Depth - 1, Depth}
      /\ trailing <=> LastInLoop = Depth
      /\ nmode[p] \ umask[p] = nmode[p]
  BY DEF MkdirFinal, MakerInv, TypeOK, NodeType, NodeRec, StepInv, LastInLoop, Components, Making
<1>2. Alone(p) => /\ ~ Found(before[p]) /\ MadeBefore(p, c) /\ LeftFrom(p, c)
                  /\ ~ StatPathOK
  BY <1>1 DEF AloneInv, JobInv, Making
<1>3. CASE MkdirOK(Depth)
  <2>1. /\ node' = [node EXCEPT ![Depth] = Dir(nmode[p])] /\ Goto(p, "ok")
        /\ RestoreUmask(p) /\ UNCHANGED <<comp, argVars>>
    BY <1>1, <1>3 DEF MkdirFinal, Finish
  <2>2. /\ pc'[p] = "ok"
        /\ \A q \in Makers : q # p => pc'[q] = pc[q] /\ umask'[q] = umask[q]
    BY <2>1, Moved DEF RestoreUmask, MakerInv, TypeOK
  <2>3. /\ node'[Depth] = Dir(nmode[p]) /\ node'[Depth].kind = "dir"
        /\ \A j \in Components : j # Depth => node'[j] = node[j]
    BY <1>1, <2>1 DEF NodeType, Dir
  <2>4. node[Depth].kind = "none" /\ \A j \in 1..(Depth - 1) : Searchable(j)
    BY <1>3 DEF MkdirOK, Reachable
  <2>5. StepInv'
    <3>1. IsTree(node')
      BY <1>1, <2>3, <2>4 DEF IsTree, Components, Searchable, StepInv
    <3> QED
      BY <1>1, <2>1, <2>2, <3>1 DEF StepInv, argVars, Making, IsTree, LastInLoop, InLoop
  <2>6. QuietInv'
    BY <1>1, <2>2, <2>3 DEF QuietInv, IsDir
  <2>7. ClosedInv'
    <3> SUFFICES ASSUME NEW i \in 1..(Depth - 1), node'[i].kind = "dir", node'[i].mode = {}
                 PROVE  /\ Reachable(i)'
                        /\ \E q \in Makers : pc'[q] = "crashed" \/ (pc'[q] = "chmod" /\ comp'[q] = i)
      BY DEF ClosedInv
    <3>1. i \in Components /\ i # Depth /\ node'[i] = node[i]
      BY <2>3 DEF Components
    <3>2. Reachable(i) /\ \E q \in Makers : pc[q] = "crashed" \/ (pc[q] = "chmod" /\ comp[q] = i)
      BY <3>1 DEF ClosedInv
    <3>3. \A j \in 1..(i - 1) : node'[j] = node[j]
      BY <2>3 DEF Components
    <3> QED
      BY <1>1, <2>1, <2>2, <3>1, <3>2, <3>3, SameReachable
  <2>8. ASSUME Alone(p) PROVE JobInv(p)'
    <3>1. LastInLoop = Depth - 1 /\ before[p][Depth].kind = "none"
      BY <1>1, <1>2, <2>4, <2>8 DEF MadeBefore, LeftFrom, Dir, NodeType, NodeRec, Components
    <3>2. \A i \in Components : i # Depth =>
            /\ before[p][i].kind # "file"
            /\ node[i] = IF before[p][i].kind = "dir" THEN before[p][i] ELSE Dir(parentMode[p])
            /\ Writable(p, i)
      BY <1>2, <2>8, <3>1 DEF MadeBefore, Components
    <3>3. CanBeMade(before[p])
      <4> SUFFICES ASSUME NEW i \in Components \ {1}, before[p][i - 1].kind = "dir"
                   PROVE  /\ UserExec \in before[p][i - 1].mode
                          /\ before[p][i].kind = "none" => UserWrite \in before[p][i - 1].mode
        BY <3>1, <3>2 DEF CanBeMade
      <4>1. i - 1 \in Components /\ i - 1 # Depth /\ i - 1 \in 1..(Depth - 1) /\ i > 1
        BY DEF Components
      <4>2. UserExec \in node[i - 1].mode /\ node[i - 1] = before[p][i - 1]
        BY <2>4, <3>2, <4>1 DEF Searchable
      <4>3. i = Depth => UserWrite \in node[i - 1].mode
        BY <1>3, <4>1 DEF MkdirOK
      <4> QED
        BY <3>2, <4>1, <4>2, <4>3 DEF Writable
    <3>4. \A i \in Components : node'[i] = Made(p, i)
      <4> TAKE i \in Components
      <4>1. CASE i = Depth
        BY <2>3, <3>1, <4>1 DEF Made
      <4>2. CASE i # Depth
        BY <2>3, <3>1, <3>2, <4>2 DEF Made, Components
      <4> QED
        BY <4>1, <4>2
    <3>5. CanBeMade(before[p])' /\ \A i \in Components : node'[i] = Made(p, i)'
      BY <1>1, <2>1, <3>3, <3>4 DEF CanBeMade, Made, LastInLoop, argVars
    <3> QED
      BY <2>2, <3>5 DEF JobInv, Making
  <2>9. AloneInv'
    BY <1>1, <2>1, <2>8, AloneKeeps
  <2> QED
    BY <2>5, <2>6, <2>7, <2>9
<1>4. CASE ~ MkdirOK(Depth)
  <2>1. Finish(p, "failed") /\ UNCHANGED fsVars
    BY <1>1, <1>4 DEF MkdirFinal, fsVars
  <2>2. ASSUME Alone(p), CanBeMade(before[p]) PROVE FALSE
    <3>1. MadeBefore(p, Depth)
      BY <1>1, <1>2, <2>2 DEF MadeBefore, Components
    <3>2. \A j \in Components : j < Depth =>
            Searchable(j) /\ (before[p][j + 1].kind = "none" => UserWrite \in node[j].mode)
      BY <1>1, <2>2, <3>1, LoneSearchable
    <3>3. Reachable(Depth) /\ before[p][Depth].kind = "none"
      BY <1>1, <1>2, <2>2, <3>2, NothingAtTheEnd DEF Reachable, Components
    <3>4. node[Depth].kind = "none"
      <4>1. CASE trailing
        BY <1>1, <1>2, <2>2, <3>3, <4>1 DEF MadeBefore, Dir, StatPathOK, StatOK, IsDir, Components
      <4>2. CASE ~ trailing
        BY <1>1, <1>2, <2>2, <3>3, <4>2 DEF LeftFrom, Components
      <4> QED
        BY <4>1, <4>2
    <3>5. Depth > 1 => UserWrite \in node[Depth - 1].mode
      <4>1. Depth > 1 => Depth - 1 \in Components /\ Depth - 1 < Depth /\ (Depth - 1) + 1 = Depth
        BY DEF Components
      <4> QED
        BY <3>2, <3>3, <4>1
    <3> QED
      BY <1>4, <3>3, <3>4, <3>5 DEF MkdirOK
  <2> QED
    BY <1>1, <2>1, <2>2, ReturnStep DEF Making
<1> QED
  BY <1>3, <1>4

LEMMA InterfereStep ==
  ASSUME MakerInv, PathInv, Interfere
  PROVE  PathInv'
<1> USE MakePathAssumption DEF PathInv
<1>1. PICK i \in Components : CreateFile(i) \/ RemoveDir(i)
  BY DEF Interfere
<1>2. /\ events' = events + 1 /\ events \in Nat /\ node \in NodeType
      /\ UNCHANGED <<trailing, pc, comp, umask, argVars>>
  BY DEF Interfere, MakerInv, TypeOK, NodeType, NodeRec, maskVars
<1>3. /\ node'[i].kind \in {"none", "file"}
      /\ \A j \in Components : j # i => node'[j] = node[j]
      /\ \A j \in Components : i < j => node[j].kind = "none"
      /\ node'[i].kind # "none" => \A j \in Components : j < i => node[j].kind = "dir"
  <2>1. CASE CreateFile(i)
    <3>1. node' = [node EXCEPT ![i] = File] /\ node[i].kind = "none" /\ (i > 1 => IsDir(i - 1))
      BY <2>1 DEF CreateFile
    <3>2. \A j \in Components : i < j => node[j].kind = "none"
      BY <3>1 DEF StepInv, IsTree
    <3>3. \A j \in Components : j < i => node[j].kind = "dir"
      <4> SUFFICES ASSUME NEW j \in Components, j < i PROVE node[j].kind = "dir"
        OBVIOUS
      <4>1. i - 1 \in Components /\ node[i - 1].kind = "dir" /\ (j = i - 1 \/ j < i - 1)
        BY <3>1 DEF IsDir, Components
      <4> QED
        BY <4>1 DEF StepInv, IsTree
    <3> QED
      BY <1>2, <3>1, <3>2, <3>3 DEF File, NodeType
  <2>2. CASE RemoveDir(i)
    <3>1. node' = [node EXCEPT ![i] = Missing] /\ Below(i).kind = "none"
      BY <2>2 DEF RemoveDir
    <3>2. \A j \in Components : i < j => node[j].kind = "none"
      <4> SUFFICES ASSUME NEW j \in Components, i < j, node[j].kind # "none" PROVE FALSE
        OBVIOUS
      <4>1. i # Depth /\ i + 1 \in Components /\ node[i + 1].kind = "none"
        BY <3>1 DEF Below, Components
      <4>2. i + 1 < j
        BY <4>1 DEF Components
      <4> QED
        BY <4>1, <4>2 DEF StepInv, IsTree
    <3> QED
      BY <1>2, <3>1, <3>2 DEF Missing, NodeType
  <2> QED
    BY <1>1, <2>1, <2>2
<1>4. StepInv'
  <2>1. IsTree(node')
    BY <1>3 DEF StepInv, IsTree, Components
  <2> QED
    BY <1>2, <2>1 DEF StepInv, argVars, Making, LastInLoop
<1>5. QuietInv' /\ AloneInv'
  BY <1>2 DEF QuietInv, AloneInv, Alone
<1>6. ClosedInv'
  <2> SUFFICES ASSUME NEW k \in 1..(Depth - 1), node'[k].kind = "dir", node'[k].mode = {}
               PROVE  /\ Reachable(k)'
                      /\ \E q \in Makers : pc[q] = "crashed" \/ (pc[q] = "chmod" /\ comp[q] = k)
    BY <1>2 DEF ClosedInv
  <2>1. k \in Components /\ k # i /\ node'[k] = node[k]
    BY <1>3 DEF Components
  <2>2. Reachable(k) /\ \E q \in Makers : pc[q] = "crashed" \/ (pc[q] = "chmod" /\ comp[q] = k)
    BY <2>1 DEF ClosedInv
  <2>3. k < i
    BY <1>3, <2>1 DEF Components
  <2>4. \A j \in 1..(k - 1) : node'[j] = node[j]
    BY <1>3, <2>1, <2>3 DEF Components
  <2> QED
    BY <2>1, <2>2, <2>4, SameReachable
<1> QED
  BY <1>4, <1>5, <1>6

-----------------------------------------------------------------------------

LEMMA PathInvInit == Init => PathInv
<1> SUFFICES ASSUME Init PROVE PathInv
  OBVIOUS
<1> USE MakePathAssumption
<1>1. node \in NodeType /\ \A p \in Makers : before[p] = node
  BY MakerInvInit DEF MakerInv, TypeOK, NodeType, NodeRec, Init
<1>2. \A i \in Components \ {1} : node[i].kind # "none" => node[i - 1].kind = "dir"
  BY DEF Init, InitialNodes, Missing
<1>3. IsTree(node)
  BY <1>1, <1>2, AdjacentIsTree
<1>4. \A p \in Makers : pc[p] = "idle"
  BY DEF Init
<1>5. \A i \in Components : ~ (node[i].kind = "dir" /\ node[i].mode = {})
  <2> TAKE i \in Components
  <2>1. node[i] \in {Missing, File} \cup {Dir(AllBits \ bits) : bits \in {{}, {UserWrite}, {UserExec}}}
    BY DEF Init, InitialNodes
  <2>2. \A bits \in {{}, {UserWrite}, {UserExec}} : AllBits \ bits # {}
    OBVIOUS
  <2> QED
    BY <2>1, <2>2 DEF Missing, File, Dir
<1> QED
  BY <1>1, <1>3, <1>4, <1>5
     DEF PathInv, StepInv, QuietInv, ClosedInv, AloneInv, JobInv, Making, Components

LEMMA PathInvStep == MakerInv /\ PathInv /\ [Next]_vars => PathInv'
<1> SUFFICES ASSUME MakerInv, PathInv, [Next]_vars PROVE PathInv'
  OBVIOUS
<1>1. CASE UNCHANGED vars
  <2>1. UNCHANGED <<fsVars, pc, comp, umask, argVars>>
    BY <1>1 DEF vars, maskVars
  <2>2. StepInv' /\ QuietInv' /\ ClosedInv'
    BY <2>1 DEF PathInv, StepInv, QuietInv, ClosedInv, IsTree, LastInLoop, IsDir, StatPathOK, StatOK,
         Reachable, Searchable, fsVars, argVars
  <2>3. \A p \in Makers : JobInv(p)' = JobInv(p) /\ Alone(p)' = Alone(p)
    BY <2>1 DEF JobInv, Alone, Found, IsDir, MadeBefore, LeftFrom, Writable, StatPathOK, StatOK,
         Reachable, Searchable, CanBeMade, Made, LastInLoop, fsVars, argVars
  <2> QED
    BY <2>2, <2>3 DEF PathInv, AloneInv
<1> QED
  BY <1>1, CallStep, PathExistsStep, ChmodPathStep, PathMissingStep, StatComponentStep,
     MkdirComponentStep, ChmodComponentStep, StatFinalStep, MkdirFinalStep, CrashStep,
     InterfereStep
  DEF Next, MakerStep

(* The inductive invariant of the path, for any path, processes and        *)
(* interference.                                                           *)
THEOREM PathCorrect == Spec => [](MakerInv /\ PathInv)
<1> QED
  BY MakerInvInit, MakerInvStep, PathInvInit, PathInvStep, PTL DEF Spec

(* A directory made with mode 0 is opened again, however many processes    *)
(* and other programs are at work on the path, unless a process is killed. *)
THEOREM NoClosedDirectory == Spec => []NoClosedDirectoryLeft
<1>1. PathInv => NoClosedDirectoryLeft
  BY DEF PathInv, ClosedInv, NoClosedDirectoryLeft, MadeClosed
<1> QED
  BY PathCorrect, <1>1, PTL

(* A process that is alone makes the path exactly when it can be made, and *)
(* leaves each component as it should be.                                  *)
THEOREM AloneMakes == Spec => []AloneDoesItsJob
<1>1. PathInv => AloneDoesItsJob
  BY DEF PathInv, AloneInv, JobInv, AloneDoesItsJob
<1> QED
  BY PathCorrect, <1>1, PTL

(* createDirectoryFile() returns 0 only when the path is there, as a       *)
(* directory, or as a file that another program has put there.             *)
THEOREM SuccessIsMade == Spec => SuccessMeansMade
<1>1. ASSUME MakerInv, PathInv, [Next]_vars, NEW p \in Makers, Succeeds(p)
      PROVE  \/ node'[Depth].kind = "dir"
             \/ node'[Depth].kind = "file" /\ events > 0
  <2> USE MakePathAssumption
  <2>1. node \in NodeType /\ Depth \in Components /\ events \in Nat
    BY <1>1 DEF MakerInv, TypeOK, NodeType, NodeRec, Components
  <2>2. PathExists(p) \/ ChmodPath(p) \/ StatFinal(p) \/ MkdirFinal(p)
    <3>1. PICK q \in Makers : MakerStep(q) \/ Crash(q)
      BY <1>1 DEF Succeeds, Next, Interfere, vars
    <3>2. \E r : Goto(q, r)
      BY <3>1 DEF MakerStep, Call, PathExists, ChmodPath, PathMissing, StatComponent,
           MkdirComponent, ChmodComponent, StatFinal, MkdirFinal, Crash, Finish, Advance
    <3>3. q = p
      BY <1>1, <3>2, Moved DEF Succeeds
    <3>4. ~ (\E r \in Pcs \ {"ok"} : Goto(p, r))
      BY <1>1, Moved DEF Succeeds
    <3>5. ~ (Call(p) \/ PathMissing(p) \/ StatComponent(p) \/ MkdirComponent(p)
             \/ ChmodComponent(p) \/ Crash(p))
      BY <3>4 DEF Call, PathMissing, StatComponent, MkdirComponent, ChmodComponent, Crash,
           Finish, Advance, Pcs
    <3> QED
      BY <3>1, <3>3, <3>5 DEF MakerStep
  <2>3. CASE PathExists(p)
    <3>1. IsDir(Depth)
      BY <1>1, <2>3, Moved DEF PathExists, Succeeds
    <3> QED
      BY <2>3, <3>1 DEF PathExists, IsDir, fsVars
  <2>4. CASE ChmodPath(p)
    <3>1. StatPathOK /\ pc[p] = "chmodPath"
      BY <1>1, <2>4, Moved DEF ChmodPath, Succeeds
    <3>2. node' = ChmodIn(node, Depth, nmode[p]) /\ nmode[p] \in SUBSET AllBits
      BY <1>1, <2>4, <3>1 DEF ChmodPath, ChmodIn, MakerInv, TypeOK
    <3>3. node'[Depth].kind = node[Depth].kind
      BY <2>1, <3>2, Chmod
    <3> QED
      BY <1>1, <2>1, <3>1, <3>3
         DEF PathInv, QuietInv, IsDir, StatPathOK, StatOK, NodeType, NodeRec
  <2>5. CASE StatFinal(p)
    <3>1. StatPathOK /\ pc[p] = "component" /\ node' = node
      BY <1>1, <2>5, Moved DEF StatFinal, Succeeds, fsVars
    <3> QED
      BY <1>1, <2>1, <3>1
         DEF PathInv, QuietInv, StatPathOK, StatOK, NodeType, NodeRec, Making
  <2>6. CASE MkdirFinal(p)
    <3>1. MkdirOK(Depth)
      BY <1>1, <2>6, Moved DEF MkdirFinal, Succeeds, Finish
    <3> QED
      BY <2>1, <2>6, <3>1 DEF MkdirFinal, NodeType, Dir
  <2> QED
    BY <2>2, <2>3, <2>4, <2>5, <2>6
<1>2. (MakerInv /\ PathInv) /\ [Next]_vars =>
        [\A p \in Makers :
           Succeeds(p) =>
             \/ node'[Depth].kind = "dir"
             \/ node'[Depth].kind = "file" /\ events > 0]_vars
  BY <1>1
<1> QED
  BY <1>2, PathCorrect, PTL DEF Spec, SuccessMeansMade

=============================================================================
