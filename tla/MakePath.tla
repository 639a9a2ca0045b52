------------------------------ MODULE MakePath ------------------------------
(***************************************************************************)
(* createDirectoryFile() and the make_path() it calls (UnixFileUtils.c),   *)
(* run by several processes on one path of Depth components, one system    *)
(* call at a time.  Other programs may create a file or remove an empty    *)
(* directory on the path, and a process may be killed anywhere.            *)
(*                                                                         *)
(* A file mode is a set of permission bits.  Every process is the owner of *)
(* the files, so that only the bits in OwnerBits decide what it may do.    *)
(***************************************************************************)
EXTENDS Integers

CONSTANTS
  Makers,       \* processes that call createDirectoryFile()
  Depth,        \* components of the path
  AllBits,      \* S_IRWXU | S_IRWXG | S_IRWXO
  UserWrite, UserExec,   \* S_IWUSR, S_IXUSR
  Umasks,       \* umasks the processes may have
  Modes,        \* values of the mode argument
  Interference, \* what other programs do: a subset of {"file", "rmdir"}
  MaxEvents     \* bound: actions of other programs

ASSUME MakePathAssumption ==
  /\ Depth \in Nat \ {0}
  /\ {UserWrite, UserExec} \subseteq AllBits /\ UserWrite # UserExec
  /\ Umasks \subseteq SUBSET AllBits
  /\ Modes \subseteq SUBSET AllBits
  /\ MaxEvents \in Nat

VARIABLES
  node,        \* what is at each component of the path
  events,      \* actions of other programs so far
  trailing,    \* the path ends in '/'
  pc,          \* the next call of each process, or the result it got
  comp,        \* the component make_path() is at
  umask,       \* the umask of each process
  original,    \* history: the umask it had at first
  sOriginalUmask,
  userMode,    \* the argument of that name
  nmode, parentMode,
  before       \* history: the path as it was at the call

fsVars   == <<node, events, trailing>>
argVars  == <<userMode, nmode, parentMode, before>>
maskVars == <<umask, original, sOriginalUmask>>
vars == <<fsVars, pc, comp, maskVars, argVars>>

Components == 1..Depth

Missing   == [kind |-> "none", mode |-> {}]
File      == [kind |-> "file", mode |-> {}]
Dir(mode) == [kind |-> "dir", mode |-> mode]

-----------------------------------------------------------------------------
(* The file system.                                                        *)

Searchable(i) == node[i].kind = "dir" /\ UserExec \in node[i].mode

(* The parent directories of component i can be walked; then stat() and    *)
(* chmod() succeed if there is something, mkdir() if there is nothing and  *)
(* the parent can be written to.                                           *)
Reachable(i) == \A j \in 1..(i - 1) : Searchable(j)
StatOK(i)    == Reachable(i) /\ node[i].kind # "none"
IsDir(i)     == node[i].kind = "dir"
MkdirOK(i)   == /\ Reachable(i) /\ node[i].kind = "none"
                /\ i > 1 => UserWrite \in node[i - 1].mode

(* The whole path, as given: with a trailing slash it has to be a directory. *)
StatPathOK == StatOK(Depth) /\ (trailing => IsDir(Depth))

(* Components that a slash follows are made by the loop of make_path().    *)
LastInLoop == IF trailing THEN Depth ELSE Depth - 1

-----------------------------------------------------------------------------

InitialNodes ==
  {n \in [Components -> {Missing, File} \cup
           {Dir(AllBits \ bits) : bits \in {{}, {UserWrite}, {UserExec}}}] :
     \A i \in Components \ {1} : n[i] # Missing => n[i - 1].kind = "dir"}

Init ==
  /\ node \in InitialNodes
  /\ events = 0
  /\ trailing \in BOOLEAN
  /\ pc = [p \in Makers |-> "idle"]
  /\ comp = [p \in Makers |-> 1]
  /\ original \in [Makers -> Umasks]
  /\ umask = original
  /\ sOriginalUmask = [p \in Makers |-> {}]
  /\ userMode = [p \in Makers |-> FALSE]
  /\ nmode = [p \in Makers |-> {}]
  /\ parentMode = [p \in Makers |-> {}]
  /\ before = [p \in Makers |-> node]

Goto(p, next) == pc' = [pc EXCEPT ![p] = next]

(* umask(sOriginalUmask) before a return of make_path(). *)
RestoreUmask(p) == umask' = [umask EXCEPT ![p] = sOriginalUmask[p]]

Finish(p, result) ==
  /\ Goto(p, result)
  /\ RestoreUmask(p)
  /\ UNCHANGED <<comp, original, sOriginalUmask, argVars>>

Advance(p) ==
  /\ Goto(p, "component")
  /\ comp' = [comp EXCEPT ![p] = @ + 1]
  /\ UNCHANGED <<maskVars, argVars>>

\* mutation: the modes are not restricted by the umask
Call_Unmasked(p) ==
  /\ pc[p] \in {"idle", "ok", "failed"}
  /\ Goto(p, "path")
  /\ \E um \in BOOLEAN, mode \in Modes :
       /\ userMode' = [userMode EXCEPT ![p] = um]
       /\ nmode' = [nmode EXCEPT ![p] = mode]
  /\ sOriginalUmask' = [sOriginalUmask EXCEPT ![p] = umask[p]]
  /\ parentMode' = [parentMode EXCEPT ![p] = AllBits]
  /\ before' = [before EXCEPT ![p] = node]
  /\ UNCHANGED <<fsVars, comp, umask, original>>

(* createDirectoryFile(): umask() is read by setting it to 0 and back. *)
Call(p) ==
  /\ pc[p] \in {"idle", "ok", "failed"}
  /\ Goto(p, "path")
  /\ \E um \in BOOLEAN, mode \in Modes :
       /\ userMode' = [userMode EXCEPT ![p] = um]
       /\ nmode' = [nmode EXCEPT ![p] = (AllBits \ umask[p]) \cap mode]
  /\ sOriginalUmask' = [sOriginalUmask EXCEPT ![p] = umask[p]]
  /\ parentMode' =
       [parentMode EXCEPT ![p] = (AllBits \ umask[p]) \cup {UserWrite, UserExec}]
  /\ before' = [before EXCEPT ![p] = node]
  /\ UNCHANGED <<fsVars, comp, umask, original>>

(* stat(path) finds something. *)
PathExists(p) ==
  /\ pc[p] = "path"
  /\ StatPathOK
  /\ Goto(p, IF ~ IsDir(Depth) THEN "failed"
             ELSE IF userMode[p] THEN "chmodPath" ELSE "ok")
  /\ UNCHANGED <<fsVars, comp, maskVars, argVars>>

ChmodPath(p) ==
  /\ pc[p] = "chmodPath"
  /\ IF StatPathOK
     THEN Goto(p, "ok") /\ node' = [node EXCEPT ![Depth].mode = nmode[p]]
     ELSE Goto(p, "failed") /\ UNCHANGED node
  /\ UNCHANGED <<events, trailing, comp, maskVars, argVars>>

(* It finds nothing: umask(0), and start at the first component. *)
PathMissing(p) ==
  /\ pc[p] = "path"
  /\ ~ StatPathOK
  /\ Goto(p, "component")
  /\ comp' = [comp EXCEPT ![p] = 1]
  /\ umask' = [umask EXCEPT ![p] = {}]
  /\ UNCHANGED <<fsVars, original, sOriginalUmask, argVars>>

InLoop(p) == comp[p] <= LastInLoop

StatComponent(p) ==
  /\ pc[p] = "component"
  /\ InLoop(p)
  /\ IF ~ StatOK(comp[p])
     THEN /\ Goto(p, "mkdir")
          /\ UNCHANGED <<comp, maskVars, argVars>>
     ELSE IF IsDir(comp[p]) THEN Advance(p) ELSE Finish(p, "failed")
  /\ UNCHANGED fsVars

\* mutation: the chmod() after it is left out
MkdirComponent_NoChmod(p) ==
  /\ pc[p] = "mkdir"
  /\ IF MkdirOK(comp[p])
     THEN node' = [node EXCEPT ![comp[p]] = Dir({})] /\ Advance(p)
     ELSE Finish(p, "failed") /\ UNCHANGED node
  /\ UNCHANGED <<events, trailing>>

(* mkdir(npath, 0) *)
MkdirComponent(p) ==
  /\ pc[p] = "mkdir"
  /\ IF MkdirOK(comp[p])
     THEN /\ node' = [node EXCEPT ![comp[p]] = Dir({})]
          /\ Goto(p, "chmod")
          /\ UNCHANGED <<comp, maskVars, argVars>>
     ELSE Finish(p, "failed") /\ UNCHANGED node
  /\ UNCHANGED <<events, trailing>>

\* mutation: an intermediate directory is given nmode
ChmodComponent_Nmode(p) ==
  /\ pc[p] = "chmod"
  /\ IF StatOK(comp[p])
     THEN node' = [node EXCEPT ![comp[p]].mode = nmode[p]] /\ Advance(p)
     ELSE Finish(p, "failed") /\ UNCHANGED node
  /\ UNCHANGED <<events, trailing>>

(* chmod(npath, parentMode) *)
ChmodComponent(p) ==
  /\ pc[p] = "chmod"
  /\ IF StatOK(comp[p])
     THEN /\ node' = [node EXCEPT ![comp[p]].mode = parentMode[p]]
          /\ Advance(p)
     ELSE Finish(p, "failed") /\ UNCHANGED node
  /\ UNCHANGED <<events, trailing>>

(* stat(npath, &sb) after the loop: its file type is not looked at. *)
StatFinal(p) ==
  /\ pc[p] = "component"
  /\ ~ InLoop(p)
  /\ IF StatPathOK
     THEN Finish(p, "ok")
     ELSE Goto(p, "mkdirFinal") /\ UNCHANGED <<comp, maskVars, argVars>>
  /\ UNCHANGED fsVars

\* mutation: the umask stays 0 when mkdir() fails
MkdirFinal_Unrestored(p) ==
  /\ pc[p] = "mkdirFinal"
  /\ IF MkdirOK(Depth)
     THEN Finish(p, "ok") /\ node' = [node EXCEPT ![Depth] = Dir(nmode[p] \ umask[p])]
     ELSE /\ Goto(p, "failed")
          /\ UNCHANGED <<node, comp, maskVars, argVars>>
  /\ UNCHANGED <<events, trailing>>

\* mutation: a failing mkdir() is taken for EEXIST
MkdirFinal_Ignored(p) ==
  /\ pc[p] = "mkdirFinal"
  /\ Finish(p, "ok")
  /\ IF MkdirOK(Depth)
     THEN node' = [node EXCEPT ![Depth] = Dir(nmode[p] \ umask[p])]
     ELSE UNCHANGED node
  /\ UNCHANGED <<events, trailing>>

(* mkdir(npath, nmode), under a umask of 0. *)
MkdirFinal(p) ==
  /\ pc[p] = "mkdirFinal"
  /\ IF MkdirOK(Depth)
     THEN Finish(p, "ok") /\ node' = [node EXCEPT ![Depth] = Dir(nmode[p] \ umask[p])]
     ELSE Finish(p, "failed") /\ UNCHANGED node
  /\ UNCHANGED <<events, trailing>>

(* SIGKILL *)
Crash(p) ==
  /\ pc[p] \notin {"idle", "ok", "failed", "crashed"}
  /\ Goto(p, "crashed")
  /\ UNCHANGED <<fsVars, comp, maskVars, argVars>>

MakerStep(p) ==
  \/ Call(p) \/ PathExists(p) \/ ChmodPath(p) \/ PathMissing(p)
  \/ StatComponent(p) \/ MkdirComponent(p) \/ ChmodComponent(p)
  \/ StatFinal(p) \/ MkdirFinal(p)

-----------------------------------------------------------------------------
(* Other programs.                                                         *)

Below(i) == IF i = Depth THEN Missing ELSE node[i + 1]

CreateFile(i) ==
  /\ "file" \in Interference
  /\ node[i].kind = "none"
  /\ i > 1 => IsDir(i - 1)
  /\ node' = [node EXCEPT ![i] = File]

RemoveDir(i) ==
  /\ "rmdir" \in Interference
  /\ IsDir(i)
  /\ Below(i).kind = "none"
  /\ node' = [node EXCEPT ![i] = Missing]

Interfere ==
  /\ events < MaxEvents
  /\ events' = events + 1
  /\ \E i \in Components : CreateFile(i) \/ RemoveDir(i)
  /\ UNCHANGED <<trailing, pc, comp, maskVars, argVars>>

Next ==
  \/ \E p \in Makers : MakerStep(p) \/ Crash(p)
  \/ Interfere

Spec == Init /\ [][Next]_vars

-----------------------------------------------------------------------------
(* Properties.                                                             *)

Returned(p) == pc[p] \in {"idle", "ok", "failed"}

Pcs == {"idle", "path", "chmodPath", "component", "mkdir", "chmod",
        "mkdirFinal", "ok", "failed", "crashed"}

TypeOK ==
  /\ node \in [Components -> [kind: {"none", "file", "dir"}, mode: SUBSET AllBits]]
  /\ events \in Nat
  /\ trailing \in BOOLEAN
  /\ pc \in [Makers -> Pcs]
  /\ comp \in [Makers -> Nat]
  /\ umask \in [Makers -> SUBSET AllBits]
  /\ original \in [Makers -> SUBSET AllBits]
  /\ sOriginalUmask \in [Makers -> SUBSET AllBits]
  /\ userMode \in [Makers -> BOOLEAN]
  /\ nmode \in [Makers -> SUBSET AllBits]
  /\ parentMode \in [Makers -> SUBSET AllBits]
  /\ before \in [Makers -> [Components ->
                   [kind: {"none", "file", "dir"}, mode: SUBSET AllBits]]]

(* "Note that this changes the process's umask; make sure that all paths   *)
(* leading to a return reset it to ORIGINAL_UMASK": whichever call failed, *)
(* and however often the function has been called before.                  *)
UmaskRestored == \A p \in Makers : Returned(p) => umask[p] = original[p]

(* Although make_path() runs under a umask of 0, no directory it makes or  *)
(* changes is more open than the umask of the process allows, but for the  *)
(* u+wx of an intermediate one.                                            *)
UmaskRespected ==
  [][\A i \in Components : node'[i] # node[i] /\ node'[i].kind = "dir" =>
       \E p \in Makers :
         /\ pc'[p] # pc[p]
         /\ node'[i].mode \cap original[p] \subseteq {UserWrite, UserExec}]_vars

(* A directory stays closed to all (mode 0) only for as long as the        *)
(* process that made it is about to chmod() it: when no process was        *)
(* killed none is left behind, on success or failure.                      *)
MadeClosed(i) ==
  node[i].kind = "dir" /\ node[i].mode = {} /\
  ~ \E p \in Makers : pc[p] = "chmod" /\ comp[p] = i

NoClosedDirectoryLeft ==
  (\A p \in Makers : pc[p] # "crashed") =>
    \A i \in 1..(Depth - 1) : ~ MadeClosed(i)

(* 0 is returned only for a path that is there at that moment, whatever    *)
(* was removed or made meanwhile, by other programs or by another process  *)
(* in this function: a directory, or else a file that appeared on the path *)
(* after make_path() had looked (line 530 takes any file for the           *)
(* directory), which only other programs make.                             *)
Succeeds(p) == pc[p] \notin {"ok", "crashed"} /\ pc'[p] = "ok"

SuccessMeansMade ==
  [][\A p \in Makers :
       Succeeds(p) =>
         \/ node'[Depth].kind = "dir"
         \/ node'[Depth].kind = "file" /\ events > 0]_vars

(* What the function does to a path that nothing else touches.  It can be  *)
(* made if nothing on it is in the way and the directory the first missing *)
(* component belongs in can be written to, after which every component is  *)
(* a directory: those that were there as they were (but for the last one,  *)
(* when a mode is to be set on it), the others with parentMode, or nmode   *)
(* for a last component without a slash after it.  Otherwise it fails.     *)
CanBeMade(n) ==
  /\ \A i \in Components : n[i].kind # "file"
  /\ \A i \in Components \ {1} :
       n[i - 1].kind = "dir" =>
         /\ UserExec \in n[i - 1].mode
         /\ n[i].kind = "none" => UserWrite \in n[i - 1].mode

Made(p, i) ==
  IF before[p][i].kind = "dir"
  THEN IF i = Depth /\ userMode[p] /\ ~ (\E j \in Components : before[p][j] = Missing)
       THEN Dir(nmode[p]) ELSE before[p][i]
  ELSE Dir(IF i <= LastInLoop THEN parentMode[p] ELSE nmode[p])

Alone(p) == events = 0 /\ \A q \in Makers \ {p} : pc[q] = "idle"

AloneDoesItsJob ==
  \A p \in Makers :
    Alone(p) =>
      /\ pc[p] = "ok" => CanBeMade(before[p]) /\ \A i \in Components : node[i] = Made(p, i)
      /\ pc[p] = "failed" => ~ CanBeMade(before[p])

(* The inductive invariant of the umask: what was saved is the umask of    *)
(* the process, which is in force but in the part of make_path() between   *)
(* umask(0) and a return, and the modes are computed from it.              *)
MaskInv ==
  \A p \in Makers :
    /\ pc[p] \in {"idle", "path", "chmodPath", "ok", "failed"} =>
         umask[p] = original[p]
    /\ pc[p] # "idle" => sOriginalUmask[p] = original[p]
    /\ nmode[p] \cap original[p] = {}
    /\ parentMode[p] \cap original[p] \subseteq {UserWrite, UserExec}

MakerInv == TypeOK /\ MaskInv

=============================================================================
