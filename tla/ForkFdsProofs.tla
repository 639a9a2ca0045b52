---------------------------- MODULE ForkFdsProofs ----------------------------
(***************************************************************************)
(* What the descriptors of a process that calls forkChild() refer to, for  *)
(* any limit on their number, any of them open at first and any number of  *)
(* files opened meanwhile.                                                 *)
(***************************************************************************)
EXTENDS ForkFds, FiniteSetTheorems, WellFoundedInduction, TLAPS

-----------------------------------------------------------------------------
(* The inductive invariant.                                                *)

Kinds == {"stdin", "stdout", "stderr", "other", "new", "null",
          "pipeRead", "pipeWrite", "closed"}
Ends  == Fds \cup {-1}
Infos == [isChild: BOOLEAN, stdoutFd: Ends, stderrFd: Ends,
          read: Ends, write: Ends, pipeFile: Ends]

(* The steps of the child up to the close of the pipe, and after it; those *)
(* of the parent; those before /dev/null is opened.                        *)
Redirecting  == {"nullStdin", "nullStdout", "nullStderr", "closeNull"}
Saving       == {"redirected", "dupStdout", "dupStderr",
                 "stdoutToPipe", "stderrToPipe", "closePipe"}
BeforeNull   == {"onChildFork", "openNull"}
AfterPipe    == {"setvbuf", "inChild", "restored"}
ParentSteps  == {"closeWrite", "fdopen", "fclose", "closeRead", "inParent"}
ChildSteps   == BeforeNull \cup Redirecting \cup Saving \cup AfterPipe
HasPipe      == {"fork"} \cup BeforeNull \cup Redirecting \cup Saving

TypeInv ==
  /\ pc \in {"pipe", "fork", "error", "exited"} \cup ChildSteps \cup ParentSteps
  /\ limit \in MaxInherited..MaxFd
  /\ atStart \subseteq 0..MaxInherited
  /\ redirect \subseteq Std
  /\ file \in [Fds -> Kinds]
  /\ devNull \in Ends
  /\ ret \in {0, -1}
  /\ info \in Infos

StepInv ==
  /\ pc \in ParentSteps \cup {"pipe", "fork", "error"} => ~ info.isChild
  /\ pc \in ChildSteps => info.isChild
  /\ pc \in ChildSteps \cup {"pipe", "fork", "error"} => info.pipeFile = -1
  /\ pc \in AfterPipe => info.read = -1 /\ info.write = -1
  /\ pc \notin {"dupStderr", "stdoutToPipe", "stderrToPipe", "closePipe", "exited"} \cup AfterPipe =>
       info.stdoutFd = -1
  /\ pc \notin {"stdoutToPipe", "stderrToPipe", "closePipe", "exited"} \cup AfterPipe =>
       info.stderrFd = -1

FirstFiles ==
  [n \in Fds |-> IF n \notin atStart THEN "closed"
                 ELSE IF n \in Std THEN StdFile(n) ELSE "other"]

(* The ends of the pipe are where the ForkInfo says, unless a standard     *)
(* descriptor's number was free for one of them, which may since have been *)
(* redirected.                                                             *)
PipeInv ==
  /\ pc = "pipe" => file = FirstFiles
  /\ pc \in HasPipe =>
       /\ info.read \in Fds /\ info.write \in Fds /\ info.read < info.write
       /\ StdOpen <=> {info.read, info.write} \cap {STDOUT, STDERR} = {}
       /\ info.read \notin Std => file[info.read] = "pipeRead"
       /\ info.write \notin Std => file[info.write] = "pipeWrite"
       /\ StdOpen => Holding("pipeRead") \subseteq {info.read}
  /\ pc \in {"fork"} \cup BeforeNull =>
       Holding("pipeRead") = {info.read} /\ Holding("pipeWrite") = {info.write}

(* Who holds the write end. *)
WriteEndInv ==
  /\ StdOpen =>
       /\ pc \in HasPipe \ {"stderrToPipe", "closePipe"} =>
            Holding("pipeWrite") = {info.write}
       /\ pc = "stderrToPipe" => Holding("pipeWrite") = {info.write, STDOUT}
       /\ pc = "closePipe" => Holding("pipeWrite") = {info.write, STDOUT, STDERR}
       /\ pc \in {"setvbuf", "inChild"} => Holding("pipeWrite") = {STDOUT, STDERR}
       /\ pc \in {"setvbuf", "inChild"} => Holding("pipeRead") = {}
  /\ ~ StdOpen /\ pc \in {"setvbuf", "inChild"} =>
       file[STDOUT] # "pipeWrite" \/ file[STDERR] # "pipeWrite"

(* The parent's ends. *)
ParentInv ==
  /\ pc \in ParentSteps =>
       Holding("pipeRead") \subseteq {info.read} /\ Holding("null") = {}
  /\ pc = "closeWrite" =>
       info.write \in Fds /\ Holding("pipeWrite") = {info.write}
  /\ pc \in ParentSteps \ {"closeWrite"} => Holding("pipeWrite") = {}
  /\ pc \in {"closeWrite", "fdopen", "fclose"} =>
       info.read \in Fds /\ Holding("pipeRead") = {info.read}
  /\ pc \in {"fclose", "closeRead", "inParent"} => info.pipeFile = info.read
  /\ pc \in {"closeRead", "inParent"} => Holding("pipeRead") = {}

(* While descriptors are opened in the child at most one of the standard   *)
(* numbers is free, then none, so that none of them is saved to.           *)
StdInUseInv ==
  /\ pc \in BeforeNull \cup {"fork"} =>
       \A m, n \in Std : file[m] = "closed" /\ file[n] = "closed" => m = n
  /\ pc \in Redirecting \cup Saving => \A n \in Std : file[n] # "closed"

NullInv ==
  /\ pc \in BeforeNull \cup {"pipe", "fork"} => Holding("null") = {}
  /\ pc \in Redirecting =>
       /\ devNull \in Fds /\ file[devNull] = "null"
       /\ Holding("null") \subseteq Std \cup {devNull}
  /\ pc \in Saving \cup {"setvbuf", "inChild"} =>
       Holding("null") \subseteq Std \cup {info.stdoutFd, info.stderrFd}

(* Where stdout and stderr go once redirected, and when they are restored. *)
RestoredFile(n) == IF n \in redirect THEN "null" ELSE StdFile(n)

(* Where stdout and stderr go before they are sent to the pipe: done says  *)
(* when a redirection asked for has been tried, sure when it has worked.   *)
StdFileInv(n, asked, done, sure) ==
  /\ pc \in {"fork"} \cup BeforeNull \cup asked => file[n] = StdFile(n)
  /\ pc \in done => ret = -1 \/ file[n] = RestoredFile(n)
  /\ pc \in sure => file[n] = RestoredFile(n)

OutputInv ==
  StdOpen =>
    /\ StdFileInv(STDOUT, {"nullStdin", "nullStdout"},
                  {"nullStderr", "closeNull", "redirected"},
                  {"dupStdout", "dupStderr", "stdoutToPipe", "restored"})
    /\ StdFileInv(STDERR, {"nullStdin", "nullStdout", "nullStderr"},
                  {"closeNull", "redirected"},
                  {"dupStdout", "dupStderr", "stdoutToPipe", "stderrToPipe", "restored"})

(* The saved descriptors. *)
SavedInv ==
  StdOpen =>
    /\ info.stdoutFd # -1 =>
         info.stdoutFd \notin Std /\ file[info.stdoutFd] = RestoredFile(STDOUT)
    /\ info.stderrFd # -1 =>
         info.stderrFd \notin Std /\ file[info.stderrFd] = RestoredFile(STDERR)

RestoredInv ==
  StdOpen /\ pc = "restored" => Holding("pipeWrite") = {} /\ Holding("pipeRead") = {}

(* The caller's files: those open at the call stay where they are, and    *)
(* forkChild() never takes their numbers for its own.                      *)
CallerInv ==
  /\ Holding("other") = atStart \ Std
  /\ Owned \cap (atStart \ Std) = {}
  /\ pc \in HasPipe \cup ParentSteps => info.read \notin atStart /\ info.write \notin atStart
  /\ \A n \in Std : ~ info.isChild /\ file[n] = StdFile(n) => n \in atStart
  /\ pc \in {"pipe", "error"} => info.read = info.write
  /\ pc \in {"closeWrite", "fdopen"} => info.pipeFile = -1
  /\ pc = "closeRead" => info.read # -1
  /\ pc = "inParent" /\ info.pipeFile = -1 => info.write = -1

(* The copies dup() makes have numbers of their own. *)
Saved == {info.stdoutFd, info.stderrFd} \ {-1}

CopyInv ==
  /\ Saved \cap Std = {}
  /\ pc \in Saving =>
       /\ info.read \notin Saved /\ info.write \notin Saved
       /\ \A n \in Saved : file[n] # "closed"
  /\ info.stdoutFd = info.stderrFd => info.stdoutFd = -1

(* The saved copies of the streams in ns. *)
SavedOf(ns) == {n \in Fds : \/ n = info.stdoutFd /\ STDOUT \in ns
                            \/ n = info.stderrFd /\ STDERR \in ns}
ClosedOut == {STDOUT, STDERR} \ atStart

ReadEndInv ==
  /\ pc \in HasPipe => Holding("pipeRead") \subseteq {info.read} \cup SavedOf(ClosedOut)
  /\ pc \in {"setvbuf", "inChild"} => Holding("pipeRead") \subseteq SavedOf(ClosedOut)
  /\ pc = "restored" => Holding("pipeRead") \subseteq ClosedOut \cup SavedOf(ClosedOut)

NullPlaceInv ==
  /\ pc = "restored" => Holding("null") \subseteq Std \cup Saved
  /\ StdOpen =>
       /\ pc \in {"fork"} \cup BeforeNull => \A n \in Std : file[n] # "closed"
       /\ pc \in Redirecting =>
            devNull \notin Std /\ Holding("null") \subseteq {devNull} \cup redirect
       /\ pc \in Saving \cup AfterPipe =>
            Holding("null") \subseteq redirect \cup SavedOf(redirect)

PlaceInv == CopyInv /\ ReadEndInv /\ NullPlaceInv

FdInv ==
  /\ CallerInv /\ PlaceInv
  /\ TypeInv /\ StepInv /\ PipeInv /\ WriteEndInv /\ ParentInv
  /\ StdInUseInv /\ NullInv /\ OutputInv /\ SavedInv /\ RestoredInv

-----------------------------------------------------------------------------
(* The lowest free descriptor.                                             *)

LEMMA LeastOf ==
  ASSUME NEW T \in SUBSET Nat, T # {}
  PROVE  \E x \in T : \A y \in T : x <= y
<1>1. PICK x \in T : \A y \in T : ~ (<<y, x>> \in OpToRel(<, Nat))
  BY NatLessThanWellFounded, WFMin
<1>2. \A y \in T : ~ (y < x)
  <2> TAKE y \in T
  <2>1. y < x => <<y, x>> \in OpToRel(<, Nat)
    BY DEF OpToRel
  <2> QED
    BY <1>1, <2>1
<1> QED
  BY <1>2

LEMMA LowestIsFree ==
  ASSUME limit \in MaxInherited..MaxFd, NEW f \in [Fds -> Kinds], FreeIn(f) # {}
  PROVE  /\ Lowest(f) \in Fds /\ Lowest(f) <= limit
         /\ f[Lowest(f)] = "closed"
         /\ \A n \in 0..limit : f[n] = "closed" => Lowest(f) <= n
<1> USE FdAssumption
<1>1. FreeIn(f) \in SUBSET Nat
  BY DEF FreeIn
<1>2. PICK x \in FreeIn(f) : \A y \in FreeIn(f) : x <= y
  BY <1>1, LeastOf
<1>3. Lowest(f) \in FreeIn(f) /\ \A y \in FreeIn(f) : Lowest(f) <= y
  BY <1>2 DEF Lowest, Min
<1> QED
  BY <1>3 DEF FreeIn, Fds

(* What opening a descriptor changes. *)
LEMMA Opened ==
  ASSUME limit \in MaxInherited..MaxFd, NEW f \in [Fds -> Kinds], FreeIn(f) # {},
         NEW what \in Kinds
  PROVE  /\ OpenIn(f, what) \in [Fds -> Kinds]
         /\ OpenIn(f, what)[Lowest(f)] = what
         /\ \A n \in Fds : n # Lowest(f) => OpenIn(f, what)[n] = f[n]
  BY LowestIsFree DEF OpenIn

(* pipe() finds two descriptors. *)
LEMMA TwoFree ==
  ASSUME limit \in MaxInherited..MaxFd, NEW f \in [Fds -> Kinds],
         ~ (Cardinality(FreeIn(f)) < 2)
  PROVE  /\ FreeIn(f) # {}
         /\ FreeIn(OpenIn(f, "pipeRead")) # {}
<1> USE FdAssumption
<1>1. IsFiniteSet(FreeIn(f))
  <2>1. IsFiniteSet(0..limit)
    BY FS_Interval
  <2> QED
    BY <2>1, FS_Subset DEF FreeIn
<1>2. FreeIn(f) # {}
  BY FS_EmptySet
<1>3. FreeIn(OpenIn(f, "pipeRead")) = FreeIn(f) \ {Lowest(f)}
  BY <1>2, LowestIsFree, Opened DEF FreeIn, Kinds, Fds
<1>4. Cardinality(FreeIn(f) \ {Lowest(f)}) = Cardinality(FreeIn(f)) - 1
  <2>1. Lowest(f) \in FreeIn(f)
    BY <1>2, LowestIsFree DEF FreeIn, Fds
  <2> QED
    BY <1>1, <2>1, FS_RemoveElement
<1>5. Cardinality(FreeIn(f)) \in Nat
  BY <1>1, FS_CardinalityType
<1>6. FreeIn(f) \ {Lowest(f)} # {}
  BY <1>4, <1>5, FS_EmptySet
<1> QED
  BY <1>2, <1>3, <1>6

-----------------------------------------------------------------------------
(* One lemma per action.                                                   *)

LEMMA InitInv == Init => FdInv
<1> SUFFICES ASSUME Init PROVE FdInv
  OBVIOUS
<1> USE FdAssumption DEF Init
<1>1. StdFile(0) = "stdin" /\ StdFile(1) = "stdout" /\ StdFile(2) = "stderr"
  BY DEF StdFile
<1>2. TypeInv
  BY <1>1 DEF TypeInv, Fds, Kinds, Std, STDIN, STDOUT, STDERR, Infos, Ends
<1>3. StepInv
  BY DEF StepInv, ParentSteps, ChildSteps, AfterPipe, BeforeNull, Redirecting, Saving
<1>4. PipeInv
  BY DEF PipeInv, FirstFiles, HasPipe, BeforeNull, Redirecting, Saving
<1>5. WriteEndInv /\ ParentInv /\ RestoredInv
  BY DEF WriteEndInv, ParentInv, RestoredInv, HasPipe, BeforeNull, Redirecting, Saving, ParentSteps
<1>6. StdInUseInv /\ SavedInv /\ OutputInv
  BY DEF StdInUseInv, SavedInv, OutputInv, StdFileInv, BeforeNull, Redirecting, Saving
<1>7. NullInv
  BY <1>1 DEF NullInv, Redirecting, Saving, Holding, Std, STDIN, STDOUT, STDERR
<1>c. CallerInv
  <2>1. /\ info.stdoutFd = -1 /\ info.stderrFd = -1 /\ info.pipeFile = -1
        /\ info.read = 0 /\ info.write = 0
    OBVIOUS
  <2>2. Owned = {0, -1} /\ -1 \notin atStart /\ 0 \in Std
    BY <2>1 DEF Owned, Std, STDIN
  <2>3. Holding("other") = atStart \ Std
    <3>1. \A n \in Fds : file[n] = IF n \notin atStart THEN "closed"
                                  ELSE IF n \in Std THEN StdFile(n) ELSE "other"
      OBVIOUS
    <3>2. \A n \in Std : StdFile(n) # "other"
      BY <1>1 DEF Std, STDIN, STDOUT, STDERR
    <3>3. atStart \subseteq Fds
      BY DEF Fds
    <3> QED
      BY <3>1, <3>2, <3>3 DEF Holding
  <2>4. \A n \in Std : file[n] = StdFile(n) => n \in atStart
    BY <1>1 DEF Fds, Std, STDIN, STDOUT, STDERR
  <2> QED
    BY <2>1, <2>2, <2>3, <2>4 DEF CallerInv, HasPipe, ParentSteps, BeforeNull, Redirecting, Saving
<1>p. PlaceInv
  BY DEF PlaceInv, CopyInv, Saved, ReadEndInv, NullPlaceInv, HasPipe, AfterPipe, BeforeNull,
         Redirecting, Saving
<1> QED
  BY <1>c, <1>p, <1>2, <1>3, <1>4, <1>5, <1>6, <1>7 DEF FdInv

LEMMA SetvbufStep ==
  ASSUME FdInv, Setvbuf
  PROVE  FdInv'
<1> USE FdAssumption DEF FdInv, Setvbuf, Goto
<1>1. TypeInv'
  BY DEF TypeInv, ChildSteps, AfterPipe
<1>2. StepInv'
  BY DEF StepInv, ParentSteps, ChildSteps, AfterPipe, BeforeNull, Redirecting, Saving
<1>3. PipeInv'
  BY DEF PipeInv, HasPipe, BeforeNull, Redirecting, Saving
<1>4. WriteEndInv' /\ ParentInv' /\ RestoredInv'
  BY DEF WriteEndInv, ParentInv, RestoredInv, HasPipe, BeforeNull, Redirecting, Saving, ParentSteps, StdOpen, Holding
<1>5. StdInUseInv' /\ SavedInv' /\ OutputInv'
  BY DEF StdInUseInv, SavedInv, OutputInv, StdFileInv, BeforeNull, Redirecting, Saving, StdOpen, RestoredFile
<1>6. NullInv'
  BY DEF NullInv, BeforeNull, Redirecting, Saving, Holding
<1>c. CallerInv'
  BY DEF CallerInv, StepInv, Holding, Owned, ChildSteps, AfterPipe, HasPipe, ParentSteps,
         BeforeNull, Redirecting, Saving
<1>p. PlaceInv'
  BY DEF PlaceInv, CopyInv, Saved, ReadEndInv, SavedOf, ClosedOut, NullPlaceInv, StdOpen, Holding, HasPipe, ParentSteps, AfterPipe, BeforeNull, Redirecting, Saving
<1> QED
  BY <1>c, <1>p, <1>1, <1>2, <1>3, <1>4, <1>5, <1>6

LEMMA ForkStep ==
  ASSUME FdInv, NEW isChild \in BOOLEAN, Fork(isChild)
  PROVE  FdInv'
<1> USE FdAssumption DEF FdInv, Fork, Goto
<1>1. /\ info' \in Infos
      /\ info'.isChild = isChild
      /\ info'.stdoutFd = info.stdoutFd /\ info'.stderrFd = info.stderrFd
      /\ info'.read = info.read /\ info'.write = info.write
      /\ info'.pipeFile = info.pipeFile
  BY Zenon DEF TypeInv, Infos
<1>2. TypeInv'
  BY <1>1 DEF TypeInv, ChildSteps, BeforeNull, ParentSteps
<1>3. StepInv'
  BY <1>1 DEF StepInv, ParentSteps, ChildSteps, AfterPipe, BeforeNull, Redirecting, Saving
<1>4. PipeInv'
  BY <1>1 DEF PipeInv, StdOpen, HasPipe, BeforeNull, Redirecting, Saving, Holding
<1>5. WriteEndInv' /\ ParentInv' /\ RestoredInv'
  BY <1>1 DEF PipeInv, NullInv, WriteEndInv, ParentInv, RestoredInv,
              HasPipe, BeforeNull, Redirecting, Saving, ParentSteps, StdOpen, Holding
<1>6. StdInUseInv' /\ SavedInv' /\ OutputInv'
  BY <1>1 DEF StdInUseInv, SavedInv, OutputInv, StdFileInv, BeforeNull, Redirecting, Saving,
              StdOpen, RestoredFile
<1>7. NullInv'
  BY <1>1 DEF NullInv, BeforeNull, Redirecting, Saving, Holding
<1>c. CallerInv'
  BY <1>1 DEF CallerInv, StepInv, Holding, Owned, HasPipe, ParentSteps, AfterPipe, BeforeNull, Redirecting, Saving
<1>p. PlaceInv'
  BY <1>1 DEF PlaceInv, CopyInv, Saved, ReadEndInv, SavedOf, ClosedOut, NullPlaceInv, StdOpen, Holding, HasPipe, ParentSteps, AfterPipe, BeforeNull, Redirecting, Saving
<1> QED
  BY <1>c, <1>p, <1>2, <1>3, <1>4, <1>5, <1>6, <1>7

(* What opening one more file leaves as it was. *)
LEMMA OtherOpened ==
  ASSUME FdInv, FreeIn(file) # {}, file' = OpenIn(file, "new")
  PROVE  /\ file' \in [Fds -> Kinds]
         /\ \A n \in Fds : file'[n] = file[n] \/ (file[n] = "closed" /\ file'[n] = "new")
         /\ \A what \in Kinds \ {"closed", "new"} : Holding(what)' = Holding(what)
<1>1. "new" \in Kinds
  BY DEF Kinds
<1>2. /\ file' \in [Fds -> Kinds]
      /\ \A n \in Fds : file'[n] = file[n] \/ (file[n] = "closed" /\ file'[n] = "new")
  <2>1. file \in [Fds -> Kinds] /\ limit \in MaxInherited..MaxFd
    BY DEF FdInv, TypeInv
  <2>2. file[Lowest(file)] = "closed"
    BY <2>1, LowestIsFree
  <2>3. /\ file' \in [Fds -> Kinds] /\ file'[Lowest(file)] = "new"
        /\ \A n \in Fds : n # Lowest(file) => file'[n] = file[n]
    BY <1>1, <2>1, Opened
  <2> QED
    BY <2>2, <2>3
<1> QED
  BY <1>2 DEF Holding

LEMMA OtherOpenedStep ==
  ASSUME FdInv, FreeIn(file) # {}, file' = OpenIn(file, "new"),
         \/ pc' = pc /\ pc \in {"inChild", "restored", "error", "fork"} \cup ParentSteps
         \/ pc = "onChildFork" /\ pc' = "openNull",
         UNCHANGED <<limit, atStart, redirect, devNull, ret, info>>
  PROVE  FdInv'
<1> USE FdAssumption DEF FdInv
<1>1. /\ file' \in [Fds -> Kinds]
      /\ \A n \in Fds : file'[n] = file[n] \/ (file[n] = "closed" /\ file'[n] = "new")
      /\ Holding("null")' = Holding("null")
      /\ Holding("pipeRead")' = Holding("pipeRead")
      /\ Holding("pipeWrite")' = Holding("pipeWrite")
  BY OtherOpened DEF Kinds
<1>2. TypeInv'
  BY <1>1 DEF TypeInv, ChildSteps, BeforeNull
<1>3. StepInv'
  BY DEF StepInv, ParentSteps, ChildSteps, AfterPipe, BeforeNull, Redirecting, Saving
<1>4. PipeInv'
  BY <1>1 DEF PipeInv, StdOpen, HasPipe, BeforeNull, Redirecting, Saving, ParentSteps
<1>5. WriteEndInv'
  BY <1>1 DEF WriteEndInv, StdOpen, HasPipe, BeforeNull, Redirecting, Saving, ParentSteps,
              Fds, STDOUT, STDERR
<1>6. ParentInv' /\ RestoredInv'
  BY <1>1 DEF ParentInv, RestoredInv, ParentSteps, StdOpen
<1>7. StdInUseInv'
  BY <1>1 DEF StdInUseInv, BeforeNull, Redirecting, Saving, ParentSteps, Fds, Std,
              STDIN, STDOUT, STDERR
<1>8. SavedInv'
  <2>1. \A n \in Std : RestoredFile(n) # "closed"
    BY DEF RestoredFile, StdFile, Std, STDIN, STDOUT, STDERR
  <2> QED
    BY <1>1, <2>1 DEF SavedInv, TypeInv, Infos, Ends, StdOpen, Std, STDOUT, STDERR, RestoredFile
<1>9. OutputInv'
  <2>1. StdFile(1) = "stdout" /\ StdFile(2) = "stderr"
    BY DEF StdFile
  <2> QED
    BY <1>1, <2>1 DEF OutputInv, StdFileInv, BeforeNull, ParentSteps, StdOpen, RestoredFile, Fds,
              STDOUT, STDERR
<1>10. NullInv'
  BY <1>1 DEF NullInv, BeforeNull, Redirecting, Saving, ParentSteps
<1>c. CallerInv'
  <2>1. Holding("other")' = Holding("other")
    BY OtherOpened DEF Kinds
  <2>2. \A n \in Std : n \in Fds /\ StdFile(n) # "new"
    BY DEF StdFile, Fds, Std, STDIN, STDOUT, STDERR
  <2> QED
    BY <1>1, <2>1, <2>2 DEF CallerInv, Owned, HasPipe, ParentSteps, AfterPipe, BeforeNull, Redirecting, Saving
<1>p. PlaceInv'
  <2>1. CopyInv'
    BY <1>1 DEF PlaceInv, CopyInv, Saved, Saving, ParentSteps
  <2>2. ReadEndInv'
    BY <1>1 DEF PlaceInv, ReadEndInv, SavedOf, ClosedOut, HasPipe, ParentSteps, AfterPipe, BeforeNull, Redirecting, Saving
  <2>3. NullPlaceInv'
    BY <1>1 DEF PlaceInv, NullPlaceInv, Saved, SavedOf, StdOpen, Fds, Std, STDIN, STDOUT, STDERR,
      HasPipe, ParentSteps, AfterPipe, BeforeNull, Redirecting, Saving
  <2> QED
    BY <2>1, <2>2, <2>3 DEF PlaceInv
<1> QED
  BY <1>c, <1>p, <1>2, <1>3, <1>4, <1>5, <1>6, <1>7, <1>8, <1>9, <1>10

LEMMA CleanedUp ==
  ASSUME TypeInv, NEW again, CleanupFork(again)
  PROVE  /\ file' \in [Fds -> Kinds]
         /\ \A n \in Fds : file'[n] = IF n \in Owned \cup again THEN "closed" ELSE file[n]
         /\ info' \in Infos
         /\ info'.isChild = info.isChild
         /\ info'.stdoutFd = -1 /\ info'.stderrFd = -1
         /\ info'.read = -1 /\ info'.write = -1 /\ info'.pipeFile = -1
<1>1. /\ file' \in [Fds -> Kinds]
      /\ \A n \in Fds : file'[n] = IF n \in Owned \cup again THEN "closed" ELSE file[n]
  BY DEF CleanupFork, TypeInv, Kinds
<1> QED
  BY <1>1, Zenon DEF CleanupFork, TypeInv, Infos, Ends

(* cleanupFork() closes no file that was open at the call and leaves no    *)
(* saved descriptor.                                                       *)
LEMMA CleanupKeeps ==
  ASSUME FdInv, NEW again \in SUBSET Holding("new"), CleanupFork(again),
         UNCHANGED <<atStart, redirect>>,
         pc' = "exited" \/ (pc' = pc /\ pc \in Returned)
  PROVE  CallerInv' /\ PlaceInv'
<1> USE FdAssumption
<1>1. /\ file' \in [Fds -> Kinds]
      /\ \A n \in Fds : file'[n] = IF n \in Owned \cup again THEN "closed" ELSE file[n]
      /\ info'.isChild = info.isChild
      /\ info'.stdoutFd = -1 /\ info'.stderrFd = -1
      /\ info'.read = -1 /\ info'.write = -1 /\ info'.pipeFile = -1
  BY CleanedUp DEF FdInv
<1>2. \A what \in Kinds \ {"closed"} : Holding(what)' = Holding(what) \ (Owned \cup again)
  BY <1>1 DEF Holding
<1>3. CallerInv'
  <2>1. Holding("other")' = Holding("other")
    BY <1>2 DEF FdInv, CallerInv, Holding, Kinds
  <2>2. Owned' = {-1}
    BY <1>1 DEF Owned
  <2>3. -1 \notin atStart
    BY DEF FdInv, TypeInv
  <2>4. \A n \in Std : n \in Fds /\ StdFile(n) # "closed"
    BY DEF StdFile, Fds, Std, STDIN, STDOUT, STDERR
  <2> QED
    BY <1>1, <2>1, <2>2, <2>3, <2>4 DEF FdInv, CallerInv, Returned
<1>4. PlaceInv'
  <2>1. Saved' = {} /\ SavedOf(ClosedOut) \subseteq Owned /\ SavedOf(redirect) \subseteq Owned
        /\ Saved \subseteq Owned
    BY <1>1 DEF Saved, SavedOf, Owned
  <2>2. CopyInv'
    BY <1>1, <2>1 DEF CopyInv, Saving, Returned
  <2>3. ReadEndInv'
    <3>1. Holding("pipeRead")' \subseteq Holding("pipeRead") \ Owned
      BY <1>2 DEF Kinds
    <3>2. ReadEndInv /\ ClosedOut' = ClosedOut
      BY DEF FdInv, PlaceInv, ClosedOut
    <3> QED
      BY <2>1, <3>1, <3>2 DEF ReadEndInv, HasPipe, BeforeNull, Redirecting, Saving, Returned
  <2>4. NullPlaceInv'
    BY <1>2, <2>1 DEF FdInv, PlaceInv, NullPlaceInv, NullInv, StdOpen, BeforeNull, Redirecting, Saving,
      AfterPipe, Returned, Kinds
  <2> QED
    BY <2>2, <2>3, <2>4 DEF PlaceInv
<1> QED
  BY <1>3, <1>4

LEMMA ExitStep ==
  ASSUME FdInv, ExitForkWithError
  PROVE  FdInv'
<1> USE FdAssumption DEF FdInv, ExitForkWithError, Goto
<1>1. /\ file' \in [Fds -> Kinds] /\ info' \in Infos
      /\ info'.stdoutFd = -1 /\ info'.stderrFd = -1
  BY CleanedUp
<1>2. TypeInv'
  BY <1>1 DEF TypeInv
<1>3. StepInv'
  BY DEF StepInv, ParentSteps, ChildSteps, AfterPipe, BeforeNull, Redirecting, Saving
<1>4. PipeInv'
  BY DEF PipeInv, HasPipe, BeforeNull, Redirecting, Saving
<1>5. WriteEndInv' /\ ParentInv' /\ RestoredInv'
  BY DEF WriteEndInv, ParentInv, RestoredInv, HasPipe, BeforeNull, Redirecting, Saving, ParentSteps
<1>6. StdInUseInv' /\ OutputInv' /\ NullInv'
  BY DEF StdInUseInv, OutputInv, NullInv, StdFileInv, BeforeNull, Redirecting, Saving
<1>7. SavedInv'
  BY <1>1 DEF SavedInv
<1>c. CallerInv' /\ PlaceInv'
  BY CleanupKeeps
<1> QED
  BY <1>c, <1>2, <1>3, <1>4, <1>5, <1>6, <1>7

(* cleanupFork() in the child closes nothing but the saved descriptors. *)
LEMMA ChildCleanupStep ==
  ASSUME FdInv, CallCleanupFork, pc \in {"inChild", "restored"}
  PROVE  FdInv'
<1> USE FdAssumption DEF FdInv
<1>1. /\ pc \in {"inChild", "restored"}
      /\ UNCHANGED <<pc, limit, atStart, redirect, devNull, ret>>
      /\ file' \in [Fds -> Kinds]
      /\ \A n \in Fds : file'[n] = IF n \in Owned THEN "closed" ELSE file[n]
      /\ info' \in Infos
      /\ info'.isChild = info.isChild
      /\ info'.stdoutFd = -1 /\ info'.stderrFd = -1
      /\ info'.read = -1 /\ info'.write = -1 /\ info'.pipeFile = -1
  BY CleanedUp DEF CallCleanupFork, StaleStream
<1>2. Owned = {info.stdoutFd, info.stderrFd, -1}
  BY <1>1 DEF Owned, StepInv, ChildSteps, AfterPipe
<1>3. StdOpen => STDOUT \notin Owned /\ STDERR \notin Owned
  BY <1>2 DEF SavedInv, Std, STDIN, STDOUT, STDERR
<1>4. \A what \in Kinds \ {"closed"} : Holding(what)' \subseteq Holding(what) \ Owned
  BY <1>1 DEF Holding
<1>5. TypeInv'
  BY <1>1 DEF TypeInv
<1>6. StepInv'
  BY <1>1 DEF StepInv, ParentSteps, ChildSteps, AfterPipe, BeforeNull, Redirecting, Saving
<1>7. PipeInv'
  BY <1>1 DEF PipeInv, HasPipe, BeforeNull, Redirecting, Saving
<1>8. WriteEndInv' /\ RestoredInv' /\ ParentInv'
  BY <1>1, <1>3 DEF WriteEndInv, RestoredInv, ParentInv, ParentSteps, HasPipe, BeforeNull,
    Redirecting, Saving, StdOpen, Holding, Kinds, Fds, STDOUT, STDERR
<1>9. StdInUseInv' /\ SavedInv'
  BY <1>1 DEF StdInUseInv, SavedInv, BeforeNull, Redirecting, Saving
<1>10. OutputInv'
  BY <1>1, <1>3 DEF OutputInv, StdFileInv, StdOpen, RestoredFile, BeforeNull, Fds, STDOUT, STDERR
<1>11. NullInv'
  BY <1>1, <1>2, <1>4 DEF NullInv, BeforeNull, Redirecting, Saving, Kinds
<1>c. CallerInv' /\ PlaceInv'
  BY <1>1, CleanupKeeps DEF CallCleanupFork, StaleStream, Returned
<1> QED
  BY <1>c, <1>5, <1>6, <1>7, <1>8, <1>9, <1>10, <1>11

(* In the parent it leaves no end of the pipe open, as there was none. *)
LEMMA ParentCleanupStep ==
  ASSUME FdInv, CallCleanupFork, pc \in {"inParent", "error"}
  PROVE  FdInv'
<1> USE FdAssumption DEF FdInv
<1>1. PICK again : CleanupFork(again)
  BY DEF CallCleanupFork
<1>2. /\ pc' \in {pc, "exited"}
      /\ pc' = "error" => pc = "error"
      /\ UNCHANGED <<limit, atStart, redirect, devNull, ret>>
  BY DEF CallCleanupFork
<1>3. /\ file' \in [Fds -> Kinds]
      /\ \A n \in Fds : file'[n] = IF n \in Owned \cup again THEN "closed" ELSE file[n]
      /\ info' \in Infos
      /\ info'.isChild = info.isChild
      /\ info'.stdoutFd = -1 /\ info'.stderrFd = -1
      /\ info'.read = -1 /\ info'.write = -1 /\ info'.pipeFile = -1
  BY <1>1, CleanedUp
<1>4. \A what \in Kinds \ {"closed"} : Holding(what)' \subseteq Holding(what)
  BY <1>3 DEF Holding
<1>5. TypeInv' /\ StepInv'
  BY <1>2, <1>3 DEF TypeInv, StepInv, ParentSteps, ChildSteps, AfterPipe, BeforeNull,
       Redirecting, Saving
<1>6. PipeInv' /\ WriteEndInv' /\ RestoredInv' /\ StdInUseInv' /\ NullInv' /\ OutputInv'
  BY <1>2 DEF PipeInv, WriteEndInv, RestoredInv, StdInUseInv, NullInv, OutputInv, StdFileInv,
       HasPipe, ParentSteps, BeforeNull, Redirecting, Saving
<1>7. ParentInv'
  BY <1>2, <1>3, <1>4 DEF ParentInv, ParentSteps, Kinds
<1>8. SavedInv'
  BY <1>3 DEF SavedInv
<1>c. CallerInv' /\ PlaceInv'
  BY <1>2, CleanupKeeps DEF CallCleanupFork, Returned
<1> QED
  BY <1>c, <1>5, <1>6, <1>7, <1>8

LEMMA CleanupStep ==
  ASSUME FdInv, CallCleanupFork
  PROVE  FdInv'
  BY ChildCleanupStep, ParentCleanupStep DEF CallCleanupFork, Returned

LEMMA PipeStep ==
  ASSUME FdInv, Pipe
  PROVE  FdInv'
<1> USE FdAssumption DEF FdInv
<1>1. file \in [Fds -> Kinds] /\ limit \in MaxInherited..MaxFd
  BY DEF TypeInv
<1>2. CASE Cardinality(FreeIn(file)) < 2
  <2>1. /\ pc = "pipe" /\ pc' = "error"
        /\ UNCHANGED <<limit, atStart, redirect, file, info, devNull, ret>>
    BY <1>2 DEF Pipe, Goto
  <2> QED
    BY <2>1 DEF TypeInv, StepInv, PipeInv, WriteEndInv, ParentInv, StdInUseInv, NullInv,
         OutputInv, SavedInv, RestoredInv, StdFileInv, StdOpen, Holding, RestoredFile,
         CallerInv, Owned, PlaceInv, CopyInv, Saved, ReadEndInv, NullPlaceInv,
         HasPipe, BeforeNull, Redirecting, Saving, ParentSteps, ChildSteps, AfterPipe
<1>3. CASE ~ (Cardinality(FreeIn(file)) < 2)
  <2> DEFINE r == Lowest(file)
             withRead == OpenIn(file, "pipeRead")
             w == Lowest(withRead)
  <2>1. /\ pc = "pipe" /\ pc' = "fork"
        /\ file' = OpenIn(withRead, "pipeWrite")
        /\ info' = [info EXCEPT !.read = r, !.write = w]
        /\ UNCHANGED <<limit, atStart, redirect, devNull, ret>>
    BY <1>3 DEF Pipe, Goto
  <2>2. FreeIn(file) # {} /\ FreeIn(withRead) # {}
    BY <1>1, <1>3, TwoFree
  <2>3. /\ r \in Fds /\ file[r] = "closed"
        /\ \A n \in 0..limit : file[n] = "closed" => r <= n
    BY <1>1, <2>2, LowestIsFree
  <2>4. /\ withRead \in [Fds -> Kinds] /\ withRead[r] = "pipeRead"
        /\ \A n \in Fds : n # r => withRead[n] = file[n]
    BY <1>1, <2>2, Opened DEF Kinds
  <2>5. /\ w \in Fds /\ w <= limit /\ withRead[w] = "closed"
        /\ \A n \in 0..limit : withRead[n] = "closed" => w <= n
    BY <1>1, <2>2, <2>4, LowestIsFree
  <2>6. /\ file' \in [Fds -> Kinds] /\ file'[w] = "pipeWrite"
        /\ \A n \in Fds : n # w => file'[n] = withRead[n]
    BY <1>1, <2>1, <2>2, <2>4, Opened DEF Kinds
  <2>7. /\ info' \in Infos
        /\ info'.isChild = info.isChild
        /\ info'.stdoutFd = info.stdoutFd /\ info'.stderrFd = info.stderrFd
        /\ info'.read = r /\ info'.write = w
        /\ info'.pipeFile = info.pipeFile
    BY <2>1, <2>3, <2>5, Zenon DEF TypeInv, Infos, Ends
  <2> HIDE DEF r, withRead, w
  <2>8. w # r /\ r < w
    BY <1>1, <2>3, <2>4, <2>5 DEF Fds
  <2>9. /\ \A n \in Fds : n \notin {r, w} => file'[n] = file[n]
        /\ file'[r] = "pipeRead"
    BY <2>3, <2>4, <2>6, <2>8
  <2>10. file = FirstFiles
    BY <2>1 DEF PipeInv
  <2>11. \A n \in Fds : file[n] \notin {"pipeRead", "pipeWrite", "null"}
    <3>1. StdFile(0) = "stdin" /\ StdFile(1) = "stdout" /\ StdFile(2) = "stderr"
      BY DEF StdFile
    <3> QED
      BY <2>10, <3>1 DEF FirstFiles, Std, STDIN, STDOUT, STDERR
  <2>12. \A n \in Fds : file[n] = "closed" <=> n \notin atStart
    <3>1. StdFile(0) = "stdin" /\ StdFile(1) = "stdout" /\ StdFile(2) = "stderr"
      BY DEF StdFile
    <3> QED
      BY <2>10, <3>1 DEF FirstFiles, Std, STDIN, STDOUT, STDERR
  <2>13. Holding("pipeRead")' = {r} /\ Holding("pipeWrite")' = {w} /\ Holding("null")' = {}
    BY <2>3, <2>5, <2>6, <2>9, <2>11 DEF Holding
  <2>14. StdOpen <=> {r, w} \cap {STDOUT, STDERR} = {}
    <3>1. StdOpen => {r, w} \cap {STDOUT, STDERR} = {}
      BY <2>3, <2>4, <2>5, <2>8, <2>12 DEF StdOpen, Fds, STDOUT, STDERR
    <3>2. ASSUME NEW n \in {STDOUT, STDERR}, n \notin atStart, n # r
          PROVE  w <= n
      BY <1>1, <2>4, <2>5, <2>12, <3>2 DEF Fds, STDOUT, STDERR
    <3>3. ASSUME NEW n \in {STDOUT, STDERR}, n \notin atStart
          PROVE  r \in {STDOUT, STDERR} \/ w \in {STDOUT, STDERR}
      BY <2>3, <2>5, <2>8, <3>2, <3>3 DEF Fds, STDOUT, STDERR
    <3> QED
      BY <3>1, <3>3 DEF StdOpen
  <2>15. \A m, n \in Std : file'[m] = "closed" /\ file'[n] = "closed" => m = n
    <3> SUFFICES ASSUME NEW m \in Std, NEW n \in Std, m < n,
                        file'[m] = "closed", file'[n] = "closed"
                 PROVE  FALSE
      BY DEF Std, STDIN, STDOUT, STDERR
    <3>1. m \in 0..limit /\ n \in 0..limit /\ m \in Fds /\ n \in Fds /\ n <= 2
      BY <1>1 DEF Fds, Std, STDIN, STDOUT, STDERR
    <3>2. m \notin {r, w} /\ n \notin {r, w} /\ file[m] = "closed" /\ file[n] = "closed"
      BY <2>6, <2>9, <3>1
    <3>3. withRead[m] = "closed" /\ withRead[n] = "closed"
      BY <2>4, <3>1, <3>2
    <3>4. r < w /\ w < m /\ m < n
      BY <2>5, <2>8, <3>1, <3>2, <3>3 DEF Fds
    <3> QED
      BY <2>3, <2>5, <3>1, <3>4 DEF Fds
  <2>16. TypeInv' /\ StepInv'
    BY <2>1, <2>6, <2>7 DEF TypeInv, StepInv, ParentSteps, ChildSteps, AfterPipe,
         BeforeNull, Redirecting, Saving
  <2>17. PipeInv'
    BY <2>1, <2>3, <2>5, <2>6, <2>7, <2>8, <2>9, <2>13, <2>14
       DEF PipeInv, StdOpen, HasPipe, BeforeNull
  <2>18. WriteEndInv' /\ ParentInv' /\ RestoredInv'
    BY <2>1, <2>7, <2>13 DEF WriteEndInv, ParentInv, RestoredInv, StdOpen, HasPipe,
         ParentSteps, BeforeNull, Redirecting, Saving
  <2>19. StdInUseInv' /\ NullInv'
    BY <2>1, <2>13, <2>15 DEF StdInUseInv, NullInv, BeforeNull, Redirecting, Saving
  <2>20. OutputInv'
    <3>1. StdOpen => file'[1] = StdFile(1) /\ file'[2] = StdFile(2)
      <4>1. ASSUME NEW n \in Fds, n \in atStart, n \in Std
            PROVE  file[n] = StdFile(n)
        BY <2>10, <4>1 DEF FirstFiles
      <4>2. StdOpen => 1 \in atStart /\ 2 \in atStart /\ 1 \notin {r, w} /\ 2 \notin {r, w}
        BY <2>14 DEF StdOpen, STDOUT, STDERR
      <4>3. 1 \in Fds /\ 2 \in Fds /\ 1 \in Std /\ 2 \in Std
        BY DEF Fds, Std, STDIN, STDOUT, STDERR
      <4> QED
        BY <2>9, <4>1, <4>2, <4>3
    <3> QED
      BY <2>1, <3>1 DEF OutputInv, StdFileInv, StdOpen, BeforeNull, STDOUT, STDERR
  <2>21. SavedInv'
    BY <2>1, <2>7 DEF SavedInv, StepInv, AfterPipe
  <2>22. CallerInv'
    <3>1. file[w] = "closed"
      BY <2>4, <2>5, <2>8
    <3>2. Holding("other")' = Holding("other")
      BY <2>3, <2>5, <2>6, <2>9, <3>1 DEF Holding
    <3>3. r \notin atStart /\ w \notin atStart
      BY <2>3, <2>5, <2>12, <3>1
    <3>4. Owned' \subseteq Owned \cup {r, w}
      BY <2>7 DEF Owned
    <3>5. \A n \in Std : n \in Fds /\ StdFile(n) \notin {"pipeRead", "pipeWrite"}
      BY DEF StdFile, Fds, Std, STDIN, STDOUT, STDERR
    <3>6. \A n \in Std : file'[n] = StdFile(n) => n \notin {r, w} /\ file[n] = StdFile(n)
      BY <2>6, <2>9, <3>5
    <3> QED
      BY <2>1, <2>7, <3>2, <3>3, <3>4, <3>6 DEF CallerInv
  <2>23. PlaceInv'
    <3>1. Saved' = {}
      BY <2>1, <2>7 DEF Saved, StepInv, AfterPipe
    <3>2. CopyInv' /\ ReadEndInv'
      BY <2>1, <2>7, <2>13, <3>1 DEF CopyInv, Saved, ReadEndInv, StepInv, Saving, AfterPipe
    <3>3. ASSUME StdOpen, NEW n \in Std, file'[n] = "closed"
          PROVE  FALSE
      <4>1. n \in Fds /\ n \in 0..limit /\ n \notin {r, w} /\ file[n] = "closed"
        BY <1>1, <2>6, <2>9, <3>3 DEF Fds, Std, STDIN, STDOUT, STDERR
      <4>2. n = 0
        BY <2>12, <3>3, <4>1 DEF StdOpen, Std, STDIN, STDOUT, STDERR
      <4> QED
        BY <2>3, <4>1, <4>2 DEF Fds
    <3>4. NullPlaceInv'
      BY <2>1, <3>3 DEF NullPlaceInv, StdOpen, Redirecting, Saving, AfterPipe
    <3> QED
      BY <3>2, <3>4 DEF PlaceInv
  <2> QED
    BY <2>16, <2>17, <2>18, <2>19, <2>20, <2>21, <2>22, <2>23
<1> QED
  BY <1>2, <1>3

-----------------------------------------------------------------------------
(* The redirections.                                                       *)

LEMMA OpenNullStep ==
  ASSUME FdInv, OpenNull
  PROVE  FdInv'
<1> USE FdAssumption DEF FdInv
<1>1. file \in [Fds -> Kinds] /\ limit \in MaxInherited..MaxFd
  BY DEF TypeInv
<1>2. /\ pc = "openNull" /\ pc' = "nullStdin" /\ FreeIn(file) # {}
      /\ file' = OpenIn(file, "null") /\ devNull' = Lowest(file)
      /\ UNCHANGED <<limit, atStart, redirect, ret, info>>
  BY DEF OpenNull, Goto
<1>3. /\ devNull' \in Fds /\ file[devNull'] = "closed"
      /\ \A n \in 0..limit : file[n] = "closed" => devNull' <= n
  BY <1>1, <1>2, LowestIsFree
<1>4. /\ file' \in [Fds -> Kinds] /\ file'[devNull'] = "null"
      /\ \A n \in Fds : n # devNull' => file'[n] = file[n]
  BY <1>1, <1>2, Opened DEF Kinds
<1>5. /\ Holding("null")' = {devNull'}
      /\ Holding("pipeRead")' = Holding("pipeRead")
      /\ Holding("pipeWrite")' = Holding("pipeWrite")
  BY <1>2, <1>3, <1>4 DEF Holding, NullInv, BeforeNull
<1>6. TypeInv' /\ StepInv'
  BY <1>2, <1>3, <1>4 DEF TypeInv, StepInv, ParentSteps, ChildSteps, AfterPipe, BeforeNull,
       Redirecting, Saving, Ends
<1>7. PipeInv'
  BY <1>2, <1>3, <1>4, <1>5 DEF PipeInv, StdOpen, HasPipe, BeforeNull, Redirecting
<1>8. WriteEndInv' /\ ParentInv' /\ RestoredInv'
  BY <1>2, <1>5 DEF WriteEndInv, ParentInv, RestoredInv, StdOpen, HasPipe, ParentSteps,
       BeforeNull, Redirecting, Saving
<1>9. StdInUseInv'
  <2>1. \A n \in Std : file'[n] # "closed"
    <3> SUFFICES ASSUME NEW n \in Std, file'[n] = "closed" PROVE FALSE
      OBVIOUS
    <3>1. n \in Fds /\ n \in 0..limit /\ n <= 2
      BY <1>1 DEF Fds, Std, STDIN, STDOUT, STDERR
    <3>2. n # devNull' /\ file[n] = "closed" /\ devNull' <= n
      BY <1>3, <1>4, <3>1
    <3>3. devNull' \in Std
      BY <1>3, <3>1, <3>2 DEF Fds, Std, STDIN, STDOUT, STDERR
    <3> QED
      BY <1>2, <1>3, <3>2, <3>3 DEF StdInUseInv, BeforeNull
  <2> QED
    BY <1>2, <2>1 DEF StdInUseInv, BeforeNull, Redirecting, Saving
<1>10. NullInv'
  BY <1>2, <1>3, <1>4, <1>5 DEF NullInv, BeforeNull, Redirecting, Saving
<1>11. OutputInv' /\ SavedInv'
  <2>1. StdFile(1) # "closed" /\ StdFile(2) # "closed" /\ 1 \in Fds /\ 2 \in Fds
    BY DEF StdFile, Fds
  <2> QED
    BY <1>2, <1>3, <1>4, <2>1 DEF OutputInv, SavedInv, StdFileInv, StdOpen, StepInv, AfterPipe,
         BeforeNull, STDOUT, STDERR
<1>c. CallerInv'
  <2>1. Holding("other")' = Holding("other")
    BY <1>3, <1>4 DEF Holding
  <2>2. \A n \in Std : n \in Fds /\ StdFile(n) # "null"
    BY DEF StdFile, Fds, Std, STDIN, STDOUT, STDERR
  <2> QED
    BY <1>2, <1>4, <2>1, <2>2 DEF CallerInv, Owned, HasPipe, BeforeNull, Redirecting
<1>p. PlaceInv'
  BY <1>2, <1>3, <1>4, <1>5 DEF PlaceInv, StepInv, CopyInv, Saved, ReadEndInv, SavedOf, ClosedOut, NullPlaceInv, StdOpen, HasPipe, ParentSteps, AfterPipe, BeforeNull, Redirecting, Saving
<1> QED
  BY <1>c, <1>p, <1>6, <1>7, <1>8, <1>9, <1>10, <1>11

(* With stdout and stderr open at first neither end of the pipe is there. *)
LEMMA EndsAbove ==
  ASSUME FdInv, pc \in HasPipe, StdOpen
  PROVE  /\ info.write \notin Std
         /\ info.read # STDOUT /\ info.read # STDERR
<1>1. /\ info.read \in Nat /\ info.read < info.write
      /\ {info.read, info.write} \cap {STDOUT, STDERR} = {}
  BY FdAssumption DEF FdInv, PipeInv, Fds
<1>2. info.write # STDOUT /\ info.write # STDERR /\ info.read # STDOUT /\ info.read # STDERR
  BY <1>1
<1>3. info.write # 0
  BY <1>1, FdAssumption DEF FdInv, PipeInv, Fds
<1> QED
  BY <1>2, <1>3 DEF Std, STDIN, STDOUT, STDERR

LEMMA NullStepStep ==
  ASSUME FdInv,
         NEW step \in {"nullStdin", "nullStdout", "nullStderr"}, NEW n \in Std, NEW next,
         <<step, n, next>> \in {<<"nullStdin", STDIN, "nullStdout">>,
                               <<"nullStdout", STDOUT, "nullStderr">>,
                               <<"nullStderr", STDERR, "closeNull">>},
         NullStep(step, n, next)
  PROVE  FdInv'
<1> USE FdAssumption DEF FdInv
<1>1. \/ step = "nullStdin" /\ n = STDIN /\ next = "nullStdout"
      \/ step = "nullStdout" /\ n = STDOUT /\ next = "nullStderr"
      \/ step = "nullStderr" /\ n = STDERR /\ next = "closeNull"
  OBVIOUS
<1>2. /\ pc = step /\ pc' = next
      /\ UNCHANGED <<limit, atStart, redirect, devNull, info>>
  BY DEF NullStep, Goto
<1>3. /\ n \in Fds
      /\ devNull \in Fds /\ file[devNull] = "null"
      /\ Holding("null") \subseteq Std \cup {devNull}
  BY <1>1, <1>2 DEF NullInv, Redirecting, Fds, Std, STDIN, STDOUT, STDERR
<1>4. /\ file' \in [Fds -> Kinds]
      /\ \A m \in Fds \ {n} : file'[m] = file[m]
      /\ file'[n] = file[n] \/ file'[n] = "null"
      /\ n \notin redirect => file'[n] = file[n]
      /\ n \in redirect => ret' = -1 \/ file'[n] = "null"
      /\ ret' \in {0, -1} /\ (ret = -1 => ret' = -1)
  BY <1>3 DEF NullStep, TypeInv
<1>5. /\ file'[devNull] = "null"
      /\ Holding("null")' \subseteq Holding("null") \cup {n}
      /\ \A what \in {"pipeRead", "pipeWrite"} :
           Holding(what)' \subseteq Holding(what) /\ Holding(what) \subseteq Holding(what)' \cup {n}
  BY <1>3, <1>4 DEF Holding
<1>6. TypeInv' /\ StepInv'
  BY <1>1, <1>2, <1>4 DEF TypeInv, StepInv, ParentSteps, ChildSteps, AfterPipe, BeforeNull,
       Redirecting, Saving
<1>7. PipeInv'
  BY <1>1, <1>2, <1>4, <1>5 DEF PipeInv, StdOpen, HasPipe, BeforeNull, Redirecting
<1>8. WriteEndInv'
  <2>1. StdOpen => info.write \notin Std
    BY <1>1, <1>2, EndsAbove DEF HasPipe, Redirecting
  <2>2. StdOpen => Holding("pipeWrite")' = Holding("pipeWrite")
    BY <1>1, <1>2, <1>5, <2>1 DEF WriteEndInv, HasPipe, Redirecting
  <2> QED
    BY <1>1, <1>2, <2>2 DEF WriteEndInv, StdOpen, HasPipe, Redirecting
<1>9. ParentInv' /\ RestoredInv'
  BY <1>1, <1>2 DEF ParentInv, RestoredInv, ParentSteps
<1>10. StdInUseInv'
  BY <1>1, <1>2, <1>4 DEF StdInUseInv, BeforeNull, Redirecting, Fds, Std, STDIN, STDOUT, STDERR
<1>11. NullInv'
  BY <1>1, <1>2, <1>3, <1>5 DEF NullInv, BeforeNull, Redirecting, Saving
<1>12. OutputInv'
  BY <1>1, <1>2, <1>4 DEF OutputInv, StdFileInv, RestoredFile, StdOpen, BeforeNull, Fds,
       STDIN, STDOUT, STDERR
<1>13. SavedInv'
  BY <1>1, <1>2 DEF SavedInv, StepInv, AfterPipe
<1>c. CallerInv'
  <2>1. Holding("other")' = Holding("other")
    BY <1>4 DEF CallerInv, Holding
  <2> QED
    BY <1>1, <1>2, <2>1 DEF CallerInv, Owned, StepInv, ChildSteps, HasPipe, ParentSteps, AfterPipe, BeforeNull, Redirecting, Saving
<1>p. PlaceInv'
  <2>1. Holding("null")' \subseteq Holding("null") \cup (redirect \cap {n})
    BY <1>4, <1>5 DEF Holding
  <2>2. Saved = {} /\ info.stdoutFd = -1
    BY <1>1, <1>2 DEF StepInv, Saved, AfterPipe
  <2>3. CopyInv' /\ NullPlaceInv'
    BY <1>1, <1>2, <2>1, <2>2 DEF PlaceInv, CopyInv, Saved, NullPlaceInv, StdOpen, HasPipe, ParentSteps, AfterPipe, BeforeNull, Redirecting, Saving
  <2>4. ReadEndInv'
    BY <1>1, <1>2, <1>5, <2>2 DEF PlaceInv, ReadEndInv, SavedOf, ClosedOut, HasPipe, ParentSteps, AfterPipe, BeforeNull, Redirecting, Saving
  <2> QED
    BY <2>3, <2>4 DEF PlaceInv
<1> QED
  BY <1>c, <1>p, <1>6, <1>7, <1>8, <1>9, <1>10, <1>11, <1>12, <1>13

LEMMA CloseNullStep ==
  ASSUME FdInv, CloseNull
  PROVE  FdInv'
<1> USE FdAssumption DEF FdInv
<1>1. /\ pc = "closeNull" /\ pc' = "redirected"
      /\ UNCHANGED <<limit, atStart, redirect, devNull, ret, info>>
  BY DEF CloseNull, Goto
<1>2. /\ devNull \in Fds /\ file[devNull] = "null"
      /\ Holding("null") \subseteq Std \cup {devNull}
  BY <1>1 DEF NullInv, Redirecting
<1>3. /\ file' \in [Fds -> Kinds]
      /\ \A m \in Fds \ {devNull} : file'[m] = file[m]
      /\ file'[devNull] = IF devNull \in Std THEN "null" ELSE "closed"
  BY <1>2 DEF CloseNull, CloseIn, TypeInv, Kinds, Fds, Std, STDIN, STDOUT, STDERR
<1>4. /\ Holding("null")' \subseteq Std
      /\ Holding("pipeRead")' = Holding("pipeRead")
      /\ Holding("pipeWrite")' = Holding("pipeWrite")
  BY <1>2, <1>3 DEF Holding
<1>5. \A m \in Std : m \in Fds /\ file'[m] = file[m]
  BY <1>2, <1>3 DEF Fds, Std, STDIN, STDOUT, STDERR
<1>6. TypeInv' /\ StepInv'
  BY <1>1, <1>3 DEF TypeInv, StepInv, ParentSteps, ChildSteps, AfterPipe, BeforeNull,
       Redirecting, Saving
<1>7. PipeInv'
  BY <1>1, <1>2, <1>3, <1>4 DEF PipeInv, StdOpen, HasPipe, BeforeNull, Redirecting, Saving
<1>8. WriteEndInv' /\ ParentInv' /\ RestoredInv'
  BY <1>1, <1>4 DEF WriteEndInv, ParentInv, RestoredInv, StdOpen, HasPipe, ParentSteps,
       Redirecting, Saving
<1>9. StdInUseInv' /\ NullInv'
  BY <1>1, <1>4, <1>5 DEF StdInUseInv, NullInv, BeforeNull, Redirecting, Saving
<1>10. OutputInv' /\ SavedInv'
  BY <1>1, <1>5 DEF OutputInv, SavedInv, StdFileInv, RestoredFile, StdOpen, BeforeNull,
       StepInv, AfterPipe, Std, STDIN, STDOUT, STDERR
<1>c. CallerInv'
  <2>1. Holding("other")' = Holding("other")
    BY <1>2, <1>3 DEF Holding
  <2> QED
    BY <1>1, <2>1 DEF CallerInv, Owned, StepInv, ChildSteps, HasPipe, ParentSteps, AfterPipe, BeforeNull, Redirecting, Saving
<1>p. PlaceInv'
  <2>1. Saved = {} /\ info.stdoutFd = -1
    BY <1>1 DEF StepInv, Saved, AfterPipe
  <2>2. devNull \notin Std => Holding("null")' \subseteq Holding("null") \ {devNull}
    BY <1>2, <1>3 DEF Holding
  <2> QED
    BY <1>1, <1>4, <2>1, <2>2 DEF PlaceInv, CopyInv, Saved, ReadEndInv, SavedOf, ClosedOut, NullPlaceInv, StdOpen, HasPipe, ParentSteps, AfterPipe, BeforeNull, Redirecting, Saving
<1> QED
  BY <1>c, <1>p, <1>6, <1>7, <1>8, <1>9, <1>10

LEMMA RedirectedStep ==
  ASSUME FdInv, Redirected
  PROVE  FdInv'
<1>1. CASE ret = -1
  BY <1>1, ExitStep DEF Redirected
<1>2. CASE ret # -1
  <2>1. /\ pc = "redirected" /\ pc' = "dupStdout"
        /\ UNCHANGED <<limit, atStart, redirect, file, devNull, ret, info>>
    BY <1>2 DEF Redirected, Goto
  <2> USE DEF FdInv
  <2>2. TypeInv' /\ StepInv'
    BY <2>1 DEF TypeInv, StepInv, ParentSteps, ChildSteps, AfterPipe, BeforeNull,
       Redirecting, Saving
  <2>3. PipeInv'
    BY <2>1 DEF PipeInv, StdOpen, HasPipe, BeforeNull, Saving, Holding
  <2>4. WriteEndInv' /\ ParentInv' /\ RestoredInv'
    BY <2>1 DEF WriteEndInv, ParentInv, RestoredInv, StdOpen, HasPipe, ParentSteps, Saving, Holding
  <2>5. StdInUseInv' /\ NullInv'
    BY <2>1 DEF StdInUseInv, NullInv, BeforeNull, Redirecting, Saving, Holding
  <2>6. OutputInv' /\ SavedInv'
    BY <1>2, <2>1 DEF OutputInv, SavedInv, StdFileInv, RestoredFile, StdOpen, BeforeNull
  <2>7. CallerInv'
    BY <2>1 DEF CallerInv, Owned, Holding, HasPipe, Saving
  <2>8. PlaceInv'
    BY <2>1 DEF PlaceInv, CopyInv, Saved, ReadEndInv, SavedOf, ClosedOut, NullPlaceInv, StdOpen, Holding, HasPipe, ParentSteps, AfterPipe, BeforeNull, Redirecting, Saving
  <2> QED
    BY <2>2, <2>3, <2>4, <2>5, <2>6, <2>7, <2>8
<1> QED
  BY <1>1, <1>2

-----------------------------------------------------------------------------
(* stdout and stderr saved.                                                *)

(* dup(n): the copy gets a number above the standard ones. *)
LEMMA Duplicated ==
  ASSUME FdInv, pc \in {"dupStdout", "dupStderr"}, NEW n \in Std, CanDup(n),
         file' = OpenIn(file, file[n])
  PROVE  /\ Lowest(file) \in Fds \ Std /\ file[Lowest(file)] = "closed"
         /\ file' \in [Fds -> Kinds]
         /\ file'[Lowest(file)] = file[n]
         /\ \A m \in Fds : m # Lowest(file) => file'[m] = file[m]
<1> USE FdAssumption
<1>1. /\ file \in [Fds -> Kinds] /\ limit \in MaxInherited..MaxFd
      /\ \A m \in Std : m \in Fds /\ file[m] # "closed"
  BY DEF FdInv, TypeInv, StdInUseInv, Saving, Fds, Std, STDIN, STDOUT, STDERR
<1>2. FreeIn(file) # {} /\ file[n] \in Kinds
  BY <1>1 DEF CanDup
<1>3. Lowest(file) \in Fds /\ file[Lowest(file)] = "closed"
  BY <1>1, <1>2, LowestIsFree
<1> QED
  BY <1>1, <1>2, <1>3, Opened

(* Where a saved descriptor goes is nothing that is closed on the way. *)
LEMMA RestoredKinds ==
  \A m \in {STDOUT, STDERR} :
     RestoredFile(m) \in Kinds \ {"closed", "new", "pipeRead", "pipeWrite"}
  BY DEF RestoredFile, StdFile, Kinds, STDOUT, STDERR

LEMMA SavedStep ==
  ASSUME FdInv, NEW n \in Std,
         \/ n = STDOUT /\ pc = "dupStdout" /\ pc' = "dupStderr"
         \/ n = STDERR /\ pc = "dupStderr" /\ pc' = "stdoutToPipe",
         CanDup(n),
         file' = OpenIn(file, file[n]),
         info' = IF n = STDOUT THEN [info EXCEPT !.stdoutFd = Lowest(file)]
                 ELSE [info EXCEPT !.stderrFd = Lowest(file)],
         UNCHANGED <<limit, atStart, redirect, devNull, ret>>
  PROVE  FdInv'
<1> USE FdAssumption DEF FdInv
<1> DEFINE k == Lowest(file)
<1>1. /\ k \in Fds \ Std /\ file[k] = "closed"
      /\ file' \in [Fds -> Kinds] /\ file'[k] = file[n]
      /\ \A m \in Fds : m # k => file'[m] = file[m]
  BY Duplicated
<1>2. /\ info' \in Infos
      /\ info'.isChild = info.isChild
      /\ n = STDOUT => info'.stdoutFd = k /\ info'.stderrFd = info.stderrFd
      /\ n = STDERR => info'.stderrFd = k /\ info'.stdoutFd = info.stdoutFd
      /\ info'.read = info.read /\ info'.write = info.write
      /\ info'.pipeFile = info.pipeFile
  <2>1. STDOUT # STDERR
    BY DEF STDOUT, STDERR
  <2>2. CASE n = STDOUT
    <3>1. info' = [info EXCEPT !.stdoutFd = k]
      BY <2>2
    <3> QED
      BY <1>1, <2>1, <2>2, <3>1, Zenon DEF TypeInv, Infos, Ends
  <2>3. CASE n = STDERR
    <3>1. info' = [info EXCEPT !.stderrFd = k]
      BY <2>1, <2>3
    <3> QED
      BY <1>1, <2>1, <2>3, <3>1, Zenon DEF TypeInv, Infos, Ends
  <2> QED
    BY <2>2, <2>3
<1> HIDE DEF k
<1>3. \A m \in Std : m \in Fds /\ m # k /\ file'[m] = file[m]
  BY <1>1 DEF Fds, Std, STDIN, STDOUT, STDERR
<1>4. StdOpen => file[n] = RestoredFile(n)
  BY DEF OutputInv, StdFileInv
<1>5. \A m \in {STDOUT, STDERR} :
        RestoredFile(m) \in Kinds \ {"closed", "new", "pipeRead", "pipeWrite"}
  BY RestoredKinds
<1>6. StdOpen => /\ Holding("pipeRead")' = Holding("pipeRead")
                 /\ Holding("pipeWrite")' = Holding("pipeWrite")
  BY <1>1, <1>4, <1>5 DEF Holding
<1>7. Holding("null")' \subseteq Holding("null") \cup {k} /\ -1 \notin Holding("null")
  BY <1>1 DEF Holding, Fds
<1>8. TypeInv' /\ StepInv'
  BY <1>1, <1>2 DEF TypeInv, StepInv, ParentSteps, ChildSteps, AfterPipe, BeforeNull,
       Redirecting, Saving
<1>9. PipeInv'
  BY <1>1, <1>2, <1>6 DEF PipeInv, StdOpen, HasPipe, BeforeNull, Redirecting, Saving
<1>10. WriteEndInv' /\ ParentInv' /\ RestoredInv'
  BY <1>2, <1>6 DEF WriteEndInv, ParentInv, RestoredInv, StdOpen, HasPipe, ParentSteps, Saving
<1>11. StdInUseInv'
  BY <1>3 DEF StdInUseInv, BeforeNull, Redirecting, Saving
<1>12. NullInv'
  <2>1. info.stderrFd = -1 /\ (n = STDOUT => info.stdoutFd = -1)
    BY DEF StepInv, AfterPipe, STDOUT, STDERR
  <2> QED
    BY <1>2, <1>7, <2>1 DEF NullInv, BeforeNull, Redirecting, Saving
<1>13. OutputInv'
  BY <1>3 DEF OutputInv, StdFileInv, RestoredFile, StdOpen, BeforeNull, Std
<1>14. SavedInv'
  <2>1. StdOpen' = StdOpen /\ RestoredFile(STDOUT)' = RestoredFile(STDOUT)
        /\ RestoredFile(STDERR)' = RestoredFile(STDERR)
    BY DEF StdOpen, RestoredFile
  <2>2. StdOpen => file'[k] = RestoredFile(n) /\ k \notin Std
    BY <1>1, <1>4
  <2>3. ASSUME NEW d \in {info.stdoutFd, info.stderrFd}, StdOpen, d # -1
        PROVE  d \notin Std /\ file'[d] = file[d]
    <3>1. d \in Fds
      BY <2>3 DEF TypeInv, Infos, Ends
    <3>2. d # k /\ d \notin Std
      BY <1>1, <1>5, <2>3 DEF SavedInv
    <3> QED
      BY <1>1, <3>1, <3>2
  <2> QED
    BY <1>2, <2>1, <2>2, <2>3 DEF SavedInv
<1>c. CallerInv'
  <2>1. k \notin atStart \ Std /\ file[n] # "other"
    BY <1>1, <1>3 DEF CallerInv, Holding
  <2>2. Holding("other")' = Holding("other")
    BY <1>1, <2>1 DEF Holding
  <2>3. Owned' \subseteq Owned \cup {k}
    BY <1>2 DEF Owned, Std
  <2> QED
    BY <1>2, <2>1, <2>2, <2>3 DEF CallerInv, StepInv, ChildSteps, HasPipe, ParentSteps, Saving
<1>p. PlaceInv'
  <2>1. /\ info.stderrFd = -1 /\ (n = STDOUT => info.stdoutFd = -1)
        /\ n = STDOUT \/ n = STDERR
    BY DEF StepInv, AfterPipe, STDOUT, STDERR
  <2>2. \A ns : SavedOf(ns)' = SavedOf(ns) \cup (IF n \in ns THEN {k} ELSE {})
    BY <1>1, <1>2, <2>1 DEF SavedOf, Fds
  <2>3. Saved' = Saved \cup {k} /\ \A d \in Saved : d \in Fds
    BY <1>1, <1>2, <2>1 DEF Saved, Fds, TypeInv, Infos, Ends
  <2>4. info.read # k /\ info.write # k /\ info.read \in Fds /\ info.write \in Fds
    BY <1>1 DEF PipeInv, HasPipe, Saving
  <2>5. \A d \in Saved : d # k /\ d \notin Std /\ file'[d] # "closed"
    BY <1>1, <2>3 DEF PlaceInv, CopyInv, Saving
  <2>6. CopyInv'
    <3>1. file[n] # "closed"
      BY DEF CanDup
    <3>2. info.stdoutFd # -1 => info.stdoutFd \in Saved
      BY DEF Saved
    <3>3. k # -1
      BY <1>1 DEF Fds
    <3>4. info'.stdoutFd = info'.stderrFd => info'.stdoutFd = -1
      BY <1>2, <2>1, <2>5, <3>2, <3>3 DEF STDOUT, STDERR
    <3>5. info.read \notin Saved /\ info.write \notin Saved
      BY DEF PlaceInv, CopyInv, Saving
    <3> QED
      BY <1>1, <1>2, <2>3, <2>4, <2>5, <3>1, <3>4, <3>5 DEF CopyInv
  <2>7. SavedOf(ClosedOut) \cap Std = {} /\ SavedOf(redirect) \cap Std = {}
    BY DEF PlaceInv, CopyInv, Saved, SavedOf, Fds
  <2>8. ClosedOut' = ClosedOut
    BY DEF ClosedOut
  <2>9. ReadEndInv'
    <3>1. Holding("pipeRead") \subseteq {info.read} \cup SavedOf(ClosedOut)
      BY DEF PlaceInv, ReadEndInv, HasPipe, Saving
    <3>2. file[n] = "pipeRead" => n \in ClosedOut
      <4>1. file[n] = "pipeRead" => n = info.read
        BY <1>3, <2>7, <3>1 DEF Holding
      <4>2. info.read \notin atStart
        BY DEF CallerInv, HasPipe, Saving
      <4> QED
        BY <2>1, <4>1, <4>2 DEF ClosedOut
    <3>3. Holding("pipeRead")' \subseteq
            Holding("pipeRead") \cup (IF file[n] = "pipeRead" THEN {k} ELSE {})
      BY <1>1 DEF Holding
    <3>4. Holding("pipeRead")' \subseteq {info.read} \cup SavedOf(ClosedOut)'
      BY <2>2, <2>8, <3>1, <3>2, <3>3
    <3> QED
      BY <1>2, <3>4 DEF ReadEndInv
  <2>10. NullPlaceInv'
    <3>1. StdOpen => Holding("null") \subseteq redirect \cup SavedOf(redirect)
      BY DEF PlaceInv, NullPlaceInv, Saving
    <3>2. StdOpen /\ file[n] = "null" => n \in redirect
      BY <1>3, <2>7, <3>1 DEF Holding
    <3>3. Holding("null")' \subseteq
            Holding("null") \cup (IF file[n] = "null" THEN {k} ELSE {})
      BY <1>1 DEF Holding
    <3>4. StdOpen => Holding("null")' \subseteq redirect \cup SavedOf(redirect)'
      BY <2>2, <3>1, <3>2, <3>3
    <3> QED
      BY <3>4 DEF NullPlaceInv, StdOpen, BeforeNull, Redirecting
  <2> QED
    BY <2>6, <2>9, <2>10 DEF PlaceInv
<1> QED
  BY <1>c, <1>p, <1>8, <1>9, <1>10, <1>11, <1>12, <1>13, <1>14

LEMMA DupStep ==
  ASSUME FdInv, DupStdout \/ DupStderr
  PROVE  FdInv'
<1>1. CASE DupStdout
  BY <1>1, SavedStep DEF DupStdout, Goto, Std
<1>2. CASE DupStderr
  <2>1. STDERR # STDOUT /\ STDERR \in Std
    BY DEF STDOUT, STDERR, Std
  <2> QED
    BY <1>2, <2>1, SavedStep DEF DupStderr, Goto
<1> QED
  BY <1>1, <1>2

-----------------------------------------------------------------------------
(* stdout and stderr sent to the pipe.                                     *)

LEMMA ToPipeStep ==
  ASSUME FdInv, StdoutToPipe \/ StderrToPipe
  PROVE  FdInv'
<1> USE FdAssumption DEF FdInv
<1>1. PICK n \in {STDOUT, STDERR} :
        /\ \/ n = STDOUT /\ pc = "stdoutToPipe" /\ pc' = "stderrToPipe"
           \/ n = STDERR /\ pc = "stderrToPipe" /\ pc' = "closePipe"
        /\ file' = [file EXCEPT ![n] = file[info.write]]
        /\ UNCHANGED <<limit, atStart, redirect, devNull, ret, info>>
  BY DEF StdoutToPipe, StderrToPipe, ToPipe, Goto
<1>2. n \in Fds /\ n \in Std /\ info.write \in Fds /\ file[info.write] # "closed"
  BY <1>1 DEF PipeInv, StdInUseInv, HasPipe, Saving, Fds, Std, STDIN, STDOUT, STDERR
<1>3. /\ file' \in [Fds -> Kinds] /\ file'[n] = file[info.write] /\ file'[n] # "closed"
      /\ \A m \in Fds \ {n} : file'[m] = file[m]
  BY <1>1, <1>2 DEF TypeInv
<1>4. StdOpen => /\ info.write \notin Std /\ info.read # n
                 /\ file[info.write] = "pipeWrite"
  BY <1>1, EndsAbove DEF PipeInv, HasPipe, Saving
<1>5. StdOpen => /\ Holding("pipeRead")' \subseteq Holding("pipeRead")
                 /\ Holding("pipeWrite")' = Holding("pipeWrite") \cup {n}
  BY <1>2, <1>3, <1>4 DEF Holding
<1>6. Holding("null")' \subseteq Holding("null") \cup Std
  BY <1>2, <1>3 DEF Holding
<1>7. TypeInv' /\ StepInv'
  BY <1>1, <1>3 DEF TypeInv, StepInv, ParentSteps, ChildSteps, AfterPipe, BeforeNull,
       Redirecting, Saving
<1>8. PipeInv'
  BY <1>1, <1>2, <1>3, <1>5 DEF PipeInv, StdOpen, HasPipe, BeforeNull, Saving
<1>9. WriteEndInv' /\ ParentInv' /\ RestoredInv'
  BY <1>1, <1>5 DEF WriteEndInv, ParentInv, RestoredInv, StdOpen, HasPipe, ParentSteps,
       BeforeNull, Redirecting, Saving
<1>10. StdInUseInv'
  BY <1>1, <1>3 DEF StdInUseInv, BeforeNull, Redirecting, Saving, Fds, Std, STDIN, STDOUT, STDERR
<1>11. NullInv'
  BY <1>1, <1>6 DEF NullInv, BeforeNull, Redirecting, Saving
<1>12. OutputInv'
  BY <1>1, <1>3 DEF OutputInv, StdFileInv, RestoredFile, StdOpen, BeforeNull, Fds, STDOUT, STDERR
<1>13. SavedInv'
  <2>1. ASSUME NEW d \in {info.stdoutFd, info.stderrFd}, StdOpen, d # -1
        PROVE  file'[d] = file[d]
    BY <1>2, <1>3, <2>1 DEF SavedInv, TypeInv, Infos, Ends
  <2> QED
    BY <1>1, <2>1 DEF SavedInv, RestoredFile, StdOpen
<1>c. CallerInv'
  <2>1. file[info.write] # "other"
    BY <1>2 DEF CallerInv, Holding, Owned
  <2>2. Holding("other")' = Holding("other")
    BY <1>2, <1>3, <2>1 DEF CallerInv, Holding
  <2> QED
    BY <1>1, <2>2 DEF CallerInv, Owned, StepInv, ChildSteps, HasPipe, ParentSteps, Saving
<1>p. PlaceInv'
  <2>1. \A d \in Saved : d \in Fds /\ d \notin Std
    BY DEF PlaceInv, CopyInv, Saved, TypeInv, Infos, Ends
  <2>2. CopyInv'
    BY <1>1, <1>2, <1>3, <2>1 DEF PlaceInv, CopyInv, Saved, Saving
  <2>3. file[info.write] # "pipeRead"
    <3>1. info.write # info.read /\ info.write \notin Saved
      BY <1>1, <1>2 DEF PlaceInv, CopyInv, PipeInv, HasPipe, Saving, Fds
    <3>2. Holding("pipeRead") \subseteq {info.read} \cup SavedOf(ClosedOut)
      BY <1>1 DEF PlaceInv, ReadEndInv, HasPipe, Saving
    <3>3. SavedOf(ClosedOut) \subseteq Saved
      BY DEF SavedOf, Saved, Fds
    <3> QED
      BY <1>2, <3>1, <3>2, <3>3 DEF Holding
  <2>4. Holding("pipeRead")' \subseteq Holding("pipeRead")
    BY <1>2, <1>3, <2>3 DEF Holding
  <2>5. StdOpen => Holding("null")' \subseteq Holding("null")
    BY <1>2, <1>3, <1>4 DEF Holding
  <2> QED
    BY <1>1, <2>2, <2>4, <2>5 DEF PlaceInv, ReadEndInv, SavedOf, ClosedOut, NullPlaceInv, StdOpen,
      HasPipe, ParentSteps, AfterPipe, BeforeNull, Redirecting, Saving
<1> QED
  BY <1>c, <1>p, <1>7, <1>8, <1>9, <1>10, <1>11, <1>12, <1>13

LEMMA ClosePipeStep ==
  ASSUME FdInv, ClosePipe
  PROVE  FdInv'
<1> USE FdAssumption DEF FdInv
<1>1. /\ pc = "closePipe" /\ pc' = "setvbuf"
      /\ file' = CloseIn(CloseIn(file, info.read), info.write)
      /\ info' = [info EXCEPT !.read = -1, !.write = -1]
      /\ UNCHANGED <<limit, atStart, redirect, devNull, ret>>
  BY DEF ClosePipe, Goto
<1>2. info.read \in Fds /\ info.write \in Fds
  BY <1>1 DEF PipeInv, HasPipe, Saving
<1>3. /\ file' \in [Fds -> Kinds]
      /\ \A m \in Fds : file'[m] = IF m \in {info.read, info.write} THEN "closed" ELSE file[m]
  BY <1>1, <1>2 DEF CloseIn, TypeInv, Kinds
<1>4. /\ info' \in Infos
      /\ info'.isChild = info.isChild
      /\ info'.stdoutFd = info.stdoutFd /\ info'.stderrFd = info.stderrFd
      /\ info'.read = -1 /\ info'.write = -1 /\ info'.pipeFile = info.pipeFile
  BY <1>1, Zenon DEF TypeInv, Infos, Ends
<1>5. \A what \in Kinds \ {"closed"} :
        Holding(what)' = Holding(what) \ {info.read, info.write}
  BY <1>3 DEF Holding
<1>6. TypeInv' /\ StepInv'
  BY <1>1, <1>3, <1>4 DEF TypeInv, StepInv, ParentSteps, ChildSteps, AfterPipe, BeforeNull,
       Redirecting, Saving
<1>7. WriteEndInv'
  <2>1. CASE StdOpen
    <3>1. info.write \notin {STDOUT, STDERR} /\ info.read \notin {STDOUT, STDERR}
      BY <1>1, <2>1, EndsAbove DEF HasPipe, Saving, Std
    <3>2. /\ Holding("pipeWrite") = {info.write, STDOUT, STDERR}
          /\ Holding("pipeRead") \subseteq {info.read}
      BY <1>1, <2>1 DEF WriteEndInv, PipeInv, HasPipe, Saving
    <3>3. Holding("pipeWrite")' = {STDOUT, STDERR} /\ Holding("pipeRead")' = {}
      BY <1>5, <3>1, <3>2 DEF Kinds
    <3> QED
      BY <1>1, <2>1, <3>3 DEF WriteEndInv, StdOpen, HasPipe, BeforeNull, Redirecting, Saving
  <2>2. CASE ~ StdOpen
    <3>1. {info.read, info.write} \cap {STDOUT, STDERR} # {}
      BY <1>1, <2>2 DEF PipeInv, HasPipe, Saving
    <3>2. file'[STDOUT] = "closed" \/ file'[STDERR] = "closed"
      BY <1>2, <1>3, <3>1
    <3> QED
      BY <1>1, <2>2, <3>2 DEF WriteEndInv, StdOpen
  <2> QED
    BY <2>1, <2>2
<1>8. PipeInv' /\ ParentInv' /\ RestoredInv' /\ StdInUseInv' /\ OutputInv'
  BY <1>1 DEF PipeInv, ParentInv, RestoredInv, StdInUseInv, OutputInv, StdFileInv,
       HasPipe, ParentSteps, BeforeNull, Redirecting, Saving
<1>9. NullInv'
  BY <1>1, <1>4, <1>5 DEF NullInv, Kinds, BeforeNull, Redirecting, Saving
<1>10. SavedInv'
  <2>1. ASSUME NEW d \in {info.stdoutFd, info.stderrFd}, StdOpen, d # -1
        PROVE  file'[d] = file[d]
    <3>1. d \in Fds /\ d \notin Std /\ file[d] \notin {"pipeRead", "pipeWrite"}
      BY <2>1, RestoredKinds DEF SavedInv, TypeInv, Infos, Ends
    <3>2. d # info.read /\ d # info.write
      BY <1>1, <3>1 DEF PipeInv, HasPipe, Saving
    <3> QED
      BY <1>3, <3>1, <3>2
  <2> QED
    BY <1>1, <1>4, <2>1 DEF SavedInv, RestoredFile, StdOpen
<1>c. CallerInv'
  <2>1. Holding("other")' = Holding("other")
    BY <1>5 DEF CallerInv, Holding, Owned, Kinds
  <2>2. Owned' \subseteq Owned \cup {-1} /\ -1 \notin atStart
    BY <1>4 DEF Owned, TypeInv
  <2> QED
    BY <1>1, <1>4, <2>1, <2>2 DEF CallerInv, StepInv, ChildSteps, HasPipe, ParentSteps, Saving,
      BeforeNull, Redirecting
<1>p. PlaceInv'
  <2>1. CopyInv'
    BY <1>1, <1>4 DEF PlaceInv, CopyInv, Saved, Saving
  <2>2. ReadEndInv' /\ NullPlaceInv'
    BY <1>1, <1>4, <1>5 DEF PlaceInv, ReadEndInv, SavedOf, ClosedOut, NullPlaceInv, StdOpen, Kinds,
      HasPipe, ParentSteps, AfterPipe, BeforeNull, Redirecting, Saving
  <2> QED
    BY <2>1, <2>2 DEF PlaceInv
<1> QED
  BY <1>c, <1>p, <1>6, <1>7, <1>8, <1>9, <1>10

LEMMA RestoreStdStep ==
  ASSUME FdInv, RestoreStd
  PROVE  FdInv'
<1> USE FdAssumption DEF FdInv
<1>1. /\ pc = "inChild" /\ pc' = "restored"
      /\ info.stdoutFd # -1 /\ info.stderrFd # -1
      /\ file' = [file EXCEPT ![STDOUT] = file[info.stdoutFd], ![STDERR] = file[info.stderrFd]]
      /\ UNCHANGED <<limit, atStart, redirect, devNull, ret, info>>
  BY DEF RestoreStd, Goto
<1>2. info.stdoutFd \in Fds /\ info.stderrFd \in Fds
  BY <1>1 DEF TypeInv, Infos, Ends
<1>3. STDOUT \in Fds /\ STDERR \in Fds /\ STDOUT # STDERR
  BY DEF Fds, STDOUT, STDERR
<1>4. /\ file' \in [Fds -> Kinds]
      /\ file'[STDOUT] = file[info.stdoutFd] /\ file'[STDERR] = file[info.stderrFd]
      /\ \A m \in Fds \ {STDOUT, STDERR} : file'[m] = file[m]
  BY <1>1, <1>2, <1>3 DEF TypeInv
<1>5. TypeInv' /\ StepInv'
  BY <1>1, <1>4 DEF TypeInv, StepInv, ParentSteps, ChildSteps, AfterPipe, BeforeNull,
       Redirecting, Saving
<1>6. PipeInv' /\ WriteEndInv' /\ ParentInv' /\ StdInUseInv' /\ NullInv'
  BY <1>1 DEF PipeInv, WriteEndInv, ParentInv, StdInUseInv, NullInv,
       HasPipe, ParentSteps, BeforeNull, Redirecting, Saving
<1>7. StdOpen => /\ file'[STDOUT] = RestoredFile(STDOUT)
                 /\ file'[STDERR] = RestoredFile(STDERR)
  BY <1>1, <1>4 DEF SavedInv
<1>8. OutputInv'
  BY <1>1, <1>7 DEF OutputInv, StdFileInv, RestoredFile, StdOpen, BeforeNull
<1>9. RestoredInv'
  BY <1>1, <1>3, <1>4, <1>7, RestoredKinds DEF RestoredInv, WriteEndInv, StdOpen, Holding
<1>10. SavedInv'
  <2>1. ASSUME NEW d \in {info.stdoutFd, info.stderrFd}, StdOpen
        PROVE  d \notin Std /\ file'[d] = file[d]
    BY <1>1, <1>2, <1>4, <2>1 DEF SavedInv, Std
  <2> QED
    BY <1>1, <2>1 DEF SavedInv, RestoredFile, StdOpen
<1>c. CallerInv'
  <2>1. file[info.stdoutFd] # "other" /\ file[info.stderrFd] # "other"
    BY <1>2 DEF CallerInv, Holding, Owned
  <2>2. Holding("other")' = Holding("other")
    BY <1>3, <1>4, <2>1 DEF CallerInv, Holding, Std
  <2> QED
    BY <1>1, <2>2 DEF CallerInv, Owned, StepInv, ChildSteps, AfterPipe, HasPipe, ParentSteps,
      BeforeNull, Redirecting, Saving
<1>p. PlaceInv'
  <2>1. CopyInv'
    BY <1>1 DEF PlaceInv, CopyInv, Saved, Saving
  <2>2. /\ info.stdoutFd # info.stderrFd
        /\ info.stdoutFd \notin Std /\ info.stderrFd \notin Std
    BY <1>1 DEF PlaceInv, CopyInv, Saved
  <2>3. \A ns : /\ info.stdoutFd \in SavedOf(ns) => STDOUT \in ns
                /\ info.stderrFd \in SavedOf(ns) => STDERR \in ns
                /\ SavedOf(ns)' = SavedOf(ns)
    BY <1>1, <2>2 DEF SavedOf
  <2>4. ReadEndInv'
    <3>1. Holding("pipeRead") \subseteq SavedOf(ClosedOut)
      BY <1>1 DEF PlaceInv, ReadEndInv
    <3>2. Holding("pipeRead")' \subseteq ClosedOut \cup SavedOf(ClosedOut)
      BY <1>2, <1>3, <1>4, <2>3, <3>1 DEF Holding
    <3> QED
      BY <1>1, <2>3, <3>2 DEF ReadEndInv, ClosedOut, HasPipe, BeforeNull, Redirecting, Saving
  <2>5. NullPlaceInv'
    <3>1. Holding("null") \subseteq Std \cup Saved
      BY <1>1 DEF NullInv, Saved
    <3>2. Holding("null")' \subseteq Std \cup Saved
      BY <1>4, <3>1 DEF Holding, Std
    <3>3. ASSUME StdOpen
          PROVE  Holding("null")' \subseteq redirect \cup SavedOf(redirect)
      <4>1. Holding("null") \subseteq redirect \cup SavedOf(redirect) /\ redirect \subseteq Std
        BY <1>1, <3>3 DEF PlaceInv, NullPlaceInv, AfterPipe, TypeInv
      <4> QED
        BY <1>2, <1>3, <1>4, <2>2, <2>3, <4>1 DEF Holding
    <3> QED
      BY <1>1, <2>3, <3>2, <3>3 DEF NullPlaceInv, Saved, StdOpen, BeforeNull, Redirecting
  <2> QED
    BY <2>1, <2>4, <2>5 DEF PlaceInv
<1> QED
  BY <1>c, <1>p, <1>5, <1>6, <1>8, <1>9, <1>10

-----------------------------------------------------------------------------
(* The parent.                                                             *)

LEMMA ClosedByParent ==
  ASSUME FdInv, NEW d \in Ends, file' = CloseIn(file, d)
  PROVE  /\ file' \in [Fds -> Kinds]
         /\ \A m \in Fds : file'[m] = IF m = d THEN "closed" ELSE file[m]
         /\ \A what \in Kinds \ {"closed"} : Holding(what)' = Holding(what) \ {d}
<1>1. /\ file' \in [Fds -> Kinds]
      /\ \A m \in Fds : file'[m] = IF m = d THEN "closed" ELSE file[m]
  BY DEF CloseIn, FdInv, TypeInv, Kinds
<1> QED
  BY <1>1 DEF Holding

LEMMA ParentStep ==
  ASSUME FdInv, CloseWrite \/ Fdopen \/ Fclose \/ CloseRead
  PROVE  FdInv'
<1> USE FdAssumption DEF FdInv
<1>1. /\ pc \in ParentSteps /\ pc' \in ParentSteps
      /\ UNCHANGED <<limit, atStart, redirect, devNull, ret>>
  BY DEF CloseWrite, Fdopen, Fclose, CloseRead, Goto, ParentSteps
<1>2. /\ file' \in [Fds -> Kinds] /\ info' \in Infos
      /\ info'.isChild = info.isChild
      /\ info'.stdoutFd = info.stdoutFd /\ info'.stderrFd = info.stderrFd
      /\ Holding("null")' \subseteq Holding("null")
      /\ Holding("pipeRead")' \subseteq Holding("pipeRead")
      /\ info'.read = info.read
      /\ ParentInv'
  <2>1. info.read \in Ends /\ info.write \in Ends /\ info.pipeFile \in Ends
    BY DEF TypeInv, Infos
  <2>2. CASE CloseWrite
    <3>1. pc = "closeWrite" /\ pc' = "fdopen" /\ file' = CloseIn(file, info.write) /\ info' = info
      BY <2>2 DEF CloseWrite, Goto
    <3>2. /\ file' \in [Fds -> Kinds]
          /\ \A what \in {"pipeRead", "pipeWrite", "null"} :
               Holding(what)' = Holding(what) \ {info.write}
      BY <2>1, <3>1, ClosedByParent DEF Kinds
    <3>3. info.write # info.read
      BY <3>1 DEF ParentInv, Holding
    <3> QED
      BY <3>1, <3>2, <3>3 DEF ParentInv, ParentSteps, TypeInv
  <2>3. CASE Fdopen
    <3>1. pc = "fdopen" /\ pc' = "fclose" /\ file' = file /\ info' = [info EXCEPT !.pipeFile = info.read]
      BY <2>3 DEF Fdopen, Goto
    <3>2. /\ info' \in Infos
          /\ info'.isChild = info.isChild
          /\ info'.stdoutFd = info.stdoutFd /\ info'.stderrFd = info.stderrFd
          /\ info'.read = info.read /\ info'.pipeFile = info.read
      BY <2>1, <3>1, Zenon DEF TypeInv, Infos
    <3> QED
      BY <3>1, <3>2 DEF ParentInv, ParentSteps, TypeInv, Holding
  <2>4. CASE Fclose
    <3>1. /\ pc = "fclose" /\ pc' = "closeRead" /\ file' = CloseIn(file, info.pipeFile)
          /\ info' = info /\ info.pipeFile = info.read
      BY <2>4 DEF Fclose, Goto, ParentInv
    <3>2. /\ file' \in [Fds -> Kinds]
          /\ \A what \in {"pipeRead", "pipeWrite", "null"} :
               Holding(what)' = Holding(what) \ {info.read}
      BY <2>1, <3>1, ClosedByParent DEF Kinds
    <3> QED
      BY <3>1, <3>2 DEF ParentInv, ParentSteps, TypeInv
  <2>5. CASE CloseRead
    <3>1. pc = "closeRead" /\ pc' = "inParent" /\ file' = CloseIn(file, info.read) /\ info' = info
      BY <2>5 DEF CloseRead, Goto
    <3>2. /\ file' \in [Fds -> Kinds]
          /\ \A what \in {"pipeRead", "pipeWrite", "null"} :
               Holding(what)' = Holding(what) \ {info.read}
      BY <2>1, <3>1, ClosedByParent DEF Kinds
    <3> QED
      BY <3>1, <3>2 DEF ParentInv, ParentSteps, TypeInv
  <2> QED
    BY <2>2, <2>3, <2>4, <2>5
<1>3. TypeInv' /\ StepInv'
  BY <1>1, <1>2 DEF TypeInv, StepInv, ParentSteps, ChildSteps, AfterPipe, BeforeNull,
       Redirecting, Saving
<1>4. PipeInv' /\ WriteEndInv' /\ RestoredInv' /\ StdInUseInv' /\ NullInv' /\ OutputInv'
  BY <1>1 DEF PipeInv, WriteEndInv, RestoredInv, StdInUseInv, NullInv, OutputInv, StdFileInv,
       HasPipe, ParentSteps, BeforeNull, Redirecting, Saving
<1>5. SavedInv'
  BY <1>1, <1>2 DEF SavedInv, StepInv, ParentSteps, AfterPipe
<1>c. CallerInv'
  <2>1. PICK d \in Owned \cup {-1} :
          \A m \in Fds : file'[m] = IF m = d THEN "closed" ELSE file[m]
    <3>1. info.read \in Ends /\ info.write \in Ends /\ info.pipeFile \in Ends
      BY DEF TypeInv, Infos
    <3>2. file' = file \/ \E d \in {info.read, info.write, info.pipeFile} : file' = CloseIn(file, d)
      BY DEF CloseWrite, Fdopen, Fclose, CloseRead
    <3>3. -1 \notin Fds
      BY DEF Fds
    <3> QED
      BY <3>1, <3>2, <3>3, ClosedByParent DEF Owned
  <2>2. Holding("other")' = Holding("other")
    BY <2>1 DEF CallerInv, Holding, Fds
  <2>3. /\ info'.write = info.write
        /\ info'.pipeFile \in {info.pipeFile, info.read}
    BY DEF CloseWrite, Fdopen, Fclose, CloseRead, TypeInv, Infos
  <2>4. Owned' \subseteq Owned
    BY <1>2, <2>3 DEF Owned
  <2>5. \A n \in Std : n \in Fds /\ StdFile(n) # "closed"
    BY DEF StdFile, Fds, Std, STDIN, STDOUT, STDERR
  <2>6. \A n \in Std : file'[n] = StdFile(n) => file[n] = StdFile(n)
    BY <2>1, <2>5
  <2>7. /\ pc' = "closeRead" => info'.read # -1
        /\ pc' = "inParent" => info'.pipeFile # -1
        /\ pc' \in {"closeWrite", "fdopen"} => info'.pipeFile = -1
    BY <1>2 DEF CloseWrite, Fdopen, Fclose, CloseRead, Goto, CallerInv, ParentInv, Fds
  <2>8. ~ info.isChild
    BY <1>1 DEF StepInv
  <2>9. pc' \notin {"pipe", "error"}
    BY <1>1 DEF ParentSteps
  <2> QED
    BY <1>1, <1>2, <2>2, <2>3, <2>4, <2>6, <2>7, <2>8, <2>9 DEF CallerInv
<1>p. PlaceInv'
  BY <1>1, <1>2 DEF PlaceInv, CopyInv, Saved, ReadEndInv, NullPlaceInv, StepInv, HasPipe, ParentSteps, AfterPipe, BeforeNull, Redirecting, Saving
<1> QED
  BY <1>c, <1>p, <1>2, <1>3, <1>4, <1>5

-----------------------------------------------------------------------------

LEMMA NextInv == FdInv /\ [Next]_vars => FdInv'
<1> SUFFICES ASSUME FdInv, [Next]_vars PROVE FdInv'
  OBVIOUS
<1>1. CASE UNCHANGED vars
  BY <1>1 DEF vars, FdInv, TypeInv, StepInv, PipeInv, WriteEndInv, ParentInv, StdInUseInv,
       NullInv, OutputInv, StdFileInv, RestoredFile, SavedInv, RestoredInv, StdOpen, Holding,
       FirstFiles, CallerInv, Owned, PlaceInv, CopyInv, Saved, ReadEndInv, SavedOf,
       ClosedOut, NullPlaceInv
<1>2. CASE \E isChild \in BOOLEAN : Fork(isChild)
  BY <1>2, ForkStep
<1>3. CASE NullStdin \/ NullStdout \/ NullStderr
  BY <1>3, NullStepStep DEF NullStdin, NullStdout, NullStderr, Std
<1>4. CASE OpenNullFails \/ DupFails \/ ChildFails \/ ParentFails \/ CallExitForkWithError
  BY <1>4, ExitStep DEF OpenNullFails, DupFails, ChildFails, ParentFails, CallExitForkWithError
<1>5. CASE \E opens \in BOOLEAN : OnChildFork(opens)
  <2>1. PICK opens \in BOOLEAN : OnChildFork(opens)
    BY <1>5
  <2>2. CASE opens
    BY <2>1, <2>2, OtherOpenedStep DEF OnChildFork, Goto
  <2>3. CASE ~ opens
    <3>1. /\ pc = "onChildFork" /\ pc' = "openNull"
          /\ UNCHANGED <<limit, atStart, redirect, file, devNull, ret, info>>
      BY <2>1, <2>3 DEF OnChildFork, Goto
    <3> QED
      BY <3>1 DEF FdInv, TypeInv, StepInv, PipeInv, WriteEndInv, ParentInv, StdInUseInv,
           NullInv, OutputInv, StdFileInv, RestoredFile, SavedInv, RestoredInv, StdOpen, Holding,
           CallerInv, Owned, PlaceInv, CopyInv, Saved, ReadEndInv, SavedOf, ClosedOut, NullPlaceInv,
           HasPipe, ParentSteps, ChildSteps, AfterPipe, BeforeNull, Redirecting, Saving
  <2> QED
    BY <2>2, <2>3
<1>6. CASE OpenFile
  BY <1>6, OtherOpenedStep DEF OpenFile, Returned, ParentSteps
<1> QED
  BY <1>1, <1>2, <1>3, <1>4, <1>5, <1>6, PipeStep, OpenNullStep, CloseNullStep, RedirectedStep,
     DupStep, ToPipeStep, ClosePipeStep, SetvbufStep, RestoreStdStep, CleanupStep, ParentStep
  DEF Next, InForkChild, InCaller

(* The inductive invariant, for any limit and any descriptors open at the  *)
(* call of forkChild().                                                    *)
THEOREM FdsCorrect == Spec => []FdInv
<1> QED
  BY InitInv, NextInv, PTL DEF Spec

(* forkChild() returns in the child with stdout and stderr, and nothing    *)
(* else, on the write end, exactly when both were open at the call         *)
(* (UnixForkUtils.c:46-81).                                                *)
THEOREM OutputGoesToPipe == Spec => []ChildOutputGoesToPipe
<1>1. FdInv => ChildOutputGoesToPipe
  <2> SUFFICES ASSUME FdInv, pc = "inChild"
               PROVE  Holding("pipeWrite") = {STDOUT, STDERR} <=> StdOpen
    BY DEF ChildOutputGoesToPipe
  <2> QED
    BY DEF FdInv, WriteEndInv, Holding
<1> QED
  BY FdsCorrect, <1>1, PTL

(* A child that restores stdout and stderr no longer holds either end of   *)
(* the pipe, and writes where it would have without it.                    *)
THEOREM RestoreStops == Spec => []RestoreStopsSending
<1>1. FdInv => RestoreStopsSending
  BY DEF FdInv, RestoreStopsSending, RestoredInv, OutputInv, StdFileInv, RestoredFile,
     STDOUT, STDERR
<1> QED
  BY FdsCorrect, <1>1, PTL

(* The parent is left no end of the pipe and no /dev/null; with stdout and *)
(* stderr open at the call the child is left no read end, and /dev/null    *)
(* only where it asked for it and on the saved copies; otherwise only on   *)
(* standard descriptors and saved copies (UnixForkUtils.c:46-81, 168-170,  *)
(* UnixFileUtils.c:584-586).                                               *)
THEOREM NoneLeft == Spec => []NoDescriptorLeft
<1>1. FdInv => NoDescriptorLeft
  <2> SUFFICES ASSUME FdInv PROVE NoDescriptorLeft
    OBVIOUS
  <2>1. SavedCopy(STDOUT) = {info.stdoutFd} /\ SavedCopy(STDERR) = {info.stderrFd}
    BY DEF SavedCopy, STDOUT, STDERR
  <2>2. \A ns : SavedOf(ns) \subseteq WithCopies(ns) /\ ns \subseteq WithCopies(ns)
    BY <2>1 DEF SavedOf, WithCopies, STDOUT, STDERR
  <2>3. \A ns : SavedOf(ns) \cap Std = {}
    BY DEF FdInv, PlaceInv, CopyInv, Saved, SavedOf, Fds
  <2>4. Saved \subseteq WithCopies(Std)
    <3>1. STDOUT \in Std /\ STDERR \in Std
      BY DEF Std
    <3> QED
      BY <2>1, <3>1 DEF Saved, WithCopies
  <2>5. Std \cup Saved \subseteq WithCopies(Std)
    BY <2>2, <2>4
  <2>6. pc = "inParent" =>
          Holding("pipeRead") = {} /\ Holding("pipeWrite") = {} /\ Holding("null") = {}
    BY DEF FdInv, ParentInv, ParentSteps
  <2>7. pc = "inChild" => Holding("pipeRead") \subseteq WithCopies(ClosedOut) \ Std
    BY <2>2, <2>3 DEF FdInv, PlaceInv, ReadEndInv
  <2>8. pc = "restored" => Holding("pipeRead") \subseteq WithCopies(ClosedOut)
    BY <2>2 DEF FdInv, PlaceInv, ReadEndInv
  <2>9. pc \in {"inChild", "restored"} => Holding("null") \subseteq WithCopies(Std)
    <3>1. \A n \in Holding("null") : n # -1
      BY DEF Holding, Fds
    <3> QED
      BY <2>5, <3>1 DEF FdInv, PlaceInv, NullPlaceInv, NullInv, Saved
  <2>10. pc \in {"inChild", "restored"} /\ StdOpen =>
           Holding("null") \subseteq WithCopies(redirect)
    BY <2>2 DEF FdInv, PlaceInv, NullPlaceInv, AfterPipe
  <2> QED
    BY <2>6, <2>7, <2>8, <2>9, <2>10 DEF NoDescriptorLeft, ClosedOut
<1> QED
  BY FdsCorrect, <1>1, PTL

-----------------------------------------------------------------------------
(* The caller's files.                                                     *)

(* Nothing the ForkInfo names in the child is a file opened meanwhile. *)
LEMMA NotOwned ==
  ASSUME FdInv, pc \in ChildSteps, NEW n \in Holding("new") \ (Std \cup Copies)
  PROVE  n \in Fds /\ n \notin Owned
<1>1. n \in Fds /\ file[n] = "new" /\ n \notin Std /\ n # -1
  BY DEF Holding, Fds
<1>2. n # info.read /\ n # info.write
  BY <1>1 DEF FdInv, PipeInv, StepInv, HasPipe, ChildSteps
<1>3. n # info.stdoutFd /\ n # info.stderrFd
  <2>1. CASE StdOpen
    BY <1>1, <2>1, RestoredKinds DEF FdInv, SavedInv
  <2>2. CASE ~ StdOpen
    BY <2>2 DEF Copies
  <2> QED
    BY <2>1, <2>2
<1>4. n # info.pipeFile
  BY <1>1 DEF FdInv, StepInv
<1> QED
  BY <1>1, <1>2, <1>3, <1>4 DEF Owned

LEMMA OpenKeeps ==
  ASSUME FdInv, NEW f \in [Fds -> Kinds], FreeIn(f) # {}, NEW what \in Kinds,
         NEW n \in Fds, f[n] # "closed"
  PROVE  OpenIn(f, what)[n] = f[n]
<1>1. limit \in MaxInherited..MaxFd
  BY DEF FdInv, TypeInv
<1> QED
  BY ZenonT(40), <1>1, LowestIsFree, Opened

(* What a step may do to the file n refers to when it opens another. *)
LEMMA OpeningStep ==
  ASSUME FdInv, NEW n \in Fds, file[n] # "closed",
         \/ Pipe \/ OpenNull \/ OpenFile \/ DupStdout \/ DupStderr
         \/ \E opens \in BOOLEAN : OnChildFork(opens)
  PROVE  file'[n] = file[n]
<1>1. file \in [Fds -> Kinds] /\ limit \in MaxInherited..MaxFd
  BY DEF FdInv, TypeInv
<1>2. CASE Pipe
  <2>1. CASE Cardinality(FreeIn(file)) < 2
    BY <1>2, <2>1 DEF Pipe
  <2>2. CASE ~ (Cardinality(FreeIn(file)) < 2)
    <3> DEFINE withRead == OpenIn(file, "pipeRead")
    <3>1. "pipeRead" \in Kinds /\ "pipeWrite" \in Kinds
      BY DEF Kinds
    <3>2. FreeIn(file) # {} /\ FreeIn(withRead) # {}
      BY <1>1, <2>2, <3>1, TwoFree
    <3>3. withRead \in [Fds -> Kinds]
      BY <1>1, <3>1, <3>2, Opened
    <3>4. withRead[n] = file[n]
      BY <1>1, <3>1, <3>2, OpenKeeps
    <3>5. file' = OpenIn(withRead, "pipeWrite")
      BY <1>2, <2>2 DEF Pipe
    <3> HIDE DEF withRead
    <3> QED
      BY <3>1, <3>2, <3>3, <3>4, <3>5, OpenKeeps
  <2> QED
    BY <2>1, <2>2
<1>3. CASE \/ OpenNull \/ OpenFile \/ DupStdout \/ DupStderr
           \/ \E opens \in BOOLEAN : OnChildFork(opens)
  <2>1. \/ file' = file
        \/ FreeIn(file) # {} /\ \E what \in Kinds : file' = OpenIn(file, what)
    <3>1. {"null", "new"} \subseteq Kinds /\ file[STDOUT] \in Kinds /\ file[STDERR] \in Kinds
      BY <1>1, FdAssumption DEF Kinds, Fds, STDOUT, STDERR
    <3> QED
      BY <1>3, <3>1
         DEF OpenNull, OpenFile, DupStdout, DupStderr, CanDup, OnChildFork
  <2> QED
    BY <1>1, <2>1, OpenKeeps
<1> QED
  BY <1>2, <1>3

(* What a step of the parent closes: the write end, the read end, or what  *)
(* the ForkInfo names at its end or after forkChild() has returned.        *)
LEMMA ParentCloses ==
  ASSUME FdInv, CloseWrite \/ Fclose \/ CloseRead \/ ParentFails, NEW n \in Fds
  PROVE  /\ file'[n] # file[n] => n \in Owned /\ file'[n] = "closed"
         /\ \/ file'[n] = file[n]
            \/ file[n] \in {"pipeRead", "pipeWrite"}
            \/ pc' = "exited"
            \/ pc = "closeRead" /\ n = info.read
<1>1. info.read \in Ends /\ info.write \in Ends /\ info.pipeFile \in Ends
      /\ file \in [Fds -> Kinds]
  BY DEF FdInv, TypeInv, Infos
<1>2. CASE CloseWrite \/ Fclose \/ CloseRead
  BY <1>1, <1>2 DEF CloseWrite, Fclose, CloseRead, CloseIn, Owned, FdInv, ParentInv, Holding
<1>3. CASE ParentFails
  BY <1>1, <1>3 DEF ParentFails, ExitForkWithError, Goto, CleanupFork
<1> QED
  BY <1>2, <1>3

LEMMA NewFileStep ==
  ASSUME FdInv, [Next]_vars, NEW n \in Holding("new")
  PROVE  \/ file'[n] = "new"
         \/ info.isChild /\ n \in Std \cup Copies
         \/ ~ info.isChild /\ (pc' = "exited" \/ NotItsOwn(n))
<1>1. n \in Fds /\ file[n] = "new" /\ file \in [Fds -> Kinds]
  BY DEF Holding, FdInv, TypeInv
<1>2. CASE \/ UNCHANGED vars \/ \E isChild \in BOOLEAN : Fork(isChild)
           \/ Setvbuf \/ Fdopen
  BY <1>1, <1>2 DEF vars, Fork, Setvbuf, Fdopen
<1>3. CASE \/ Pipe \/ OpenNull \/ OpenFile \/ DupStdout \/ DupStderr
           \/ \E opens \in BOOLEAN : OnChildFork(opens)
  BY <1>1, <1>3, OpeningStep
<1>4. CASE NullStdin \/ NullStdout \/ NullStderr \/ StdoutToPipe \/ StderrToPipe \/ RestoreStd
  <2>1. info.isChild
    BY <1>4 DEF NullStdin, NullStdout, NullStderr, NullStep, StdoutToPipe, StderrToPipe, ToPipe,
       RestoreStd, FdInv, StepInv, ChildSteps, Redirecting, Saving, AfterPipe
  <2>2. n \notin Std => file'[n] = "new"
    BY <1>1, <1>4
       DEF NullStdin, NullStdout, NullStderr, NullStep, StdoutToPipe, StderrToPipe, ToPipe,
           RestoreStd, Std
  <2> QED
    BY <2>1, <2>2
<1>5. CASE CloseNull
  BY <1>1, <1>5 DEF CloseNull, CloseIn, FdInv, NullInv, Redirecting
<1>6. CASE \/ Redirected \/ OpenNullFails \/ DupFails \/ ChildFails
           \/ (CallCleanupFork /\ info.isChild) \/ (CallExitForkWithError /\ info.isChild)
  <2>1. pc \in ChildSteps /\ info.isChild
    BY <1>6 DEF Redirected, OpenNullFails, DupFails, ChildFails, CallCleanupFork, Returned,
         CallExitForkWithError, FdInv, StepInv, ChildSteps, BeforeNull, Saving, AfterPipe, ParentSteps
  <2>2. file' = file \/ CleanupFork({})
    BY <1>6, <2>1 DEF Redirected, OpenNullFails, DupFails, ChildFails, CallCleanupFork, StaleStream,
         CallExitForkWithError, ExitForkWithError, FdInv, StepInv, ParentSteps
  <2> QED
    BY <1>1, <2>1, <2>2, NotOwned DEF CleanupFork
<1>7. CASE ClosePipe
  <2>1. pc \in ChildSteps /\ info.isChild /\ file' = CloseIn(CloseIn(file, info.read), info.write)
    BY <1>7 DEF ClosePipe, FdInv, StepInv, ChildSteps, Saving
  <2>2. n \notin Std \cup Copies => n # info.read /\ n # info.write
    BY <2>1, NotOwned DEF Owned
  <2> QED
    BY <1>1, <2>1, <2>2 DEF CloseIn
<1>8. CASE CloseWrite \/ Fclose \/ CloseRead \/ ParentFails
  <2>1. ~ info.isChild
    BY <1>8 DEF CloseWrite, Fclose, CloseRead, ParentFails, FdInv, StepInv, ParentSteps
  <2> QED
    BY <1>1, <1>8, <2>1, ParentCloses DEF NotItsOwn
<1>9. CASE CallCleanupFork /\ ~ info.isChild
  <2>1. pc \in {"inParent", "error"}
    BY <1>9 DEF CallCleanupFork, Returned, FdInv, StepInv, ChildSteps, AfterPipe
  <2>2. info.stdoutFd = -1 /\ info.stderrFd = -1
    BY <2>1 DEF FdInv, StepInv, AfterPipe
  <2>3. StaleStream => NotItsOwn(n)
    BY DEF NotItsOwn
  <2>4. ASSUME ~ StaleStream, file'[n] # "new"
        PROVE  pc = "error" /\ n = info.read
    <3>1. CleanupFork({})
      BY <1>9, <2>4 DEF CallCleanupFork
    <3>2. n \in Owned /\ n # -1
      BY <1>1, <2>4, <3>1 DEF CleanupFork, Fds
    <3>3. CASE pc = "error"
      BY <2>2, <3>2, <3>3 DEF Owned, FdInv, StepInv, CallerInv
    <3>4. CASE pc = "inParent"
      BY <2>2, <2>4, <3>2, <3>4 DEF Owned, StaleStream, FdInv, ParentInv, CallerInv
    <3> QED
      BY <2>1, <3>3, <3>4
  <2> QED
    BY <1>9, <2>3, <2>4 DEF NotItsOwn
<1>10. CASE CallExitForkWithError /\ ~ info.isChild
  BY <1>10 DEF CallExitForkWithError, ExitForkWithError, Goto
<1> QED
  BY <1>2, <1>3, <1>4, <1>5, <1>6, <1>7, <1>8, <1>9, <1>10
     DEF Next, InForkChild, InCaller

LEMMA StdFileStep ==
  ASSUME FdInv, [Next]_vars, NEW n \in Std, ~ info.isChild, file[n] = StdFile(n)
  PROVE  file'[n] = StdFile(n) \/ (pc = "error" /\ n = info.read)
<1>1. n \in Fds /\ file \in [Fds -> Kinds] /\ n \in atStart
      /\ file[n] \notin {"closed", "new", "pipeRead", "pipeWrite"}
  BY FdAssumption DEF FdInv, TypeInv, CallerInv, StdFile, Fds, Std, STDIN, STDOUT, STDERR
<1>2. pc \notin ChildSteps
  BY DEF FdInv, StepInv
<1>3. CASE \/ UNCHANGED vars \/ \E isChild \in BOOLEAN : Fork(isChild) \/ Fdopen
  BY <1>3 DEF vars, Fork, Fdopen
<1>4. CASE Pipe \/ OpenFile
  BY <1>1, <1>4, OpeningStep
<1>5. CASE CloseWrite \/ Fclose \/ CloseRead \/ ParentFails
  <2>1. pc \in ParentSteps
    BY <1>5 DEF CloseWrite, Fclose, CloseRead, ParentFails, ParentSteps
  <2>2. n \notin Owned
    BY <1>1, <2>1, FdAssumption
       DEF FdInv, TypeInv, CallerInv, StepInv, ParentInv, Owned, ParentSteps, AfterPipe, Fds
  <2> QED
    BY <1>1, <1>5, <2>2, ParentCloses
<1>6. CASE CallCleanupFork \/ CallExitForkWithError
  <2>1. pc \in {"inParent", "error"}
    BY <1>2, <1>6 DEF CallCleanupFork, CallExitForkWithError, Returned, ChildSteps, AfterPipe
  <2>2. PICK again \in SUBSET Holding("new") : CleanupFork(again)
    BY <1>6 DEF CallCleanupFork, CallExitForkWithError, ExitForkWithError
  <2>3. n \in Owned => pc = "error" /\ n = info.read
    <3>1. info.stdoutFd = -1 /\ info.stderrFd = -1 /\ n # -1
      BY <1>1, <2>1 DEF FdInv, StepInv, AfterPipe, Fds
    <3>2. CASE pc = "error"
      BY <3>1, <3>2 DEF Owned, FdInv, StepInv, CallerInv
    <3>3. CASE pc = "inParent"
      BY <1>1, <3>1, <3>3 DEF Owned, FdInv, CallerInv, ParentInv, ParentSteps
    <3> QED
      BY <2>1, <3>2, <3>3
  <2>4. n \notin again
    BY <1>1, <2>2 DEF Holding
  <2> QED
    BY <1>1, <2>2, <2>3, <2>4 DEF CleanupFork
<1>7. CASE ~ (Pipe \/ OpenFile \/ CloseWrite \/ Fclose \/ CloseRead \/ ParentFails \/ Fdopen
              \/ CallCleanupFork \/ CallExitForkWithError \/ UNCHANGED vars
              \/ \E isChild \in BOOLEAN : Fork(isChild))
  <2>1. pc \in ChildSteps
    BY <1>7 DEF Next, InForkChild, InCaller, OpenNull, OpenNullFails, NullStdin, NullStdout,
         NullStderr, NullStep, CloseNull, Redirected, DupStdout, DupStderr, DupFails, StdoutToPipe,
         StderrToPipe, ToPipe, ChildFails, ClosePipe, Setvbuf, OnChildFork, RestoreStd,
         ChildSteps, BeforeNull, Redirecting, Saving, AfterPipe
  <2> QED
    BY <1>2, <2>1
<1> QED
  BY <1>3, <1>4, <1>5, <1>6, <1>7

(* No step closes a file open at the call; in the parent the standard      *)
(* descriptors stay too, and so do the files opened meanwhile, in both     *)
(* processes, but for the calls the property names                         *)
(* (UnixForkUtils.c:24-27, 79-81, 170, 193-223).                           *)
THEOREM CallerFilesKept == Spec => CallerFilesStayOpen
<1> DEFINE Kept ==
      /\ Holding("other") \subseteq Holding("other")'
      /\ \A n \in Std : ~ info.isChild /\ file[n] = StdFile(n) =>
           file'[n] = StdFile(n) \/ (pc = "error" /\ n = info.read)
      /\ \A n \in Holding("new") :
           \/ file'[n] = "new"
           \/ info.isChild /\ n \in Std \cup Copies
           \/ ~ info.isChild /\ (pc' = "exited" \/ NotItsOwn(n))
<1>1. FdInv /\ [Next]_vars => [Kept]_vars
  <2> SUFFICES ASSUME FdInv, [Next]_vars PROVE Kept
    OBVIOUS
  <2>1. Holding("other") \subseteq Holding("other")'
    <3>1. atStart' = atStart
      BY DEF vars, Next, InForkChild, InCaller, Goto, Pipe, Fork, OpenNull, OpenNullFails,
         NullStdin, NullStdout, NullStderr, NullStep, CloseNull, Redirected, DupStdout, DupStderr,
         DupFails, StdoutToPipe, StderrToPipe, ToPipe, ChildFails, ClosePipe, Setvbuf, CloseWrite,
         Fdopen, ParentFails, Fclose, CloseRead, OnChildFork, OpenFile, RestoreStd,
         CallCleanupFork, CallExitForkWithError, ExitForkWithError
    <3>2. CallerInv /\ CallerInv'
      BY NextInv DEF FdInv
    <3> QED
      BY <3>1, <3>2 DEF CallerInv
  <2> QED
    BY <2>1, StdFileStep, NewFileStep
<1> QED
  BY FdsCorrect, <1>1, PTL DEF Spec, CallerFilesStayOpen

=============================================================================
