------------------------------ MODULE ForkFds ------------------------------
(***************************************************************************)
(* The file descriptors of a process that calls forkChild(), number by     *)
(* number (UnixForkUtils.c, with redirectStdFdToDevNull() of               *)
(* UnixFileUtils.c).  One action is one system call.                       *)
(*                                                                         *)
(* The parent and the child have a table each, that the other cannot see:  *)
(* the module follows the process up to fork() and then either of the two. *)
(* It may start with any descriptors open, the standard ones not excepted, *)
(* and with any limit on their number, so that every call can fail.        *)
(***************************************************************************)
EXTENDS Integers, FiniteSetsExt

CONSTANTS
  MaxFd,         \* bound: the largest descriptor any limit allows
  MaxInherited   \* bound: descriptors 0..MaxInherited may be open at first

ASSUME FdAssumption == MaxInherited \in 2..MaxFd /\ MaxFd \in Nat

VARIABLES
  pc,        \* the next call
  limit,     \* descriptors 0..limit can be open (RLIMIT_NOFILE)
  atStart,   \* the descriptors open when forkChild() is called
  redirect,  \* the standard descriptors to redirect to /dev/null in the child
  file,      \* the file each descriptor refers to
  devNull,   \* dev_null of redirectStdFdToDevNull()
  ret,       \* ret of redirectStdFdToDevNull()
  info       \* the ForkInfo

vars == <<pc, limit, atStart, redirect, file, devNull, ret, info>>

STDIN == 0
STDOUT == 1
STDERR == 2
Std == {STDIN, STDOUT, STDERR}

Fds == 0..MaxFd

(* A descriptor refers to what 0, 1 and 2 do when forkChild() is called,   *)
(* "other" files open then, "new" ones the program has opened since, the   *)
(* null device, an end of the pipe, or nothing.                            *)
StdFile(n) == <<"stdin", "stdout", "stderr">>[n + 1]

-----------------------------------------------------------------------------
(* The system calls.                                                       *)

FreeIn(f) == {n \in 0..limit : f[n] = "closed"}
CloseIn(f, n) == IF n \in Fds THEN [f EXCEPT ![n] = "closed"] ELSE f

(* open(), dup() and each end of pipe() take the lowest free descriptor. *)
Lowest(f) == Min(FreeIn(f))
OpenIn(f, what) == [f EXCEPT ![Lowest(f)] = what]

-----------------------------------------------------------------------------

(* INIT_FORK_INFO does not mention pipeFds, which are therefore {0, 0}. *)
Init ==
  /\ pc = "pipe"
  /\ limit \in MaxInherited..MaxFd
  /\ atStart \in SUBSET (0..MaxInherited)
  /\ redirect \in SUBSET Std
  /\ file = [n \in Fds |-> IF n \notin atStart THEN "closed"
                           ELSE IF n \in Std THEN StdFile(n) ELSE "other"]
  /\ devNull = -1
  /\ ret = 0
  /\ info = [isChild |-> FALSE, stdoutFd |-> -1, stderrFd |-> -1,
             read |-> 0, write |-> 0, pipeFile |-> -1]

Goto(next) == pc' = next /\ UNCHANGED <<limit, atStart, redirect>>

Holding(what) == {n \in Fds : file[n] = what}

(* cleanupFork(): closes what the ForkInfo names, and forgets it. *)
Owned == {info.stdoutFd, info.stderrFd, info.read, info.write, info.pipeFile}

CleanupFork(again) ==
  /\ file' = [n \in Fds |-> IF n \in Owned \cup again THEN "closed" ELSE file[n]]
  /\ info' = [info EXCEPT !.stdoutFd = -1, !.stderrFd = -1, !.read = -1,
                          !.write = -1, !.pipeFile = -1]

(* exitForkWithError(info, 1) *)
ExitForkWithError ==
  /\ Goto("exited")
  /\ CleanupFork({})
  /\ UNCHANGED <<devNull, ret>>

Pipe ==
  /\ pc = "pipe"
  /\ IF Cardinality(FreeIn(file)) < 2
     THEN Goto("error") /\ UNCHANGED <<file, info>>
     ELSE LET withRead == OpenIn(file, "pipeRead")
          IN  /\ Goto("fork")
              /\ file' = OpenIn(withRead, "pipeWrite")
              /\ info' = [info EXCEPT !.read = Lowest(file),
                                      !.write = Lowest(withRead)]
  /\ UNCHANGED <<devNull, ret>>

Fork(isChild) ==
  /\ pc = "fork"
  /\ Goto(IF isChild THEN "onChildFork" ELSE "closeWrite")
  /\ info' = [info EXCEPT !.isChild = isChild]
  /\ UNCHANGED <<file, devNull, ret>>

-----------------------------------------------------------------------------
(* The child.                                                              *)

(* The caller's callback runs first: it may keep one more file open. *)
OnChildFork(opens) ==
  /\ pc = "onChildFork"
  /\ opens => FreeIn(file) # {}
  /\ Goto("openNull")
  /\ file' = IF opens THEN OpenIn(file, "new") ELSE file
  /\ UNCHANGED <<devNull, ret, info>>

OpenNull ==
  /\ pc = "openNull"
  /\ FreeIn(file) # {}
  /\ Goto("nullStdin")
  /\ file' = OpenIn(file, "null")
  /\ devNull' = Lowest(file)
  /\ UNCHANGED <<ret, info>>

OpenNullFails ==
  /\ pc = "openNull"
  /\ FreeIn(file) = {}
  /\ ExitForkWithError

(* dup2(dev_null, n), unless not asked for or failing. *)
NullStep(step, n, next) ==
  /\ pc = step
  /\ Goto(next)
  /\ IF n \in redirect
     THEN \/ file' = [file EXCEPT ![n] = file[devNull]] /\ UNCHANGED ret
          \/ ret' = -1 /\ UNCHANGED file
     ELSE UNCHANGED <<file, ret>>
  /\ UNCHANGED <<devNull, info>>

NullStdin  == NullStep("nullStdin", STDIN, "nullStdout")
NullStdout == NullStep("nullStdout", STDOUT, "nullStderr")
NullStderr == NullStep("nullStderr", STDERR, "closeNull")

\* mutation: the comparison is the wrong way round
CloseNull_Reversed ==
  /\ pc = "closeNull"
  /\ Goto("redirected")
  /\ file' = IF devNull <= STDERR THEN CloseIn(file, devNull) ELSE file
  /\ UNCHANGED <<devNull, ret, info>>

CloseNull ==
  /\ pc = "closeNull"
  /\ Goto("redirected")
  /\ file' = IF devNull > STDERR THEN CloseIn(file, devNull) ELSE file
  /\ UNCHANGED <<devNull, ret, info>>

Redirected ==
  /\ pc = "redirected"
  /\ IF ret = -1
     THEN ExitForkWithError
     ELSE Goto("dupStdout") /\ UNCHANGED <<file, devNull, ret, info>>

(* info->stdoutFd = dup(STDOUT_FILENO), info->stderrFd = dup(STDERR_FILENO) *)
CanDup(n) == file[n] # "closed" /\ FreeIn(file) # {}

DupStdout ==
  /\ pc = "dupStdout"
  /\ CanDup(STDOUT)
  /\ Goto("dupStderr")
  /\ file' = OpenIn(file, file[STDOUT])
  /\ info' = [info EXCEPT !.stdoutFd = Lowest(file)]
  /\ UNCHANGED <<devNull, ret>>

\* mutation: stdout is saved twice
DupStderr_Stdout ==
  /\ pc = "dupStderr"
  /\ CanDup(STDOUT)
  /\ Goto("stdoutToPipe")
  /\ file' = OpenIn(file, file[STDOUT])
  /\ info' = [info EXCEPT !.stderrFd = Lowest(file)]
  /\ UNCHANGED <<devNull, ret>>

DupStderr ==
  /\ pc = "dupStderr"
  /\ CanDup(STDERR)
  /\ Goto("stdoutToPipe")
  /\ file' = OpenIn(file, file[STDERR])
  /\ info' = [info EXCEPT !.stderrFd = Lowest(file)]
  /\ UNCHANGED <<devNull, ret>>

DupFails ==
  /\ \/ pc = "dupStdout" /\ ~ CanDup(STDOUT)
     \/ pc = "dupStderr" /\ ~ CanDup(STDERR)
  /\ ExitForkWithError

(* dup2(info->pipeFds[1], n) *)
ToPipe(step, n, next) ==
  /\ pc = step
  /\ Goto(next)
  /\ file' = [file EXCEPT ![n] = file[info.write]]
  /\ UNCHANGED <<devNull, ret, info>>

StdoutToPipe == ToPipe("stdoutToPipe", STDOUT, "stderrToPipe")
StderrToPipe == ToPipe("stderrToPipe", STDERR, "closePipe")

(* dup2() or setvbuf() fails. *)
ChildFails ==
  /\ pc \in {"stdoutToPipe", "stderrToPipe", "setvbuf"}
  /\ ExitForkWithError

\* mutation: the write end is kept
ClosePipe_ReadOnly ==
  /\ pc = "closePipe"
  /\ Goto("setvbuf")
  /\ file' = CloseIn(file, info.read)
  /\ info' = [info EXCEPT !.read = -1]
  /\ UNCHANGED <<devNull, ret>>

\* mutation: the ForkInfo keeps the numbers closed
ClosePipe_Remembered ==
  /\ pc = "closePipe"
  /\ Goto("setvbuf")
  /\ file' = CloseIn(CloseIn(file, info.read), info.write)
  /\ UNCHANGED <<devNull, ret, info>>

ClosePipe ==
  /\ pc = "closePipe"
  /\ Goto("setvbuf")
  /\ file' = CloseIn(CloseIn(file, info.read), info.write)
  /\ info' = [info EXCEPT !.read = -1, !.write = -1]
  /\ UNCHANGED <<devNull, ret>>

Setvbuf ==
  /\ pc = "setvbuf"
  /\ Goto("inChild")
  /\ UNCHANGED <<file, devNull, ret, info>>

(* The caller's code in the child stops sending data to the parent. *)
RestoreStd ==
  /\ pc = "inChild"
  /\ info.stdoutFd # -1 /\ info.stderrFd # -1
  /\ file' = [file EXCEPT ![STDOUT] = file[info.stdoutFd],
                          ![STDERR] = file[info.stderrFd]]
  /\ Goto("restored")
  /\ UNCHANGED <<devNull, ret, info>>

-----------------------------------------------------------------------------
(* The parent.                                                             *)

CloseWrite ==
  /\ pc = "closeWrite"
  /\ Goto("fdopen")
  /\ file' = CloseIn(file, info.write)
  /\ UNCHANGED <<devNull, ret, info>>

Fdopen ==
  /\ pc = "fdopen"
  /\ Goto("fclose")
  /\ info' = [info EXCEPT !.pipeFile = info.read]
  /\ UNCHANGED <<file, devNull, ret>>

(* fdopen() fails, or later an allocation or a read. *)
ParentFails ==
  /\ pc \in {"fdopen", "fclose"}
  /\ ExitForkWithError

(* fclose(info->pipeFile) closes the descriptor that close() closes next;  *)
(* the ForkInfo keeps all three values.                                    *)
Fclose ==
  /\ pc = "fclose"
  /\ Goto("closeRead")
  /\ file' = CloseIn(file, info.pipeFile)
  /\ UNCHANGED <<devNull, ret, info>>

CloseRead ==
  /\ pc = "closeRead"
  /\ Goto("inParent")
  /\ file' = CloseIn(file, info.read)
  /\ UNCHANGED <<devNull, ret, info>>

-----------------------------------------------------------------------------
(* The program around forkChild(): it opens files, other threads of the    *)
(* parent at any time, and when forkChild() has returned it may clean up   *)
(* or exit through exitForkWithError(), in either process.                 *)

Returned == {"inChild", "restored", "inParent", "error"}

OpenFile ==
  /\ pc \in Returned \cup {"fork", "closeWrite", "fdopen", "fclose", "closeRead"}
  /\ FreeIn(file) # {}
  /\ Cardinality(Holding("other") \cup Holding("new")) <= MaxInherited
  /\ file' = OpenIn(file, "new")
  /\ UNCHANGED <<pc, limit, atStart, redirect, devNull, ret, info>>

(* In the parent forkChild() has closed the pipe but not forgotten it:     *)
(* cleanupFork() closes what has its numbers now, and gives fclose() a     *)
(* stream closed before.  That is undefined: it may do nothing, close a    *)
(* stream that has taken the FILE since, or end the process.  After a      *)
(* pipe() that failed the ForkInfo names descriptor 0 twice.               *)
StaleStream == pc = "inParent" /\ info.pipeFile # -1

CallCleanupFork ==
  /\ pc \in Returned
  /\ \/ UNCHANGED pc
     \/ StaleStream /\ pc' = "exited"
  /\ \/ CleanupFork({})
     \/ StaleStream /\ \E n \in Holding("new") : CleanupFork({n})
  /\ UNCHANGED <<limit, atStart, redirect, devNull, ret>>

CallExitForkWithError ==
  /\ pc \in Returned
  /\ ExitForkWithError

-----------------------------------------------------------------------------

InForkChild ==
  \/ Pipe
  \/ \E isChild \in BOOLEAN : Fork(isChild)
  \/ OpenNull \/ OpenNullFails
  \/ NullStdin \/ NullStdout \/ NullStderr \/ CloseNull \/ Redirected
  \/ DupStdout \/ DupStderr \/ DupFails
  \/ StdoutToPipe \/ StderrToPipe \/ ChildFails \/ ClosePipe \/ Setvbuf
  \/ CloseWrite \/ Fdopen \/ ParentFails \/ Fclose \/ CloseRead

InCaller ==
  \/ \E opens \in BOOLEAN : OnChildFork(opens)
  \/ OpenFile \/ RestoreStd \/ CallCleanupFork \/ CallExitForkWithError

Next == InForkChild \/ InCaller

Spec == Init /\ [][Next]_vars

-----------------------------------------------------------------------------
(* Properties.                                                             *)

(* When stdout or stderr is closed pipe() takes its number, and the        *)
(* close() of an end of the pipe then closes the new stdout or stderr of   *)
(* the child.                                                              *)
StdOpen == {STDOUT, STDERR} \subseteq atStart

(* forkChild() returns in the child with stdout and stderr, and nothing    *)
(* else, on the write end of the pipe, so that the parent is sent all the  *)
(* output and no stray copy can keep it from seeing the end, exactly when  *)
(* stdout and stderr were open at the call (UnixForkUtils.c:46-81).        *)
ChildOutputGoesToPipe ==
  pc = "inChild" => (Holding("pipeWrite") = {STDOUT, STDERR} <=> StdOpen)

(* A child that restores stdout and stderr from the saved descriptors no   *)
(* longer holds either end of the pipe, so that the parent sees the end,   *)
(* and a stream it did not redirect goes again where it did at the call.   *)
RestoreStopsSending ==
  StdOpen /\ pc = "restored" =>
    /\ Holding("pipeWrite") = {} /\ Holding("pipeRead") = {}
    /\ \A n \in {STDOUT, STDERR} \ redirect : file[n] = StdFile(n)

(* "Original stdout fd of child", "Original stderr fd of child"            *)
(* (UnixForkUtils.h:18-19): the saved descriptors refer to what stdout and *)
(* stderr did at the call.  The code saves them after the redirections to  *)
(* /dev/null (UnixForkUtils.c:46-62).                                      *)
SavedAreOriginal ==
  StdOpen /\ pc = "inChild" =>
    /\ info.stdoutFd # -1 => file[info.stdoutFd] = StdFile(STDOUT)
    /\ info.stderrFd # -1 => file[info.stderrFd] = StdFile(STDERR)

(* However forkChild() is left no end of the pipe and no /dev/null stays   *)
(* open in the parent.  In the child, when stdout and stderr were open at  *)
(* the call, no read end stays open either, and /dev/null only where a     *)
(* redirection to it was asked for, and on the saved copies of those.      *)
(* When one of them was closed at the call pipe() has taken its number:    *)
(* then the read end may stay open as its saved copy (and on the number    *)
(* itself when that is restored), and /dev/null on any of the standard     *)
(* descriptors and the saved copies, but on no number beyond those.        *)
SavedCopy(n) == IF n = STDOUT THEN {info.stdoutFd}
                ELSE IF n = STDERR THEN {info.stderrFd} ELSE {}
WithCopies(ns) == UNION {{n} \cup SavedCopy(n) : n \in ns}

NoDescriptorLeft ==
  /\ pc = "inParent" =>
       Holding("pipeRead") = {} /\ Holding("pipeWrite") = {} /\ Holding("null") = {}
  /\ pc = "inChild" =>
       Holding("pipeRead") \subseteq WithCopies({STDOUT, STDERR} \ atStart) \ Std
  /\ pc = "restored" =>
       Holding("pipeRead") \subseteq WithCopies({STDOUT, STDERR} \ atStart)
  /\ pc \in {"inChild", "restored"} =>
       /\ Holding("null") \subseteq WithCopies(Std)
       /\ StdOpen => Holding("null") \subseteq WithCopies(redirect)

(* No step of either process closes a file that was open at the call, but  *)
(* for the standard descriptors: not the redirections, not an error exit   *)
(* half way, not a later cleanupFork() or exitForkWithError().  In the     *)
(* parent those keep what they refer to as well, and the files opened      *)
(* meanwhile stay open in both processes, even when they take the numbers  *)
(* forkChild() used, with the exceptions the code has: in the child a file *)
(* on a standard number or a saved copy of it; in the parent its end, the  *)
(* close() after fclose() (UnixForkUtils.c:170), a cleanupFork() after     *)
(* forkChild() has returned there, once (193-223), and descriptor 0 when   *)
(* pipe() has failed (24-27).                                              *)
Copies == IF StdOpen THEN {} ELSE {info.stdoutFd, info.stderrFd}

NotItsOwn(n) ==
  \/ pc \in {"error", "closeRead"} /\ n = info.read
  \/ StaleStream

CallerFilesStayOpen ==
  [][/\ Holding("other") \subseteq Holding("other")'
     /\ \A n \in Std : ~ info.isChild /\ file[n] = StdFile(n) =>
          file'[n] = StdFile(n) \/ (pc = "error" /\ n = info.read)
     /\ \A n \in Holding("new") :
          \/ file'[n] = "new"
          \/ info.isChild /\ n \in Std \cup Copies
          \/ ~ info.isChild /\ (pc' = "exited" \/ NotItsOwn(n))]_vars

=============================================================================
