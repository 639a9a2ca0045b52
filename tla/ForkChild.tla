----------------------------- MODULE ForkChild -----------------------------
(***************************************************************************)
(* forkChild(): fork a child, read what it writes to its stdout and stderr *)
(* through a pipe until end of file, wait for it, return its output and    *)
(* exit code (UnixForkUtils.c).  The module interleaves                    *)
(*                                                                         *)
(*   - the parent, which runs the code step by step, every failure         *)
(*     included;                                                           *)
(*   - the child: the setup forkChild() does in it, then whatever its      *)
(*     caller does: write, fork, close its output, exit, be killed, be     *)
(*     stopped and continued;                                              *)
(*   - grandchildren, forked by the child, which inherit its output;       *)
(*   - siblings, forked by other threads of the parent between its pipe()  *)
(*     and close(), which inherit the ends of the pipe (no O_CLOEXEC);     *)
(*   - the kernel: pipe, end of file, wait statuses.                       *)
(*                                                                         *)
(* File descriptor numbers are in ForkFds, buffer sizes in OutputBuffer.   *)
(***************************************************************************)
EXTENDS OutputBuffer, Sequences

CONSTANTS
  Parent, Child,   \* processes
  Grandchildren,   \* processes the child may fork
  Siblings,        \* processes other threads of the parent may fork
  Bytes, Newline, Nul, NoOutput,
  ExitCodes,       \* exit codes of the child
  Signals,         \* signals that may stop or kill the child
  PipeCapacity     \* bound: bytes the pipe holds; those written are MaxOutput

Processes == {Parent, Child} \cup Grandchildren \cup Siblings

ASSUME ProcessesAssumption ==
  /\ Parent # Child
  /\ {Parent, Child} \cap (Grandchildren \cup Siblings) = {}
  /\ Grandchildren \cap Siblings = {}

ASSUME ValuesAssumption ==
  /\ Newline \in Bytes
  /\ NoOutput \notin Seq(Bytes \cup {Nul})
  /\ ExitCodes \subseteq 0..255
  /\ 1 \in ExitCodes
  /\ Signals \subseteq 1..127
  /\ PipeCapacity \in Nat \ {0}

VARIABLES
  ppc,            \* what the parent does next
  cpc,            \* what the child does next
  stopped,        \* the child is stopped by a signal
  event,          \* a stop or continuation of the child not yet waited for
  exitStatus,     \* how the child ended
  spawned,        \* grandchildren and siblings forked so far
  writers,        \* processes that hold the write end of the pipe
  readers,        \* processes that hold its read end
  pipe,           \* bytes in the pipe
  sent,           \* history: all the bytes written to it
  stored,         \* bytes in the heap buffer of the parent
  eof, ferr,      \* feof() and ferror() of info->pipeFile
  status,         \* info->status
  exitCode,       \* info->exitCode
  output,         \* info->output
  returnOutput    \* info->returnOutput, which the caller sets

childVars  == <<cpc, stopped, event, exitStatus>>
pipeVars   == <<writers, readers, pipe, sent>>
readVars   == <<stored, eof, ferr>>
resultVars == <<status, exitCode, output, returnOutput>>
vars == <<ppc, spawned, childVars, pipeVars, readVars, resultVars, bufVars>>

Exited(code)  == [kind |-> "exited",    value |-> code]
Signaled(sig) == [kind |-> "signaled",  value |-> sig]
Stopped(sig)  == [kind |-> "stopped",   value |-> sig]
Continued     == [kind |-> "continued", value |-> 0]
NoStatus      == [kind |-> "none",      value |-> 0]

EndStatuses == {Exited(c) : c \in ExitCodes} \cup {Signaled(s) : s \in Signals}
Events      == {Stopped(s) : s \in Signals} \cup {Continued}

(* The macro WEXITSTATUS: bits 8 to 15 of the status word. *)
WEXITSTATUS_LowByte(st) == 0   \* mutation: bits 0 to 7
WEXITSTATUS(st) ==
  CASE st.kind \in {"exited", "stopped"} -> st.value
    [] st.kind = "signaled"              -> 0
    [] st.kind = "continued"             -> 255

EndsInNewline(s) == s # <<>> /\ s[Len(s)] = Newline
Trim(s) == IF EndsInNewline(s) THEN SubSeq(s, 1, Len(s) - 1) ELSE s

Init ==
  /\ ppc = "pipe" /\ cpc = "none"
  /\ stopped = FALSE /\ event = NoStatus /\ exitStatus = NoStatus
  /\ spawned = {}
  /\ writers = {} /\ readers = {} /\ pipe = <<>> /\ sent = <<>>
  /\ stored = <<>> /\ eof = FALSE /\ ferr = FALSE
  /\ status = NoStatus /\ exitCode = -1 /\ output = NoOutput
  /\ returnOutput \in BOOLEAN
  /\ BufferInit

-----------------------------------------------------------------------------
(* The parent.                                                             *)

(* exitForkWithError(info, 1): close the pipe, kill the child if info->cpid *)
(* is set (it never is: fork()'s result stays in a local), exit.            *)
InfoCpid == -1

ParentExits ==
  /\ ppc' = "exited"
  /\ writers' = writers \ {Parent}
  /\ readers' = readers \ {Parent}

KillChildOnError ==
  IF InfoCpid # -1 /\ exitCode = -1 /\ cpc \in {"setup", "running"}
  THEN \E sig \in Signals : exitStatus' = Signaled(sig) /\ cpc' = "exiting"
  ELSE UNCHANGED <<cpc, exitStatus>>

ExitForkWithError ==
  /\ ParentExits
  /\ KillChildOnError
  /\ UNCHANGED <<stopped, event, spawned, pipe, sent, resultVars>>

(* pipe() fails and forkChild() returns -1. *)
PipeFails ==
  /\ ppc = "pipe"
  /\ ppc' = "error"
  /\ UNCHANGED <<spawned, childVars, pipeVars, readVars, resultVars, bufVars>>

PipeCreated ==
  /\ ppc = "pipe"
  /\ ppc' = "fork"
  /\ writers' = {Parent}
  /\ readers' = {Parent}
  /\ UNCHANGED <<spawned, childVars, pipe, sent, readVars, resultVars, bufVars>>

ForkFails ==
  /\ ppc = "fork"
  /\ ParentExits
  /\ UNCHANGED <<spawned, childVars, pipe, sent, readVars, resultVars, bufVars>>

Fork ==
  /\ ppc = "fork"
  /\ ppc' = "closeWrite"
  /\ cpc' = "setup"
  /\ writers' = writers \cup {Child}
  /\ readers' = readers \cup {Child}
  /\ UNCHANGED <<stopped, event, exitStatus, spawned, pipe, sent,
                 readVars, resultVars, bufVars>>

\* mutation: the parent keeps its copy of the write end
CloseWriteEnd_Kept ==
  /\ ppc = "closeWrite"
  /\ ppc' = "fdopen"
  /\ UNCHANGED <<spawned, childVars, pipeVars, readVars, resultVars, bufVars>>

CloseWriteEnd ==
  /\ ppc = "closeWrite"
  /\ ppc' = "fdopen"
  /\ writers' = writers \ {Parent}
  /\ UNCHANGED <<spawned, childVars, readers, pipe, sent,
                 readVars, resultVars, bufVars>>

Fdopen ==
  /\ ppc = "fdopen"
  /\ ppc' = "read"
  /\ UNCHANGED <<spawned, childVars, pipeVars, readVars, resultVars, bufVars>>

FdopenFails ==
  /\ ppc = "fdopen"
  /\ ExitForkWithError
  /\ UNCHANGED <<readVars, bufVars>>

AllocateBuffer ==
  /\ ppc = "read"
  /\ Allocate
  /\ UNCHANGED <<ppc, spawned, childVars, pipeVars, readVars, resultVars>>

(* malloc() or a realloc() fails. *)
AllocationFails ==
  /\ ppc = "read"
  /\ phase \in {"unallocated", "eof"} \/ copied = bufferFree
  /\ Fail
  /\ ExitForkWithError
  /\ UNCHANGED readVars

(* fread() moves the bytes that are in the pipe into the buffer. *)
ReadByte ==
  /\ ppc = "read"
  /\ pipe # <<>>
  /\ CopyByte
  /\ stored' = Append(stored, Head(pipe))
  /\ pipe' = Tail(pipe)
  /\ UNCHANGED <<ppc, spawned, childVars, writers, readers, sent, eof, ferr,
                 resultVars>>

(* fread() has stored all it was asked for. *)
ReadFull ==
  /\ ppc = "read"
  /\ copied = bufferFree
  /\ FreadReturn(FALSE, ferr)
  /\ UNCHANGED <<ppc, spawned, childVars, pipeVars, readVars, resultVars>>

(* The pipe is empty and no process holds its write end. *)
AtEof_Empty == phase = "fread" /\ copied < bufferFree /\ pipe = <<>>  \* mutation
AtEof == phase = "fread" /\ copied < bufferFree /\ pipe = <<>> /\ writers = {}

ReadEof ==
  /\ ppc = "read"
  /\ AtEof
  /\ eof' = TRUE
  /\ FreadReturn(TRUE, ferr)
  /\ UNCHANGED <<ppc, spawned, childVars, pipeVars, stored, ferr, resultVars>>

(* read() is interrupted by a signal handler of the caller: fread()        *)
(* returns what it has stored and the error flag stays set for good.       *)
Interrupted == phase = "fread" /\ copied < bufferFree

\* mutation: the call is made again from where it started
ReadInterrupted_Retried ==
  /\ ppc = "read"
  /\ Interrupted
  /\ copied' = 0
  /\ stored' = SubSeq(stored, 1, bufferData)
  /\ UNCHANGED <<ppc, spawned, childVars, pipeVars, eof, ferr, resultVars,
                 bufferSize, bufferData, bufferFree, phase>>

ReadInterrupted ==
  /\ ppc = "read"
  /\ Interrupted
  /\ ferr' = TRUE
  /\ FreadReturn(FALSE, TRUE)
  /\ UNCHANGED <<ppc, spawned, childVars, pipeVars, stored, eof, resultVars>>

(* fread() returns 0 with the error flag set: an interrupted call that had *)
(* stored nothing, or the end of file after an earlier interruption.       *)
ReadFails ==
  /\ ppc = "read"
  /\ \/ Interrupted /\ ferr' = TRUE /\ UNCHANGED eof
     \/ AtEof /\ eof' = TRUE /\ UNCHANGED ferr
  /\ ReadFailed(ferr')
  /\ Fail
  /\ ExitForkWithError
  /\ UNCHANGED stored

\* mutation: the trailing newline is kept
StoreNul_Untrimmed ==
  /\ ppc = "read"
  /\ Finish(FALSE)
  /\ stored' = Append(stored, Nul)
  /\ ppc' = "waitpid"
  /\ UNCHANGED <<spawned, childVars, pipeVars, eof, ferr, resultVars>>

StoreNul ==
  /\ ppc = "read"
  /\ Finish(EndsInNewline(stored))
  /\ stored' = Append(Trim(stored), Nul)
  /\ ppc' = "waitpid"
  /\ UNCHANGED <<spawned, childVars, pipeVars, eof, ferr, resultVars>>

(* waitpid(cpid, &info->status, WUNTRACED | WCONTINUED) *)
WaitExited ==
  /\ cpc = "zombie"
  /\ cpc' = "reaped"
  /\ status' = exitStatus
  /\ UNCHANGED event

WaitEvent ==
  /\ cpc # "zombie"
  /\ event # NoStatus
  /\ event' = NoStatus
  /\ status' = event
  /\ UNCHANGED cpc

WaitPid ==
  /\ ppc = "waitpid"
  /\ WaitExited \/ WaitEvent
  /\ ppc' = "close"
  /\ UNCHANGED <<stopped, exitStatus, spawned, pipeVars, readVars, exitCode,
                 output, returnOutput, bufVars>>

(* waitpid() is interrupted: exit(1), without exitForkWithError(). *)
WaitFails ==
  /\ ppc = "waitpid"
  /\ ParentExits
  /\ UNCHANGED <<spawned, childVars, pipe, sent, readVars, resultVars, bufVars>>

(* A caller that did not ask for the output is left without: it is freed. *)
Return ==
  /\ ppc = "close"
  /\ ppc' = "returned"
  /\ readers' = readers \ {Parent}
  /\ output' = IF returnOutput THEN stored ELSE output
  /\ exitCode' = WEXITSTATUS(status)
  /\ UNCHANGED <<spawned, childVars, writers, pipe, sent, readVars, status,
                 returnOutput, bufVars>>

ParentRead ==
  \/ AllocateBuffer \/ AllocationFails
  \/ ReadByte \/ ReadFull \/ ReadEof \/ ReadInterrupted \/ ReadFails
  \/ StoreNul

ParentStep ==
  \/ PipeFails \/ PipeCreated \/ ForkFails \/ Fork \/ CloseWriteEnd
  \/ Fdopen \/ FdopenFails
  \/ ParentRead
  \/ WaitPid \/ WaitFails \/ Return

-----------------------------------------------------------------------------
(* The child.                                                              *)

CanRun == cpc \in {"setup", "running"} /\ ~ stopped

(* exit() or a fatal signal: the kernel drops a stop or continuation not   *)
(* yet waited for and closes the files first; only then does it let the    *)
(* parent see the zombie.                                                  *)
ChildEnds(st) ==
  /\ cpc' = "exiting"
  /\ stopped' = FALSE
  /\ event' = NoStatus
  /\ exitStatus' = st
  /\ writers' = writers \ {Child}
  /\ readers' = readers \ {Child}
  /\ UNCHANGED <<ppc, spawned, pipe, sent, readVars, resultVars, bufVars>>

(* One of the calls forkChild() makes in the child fails. *)
ChildSetupFails ==
  /\ CanRun /\ cpc = "setup"
  /\ ChildEnds(Exited(1))

(* forkChild() returns 0 in the child: stdout and stderr are the write end, *)
(* both descriptors of the pipe are closed.                                 *)
ChildSetup ==
  /\ CanRun /\ cpc = "setup"
  /\ cpc' = "running"
  /\ readers' = readers \ {Child}
  /\ UNCHANGED <<ppc, stopped, event, exitStatus, spawned, writers, pipe, sent,
                 readVars, resultVars, bufVars>>

(* p writes a byte to the pipe; it blocks while the pipe is full.  Without *)
(* a reader the write fails (EPIPE) or kills (SIGPIPE).                    *)
WriteByte(p, b) ==
  /\ p \in writers
  /\ readers # {}
  /\ Len(pipe) < PipeCapacity
  /\ Len(sent) < MaxOutput
  /\ pipe' = Append(pipe, b)
  /\ sent' = Append(sent, b)
  /\ UNCHANGED <<ppc, childVars, spawned, writers, readers, readVars,
                 resultVars, bufVars>>

ChildWrites ==
  /\ CanRun /\ cpc = "running"
  /\ \E b \in Bytes : WriteByte(Child, b)

ChildForks(g) ==
  /\ CanRun /\ cpc = "running"
  /\ g \in Grandchildren \ spawned
  /\ spawned' = spawned \cup {g}
  /\ writers' = writers \cup (IF Child \in writers THEN {g} ELSE {})
  /\ UNCHANGED <<ppc, childVars, readers, pipe, sent, readVars, resultVars,
                 bufVars>>

(* The caller's code closes or redirects stdout and stderr and goes on. *)
ChildClosesOutput ==
  /\ CanRun /\ cpc = "running"
  /\ writers' = writers \ {Child}
  /\ UNCHANGED <<ppc, childVars, spawned, readers, pipe, sent, readVars,
                 resultVars, bufVars>>

ChildExits(code) ==
  /\ CanRun /\ cpc = "running"
  /\ ChildEnds(Exited(code))

ChildKilled(sig) ==
  /\ cpc \in {"setup", "running"}
  /\ ChildEnds(Signaled(sig))

ChildBecomesZombie ==
  /\ cpc = "exiting"
  /\ cpc' = "zombie"
  /\ UNCHANGED <<ppc, stopped, event, exitStatus, spawned, pipeVars, readVars,
                 resultVars, bufVars>>

StopChild(sig) ==
  /\ CanRun
  /\ stopped' = TRUE
  /\ event' = Stopped(sig)
  /\ UNCHANGED <<ppc, cpc, exitStatus, spawned, pipeVars, readVars, resultVars,
                 bufVars>>

ContinueChild ==
  /\ stopped
  /\ stopped' = FALSE
  /\ event' = Continued
  /\ UNCHANGED <<ppc, cpc, exitStatus, spawned, pipeVars, readVars, resultVars,
                 bufVars>>

ChildStep ==
  \/ ChildSetupFails \/ ChildSetup \/ ChildWrites \/ ChildClosesOutput
  \/ \E g \in Grandchildren : ChildForks(g)
  \/ \E code \in ExitCodes : ChildExits(code)
  \/ \E sig \in Signals : ChildKilled(sig) \/ StopChild(sig)
  \/ ContinueChild
  \/ ChildBecomesZombie

-----------------------------------------------------------------------------
(* The other processes.                                                    *)

(* Another thread of the parent forks while the parent has the pipe. *)
SiblingForked(s) ==
  /\ ppc \in {"fork", "closeWrite"}
  /\ s \in Siblings \ spawned
  /\ spawned' = spawned \cup {s}
  /\ writers' = writers \cup {s}
  /\ readers' = readers \cup {s}
  /\ UNCHANGED <<ppc, childVars, pipe, sent, readVars, resultVars, bufVars>>

GrandchildWrites(g) ==
  /\ g \in spawned
  /\ \E b \in Bytes : WriteByte(g, b)

(* A grandchild or sibling exits, or closes what it inherited. *)
OtherExits(p) ==
  /\ p \in spawned
  /\ p \in writers \cup readers
  /\ writers' = writers \ {p}
  /\ readers' = readers \ {p}
  /\ UNCHANGED <<ppc, childVars, spawned, pipe, sent, readVars, resultVars,
                 bufVars>>

OtherStep ==
  \/ \E s \in Siblings : SiblingForked(s)
  \/ \E g \in Grandchildren : GrandchildWrites(g)
  \/ \E p \in Grandchildren \cup Siblings : OtherExits(p)

-----------------------------------------------------------------------------

Next == ParentStep \/ ChildStep \/ OtherStep

Spec == Init /\ [][Next]_vars

(* A call that waits, fread() or waitpid(), need not ever be interrupted.   *)
CallBroken == ReadInterrupted \/ (ReadFails /\ UNCHANGED eof) \/ WaitFails

(* The scheduler runs every process; a child that is not left stopped for  *)
(* ever gets to exit, and every other process exits some day.              *)
Fairness ==
  /\ WF_vars(ParentStep /\ ~ CallBroken)
  /\ SF_vars(\E code \in ExitCodes : ChildExits(code))
  /\ SF_vars(ChildSetup)
  /\ WF_vars(ChildBecomesZombie)
  /\ \A p \in Grandchildren \cup Siblings : WF_vars(OtherExits(p))

FairSpec == Spec /\ Fairness

-----------------------------------------------------------------------------
(* Properties.                                                             *)

ParentPcs == {"pipe", "error", "fork", "closeWrite", "fdopen", "read",
              "waitpid", "close", "returned", "exited"}
ChildPcs  == {"none", "setup", "running", "exiting", "zombie", "reaped"}

TypeOK ==
  /\ ppc \in ParentPcs
  /\ cpc \in ChildPcs
  /\ stopped \in BOOLEAN
  /\ event \in Events \cup {NoStatus}
  /\ exitStatus \in EndStatuses \cup {NoStatus}
  /\ spawned \subseteq Grandchildren \cup Siblings
  /\ writers \subseteq Processes
  /\ readers \subseteq Processes
  /\ pipe \in Seq(Bytes)
  /\ sent \in Seq(Bytes)
  /\ stored \in Seq(Bytes \cup {Nul})
  /\ eof \in BOOLEAN
  /\ ferr \in BOOLEAN
  /\ status \in EndStatuses \cup Events \cup {NoStatus}
  /\ exitCode \in -1..255
  /\ output \in Seq(Bytes \cup {Nul}) \cup {NoOutput}
  /\ returnOutput \in BOOLEAN
  /\ BufferTypeOK

(* While the parent reads, every byte anyone wrote is in the buffer or     *)
(* still in the pipe, once and in order, whatever read errors, buffer      *)
(* growth and concurrent writers do (UnixForkUtils.c:126-145).             *)
NothingLost == ppc = "read" => stored \o pipe = sent

(* Once the parent has seen the end of file, neither the child nor any     *)
(* process that inherited the pipe can write again.                        *)
EofIsFinal == eof => writers = {} /\ pipe = <<>>

(* What a caller that asked for the output is handed is all that was ever  *)
(* written to the pipe, less one newline, with its NUL; any other caller   *)
(* is handed nothing (UnixForkUtils.c:146-177).                            *)
OutputComplete ==
  ppc = "returned" =>
    output = IF returnOutput THEN Append(Trim(sent), Nul) ELSE NoOutput

(* An exit status the parent got is the one the child ended with, and the  *)
(* exit code it returns is that of a child that has been reaped            *)
(* (UnixForkUtils.c:162-180).                                              *)
ExitCodeFaithful ==
  ppc = "returned" /\ status.kind = "exited" =>
    /\ cpc = "reaped"
    /\ status = exitStatus
    /\ exitCode = exitStatus.value

(* "Wait for child to finish. If in parent, wait for child to exit."       *)
(* (comment at UnixForkUtils.c:160-161)                                    *)
ReturnsAfterChildExit == ppc = "returned" => cpc = "reaped"

Capturing == INSTANCE Capture

(* The pipe, the buffer and the processes implement Capture. *)
ImplementsCapture == Capturing!Spec

(* A child that is not left stopped for ever gets its parent past the      *)
(* reading loop and the waitpid(): forkChild() returns or the parent exits *)
(* even with grandchildren and siblings that inherited the pipe.           *)
ParentDone == ppc \in {"returned", "error", "exited"}
ForkChildEnds == []<>(~ stopped) => <>ParentDone

(* The inductive invariant.  It fixes, step by step of the parent, what is *)
(* true of the stream, of the end of file and of the result.               *)
BeforeRead == {"pipe", "fork", "closeWrite", "fdopen"}
AfterRead  == {"waitpid", "close", "returned"}

StreamInv ==
  /\ ppc \in BeforeRead \cup {"read"} => stored \o pipe = sent
  /\ ppc \in AfterRead => stored = Append(Trim(sent), Nul)

(* The sizes of OutputBuffer are those of the bytes stored. *)
LengthInv ==
  /\ phase = "unallocated" => stored = <<>>
  /\ ppc = "read" => phase \in {"unallocated", "fread", "eof"}
  /\ phase \in {"fread", "eof"} => Len(stored) = bufferData + copied
  /\ phase = "stored" => Len(stored) = bufferData /\ bufferData <= bufferSize

EofInv ==
  /\ EofIsFinal
  /\ eof => ppc \in {"read", "exited"} \cup AfterRead
  /\ ppc = "read" /\ phase = "eof" => eof
  /\ ppc \in AfterRead => eof
  /\ ppc \in BeforeRead => phase = "unallocated"

ResultInv ==
  /\ ppc = "returned" => /\ output = IF returnOutput THEN stored ELSE NoOutput
                         /\ exitCode = WEXITSTATUS(status)
  /\ ppc # "returned" => output = NoOutput
  /\ ppc \notin {"close", "returned"} => status = NoStatus
  /\ ppc \in {"close", "returned"} => status # NoStatus
  /\ cpc \in {"exiting", "zombie", "reaped"} => exitStatus # NoStatus
  /\ status.kind = "exited" => cpc = "reaped" /\ status = exitStatus

ForkInv ==
  TypeOK /\ SizesInv /\ StreamInv /\ LengthInv /\ EofInv /\ ResultInv

=============================================================================
