# A TLA+ model of termux-core-package

`termux-core-package` is the core library of Termux (`libtermux-core_nos_c`), with shell scripts
that read environment variables and a test runner. This directory models the parts of the library
that have behaviour over time or algorithms that are easy to get wrong, checks them with TLC and
proves the most important properties with TLAPS. Paths below are relative to
`src/lib/termux-core_nos_c/tre/src/` unless they start with `src/`; headers are in
`src/lib/termux-core_nos_c/tre/include/`.

## 1. The system

| component | state | operations | interacts with |
|---|---|---|---|
| `forkChild` (`unix/os/process/UnixForkUtils.c`) | the caller's `ForkInfo` (flags, saved descriptors, pipe, result), descriptor tables and heap buffer of two processes | `forkChild`, `cleanupFork`, `exitForkWithError` | kernel (pipe, fork, waitpid), the child's own children, other threads of the parent, `redirectStdFdToDevNull`, Logger (`updateLogPid`) |
| `redirectStdFdToDevNull`, `closeFD` (`unix/file/UnixFileUtils.c:545-589`) | descriptor table | one call | `forkChild` |
| `createDirectoryFile`, `make_path` (`unix/file/UnixFileUtils.c:447-539`) | umask, `sOriginalUmask`, the file system | one call, many system calls | other processes in the same function, other programs |
| path normalization (`unix/file/Canonicalize.c`, `UnixFileUtils.c:99-131`) | the caller's buffer, an index array | `normalizePath`, `removeDupSeparator`, `absolutizePath` | everything that takes a path |
| path from the environment (`UnixFileUtils.c:292-436`) | the caller's buffer | `getPathFromEnv`, `getPathFromEnvOrDefault` | normalization, `getenv`, `access` |
| path of a descriptor (`UnixFileUtils.c:137-215`) | none | `isFdPath`, `getRegularFileFdRealPath` | file system and descriptors that others change meanwhile |
| Termux directories (`termux/file/TermuxFile.c`, `UnixFileUtils.c:221-265`) | five cached paths with their static buffers | `termux*_get`, `*_isPathUnder`, `termuxPrefixPath`, `convertToLegacyPath` | path from the environment, path of a descriptor, threads |
| Logger (`logger/*.c`) | level, tags, format, cached pid, implementation, log file | `log*`, setters, `setLogFilePath`, `closeLogFile` | every component logs; `fork()` copies all of it |
| SELinux context (`unix/os/selinux/UnixSeLinuxUtils.c`) | none | read from variable or file | `regexMatch` |
| strings, signals, `strerror`, uuid, assertions | none | pure functions | |
| scripts (`src/app/main/scripts/`) | none | choice of a function by arguments | generated functions |
| test runner (`src/app/main/tests/`) | temporary directory, exit code, traps | run the test binaries | |

### What is hard here

* **Who holds the pipe.** `forkChild` reads until end of file, which comes only when every process
  that inherited the write end has closed it: its own copy, the child, what the child forks, and
  what other threads of the caller fork while the pipe is open.
* **Numbers and order of descriptors.** Two saves, up to three redirections to `/dev/null`, two to
  the pipe and two closes depend on which numbers are free, and any of them can fail.
* **A buffer that grows while it is read into**, with an `int` in the middle of unsigned sizes.
* **A global umask of 0** between two returns of `make_path`, which has eleven, and directories made
  with mode 0 first; other processes make and remove the same directories; any process can be killed.
* **In-place string surgery.** `__normalizePath` clears entries of an index array, looks back over
  cleared ones, joins what is left over itself; its callers use the buffer, not the pointer.
* **Checks and uses apart.** `fstat`, `readlink` and `stat` look at a file at three moments.
* **Everything static, and `fork()` copies it**: the cached pid, the stream of the log file with the
  bytes waiting in it, while the open file and its offset are shared.
* **Caches without a lock.** A directory is found in place in a static buffer whose address is
  handed out; a second thread may be finding it again at the same time, in another environment.
* **Levels read again and again**: a logging function compares the current level up to three
  times, and other threads change it; callers count on `errno` being what it was.
* **Boundaries**: lengths that equal a buffer size, output that exactly fills a buffer, sizes put
  together from a macro without parentheses.

`PROJECT.json` lists each of these as a hazard with its line and the properties that cover it.

## 2. Modules

| module | models | properties in |
|---|---|---|
| `OutputBuffer` | the sizes of the growing buffer (`UnixForkUtils.c:100-158`) | checked in `fork_child`; proofs in `ForkChildProofs` |
| `Capture` | abstract: what `forkChild` promises about output | refined by `ForkChild` (`ImplementsCapture`) |
| `ForkChild` | parent, child, grandchildren, siblings, pipe, waitpid (`UnixForkUtils.c:19-191`), over `OutputBuffer` | itself; proofs in `ForkChildProofs` |
| `ForkFds` | descriptor tables of both processes, number by number (`UnixForkUtils.c:19-223`, `UnixFileUtils.c:545-589`) | itself; proofs in `ForkFdsProofs` |
| `MakePath` | `createDirectoryFile`, `make_path` by several processes | itself; proofs in `MakePathProofs` |
| `PathWalk` | abstract: walking the names of a path with a stack | refined by `NormalizePath` |
| `NormalizePath` | `normalizePath`, `removeDupSeparator`, `__normalizePath` and its helpers | itself; proofs in `PathFromEnvProofs` |
| `PathFromEnv` | `getPathFromEnv`, `getPathFromEnvOrDefault`, over `NormalizePath` | itself; proofs in `PathFromEnvProofs` |
| `FdRealPath` | `getRegularFileFdRealPath` | itself; proofs in `FdRealPathProofs` |
| `LogFile` | `FileLoggerImpl.c` and the cached pid of `Logger.c`, in processes that fork | itself; proofs in `LogFileProofs` |
| `Logger` | levels, tags, formats and lines of `Logger.c` and `Logger.h` | itself; proofs in `LoggerProofs` |
| `TermuxPaths` | comparing, converting and prefixing paths (`TermuxFile.c:139-199, 283-358`, `UnixFileUtils.c:221-245`) | used by `TermuxDirs` |
| `TermuxDirs` | the cached directories of `TermuxFile.c` and the functions that use them, in several threads | itself; proofs in `TermuxDirsProofs` |

`MC*` modules hold bounds for TLC and nothing else.

### Correspondence with the code

**OutputBuffer.** `bufferSize`, `bufferData`, `bufferFree` are the variables of that name; `copied`
is how much the `fread` under way has stored. `Allocate`, `CopyByte` (one byte of `fread`),
`FreadReturn` (lines 126-145 after the call: conversion to `int`, error check, growth when full),
`Finish` (NUL), `Fail`. The conversion is modelled (`CInt`); the assumption `MaxOutput <= IntMax` is
what keeps it harmless and is where the theorems stop: a child that writes 2 GiB is outside them.

**ForkChild.** `ppc` and `cpc` are the next statement of the parent and the child. Every call that
can fail has its failing action, which goes to `exitForkWithError` (or, for `pipe` and `fork`,
returns the error). `ReadByte`, `ReadFull`, `ReadEof`, `ReadInterrupted`, `ReadFails` are one
`fread` and the code after it; `eof` and `ferr` are the flags of the stream, which stay set.
`WaitPid` takes what waitpid() reports with `WUNTRACED | WCONTINUED`: an end, a stop or a
continuation. `info->cpid` is never assigned by the code (`InfoCpid == -1`), so that
`KillChildOnError` never kills. `returnOutput` is the flag of the `ForkInfo`, chosen
in `Init`. The child's part after `forkChild` returns in it is the caller's:
it writes, forks, closes, exits, is killed, stopped, continued (external actions). Siblings are
forks of other threads of the parent while it has the pipe open.

**ForkFds.** One action is one system call on the table `file` of the process followed: up to
`fork()` the caller's, after it either the parent's or the child's, chosen at `Fork`. Initially any
subset of descriptors 0..3 is open and any limit applies, so every call can fail for lack of a
number. `OpenFile` opens a file of the program: by other threads of the parent at any moment while it
is in `forkChild`, and in either process after it has returned; the callback may keep one open too.
When `forkChild` has returned, in the child, in the parent or because `pipe()` failed, the program may
restore its descriptors and call `cleanupFork` or `exitForkWithError` (`CallCleanupFork`,
`CallExitForkWithError`), as often as it likes. In the parent the `ForkInfo` still has the numbers of
the pipe then, and a stream that is closed (`StaleStream`): to `fclose` it again is undefined, and does
nothing, closes any file opened since, or ends the process. After a `pipe()` that failed the `ForkInfo`
has descriptor 0 twice.

**MakePath.** The path has `Depth` components; `node` is what is at each. `Call` is
`createDirectoryFile` up to `make_path`'s first `stat` with its arguments; `PathExists`,
`ChmodPath`, `PathMissing` (umask saved and set to 0), `StatComponent`, `MkdirComponent`,
`ChmodComponent`, `StatFinal`, `MkdirFinal` are one system call each with what follows it up to the
next one. A mode is a set of permission bits. Other programs create a file in place of a missing
component or remove an empty directory; `Crash` is `SIGKILL`.

**NormalizePath.** A path is a sequence of tokens, separators and names. `__splitNames` gives the
sequence `ix` of names, `Gone` for a cleared entry; `i` is the loop's index; the disjuncts of `Next`
are the iterations and the early returns; `path` is the caller's buffer at each moment, `result`
the pointer returned (its text, or `Null`), `end` the offset where `__joinNames` writes its last
NUL. `MallocFails` returns with the buffer as it is. Lengths are bytes (`Length`).

**PathFromEnv.** `at` is where the two functions are; the module extends `NormalizePath`, for the call
they make goes through its steps (`Normalize`). `code` is what `getPathFromEnv` returned, `answer` what
`getPathFromEnvOrDefault` did. `args.denied` is a failing `access()` of the default path.

**FdRealPath.** Three actions, `Fstat`, `Readlink`, `Stat`, with actions of others in between:
rename (also onto an existing file), unlink, creation with reuse of a free inode number, close and
reopening of the descriptor by another thread, reopening in the other process when the path names
one. `Text` is what the kernel shows for a deleted file (`... (deleted)`), also when a file has
that very name.

**LogFile.** Each variable of the two files is a function from processes to values; `pending` is
what is in the buffer of the stream, `opened` the kernel's open files with their offsets (a stream
is an index in it, so that a forked stream shares its offset), `content` the files. A message is
`Drop` without a log file, else `Fprintf` (with the pid `getLogPid()` gives, and what that caches)
and then `Fflush`. `setLogFilePath` and `closeLogFile` take one step for each variable they assign
(`at`): `Fclose`, `ForgetStream`, `ForgetPath`, and then `NoPath` or `StorePath`, `FopenFails` or `Fopen`,
`ClearWarning`. Another thread may fork before any step of a message or of these two: the copy of the
buffer goes to the child, and so do a path without its stream and a stream that is closed (`halfway`
says so of the child until it has been through one of the two calls itself). `Lose` is a message to
a stream that is closed, which is undefined and does nothing here or ends the process (`Killed`). `ForkChild` is a fork by `forkChild()`, which updates the pid;
`ForkByCaller` one by the caller, who does so on every fork or, as the comment in `Logger.c` asks,
only while caching is enabled (`UpdateOn`). `Exit` flushes, `Killed` does not. Five history
variables say what the properties need to know of the past.

**Logger.** Texts are lengths, and tags say which one they are. A call is a sequence of `gates`, the
levels the function compares `sCurrentLogLevel` with before anything is printed, in order:
`logErrorDebug()` is `<<2, 2, 1>>`, its own comparison and those of `logErrorForLogLevelV()` and
`logMessage()`. Each gate is a step (`PassGate`, `StopAtGate`), so that others may change level
and format (`SetCurrentLogLevel`, `SetLogFormatMode`) in between. The tag is chosen at the last gate,
where `getFullLogTag()` puts the prefix before it (`IsPrefixed`), with an `snprintf()` that may change
`errno`. `Format` is `printMessage()`
up to the implementation, with the sizes of its buffers as the macros give them; `Impl` the call
of the implementation and the `errno` put back; `Return` what the calling function does after it.
`needs` is the level that documentation asks for, `seen` the levels in force since the call began.

**TermuxDirs.** The five directories share nothing, so a behaviour follows one of them, chosen in
`Init`, with its `default`. `Check`, `Store` and `ReturnPointer` are the three reads and writes of the
static pointer in a getter (`cached`: it is not `NULL`; it only ever points to `buffer`); between
the first two come the steps of `getPathFromEnvOrDefault` that touch the buffer (`FromEnv`,
`CopyDefault`, `Normalize`, `Access`) and, for the legacy directory, `Normal` and `Convert`. The
variable may have any of its values at each `FromEnv`. Two threads that write to the buffer at
once, which C leaves undefined, may leave either text or a mix (`Torn`). What `normalizePath` makes
of a path is a parameter (`NormalOf`), and so is what it leaves in the buffer when its `malloc()` fails
(`LeftOf`), which the getter does not notice: `NormalizePath` is where both are modelled. A call may pass
a directory of its own in place of the static one (`own`, `DirOf`). `Use` is the rest of
the function the directory was asked for; `Results` is all it may answer, from `TermuxPaths`, where a
path is a sequence of characters because the functions are about single ones. `AnswersRight` compares
them with what they mean for the names of a path (`Names`, a fold over the characters that is written
as a recursive function so that it can be proved about), for paths with no `/` too many (`IsNormal`).

## 3. Runs

| run | asks | size |
|---|---|---|
| `fork_child` (`MCForkChild.cfg`) | forkChild() with a child, a grandchild and a process forked by another thread, all failures, stops and kills: the growing buffer is never written outside, never read into with room 0 and has room for the NUL; the output is complete and in order, the end of file final, the exit code that of the reaped child; and the parent gets out of forkChild() when the child is not left stopped and whoever inherited the pipe ends some day. | 107830 states |
| `fork_child_wait` (`MCForkChildWait.cfg`) | forkChild() can return before its child has exited: waitpid() also reports a stop or a continuation. | 10498 states |
| `fork_fds` (`ForkFds.cfg`) | Every descriptor table and limit forkChild() may meet, standard descriptors closed or not, every redirection and every failing call, with other threads of the parent opening files, and with cleanupFork() and exitForkWithError() called in either process when forkChild() has returned: which file each descriptor refers to, which may be left open, and which of the program's own files forkChild() and its clean up may close. | 166465 states |
| `fork_fds_saved` (`ForkFdsSaved.cfg`) | The saved descriptors of the child are not the original stdout and stderr when these were redirected to /dev/null: they are saved after the redirections. | 27360 states |
| `make_path` (`MCMakePath.cfg`) | Two processes in createDirectoryFile() on one path while other programs create files and remove directories and either is killed: umask restored and respected, no unusable directory left without a kill, 0 returned only for a path that is there at that moment, a directory unless another program put a file in its place, and the whole job done by a call nobody disturbs. | 1852022 states, two minutes |
| `normalize_path` (`MCNormalizePath.cfg`) | normalizePath() on every path of up to four names with single and double separators, both flags: its loop over the index array is the walk of the names with a stack, and the path returned, which the buffer then holds, is the shortest that leads there. | 161416 states |
| `normalize_path_rooted` (`MCNormalizePathRooted.cfg`) | An absolute path whose first name starts with '~' becomes NULL. | 22679 states |
| `path_from_env` (`MCPathFromEnv.cfg`) | getPathFromEnvOrDefault() over the steps of normalizePath(), for every variable of up to three names and two defaults, lengths at the limits, a failing malloc() and a failing access(). | 91692 states |
| `fd_real_path` (`FdRealPath.cfg`) | getRegularFileFdRealPath() while files are renamed, replaced, deleted, inodes reused and descriptors reopened between its three calls. | 164524 states |
| `log_file` (`MCLogFile.cfg`) | Three processes that switch the caching of the pid, set, share, truncate and close log files, are interrupted by forks between fprintf() and fflush() and between any two assignments of setLogFilePath() and closeLogFile(), end and are killed: every line has the pid of the process that logged it, what was logged is kept, no drop is silent, and path and stream agree, but for the forks that come between their assignments. | 699188 states, two minutes |
| `termux_dirs` (`MCTermuxDirs.cfg`) | Two threads that get and use each of the five directories, or pass one of their own, while the variable, the access to the default and memory come and go: a directory handed out stands unless fills overlapped, NULL is never cached, a settled cache stays settled, and paths are compared and prefixed by whole names and within the buffers. | 3131195 states, two and a half minutes |
| `logger` (`MCLogger.cfg`) | Every logging function with every level, format, tag and prefix, lengths at the limits of each buffer, while other threads change level and format between any two reads of them: no line loses its newline, the level decides, tag and prefix stay together, and errno survives but for a tag the prefix is put before. | 1771785 states, one minute |

**Bounds.** `fork_child`: two byte values (one the newline), one grandchild,
one sibling, a pipe of 2 bytes and 4 bytes of output with an initial buffer of 1 byte: the pipe
fills, the buffer is full at a read and at end of file and is doubled up to three times, and each kind
of process is in the race. The
proofs have no such bounds. `fork_fds`: descriptors up to 9 (five used by `forkChild`, four that may
be open at first, one the program opens). `make_path`: two processes, three components, one action of other programs, three bits:
the loop has a first, middle and last component; a third process or more interference adds no
new pair of racing steps. `normalize_path`: every path of up to four names out of `.`, `..`, `~`
and a plain one with one or two separators at each place: the shortest path where `..` looks back
over two cleared entries has four names. `path_from_env`: paths of up to three names, buffer sizes
and limits just below, at and above their lengths. `fd_real_path`: two paths, two inodes, three
actions of others: one per gap, and one before. `log_file`: three processes, so that a child of a
child meets what its grandparent cached; two files, two messages, two calls of `setLogFilePath` or `closeLogFile`: a second call truncates or
leaves the file of the first, with one line before it and one after, and is what a process forked
half way through the first call can go through itself.
`termux_dirs`: two threads, the fewest that race; buffers of 6 and 14 bytes, with variables and
defaults in and out of normal form, with dots that need memory to be removed, in legacy form or not,
too long, the root or unset; executables for every branch of `termuxPrefixPath`, with the documented
size and less; a directory passed by the caller. `logger`: tags
of 0, 6, 23 and 24 bytes (the buffers hold 23 and 24), messages of 0, 4007 and 4100 (around the
size of the smallest buffer), pids of 1 and 7 digits, two levels in force during a call
(`MaxSeen`); the proofs have none of these bounds.

**Fairness** (only `FairSpec` of ForkChild, for `ForkChildEnds`). Every step of the parent and the
setup of the child is code that a scheduler runs (`WF` for the parent; `SF` for the child, because a
stop disables it now and then). The fairness of the parent leaves out the steps in which a call it
waits in breaks off (`CallBroken`: an interrupted or failing read, a failing `waitpid`): nothing says
that a waiting call is ever interrupted, and were that assumed, `forkChild` would end whatever the
child does. A process that has exited becomes a zombie. That the child exits
(`SF ChildExits`) and that every process that inherited the pipe ends or closes it (`WF OtherExits`)
is what the caller must see to: without it `forkChild` is meant to wait. The property supposes that
the child is not left stopped for ever.

**Deadlock** is checked in `termux_dirs` and `logger`, where a new call can always be made. The other
modules are one call that ends, or processes that do (`LogFile`).

## 4. Proofs

| theorem | says | module |
|---|---|---|
| `SizesCorrect` (inductive invariant) | The inductive invariant of the buffer sizes by themselves, for every initial size, every output of up to INT_MAX bytes and every chunking of it. | `ForkChildProofs` |
| `NeverOutOfBounds` (StoresInBounds) | fread() never stores outside the allocation, for every initial size, output of up to INT_MAX bytes and pipe. | `ForkChildProofs` |
| `AlwaysRoomLeft` (RoomLeft) | fread() is never asked for zero bytes and the NUL always fits. | `ForkChildProofs` |
| `ForkCorrect` (inductive invariant) | The inductive invariant of forkChild(), for any number of grandchildren and siblings and any output. | `ForkChildProofs` |
| `NothingIsLost` (NothingLost) | While the parent reads, buffer and pipe together are exactly what was written. | `ForkChildProofs` |
| `EofFinal` (EofIsFinal) | After the end of file nobody can write to the pipe. | `ForkChildProofs` |
| `CompleteOutput` (OutputComplete) | The caller is handed all that was ever written, less one newline. | `ForkChildProofs` |
| `FaithfulExitCode` (ExitCodeFaithful) | An exit status returned is that of the reaped child. | `ForkChildProofs` |
| `CaptureRefinement` (ImplementsCapture) | forkChild() implements Capture. | `ForkChildProofs` |
| `FdsCorrect` (inductive invariant) | The inductive invariant of the descriptor tables: where the ends of the pipe, /dev/null, the saved descriptors and the caller's files are at each step, for any limit on descriptors and any of the caller's open at first. | `ForkFdsProofs` |
| `OutputGoesToPipe` (ChildOutputGoesToPipe) | forkChild() returns in the child with stdout and stderr, and nothing else, on the write end of the pipe, exactly when both were open at the call. | `ForkFdsProofs` |
| `RestoreStops` (RestoreStopsSending) | A child called with stdout and stderr open that restores the saved descriptors holds neither end of the pipe, and a stream it did not redirect to /dev/null goes where it did at the call. | `ForkFdsProofs` |
| `NoneLeft` (NoDescriptorLeft) | forkChild() leaves neither end of the pipe nor /dev/null open in the parent; in the child, when stdout and stderr were open at the call, no read end, and /dev/null only on redirected streams and the saved copies of those. When one was closed at the call, the theorem says on which numbers the read end and /dev/null may stay. | `ForkFdsProofs` |
| `CallerFilesKept` (CallerFilesStayOpen) | No step of either process, cleanupFork() and exitForkWithError() after the return included, closes a file that was open at the call, standard descriptors aside, and none closes a file opened since, but for the steps the property names: the parent's close() after fclose(), its first cleanupFork() after a return, descriptor 0 after a pipe() that failed, and the standard numbers of the child. | `ForkFdsProofs` |
| `MakerCorrect` (inductive invariant) | The inductive invariant of the umask, for any number of processes, any depth, umasks and modes. | `MakePathProofs` |
| `UmaskIsRestored` (UmaskRestored) | Every return of createDirectoryFile() leaves the umask of the process as it was. | `MakePathProofs` |
| `UmaskIsRespected` (UmaskRespected) | No directory made or changed is more open than the umask allows, but for u+wx. | `MakePathProofs` |
| `PathCorrect` (inductive invariant) | The inductive invariant of the path: it is a tree, a closed directory is being opened or its maker was killed, and a process that is alone has made all it has passed. | `MakePathProofs` |
| `NoClosedDirectory` (NoClosedDirectoryLeft) | No directory is left without permissions unless a process was killed, for any number of processes, components, umasks and modes. | `MakePathProofs` |
| `AloneMakes` (AloneDoesItsJob) | A process that is alone makes the path with the modes asked for if it can be made, and fails only if it cannot. | `MakePathProofs` |
| `SuccessIsMade` (SuccessMeansMade) | A call succeeds only if the path is there at that moment, and it is a directory unless another program put a file there, however many processes make and remove it. | `MakePathProofs` |
| `PathCorrect` (PathIsStreams) | Path and stream agree and no closed stream is written to, in any number of processes, but inside setLogFilePath() and closeLogFile() while they change the two one after the other, and in a process that was forked there by another thread and has called neither since. | `LogFileProofs` |
| `KeepCorrect` (LoggedIsKept) | What has been logged is in the file and in order, for any number of processes that share a stream, fork half way through a line and are killed, whoever updates the pid; copies of a line a fork found half way are excepted, and files that were truncated while in use elsewhere. | `LogFileProofs` |
| `DropsExcused` (DropsAnnounced) | No message is dropped before stderr has been told, or the caller closed the log file; and only a process forked inside setLogFilePath() or closeLogFile() prints to a stream that was closed. | `LogFileProofs` |
| `PidCorrect` (PidIsWriters) | When every fork updates the pid, every line has the pid of its writer, for any processes, files and order of calls. | `LogFileProofs` |
| `LogCorrect` (LogInv) | The types, PathIsStreams with its exceptions and that cached pids are the process's own, in every process. | `LogFileProofs` |
| `NormCorrect` (inductive invariant) | The inductive invariant of normalizePath(), for paths of any length: the entries of its index array that are left are the stack of the walk over the names passed. | `PathFromEnvProofs` |
| `WalkedResult` (ResultIsWalked) | What normalizePath() returns is the shortest path to where the path given leads, for every path that does not begin with '/~' and both flags. | `PathFromEnvProofs` |
| `NoDotsLeft` (DotsAreGone) | No '.' is left as a name in a path that was walked. | `PathFromEnvProofs` |
| `WritesInPlaceAlways` (WritesInPlace) | Joining the names in place writes nothing after the NUL of the path when '..' is removed, for paths of any length. | `PathFromEnvProofs` |
| `LoopIsWalk` (ImplementsWalk) | Refinement: every step of the loop over the index array is a step of the walk with a stack, or a stutter. | `PathFromEnvProofs` |
| `EnvCorrect` (inductive invariant) | The inductive invariant of the two functions: the buffer holds what normalizePath() has made so far of the variable or the default, and that fits. | `PathFromEnvProofs` |
| `BufferHoldsPath` (FitsInBuffer) | What the caller's buffer holds fits in it with its NUL at every step, and a path found is within the maximum, for every path, size and limit. | `PathFromEnvProofs` |
| `AnswerIsAPath` (AnswerIsPath) | An answer is never empty, and absolute when that was asked, also after a malloc() that failed. | `PathFromEnvProofs` |
| `AnswerIsNormalForm` (AnswerIsNormal) | Callers that ask for an absolute path without '..' get the normal form of the variable or the default, although the pointer normalizePath() returns is ignored. | `PathFromEnvProofs` |
| `AnswerIsTheFile` (AnswerNamesTheFile) | A path returned names the very file the descriptor referred to, for any paths, inodes and number of renames, deletions and reused inodes in between. | `FdRealPathProofs` |
| `UntouchedIsFound` (FoundWhenUntouched) | A regular file that nothing touches is found, whatever its path and the other files. | `FdRealPathProofs` |
| `DirectoryStands` (HandedPathStands) | A directory handed out never changes unless fills disturbed each other, and is made of a source: its normal form or, when normalizePath() had no memory, what that left of it. For any threads, environment, defaults, sizes and calls. | `TermuxDirsProofs` |
| `NullIsFailure` (NullMeansFailure) | A getter returns NULL only if a fill failed during the very call. | `TermuxDirsProofs` |
| `StaysSettled` (SettledForGood) | Once there is a path and no fill is under way, none ever begins again and the path stays, however fills overlapped before. | `TermuxDirsProofs` |
| `PrefixAlwaysFits` (PrefixFits) | termuxPrefixPath() with a buffer of the documented least size always finds room and writes outside no buffer, for every executable and every prefix that was found, or that the caller passed and that is shorter than TERMUX__PREFIX_DIR___MAX_LEN. | `TermuxDirsProofs` |
| `AnswersAreRight` (AnswersRight) | A normal path is said to be under a directory if and only if it has its names and one more, when the directory is normal, as one is that a caller passes or that was found without fills that disturb each other and without a want of memory; and an executable whose first or second name is 'bin' gets the prefix's names before it. For paths of any length, if normalizePath() makes sequences of characters of such. | `TermuxDirsProofs` |
| `LinesEnd` (LineEndsInNewline) | No line loses its newline, for every length of message, tag, prefix and text of errno. | `LoggerProofs` |
| `LevelIsObeyed` (LevelDecides) | The level in force decides whether a message is printed, however often it changes during the call. | `LoggerProofs` |
| `TagsTogether` (TagAndPrefixAgree) | setDefaultLogTagAndPrefix() changes both or none, for tags of every length. | `LoggerProofs` |
| `ErrnoIsKept` (ErrnoKept) | errno is the same after a call as before it, except after logStrerrorMessage() of a code by itself, and after a call of any but the logStrerror*() functions with a tag that the prefix is put before. | `LoggerProofs` |

All are proved for every value of the constants that satisfies the named assumptions
(`SizesAssumption`, `ProcessesAssumption`, `ValuesAssumption`, `FdAssumption`, `MakePathAssumption`, `LogAssumption`,
`TokensAssumption`, `PathFromEnvAssumption`, `FdRealPathAssumption`, `TermuxPathsAssumption`, `TermuxDirsAssumption`,
`LoggerAssumption`). TLC evaluates all of them. Three theorems, `WalkedResult`, `LoopIsWalk` and
`AnswerIsNormalForm`, also assume `NoRootedTilde`: no path given is absolute with a first name that
begins with `~`. For such a path the code returns NULL where the walk does not, which is the
disagreement the run `normalize_path_rooted` shows (section 5); the passing runs leave those paths
out the same way (`RootedTilde = FALSE`), and the other six theorems of `PathFromEnvProofs` have them.
`AnswersAreRight` assumes `NormalOfMakesPaths`: what `normalizePath` makes of a sequence of characters,
or leaves of it without memory, is one. `TermuxDirsAssumption` says that only of the paths given, because TLC cannot enumerate all
sequences; the theorem needs it of whatever fills that disturb each other leave in the buffer.

*OutputBuffer.* (`SizesCorrect` is about the sizes by themselves, the other two about `forkChild`.) `SizesInv` adds to the two properties the bound on the output: without
`bufferData + copied <= MaxOutput` the conversion to `int` could turn negative.

*ForkChild.* `ForkInv` has the sizes of `OutputBuffer` (the parent's steps are steps of that module, so
`SizesInv` is carried over by lemma), `LengthInv` that links them with the bytes stored, `StreamInv`
for the bytes themselves, `EofInv` for who can still write, `ResultInv` for what is returned. The
step that reads to the end of file needs all four: it fires only when `writers` is empty, so that
`EofIsFinal` holds and keeps holding, which makes `stored = sent` final, which is what `Capture`'s
`Deliver` hands over. `CaptureRefinement` maps each action to a step of `Capture` or to a
stutter.

*ForkFds.* `FdInv` says at every step where each end of the pipe, `/dev/null` and the saved copies are.
Because numbers are taken lowest first, all depends on which standard ones are free: at most one of
them before `/dev/null` is opened, which takes it, and none after (`StdInUseInv`), so that saved copies
are never standard numbers (`SavedInv`). The ends of the pipe are where the `ForkInfo` says unless a
standard number was free for one of them (`PipeInv`, `WriteEndInv`, `ParentInv`), and `NullInv`,
`OutputInv` and `RestoredInv` follow what is on the other descriptors. `PlaceInv` says the same of `/dev/null` and the read end for
the case that both stdout and stderr were open at the call, and where they may be when not.
`CallerFilesKept` is an action property. Files open at the call keep their numbers, which the `ForkInfo`
never holds (`CallerInv`), so that no step closes one; files opened since may have taken numbers it
still holds, and the theorem shows step by step that only the steps `CallerFilesStayOpen` names can
close one.

*MakePath.* `MaskInv` says at which points of the code the process has its own umask, that
`sOriginalUmask` is it from the first step on, and that the modes were computed from it. The last
two are what makes `UmaskRespected`, an action property, follow. The path needs more (`PathInv`):
below something missing there is nothing (`IsTree`); until another program acts a path that was
found to be a directory stays one and a file at its end cannot be reached (`QuietInv`); a directory
of mode 0 can be reached and has a process about to open it, or one that was killed (`ClosedInv`); and
a process that is alone has made what it has passed and finds the rest as it was (`JobInv`, the
invariant of the loop). The assumption that `S_IWUSR` and `S_IXUSR` are different bits is part of
`MakePathAssumption`.

*LogFile.* `FileInv` has the types, that path and stream agree (`PathIsStreams`, which says where a
buffer is written to, with what each step of `setLogFilePath` and `closeLogFile` has done so far and
without the processes that were forked half way: `ProcInv`) and, where every fork updates the pid, that the pid that may be cached is the
process's own and so is that of every line in a buffer, also in a copied one, and in a file. The
theorems about pids assume `UpdateOn = "everyFork"`: with `"cacheEnabled"` TLC finds them violated
(section 5). `LoggedIsKept` assumes nothing of the sort. Its invariant (`KeepInv`) is that a file
nobody truncated while it was in use has one open file, whose offset is its end (`EndInv`), so that a
buffer that is written is appended (`WriteAtEnd`); that a buffer holds at most one line that no
`fork` has copied, the last, which its process is about to flush and which is later than its lines
in the files (`FreshInv`); and that a process that is not running has no stream (`IdleInv`), so that a
file opened by nobody else is not in use. `DropsAnnounced` needs that a process without a stream that
need not warn has warned (`ExcusedInv`), and from `ProcInv` that only a process forked half way has a
closed stream outside the two calls. `PathCorrect` assumes nothing of pids.

*NormalizePath.* The model's operators are folds over the path, and the induction theorems of the
library take an operator as parameter, so `PathFromEnvProofs` begins with induction of its own: the
least number principle (`LeastNumber`) gives a sequence of least length for which a fact fails, and
from that come the equations of each fold for the empty sequence and for `Append`. The facts about
paths rest on these: removing double separators keeps the names and lengthens nothing (`OnceKeeps`),
and joining names gives a path with those names and a length that is found from theirs (`JoinedShape`). `NormInv` has five parts. `LoopInv` is the loop's: before the position
every entry is its name or cleared, after it none is cleared, and the names left before it are
exactly the stack of the walk over the names passed (`LoopWalk`). Where `..` looks back over cleared
entries, the greatest index left is therefore the top of that stack. `EndsInv` and `DoneInv` carry the
result through `__joinNames`, the trimming of the ends and each early return to `Expected`, the walk
of the whole path; `Shorter` is what `PathFromEnv` needs and `InPlace` counts the bytes of the names
left. For `LoopIsWalk` the iterations map to steps of `PathWalk` (a name is `Down`, `.` is `Stay`,
`..` is `Up`, `UpFromRoot` or, where it cannot be removed, `GetLost`), all else to a stutter.

*PathFromEnv.* `EnvInv` says at each point of the two functions what the buffer holds: `Holds(p)` is
that it was filled with `p`, so that `NormInv` is about `p`, and `Shorter` with the length that was
compared before the copy gives `FitsInBuffer`. After `normalizePath` has returned a pointer, the
buffer is what it points to (`DoneInv`), which is why ignoring the pointer is harmless unless it is
`NULL`; for absolute paths `DoneInv` excludes that or, after `/~`, the buffer still begins with a
separator, which is enough for `AnswerIsPath`.

*FdRealPath.* An answer is right although `stat` shows only the inode, because of two facts that hold
whatever others do: two files that are there at the same time, at a path or behind a descriptor, have
different inodes (`InodesDiffer`), and unless another thread closes `N` it still refers to the file
`fstat` saw, which keeps that inode from being used again (`HeldInv`). Each action of others keeps
`InodesDiffer` because it leaves no file that was not there, or makes one with an unused inode.
`UntouchedInv` says how far the call is on a file that nothing touches.

*TermuxDirs.* `TermuxDirsInv` joins the types, `NullMeansFailure` and two accounts of the buffer.
`AloneInv` is for fills that never overlapped: at most one thread is filling, the buffer holds what
its step says (a source, what `normalizePath` made of it, the legacy form of that; `Made` has what it
leaves without memory too, from the first time on that it had none), and nobody fills once there is a path.
`SameInv` is for fills that overlapped but all copied one text that needs no change: the buffer is
empty or that text, whoever wrote last. `HandedPathStands` follows from either. `StaysSettled` needs
no more than that a fill begins only when the pointer is `NULL`. `PrefixAlwaysFits` rests on what
a thread that uses the directory has asked for (`CallInv`), on the length the assumption gives a prefix
that is passed, on the length of what the buffer can
hold when it is undisturbed, and on lemmas about the lengths of `TermuxPaths`' operators.

`AnswersAreRight` compares characters with names, for paths of any length. `Scanned` is shown to be
the one function that scans a path (`ScanUnique`), which gives its equation for `Append`
(`NamesStep`); by induction over sequences (`SeqInduction`, from the least number as for `PathFromEnv`)
the names of two joined paths are known (`NamesOfConcat`, `NamesOfJoin`) and a path with no `/` too many
is determined by its names (`NamesDetermine`). So a normal path begins with the characters of a
directory and a `/` if and only if its names begin with the directory's (`UnderByNames`): without the
`/` that is false of `/d/p` and `/d/pp`, which is the mutation of `DirSubPath`. `PrefixByNames` finds the
first `bin` of an executable where `termuxPrefixPath` finds the first `/bin/`, at its start or
after a name of three bytes. `UsedIsNormal` says that a directory that was found has the form these ask
for, unless fills disturb each other or had no memory: sources are absolute (`CallInv`), and the legacy form of a path is normal (`LegacyIsNormal`).
`TextInv` is the invariant that buffer and copies are sequences of characters.

*Logger.* `LoggerInv` adds to `LineEndsInNewline` and `TagAndPrefixAgree` that the tags fit their
buffers (`TagsFit`, which bounds the longest line), what `errno` and the saved `errnoCode` are at each
point of a call that is not one of the two kinds `ErrnoKept` excepts (`ErrnoInv`), that for every gate passed a level as high was seen (`GateInv`), and
that no line is left when no call is under way (`IdleInv`). The length of a line is an arithmetic
lemma for each format.

*Only model-checked*: liveness (`ForkChildEnds`) and what rests on ENABLED, which are out of the
prover's reach. Every other property of a passing run is stated by one of the theorems above.

## 5. Where the code and its documentation disagree

* **ReturnsAfterChildExit** (run `fork_child_wait`, `src/lib/termux-core_nos_c/tre/src/unix/os/process/UnixForkUtils.c:162`): waitpid() is called with WUNTRACED | WCONTINUED, so it also returns when the child is stopped or continued, after the child has closed its output: forkChild() then returns with the child alive and unreaped, and with the number of the signal (or 255) as exit code. The comment at src/lib/termux-core_nos_c/tre/src/unix/os/process/UnixForkUtils.c:160 says "Wait for child to finish." and :161 "If in parent, wait for child to exit."
* **SavedAreOriginal** (run `fork_fds_saved`, `src/lib/termux-core_nos_c/tre/src/unix/os/process/UnixForkUtils.c:54`): stdoutFd and stderrFd are made by dup() at lines 54 and 59, after redirectStdFdToDevNull() at 46-47: with redirectChildStdoutToDevNull or redirectChildStderrToDevNull they are copies of /dev/null, and a child that restores them does not get back the stdout or stderr it was started with. src/lib/termux-core_nos_c/tre/include/termux/termux_core__nos__c/v1/unix/os/process/UnixForkUtils.h:18 says "Original stdout fd of child.", :19 "Original stderr fd of child.", and the comment at src/lib/termux-core_nos_c/tre/src/unix/os/process/UnixForkUtils.c:53 "Copy original stdout/stderr in case need to restore."
* **AbsoluteIsNeverNull** (run `normalize_path_rooted`, `src/lib/termux-core_nos_c/tre/src/unix/file/Canonicalize.c:223`): `j == 0 && stringStartsWith(ix[j], "~")` does not ask for a relative path, so `/~/..` gives NULL: for an absolute path '~' is a directory like any other. src/lib/termux-core_nos_c/tre/include/termux/termux_core__nos__c/v1/unix/file/UnixFileUtils.h:50-51 says "If path is an absolute path, then path above rootfs will reset to `/` and any remaining path will be kept as well".

Seen while modelling, without a run of their own:

* `__joinNames` (`unix/file/Canonicalize.c:123`) writes its last NUL one byte past the NUL of the
  string when no name was cleared, which needs `removeDoubleDot` to be false. `WritesInPlace` holds
  with `removeDoubleDot`, which all callers in this repository pass.
* `..` and `../` become NULL, `/..` and `/../` become `/`, also without `removeDoubleDot`
  (lines 134, 147-151), although the header (`UnixFileUtils.h:42-43`) calls it optional.
* After the loop of `make_path` any file that `stat` finds at the path passes for the directory
  (`UnixFileUtils.c:530`), unlike before it (line 475): a regular file another program creates there
  in between makes it return 0. `SuccessMeansMade` has that case as its second disjunct.
* With a slash at the end of the path the last component too is made with the mode of the parents
  (`UnixFileUtils.c:504`). The documentation does not say which mode is asked for then, and
  `AloneDoesItsJob` follows the code.
* `setLogFilePath(getLogFilePath())` sets no log file and returns 0: `closeLogFile` empties the
  buffer the argument points to (`FileLoggerImpl.c:55, 97`).
* `getPathFromEnv` ignores what `normalizePath` returns (`UnixFileUtils.c:346`); only an empty buffer
  counts as null. With `ensureAbsolute` false, `.` and `../a` give 0 and leave `.` and `..` in the
  buffer, although "Paths may become null if `ensureAbsolute()` is not passed" and "`1` if valid path
  is not found" (`UnixFileUtils.h:255-263`). All callers in this repository ask for an absolute path.
* The pid: "if enabling caching, then call `updateLogPid()` on each fork manually"
  (`Logger.c:55-56`) is not enough with `forkChild()`, which stores the pid of its child whether it is
  cached or not. A child of that child, forked without an update while caching is off, logs its
  parent's pid once caching is turned on. Set `UpdateOn = "cacheEnabled"` in `MCLogFile.cfg` to see it.
* `LOGGER_FULL_TAG_MAX_LENGTH` is `50 + 1` without parentheses, so that subtracting it adds 1
  (`Logger.h:143`, `Logger.c:198, 206`). A default tag or a prefix with a tag of up to 23 bytes is
  exactly safe (`LineEndsInNewline`); a full tag of 48 to 50 bytes with a message at the limit loses
  its newline.
* `logErrorForLogLevel(LOG_LEVEL__OFF, ...)` returns `true` at level off without printing
  (`Logger.c:304-313`), which `LevelDecides` names as its exception. `logStrerrorMessage()` called by
  itself does not restore `errno` as the functions around it do.
* `isPathInDirPath` returns `bool`: the -1 for a failing `asprintf` reads 1 (`UnixFileUtils.c:232`), the
  answer "not under it". With `ensureUnder` false it still answers 1 for the directory itself
  (line 239 compares with the `/` appended).
* `binMatchIndex == executablePath + 4` also holds for `/o/b/bin/s`, which is not of the form
  `/xxx/bin` of the comment (`TermuxFile.c:322-323`). `AnswersRight` asks nothing of such a path.
* The getters do not look at what `normalizePath` returns (`UnixFileUtils.c:346, 392`): when its
  `malloc()` fails, a path with its dots is cached and handed out although normalization was asked for.
  `HandedPathStands` and `AnswersRight` except that case by name (`noMemory`).
* `printMessage` saves `errno` (`Logger.c:184`) after `getFullLogTag` has called `snprintf` (line 271), so
  that a tag with a prefix can cost the caller its `errno` in all but the `logStrerror*` functions.
* A fork by another thread inside `setLogFilePath` or `closeLogFile` leaves the child with a path and no
  stream (`FileLoggerImpl.c:74-76`) or with a stream that is closed (`93-94`). `PathIsStreams` and
  `DropsAnnounced` except that child until it sets or closes its log file.
* `cleanupFork` in the parent after `forkChild` has returned, and after a failed `pipe()`, closes numbers
  it no longer or never owned (`UnixForkUtils.c:168-170, 193-223`; `UnixForkUtils.h:33-44`). The
  exceptions of `CallerFilesStayOpen` are these.
* The legacy default directory is to be used "if it is readable and executable"
  (`TermuxFile.h:184-191`), but no access is checked (`TermuxFile.c:109`).
* With a buffer below the documented size, `termuxPrefixPath` writes `<prefix>/bin` outside it
  (`TermuxFile.c:317, 338`): `PrefixFits` asks for that size.
* `getRegularFileFdRealPath` looks up the descriptor number of `/proc/<pid>/fd/<num>` in its own
  process (`UnixFileUtils.c:160`), so that files of other processes are not found, although
  `UnixFileUtils.h:13` includes such paths.

## 6. Not modelled

Stateless wrappers (`strerror`, signal names, uuid, string helpers), the environment helpers, build
files and documentation have no behaviour of their own to explore. `absolutizePath` is a call of
`getcwd` and a concatenation; the SELinux context one read and a regular expression; the scripts
choose a generated function by their arguments; the test runner is a sequential script. Of the
logger, which implementation prints and to which stream is left out, and so are two threads in
`strcpy` of one tag, a data race nothing in the code allows for. Two threads of one process in
`createDirectoryFile` are excluded by its documentation (`UnixFileUtils.h:322-324`). What is said of
a `forkChild` whose caller has closed stdout or stderr is where the output then does not go
(`ChildOutputGoesToPipe`), which numbers the read end and `/dev/null` may be left on (`NoDescriptorLeft`),
and that nothing else is closed for it. The truncation of `readlink` at the
buffer size is left out of `FdRealPath`.

## 7. Plan

Done, in this order: (A) `OutputBuffer`, `Capture`, `ForkChild` and proofs; (B) `ForkFds`, then with
closed standard descriptors and a second thread, and proofs; (C) `MakePath` and proofs; (D) `PathWalk`,
`NormalizePath` and proofs; (E) `PathFromEnv` and proofs; (F) `FdRealPath` and proofs; (G) `LogFile` and proofs; (H) `TermuxPaths`,
`TermuxDirs` and proofs; (I) `Logger` and proofs.

What is worth doing next:

* a process that another thread of the parent forks and executes between `pipe()` and the close of
  the write end: the pipe is not close-on-exec, so it is a sibling of `ForkChild` that may never end.

