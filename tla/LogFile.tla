------------------------------ MODULE LogFile ------------------------------
(***************************************************************************)
(* The logger writing to a file (FileLoggerImpl.c) with the pid of the     *)
(* process in every line (Logger.c), in several processes that fork.       *)
(*                                                                         *)
(* All of the logger's variables are static, so that fork() copies them,   *)
(* the bytes waiting in the stream included, while the open file and its   *)
(* offset are shared.  A line is written in two steps, fprintf() and       *)
(* fflush(), and setLogFilePath() and closeLogFile() take one for each     *)
(* variable they assign: another thread of the process may fork between    *)
(* any two of them, and the child goes on in that thread, out of the call. *)
(***************************************************************************)
EXTENDS Integers, Sequences, Functions

CONSTANTS
  Processes, First,  \* processes, and the one there is at first
  Files,             \* paths that fopen() can open
  Caching,           \* what setCacheLogPid() is called with
  Null,
  UpdateOn,          \* when a caller that forks by itself updates the pid:
                     \* on "everyFork", or when "cacheEnabled"
  MaxLines,          \* bound: messages logged
  MaxCalls,          \* bound: calls of setLogFilePath() and closeLogFile()
  MaxOpened          \* bound: files opened

(* A line of the log, numbered in the order in which they are logged. *)
Lines == [writer: Processes, pid: Processes, n: Nat]

ASSUME LogAssumption ==
  /\ First \in Processes
  /\ Null \notin Processes \cup Files \cup Lines
  /\ UpdateOn \in {"everyFork", "cacheEnabled"}
  /\ Caching \subseteq BOOLEAN
  /\ {MaxLines, MaxCalls, MaxOpened} \subseteq Nat

VARIABLES
  running,            \* processes that have been created and not ended
  ended,
  sCacheLogPid, sLogPid,
  sLogFilePath,
  sLogFileStream,     \* the open file of the stream, NoStream or Closed
  sWarnNoLogFileSet,
  pending,            \* lines in the buffer of the stream
  midPrint,           \* between fprintf() and fflush()
  at,                 \* the next step of setLogFilePath() or closeLogFile()
  setting,            \* it is setLogFilePath() that closes the log file
  calls,              \* calls of the two so far
  opened,             \* the open files: file and offset
  content,            \* lines of each file; Null where nothing was written
  lines,              \* messages logged so far
  forkedWith,         \* history: lines that were pending at a fork
  kept,               \* history: lines of each file that must be there
  excused,            \* history: since the last setLogFilePath() it has been
                      \* said that no log file is set, or the caller closed it
  split,              \* history: files opened again while in use elsewhere
  halfway             \* history: forked while path and stream were changed,
                      \* and not itself through either call since

pidVars  == <<sCacheLogPid, sLogPid>>
fileVars == <<sLogFilePath, sLogFileStream, sWarnNoLogFileSet, pending, midPrint>>
callVars == <<at, setting, calls, halfway>>
procVars == <<running, ended>>
diskVars == <<opened, content>>
histVars == <<forkedWith, kept, excused, split>>
vars == <<procVars, pidVars, fileVars, callVars, diskVars, lines, histVars>>

NoStream == 0
Closed == -1      \* the pointer is that of a stream that was closed
IsOpen(p) == sLogFileStream[p] > NoStream

Init ==
  /\ running = {First} /\ ended = {}
  /\ sCacheLogPid = [p \in Processes |-> FALSE]
  /\ sLogPid = [p \in Processes |-> Null]      \* -1
  /\ sLogFilePath = [p \in Processes |-> Null]
  /\ sLogFileStream = [p \in Processes |-> NoStream]
  /\ sWarnNoLogFileSet = [p \in Processes |-> TRUE]
  /\ pending = [p \in Processes |-> <<>>]
  /\ midPrint = [p \in Processes |-> FALSE]
  /\ at = [p \in Processes |-> "out"]
  /\ setting = [p \in Processes |-> FALSE]
  /\ calls = 0
  /\ halfway = [p \in Processes |-> FALSE]
  /\ opened = <<>>
  /\ content = [f \in Files |-> <<>>]
  /\ lines = 0
  /\ forkedWith = {}
  /\ kept = [f \in Files |-> {}]
  /\ excused = [p \in Processes |-> FALSE]
  /\ split = {}

Ready(p) == p \in running /\ ~ midPrint[p] /\ at[p] = "out"

-----------------------------------------------------------------------------
(* The pid.                                                                *)

SetCacheLogPid(p, cache) ==
  /\ Ready(p)
  /\ sCacheLogPid' = [sCacheLogPid EXCEPT ![p] = cache]
  /\ UNCHANGED <<procVars, sLogPid, fileVars, callVars, diskVars, lines, histVars>>

(* getLogPid() *)
GetLogPid(p) == IF sCacheLogPid[p] /\ sLogPid[p] # Null THEN sLogPid[p] ELSE p
CachePid(p)  ==
  sLogPid' = IF sCacheLogPid[p] THEN [sLogPid EXCEPT ![p] = GetLogPid(p)] ELSE sLogPid

-----------------------------------------------------------------------------
(* The stream.  Lines that were written leave the buffer, at the offset of *)
(* the open file, over what is there.                                      *)

WriteAt(old, offset, new) ==
  [k \in 1..(IF Len(old) > offset + Len(new) THEN Len(old) ELSE offset + Len(new)) |->
     IF k > offset /\ k <= offset + Len(new) THEN new[k - offset]
     ELSE IF k <= Len(old) THEN old[k] ELSE Null]

Written(p) ==
  IF ~ IsOpen(p) \/ pending[p] = <<>> THEN content
  ELSE LET o == opened[sLogFileStream[p]]
       IN  [content EXCEPT ![o.file] = WriteAt(@, o.offset, pending[p])]

Moved(p) ==
  IF ~ IsOpen(p) THEN opened
  ELSE [opened EXCEPT ![sLogFileStream[p]].offset = @ + Len(pending[p])]

(* printMessageToFile() with no log file. *)
Drop(p) ==
  /\ Ready(p) /\ lines < MaxLines
  /\ sLogFileStream[p] = NoStream
  /\ lines' = lines + 1
  /\ CachePid(p)
  /\ sWarnNoLogFileSet' = [sWarnNoLogFileSet EXCEPT ![p] = FALSE]
  /\ excused' = [excused EXCEPT ![p] = @ \/ sWarnNoLogFileSet[p]]
  /\ UNCHANGED <<procVars, sCacheLogPid, sLogFilePath, sLogFileStream, pending,
                 midPrint, callVars, diskVars, forkedWith, kept, split>>

(* fprintf() to a stream that was closed: at best nothing happens; that it *)
(* ends the process is Killed.                                             *)
Lose(p) ==
  /\ Ready(p) /\ lines < MaxLines
  /\ sLogFileStream[p] = Closed
  /\ lines' = lines + 1
  /\ CachePid(p)
  /\ UNCHANGED <<procVars, sCacheLogPid, fileVars, callVars, diskVars, histVars>>

(* printMessage() and fprintf() *)
Fprintf(p) ==
  /\ Ready(p) /\ lines < MaxLines
  /\ IsOpen(p)
  /\ lines' = lines + 1
  /\ CachePid(p)
  /\ pending' = [pending EXCEPT ![p] =
                   Append(@, [writer |-> p, pid |-> GetLogPid(p), n |-> lines'])]
  /\ midPrint' = [midPrint EXCEPT ![p] = TRUE]
  /\ UNCHANGED <<procVars, sCacheLogPid, sLogFilePath, sLogFileStream,
                 sWarnNoLogFileSet, callVars, diskVars, histVars>>

Keep(p) ==
  kept' = [kept EXCEPT ![opened[sLogFileStream[p]].file] = @ \cup Range(pending[p])]

\* mutation: the stream is not flushed
Fflush_Not(p) ==
  /\ p \in running /\ midPrint[p]
  /\ midPrint' = [midPrint EXCEPT ![p] = FALSE]
  /\ Keep(p)
  /\ UNCHANGED <<procVars, pidVars, sLogFilePath, sLogFileStream, pending, diskVars,
                 sWarnNoLogFileSet, callVars, lines, forkedWith, excused, split>>

Fflush(p) ==
  /\ p \in running /\ midPrint[p]
  /\ midPrint' = [midPrint EXCEPT ![p] = FALSE]
  /\ content' = Written(p)
  /\ opened' = Moved(p)
  /\ pending' = [pending EXCEPT ![p] = <<>>]
  /\ Keep(p)
  /\ UNCHANGED <<procVars, pidVars, sLogFilePath, sLogFileStream,
                 sWarnNoLogFileSet, callVars, lines, forkedWith, excused, split>>

-----------------------------------------------------------------------------
(* setLogFilePath() and closeLogFile(), which it begins with.              *)

CloseFirst(p) ==
  /\ Ready(p)
  /\ calls < MaxCalls
  /\ calls' = calls + 1
  /\ at' = [at EXCEPT ![p] = IF sLogFileStream[p] = NoStream THEN "forget" ELSE "fclose"]

CloseLogFile(p) ==
  /\ CloseFirst(p)
  /\ excused' = [excused EXCEPT ![p] = @ \/ sLogFileStream[p] # NoStream]
  /\ UNCHANGED <<procVars, pidVars, fileVars, setting, halfway, diskVars, lines,
                 forkedWith, kept, split>>

\* mutation: the warning is printed once and for all
SetLogFilePath_Warned(p) ==
  /\ CloseFirst(p)
  /\ setting' = [setting EXCEPT ![p] = TRUE]
  /\ excused' = [excused EXCEPT ![p] = FALSE]
  /\ UNCHANGED <<procVars, pidVars, fileVars, halfway, diskVars, lines,
                 forkedWith, kept, split>>

SetLogFilePath(p) ==
  /\ CloseFirst(p)
  /\ setting' = [setting EXCEPT ![p] = TRUE]
  /\ sWarnNoLogFileSet' = [sWarnNoLogFileSet EXCEPT ![p] = TRUE]
  /\ excused' = [excused EXCEPT ![p] = FALSE]
  /\ UNCHANGED <<procVars, pidVars, sLogFilePath, sLogFileStream, pending,
                 midPrint, halfway, diskVars, lines, forkedWith, kept, split>>

(* fclose() flushes.  Of a stream that was closed before it does nothing,  *)
(* or ends the process, which is Killed.                                   *)
Fclose(p) ==
  /\ p \in running /\ at[p] = "fclose"
  /\ at' = [at EXCEPT ![p] = "null"]
  /\ pending' = [pending EXCEPT ![p] = <<>>]
  /\ sLogFileStream' = [sLogFileStream EXCEPT ![p] = Closed]
  /\ content' = Written(p)
  /\ opened' = Moved(p)
  /\ UNCHANGED <<procVars, pidVars, sLogFilePath, sWarnNoLogFileSet, midPrint,
                 setting, calls, halfway, lines, histVars>>

ForgetStream(p) ==
  /\ p \in running /\ at[p] = "null"
  /\ at' = [at EXCEPT ![p] = "forget"]
  /\ sLogFileStream' = [sLogFileStream EXCEPT ![p] = NoStream]
  /\ UNCHANGED <<procVars, pidVars, sLogFilePath, sWarnNoLogFileSet, pending,
                 midPrint, setting, calls, halfway, diskVars, lines, histVars>>

(* The buffer of the path is made empty as well, so that a path that       *)
(* getLogFilePath() returned is empty when setLogFilePath() goes on.       *)
ForgetPath(p) ==
  /\ p \in running /\ at[p] = "forget"
  /\ at' = [at EXCEPT ![p] = IF setting[p] THEN "store" ELSE "out"]
  /\ setting' = [setting EXCEPT ![p] = FALSE]
  /\ sLogFilePath' = [sLogFilePath EXCEPT ![p] = Null]
  /\ halfway' = [halfway EXCEPT ![p] = FALSE]
  /\ UNCHANGED <<procVars, pidVars, sLogFileStream, sWarnNoLogFileSet, pending,
                 midPrint, calls, diskVars, lines, histVars>>

(* NULL, an empty path, or one that is too long. *)
NoPath(p) ==
  /\ p \in running /\ at[p] = "store"
  /\ at' = [at EXCEPT ![p] = "out"]
  /\ UNCHANGED <<procVars, pidVars, fileVars, setting, calls, halfway, diskVars, lines,
                 histVars>>

StorePath(p, f) ==
  /\ p \in running /\ at[p] = "store"
  /\ at' = [at EXCEPT ![p] = "fopen"]
  /\ sLogFilePath' = [sLogFilePath EXCEPT ![p] = f]
  /\ UNCHANGED <<procVars, pidVars, sLogFileStream, sWarnNoLogFileSet, pending,
                 midPrint, setting, calls, halfway, diskVars, lines, histVars>>

\* mutation: a path that cannot be opened is not forgotten
FopenFails_Remembered(p) ==
  /\ p \in running /\ at[p] = "fopen"
  /\ at' = [at EXCEPT ![p] = "out"]
  /\ UNCHANGED <<procVars, pidVars, fileVars, setting, calls, halfway, diskVars, lines,
                 histVars>>

FopenFails(p) ==
  /\ p \in running /\ at[p] = "fopen"
  /\ at' = [at EXCEPT ![p] = "out"]
  /\ sLogFilePath' = [sLogFilePath EXCEPT ![p] = Null]
  /\ UNCHANGED <<procVars, pidVars, sLogFileStream, sWarnNoLogFileSet, pending,
                 midPrint, setting, calls, halfway, diskVars, lines, histVars>>

OthersOn(p, f) ==
  \E q \in running \ {p} : IsOpen(q) /\ opened[sLogFileStream[q]].file = f

(* fopen(f, "w") truncates the file. *)
Fopen(p, f) ==
  /\ p \in running /\ at[p] = "fopen" /\ f = sLogFilePath[p]
  /\ Len(opened) < MaxOpened
  /\ at' = [at EXCEPT ![p] = "unwarn"]
  /\ opened' = Append(opened, [file |-> f, offset |-> 0])
  /\ sLogFileStream' = [sLogFileStream EXCEPT ![p] = Len(opened')]
  /\ content' = [content EXCEPT ![f] = <<>>]
  /\ kept' = [kept EXCEPT ![f] = {}]
  /\ split' = IF OthersOn(p, f) THEN split \cup {f} ELSE split \ {f}
  /\ UNCHANGED <<procVars, pidVars, sLogFilePath, sWarnNoLogFileSet, pending,
                 midPrint, setting, calls, halfway, lines, forkedWith, excused>>

ClearWarning(p) ==
  /\ p \in running /\ at[p] = "unwarn"
  /\ at' = [at EXCEPT ![p] = "out"]
  /\ sWarnNoLogFileSet' = [sWarnNoLogFileSet EXCEPT ![p] = FALSE]
  /\ UNCHANGED <<procVars, pidVars, sLogFilePath, sLogFileStream, pending, midPrint,
                 setting, calls, halfway, diskVars, lines, histVars>>

SetStep(p) ==
  \/ CloseLogFile(p) \/ SetLogFilePath(p)
  \/ Fclose(p) \/ ForgetStream(p) \/ ForgetPath(p)
  \/ NoPath(p) \/ FopenFails(p) \/ ClearWarning(p)
  \/ \E f \in Files : StorePath(p, f) \/ Fopen(p, f)

-----------------------------------------------------------------------------
(* Processes.                                                              *)

Copied(v, p, c) == [v EXCEPT ![c] = v[p]]

(* The steps at which path and stream do not agree. *)
Disagreeing == {"null", "forget", "fopen"}

Fork(p, c, updates) ==
  /\ p \in running /\ c \notin running \cup ended
  /\ running' = running \cup {c}
  /\ sCacheLogPid' = Copied(sCacheLogPid, p, c)
  /\ sLogPid' = IF updates THEN [sLogPid EXCEPT ![c] = c] ELSE Copied(sLogPid, p, c)
  /\ sLogFilePath' = Copied(sLogFilePath, p, c)
  /\ sLogFileStream' = Copied(sLogFileStream, p, c)
  /\ sWarnNoLogFileSet' = Copied(sWarnNoLogFileSet, p, c)
  /\ pending' = Copied(pending, p, c)
  /\ excused' = Copied(excused, p, c)
  /\ forkedWith' = forkedWith \cup Range(pending[p])
  /\ halfway' = [halfway EXCEPT ![c] = halfway[p] \/ at[p] \in Disagreeing]
  /\ UNCHANGED <<ended, midPrint, at, setting, calls, diskVars, lines, kept, split>>

(* forkChild() calls updateLogPid() first thing in the child. *)
ForkChild_Cached(p, c) == Fork(p, c, FALSE)   \* mutation
ForkChild(p, c) == Fork(p, c, TRUE)

ForkByCaller(p, c) == Fork(p, c, UpdateOn = "everyFork" \/ sCacheLogPid[p])

(* The variables of a process that has ended are those of Init. *)
Ends(p) ==
  /\ p \in running
  /\ running' = running \ {p}
  /\ ended' = ended \cup {p}
  /\ sCacheLogPid' = [sCacheLogPid EXCEPT ![p] = FALSE]
  /\ sLogPid' = [sLogPid EXCEPT ![p] = Null]
  /\ sLogFilePath' = [sLogFilePath EXCEPT ![p] = Null]
  /\ sLogFileStream' = [sLogFileStream EXCEPT ![p] = NoStream]
  /\ sWarnNoLogFileSet' = [sWarnNoLogFileSet EXCEPT ![p] = TRUE]
  /\ pending' = [pending EXCEPT ![p] = <<>>]
  /\ midPrint' = [midPrint EXCEPT ![p] = FALSE]
  /\ at' = [at EXCEPT ![p] = "out"]
  /\ setting' = [setting EXCEPT ![p] = FALSE]
  /\ halfway' = [halfway EXCEPT ![p] = FALSE]
  /\ excused' = [excused EXCEPT ![p] = FALSE]
  /\ UNCHANGED <<calls, lines, forkedWith, kept, split>>

(* exit() flushes what is pending; SIGKILL does not. *)
Exit(p) == Ends(p) /\ content' = Written(p) /\ opened' = Moved(p)
Killed(p) == Ends(p) /\ UNCHANGED diskVars

-----------------------------------------------------------------------------

Next ==
  \E p \in Processes :
    \/ \E cache \in Caching : SetCacheLogPid(p, cache)
    \/ Drop(p) \/ Lose(p) \/ Fprintf(p) \/ Fflush(p)
    \/ SetStep(p)
    \/ \E c \in Processes : ForkChild(p, c) \/ ForkByCaller(p, c)
    \/ Exit(p) \/ Killed(p)

Spec == Init /\ [][Next]_vars

-----------------------------------------------------------------------------
(* Properties.                                                             *)

(* Every line has the pid of the process that logged it, whatever was      *)
(* cached before a fork and whenever caching is switched (Logger.c:48-60). *)
PidIsWriters ==
  \A f \in Files : \A line \in Range(content[f]) \ {Null} : line.pid = line.writer

(* A line is in the log file when the call that logged it returns, so that *)
(* a process that is killed loses none, and no line of any process that    *)
(* shares the stream overwrites another or is written twice or out of      *)
(* order, except for lines another thread's fork() found half way.  This   *)
(* is until somebody opens the file again, which truncates it, and for as  *)
(* long as nobody does so while it is in use elsewhere                     *)
(* (FileLoggerImpl.c:28-41).                                               *)
LoggedIsKept ==
  \A f \in Files \ split :
    LET c == content[f]
    IN  /\ kept[f] \subseteq Range(c)
        /\ Null \notin Range(c)
        /\ \A i, j \in 1..Len(c) :
             i < j /\ c[i].writer = c[j].writer /\ {c[i], c[j]} \cap forkedWith = {} =>
               c[i].n < c[j].n

(* A message is dropped only after stderr has been told that no log file   *)
(* is set, once for every attempt to set one, unless the caller closed the *)
(* log file himself (FileLoggerImpl.c:31-37, 54).  A message is lost       *)
(* without that only in a process that was forked while its parent changed *)
(* path and stream (93-96), until it sets or closes the log file itself.   *)
DropsAnnounced ==
  [][\A p \in Processes :
       /\ Drop(p) => excused'[p]
       /\ Lose(p) => halfway[p]]_vars

Steps == {"out", "fclose", "null", "forget", "store", "fopen", "unwarn"}

TypeOK ==
  /\ running \subseteq Processes
  /\ ended \subseteq Processes
  /\ sCacheLogPid \in [Processes -> BOOLEAN]
  /\ sLogPid \in [Processes -> Processes \cup {Null}]
  /\ sLogFilePath \in [Processes -> Files \cup {Null}]
  /\ sLogFileStream \in [Processes -> Int]
  /\ sWarnNoLogFileSet \in [Processes -> BOOLEAN]
  /\ pending \in [Processes -> Seq(Lines)]
  /\ midPrint \in [Processes -> BOOLEAN]
  /\ at \in [Processes -> Steps]
  /\ setting \in [Processes -> BOOLEAN]
  /\ calls \in Nat
  /\ halfway \in [Processes -> BOOLEAN]
  /\ opened \in Seq([file: Files, offset: Nat])
  /\ content \in [Files -> Seq(Lines \cup {Null})]
  /\ lines \in Nat
  /\ forkedWith \subseteq Lines
  /\ kept \in [Files -> SUBSET Lines]
  /\ excused \in [Processes -> BOOLEAN]
  /\ split \subseteq Files

(* The path getLogFilePath() returns is that of the stream messages go to, *)
(* through failed and repeated calls of setLogFilePath(), and no closed    *)
(* stream is written to (FileLoggerImpl.c:49-99).  This is of every        *)
(* process that is not inside one of the two calls while it changes them,  *)
(* nor was forked there by another thread and has not been through such a  *)
(* call itself since.  Lines wait only in an open stream, always.          *)
PathIsStreams ==
  \A p \in Processes :
    /\ IsOpen(p) => sLogFileStream[p] \in 1..Len(opened)
    /\ pending[p] # <<>> => IsOpen(p)
    /\ at[p] \notin Disagreeing /\ ~ halfway[p] =>
         /\ sLogFileStream[p] # Closed
         /\ sLogFilePath[p] = IF IsOpen(p) THEN opened[sLogFileStream[p]].file
                              ELSE Null

(* What PidIsWriters rests on: the pid that may be cached is that of the   *)
(* process, and so is that of every line on its way to a file.             *)
PidsAreOwn ==
  \A p \in Processes :
    /\ sLogPid[p] \in {Null, p}
    /\ \A line \in Range(pending[p]) : line.pid = line.writer

LogInv == TypeOK /\ PathIsStreams /\ PidsAreOwn

=============================================================================
