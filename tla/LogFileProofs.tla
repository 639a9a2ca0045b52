---------------------------- MODULE LogFileProofs ----------------------------
(***************************************************************************)
(* The logger writing to files in processes that fork, for any number of   *)
(* processes, files, lines and calls: its path and stream, that what is    *)
(* logged is kept, that nothing is dropped unannounced and, when every     *)
(* fork updates the pid, the pid in the lines.                             *)
(***************************************************************************)
EXTENDS LogFile, TLAPS

FileRec == [file: Files, offset: Nat]
Content == [Files -> Seq(Lines \cup {Null})]

(* The inductive invariant of the pid holds when every fork updates it. *)
Updated == UpdateOn = "everyFork"

OwnPid(line) == Updated => line.pid = line.writer
OwnPids(c) == \A f \in Files : \A line \in Range(c[f]) \ {Null} : OwnPid(line)

OwnInv ==
  \A p \in Processes :
    /\ Updated => sLogPid[p] \in {Null, p}
    /\ \A line \in Range(pending[p]) : OwnPid(line)

WriterInv == OwnPids(content)

(* The path and the stream of a process, at each step of setLogFilePath()  *)
(* and closeLogFile().                                                     *)
Agree(p) ==
  /\ sLogFileStream[p] # Closed
  /\ sLogFilePath[p] = IF IsOpen(p) THEN opened[sLogFileStream[p]].file ELSE Null

ProcInv(p) ==
  /\ sLogFileStream[p] >= Closed
  /\ IsOpen(p) => sLogFileStream[p] \in 1..Len(opened)
  /\ pending[p] # <<>> => IsOpen(p)
  /\ p \notin running => at[p] = "out"
  /\ at[p] = "null" => sLogFileStream[p] = Closed
  /\ at[p] \in {"forget", "store", "fopen"} => sLogFileStream[p] = NoStream
  /\ at[p] = "unwarn" => IsOpen(p)
  /\ at[p] = "fopen" => sLogFilePath[p] \in Files
  /\ at[p] \in {"store", "fopen", "unwarn"} => ~ halfway[p]
  /\ at[p] \notin Disagreeing /\ ~ halfway[p] => Agree(p)

StreamInv == \A p \in Processes : ProcInv(p)

FileInv == TypeOK /\ StreamInv /\ OwnInv /\ WriterInv

-----------------------------------------------------------------------------
(* Writing to a file keeps its lines lines, and their pids.                *)

LEMMA WriteAtType ==
  ASSUME NEW S, NEW old \in Seq(S \cup {Null}), NEW n \in Nat, NEW new \in Seq(S)
  PROVE  /\ WriteAt(old, n, new) \in Seq(S \cup {Null})
         /\ Range(WriteAt(old, n, new)) \subseteq Range(old) \cup Range(new) \cup {Null}
<1> DEFINE m == IF Len(old) > n + Len(new) THEN Len(old) ELSE n + Len(new)
           w == WriteAt(old, n, new)
<1>1. /\ m \in Nat
      /\ Len(old) \in Nat /\ DOMAIN old = 1..Len(old)
      /\ Len(new) \in Nat /\ DOMAIN new = 1..Len(new)
  OBVIOUS
<1>2. w = [k \in 1..m |->
             IF k > n /\ k <= n + Len(new) THEN new[k - n]
             ELSE IF k <= Len(old) THEN old[k] ELSE Null]
  BY DEF WriteAt
<1>3. ASSUME NEW k \in 1..m
      PROVE  /\ w[k] \in S \cup {Null}
             /\ w[k] \in Range(old) \cup Range(new) \cup {Null}
  <2>1. CASE k > n /\ k <= n + Len(new)
    <3>1. k - n \in 1..Len(new) /\ w[k] = new[k - n]
      BY <1>1, <1>2, <2>1
    <3>2. QED
      BY <1>1, <3>1 DEF Range
  <2>2. CASE ~ (k > n /\ k <= n + Len(new)) /\ k <= Len(old)
    <3>1. k \in 1..Len(old) /\ w[k] = old[k]
      BY <1>1, <1>2, <2>2
    <3>2. QED
      BY <1>1, <3>1 DEF Range
  <2>3. CASE ~ (k > n /\ k <= n + Len(new)) /\ ~ (k <= Len(old))
    BY <1>1, <1>2, <2>3
  <2>4. QED
    BY <2>1, <2>2, <2>3
<1> HIDE DEF m, w
<1>4. DOMAIN w = 1..m
  BY <1>2
<1>5. w \in [1..m -> S \cup {Null}]
  BY <1>2, <1>3
<1>6. w \in Seq(S \cup {Null})
  BY <1>1, <1>5
<1>7. Range(w) \subseteq Range(old) \cup Range(new) \cup {Null}
  BY <1>3, <1>4 DEF Range
<1>8. QED
  BY <1>6, <1>7 DEF w

(* The lines of a process that leave its buffer. *)
LEMMA WrittenKeeps ==
  ASSUME FileInv, NEW p \in Processes
  PROVE  Written(p) \in Content /\ OwnPids(Written(p))
<1>1. /\ content \in Content /\ pending[p] \in Seq(Lines)
      /\ OwnPids(content)
      /\ \A line \in Range(pending[p]) : OwnPid(line)
  BY DEF FileInv, TypeOK, OwnInv, WriterInv, OwnPids, OwnPid, Content
<1>2. CASE ~ IsOpen(p) \/ pending[p] = <<>>
  BY <1>1, <1>2 DEF Written
<1>3. CASE IsOpen(p) /\ pending[p] # <<>>
  <2> DEFINE o == opened[sLogFileStream[p]]
             w == WriteAt(content[o.file], o.offset, pending[p])
  <2>1. o \in FileRec
    <3>1. opened \in Seq(FileRec) /\ sLogFileStream[p] \in 1..Len(opened)
      BY <1>3 DEF FileInv, TypeOK, StreamInv, ProcInv, FileRec
    <3>2. QED
      BY <3>1
  <2>2. o.file \in Files /\ o.offset \in Nat
    BY <2>1 DEF FileRec
  <2>3. content[o.file] \in Seq(Lines \cup {Null})
    BY <1>1, <2>2 DEF Content
  <2>4. /\ w \in Seq(Lines \cup {Null})
        /\ Range(w) \subseteq Range(content[o.file]) \cup Range(pending[p]) \cup {Null}
    BY <1>1, <2>2, <2>3, WriteAtType
  <2>5. Written(p) = [content EXCEPT ![o.file] = w]
    BY <1>3 DEF Written
  <2> HIDE DEF w, o
  <2>6. Written(p) \in Content
    BY <1>1, <2>4, <2>5 DEF Content
  <2>7. ASSUME NEW f \in Files, NEW line \in Range(Written(p)[f]) \ {Null}
        PROVE  OwnPid(line)
    <3>1. CASE f = o.file
      <4>1. Written(p)[f] = w
        BY <1>1, <2>5, <3>1 DEF Content
      <4>2. line \in Range(content[f]) \ {Null} \/ line \in Range(pending[p])
        BY <2>4, <2>7, <3>1, <4>1
      <4>3. QED
        BY <1>1, <4>2 DEF OwnPids
    <3>2. CASE f # o.file
      <4>1. Written(p)[f] = content[f]
        BY <1>1, <2>5, <3>2 DEF Content
      <4>2. QED
        BY <1>1, <2>7, <4>1 DEF OwnPids
    <3>3. QED
      BY <3>1, <3>2
  <2>8. QED
    BY <2>6, <2>7 DEF OwnPids
<1>4. QED
  BY <1>2, <1>3

(* Their open file moves on, and stays the file it is. *)
LEMMA MovedKeeps ==
  ASSUME FileInv, NEW p \in Processes
  PROVE  /\ Moved(p) \in Seq(FileRec)
         /\ Len(Moved(p)) = Len(opened)
         /\ \A i \in 1..Len(opened) : Moved(p)[i].file = opened[i].file
<1>1. opened \in Seq(FileRec) /\ pending[p] \in Seq(Lines)
  BY DEF FileInv, TypeOK, FileRec
<1>2. CASE ~ IsOpen(p)
  BY <1>1, <1>2 DEF Moved
<1>3. CASE IsOpen(p)
  <2> DEFINE s == sLogFileStream[p]
             r == [opened[s] EXCEPT !.offset = @ + Len(pending[p])]
  <2>1. s \in 1..Len(opened) /\ opened[s] \in FileRec
    BY <1>1, <1>3 DEF FileInv, StreamInv, ProcInv
  <2>2. r \in FileRec /\ r.file = opened[s].file
    BY <1>1, <2>1 DEF FileRec
  <2>3. Moved(p) = [opened EXCEPT ![s] = r]
    BY <1>3 DEF Moved
  <2> HIDE DEF r, s
  <2>4. QED
    BY <1>1, <2>1, <2>2, <2>3
<1>4. QED
  BY <1>2, <1>3

-----------------------------------------------------------------------------
(* The inductive invariant.                                                *)

LEMMA FileInvInit == Init => FileInv
<1> SUFFICES ASSUME Init PROVE FileInv
  OBVIOUS
<1>1. TypeOK
  BY LogAssumption DEF Init, TypeOK, NoStream, Steps
<1>2. StreamInv /\ OwnInv
  BY DEF Init, StreamInv, ProcInv, Agree, IsOpen, NoStream, Closed, OwnInv, Range
<1>3. WriterInv
  BY DEF Init, WriterInv, OwnPids, Range
<1>4. QED
  BY <1>1, <1>2, <1>3 DEF FileInv

(* A process whose path and stream a step leaves alone. *)
LEMMA SameStream ==
  ASSUME FileInv, NEW p \in Processes,
         sLogFileStream'[p] = sLogFileStream[p], sLogFilePath'[p] = sLogFilePath[p],
         at'[p] = at[p], halfway'[p] = halfway[p],
         p \in running => p \in running',
         pending'[p] # <<>> => IsOpen(p),
         opened \in Seq(FileRec), opened' \in Seq(FileRec),
         Len(opened') >= Len(opened),
         \A i \in 1..Len(opened) : opened'[i].file = opened[i].file
  PROVE  ProcInv(p)'
<1>1. ProcInv(p)
  BY DEF FileInv, StreamInv
<1>2. IsOpen(p)' <=> IsOpen(p)
  BY DEF IsOpen
<1>3. IsOpen(p) => /\ sLogFileStream[p] \in 1..Len(opened')
                   /\ opened'[sLogFileStream[p]].file = opened[sLogFileStream[p]].file
  BY <1>1 DEF ProcInv
<1>4. Agree(p) => Agree(p)'
  BY <1>2, <1>3 DEF Agree
<1>5. QED
  BY <1>1, <1>2, <1>3, <1>4 DEF ProcInv

(* A process and its pid: SetCacheLogPid() and what getLogPid() caches. *)
LEMMA CachePidKeeps ==
  ASSUME FileInv, NEW p \in Processes, CachePid(p)
  PROVE  /\ sLogPid' \in [Processes -> Processes \cup {Null}]
         /\ \A q \in Processes : Updated => sLogPid'[q] \in {Null, q}
         /\ GetLogPid(p) \in Processes /\ (Updated => GetLogPid(p) = p)
<1>1. /\ sLogPid \in [Processes -> Processes \cup {Null}]
      /\ \A q \in Processes : Updated => sLogPid[q] \in {Null, q}
  BY DEF FileInv, TypeOK, OwnInv
<1>2. GetLogPid(p) \in Processes /\ (Updated => GetLogPid(p) = p)
  BY <1>1 DEF GetLogPid
<1>3. QED
  BY <1>1, <1>2 DEF CachePid

LEMMA SetCacheLogPidStep ==
  ASSUME FileInv, NEW p \in Processes, NEW cache \in BOOLEAN,
         SetCacheLogPid(p, cache)
  PROVE  FileInv'
<1>1. TypeOK'
  BY DEF FileInv, TypeOK, SetCacheLogPid, procVars, fileVars, callVars, diskVars, histVars
<1>2. UNCHANGED <<procVars, sLogPid, fileVars, callVars, diskVars>>
  BY DEF SetCacheLogPid
<1>3. StreamInv' /\ OwnInv' /\ WriterInv'
  BY <1>2
  DEF FileInv, StreamInv, ProcInv, Agree, IsOpen, OwnInv, WriterInv, procVars, fileVars,
      callVars, diskVars
<1>4. QED
  BY <1>1, <1>3 DEF FileInv

LEMMA DropStep ==
  ASSUME FileInv, NEW p \in Processes, Drop(p)
  PROVE  FileInv'
<1>1. /\ sLogPid' \in [Processes -> Processes \cup {Null}]
      /\ \A q \in Processes : Updated => sLogPid'[q] \in {Null, q}
  BY CachePidKeeps DEF Drop
<1>2. TypeOK'
  <2>1. TypeOK
    BY DEF FileInv
  <2>2. /\ UNCHANGED <<procVars, sCacheLogPid, sLogFilePath, sLogFileStream, pending,
                       midPrint, callVars, diskVars, forkedWith, kept, split>>
        /\ lines' = lines + 1
        /\ sWarnNoLogFileSet' = [sWarnNoLogFileSet EXCEPT ![p] = FALSE]
    BY DEF Drop
  <2>3. excused' \in [Processes -> BOOLEAN]
    <3>1. (excused[p] \/ sWarnNoLogFileSet[p]) \in BOOLEAN
      OBVIOUS
    <3>2. excused' = [excused EXCEPT ![p] = excused[p] \/ sWarnNoLogFileSet[p]]
      BY DEF Drop
    <3>3. QED
      BY <2>1, <3>1, <3>2 DEF TypeOK
  <2>4. sWarnNoLogFileSet' \in [Processes -> BOOLEAN] /\ lines' \in Nat
    BY <2>1, <2>2 DEF TypeOK
  <2>5. QED
    BY <1>1, <2>1, <2>2, <2>3, <2>4 DEF TypeOK, procVars, callVars, diskVars
<1>3. UNCHANGED <<procVars, sLogFilePath, sLogFileStream, pending, callVars, diskVars>>
  BY DEF Drop
<1>4. StreamInv' /\ OwnInv' /\ WriterInv'
  BY <1>1, <1>3
  DEF FileInv, StreamInv, ProcInv, Agree, IsOpen, OwnInv, WriterInv, procVars, callVars,
      diskVars
<1>5. QED
  BY <1>2, <1>4 DEF FileInv

LEMMA LoseStep ==
  ASSUME FileInv, NEW p \in Processes, Lose(p)
  PROVE  FileInv'
<1>1. /\ sLogPid' \in [Processes -> Processes \cup {Null}]
      /\ \A q \in Processes : Updated => sLogPid'[q] \in {Null, q}
  BY CachePidKeeps DEF Lose
<1>2. /\ UNCHANGED <<procVars, sCacheLogPid, fileVars, callVars, diskVars, histVars>>
      /\ lines' = lines + 1
  BY DEF Lose
<1>3. TypeOK'
  BY <1>1, <1>2
  DEF FileInv, TypeOK, procVars, fileVars, callVars, diskVars, histVars
<1>4. StreamInv' /\ OwnInv' /\ WriterInv'
  BY <1>1, <1>2
  DEF FileInv, StreamInv, ProcInv, Agree, IsOpen, OwnInv, WriterInv, procVars, fileVars,
      callVars, diskVars
<1>5. QED
  BY <1>3, <1>4 DEF FileInv

LEMMA FprintfStep ==
  ASSUME FileInv, NEW p \in Processes, Fprintf(p)
  PROVE  FileInv'
<1> DEFINE line == [writer |-> p, pid |-> GetLogPid(p), n |-> lines']
<1>1. /\ sLogPid' \in [Processes -> Processes \cup {Null}]
      /\ \A q \in Processes : Updated => sLogPid'[q] \in {Null, q}
      /\ GetLogPid(p) \in Processes /\ (Updated => GetLogPid(p) = p)
  BY CachePidKeeps DEF Fprintf
<1>2. lines' \in Nat /\ line \in Lines /\ OwnPid(line)
  BY <1>1 DEF FileInv, TypeOK, Fprintf, Lines, OwnPid
<1>3. pending' = [pending EXCEPT ![p] = Append(pending[p], line)]
  BY DEF Fprintf
<1> HIDE DEF line
<1>4. pending \in [Processes -> Seq(Lines)]
  BY DEF FileInv, TypeOK
<1>5. pending' \in [Processes -> Seq(Lines)]
  BY <1>2, <1>3, <1>4
<1>6. TypeOK'
  <2>1. /\ UNCHANGED <<procVars, sCacheLogPid, sLogFilePath, sLogFileStream,
                       sWarnNoLogFileSet, callVars, diskVars, histVars>>
        /\ midPrint' = [midPrint EXCEPT ![p] = TRUE]
    BY DEF Fprintf
  <2>2. midPrint' \in [Processes -> BOOLEAN]
    BY <2>1 DEF FileInv, TypeOK
  <2>3. TypeOK
    BY DEF FileInv
  <2>4. QED
    BY <1>1, <1>2, <1>5, <2>1, <2>2, <2>3
    DEF TypeOK, procVars, callVars, diskVars, histVars
<1>7. StreamInv'
  <2>1. /\ UNCHANGED <<sLogFilePath, sLogFileStream, at, halfway, opened, running>>
        /\ IsOpen(p)
    BY DEF Fprintf, callVars, diskVars, procVars
  <2>2. ASSUME NEW q \in Processes, pending'[q] # <<>> PROVE IsOpen(q)
    BY <1>3, <1>4, <2>1, <2>2 DEF FileInv, StreamInv, ProcInv
  <2>3. opened \in Seq(FileRec)
    BY DEF FileInv, TypeOK, FileRec
  <2>4. QED
    BY <2>1, <2>2, <2>3, SameStream DEF StreamInv
<1>8. ASSUME NEW q \in Processes, NEW l \in Range(pending'[q])
      PROVE  OwnPid(l)
  <2>1. l \in Range(pending[q]) \/ l = line
    <3>1. CASE q = p
      <4>1. pending'[q] = Append(pending[q], line) /\ pending[q] \in Seq(Lines)
        BY <1>3, <1>4, <3>1
      <4>2. QED
        BY <4>1, <1>2, <1>8 DEF Range
    <3>2. CASE q # p
      BY <1>3, <1>4, <1>8, <3>2
    <3>3. QED
      BY <3>1, <3>2
  <2>2. QED
    BY <1>2, <2>1 DEF FileInv, OwnInv
<1>9. OwnInv'
  BY <1>1, <1>8 DEF OwnInv
<1>10. WriterInv'
  BY DEF FileInv, WriterInv, Fprintf, diskVars
<1>11. QED
  BY <1>6, <1>7, <1>9, <1>10 DEF FileInv

(* The buffer of a stream that is flushed, closed or lost. *)
LEMMA EmptiedKeeps ==
  ASSUME FileInv, NEW p \in Processes, pending' = [pending EXCEPT ![p] = <<>>]
  PROVE  /\ pending' \in [Processes -> Seq(Lines)]
         /\ \A q \in Processes :
              /\ \A line \in Range(pending'[q]) : OwnPid(line)
              /\ pending'[q] # <<>> => pending[q] # <<>> /\ q # p
<1>1. pending \in [Processes -> Seq(Lines)]
  BY DEF FileInv, TypeOK
<1>2. ASSUME NEW q \in Processes
      PROVE  /\ \A line \in Range(pending'[q]) : OwnPid(line)
             /\ pending'[q] # <<>> => pending[q] # <<>> /\ q # p
  <2>1. CASE q = p
    BY <1>1, <2>1 DEF Range
  <2>2. CASE q # p
    BY <1>1, <2>2 DEF FileInv, OwnInv
  <2>3. QED
    BY <2>1, <2>2
<1>3. QED
  BY <1>1, <1>2

(* What is in the files after a step that writes a buffer or none. *)
LEMMA DiskKeeps ==
  ASSUME FileInv, NEW p \in Processes,
         \/ content' = Written(p) /\ opened' = Moved(p)
         \/ UNCHANGED diskVars
  PROVE  /\ content' \in Content /\ WriterInv'
         /\ opened' \in Seq(FileRec)
         /\ Len(opened') = Len(opened)
         /\ \A i \in 1..Len(opened) : opened'[i].file = opened[i].file
<1>1. CASE content' = Written(p) /\ opened' = Moved(p)
  <2>1. content' \in Content /\ OwnPids(content')
    BY <1>1, WrittenKeeps
  <2>2. WriterInv'
    BY <2>1 DEF WriterInv, OwnPids, OwnPid
  <2>3. QED
    BY <1>1, <2>1, <2>2, MovedKeeps
<1>2. CASE UNCHANGED diskVars
  BY <1>2 DEF diskVars, FileInv, TypeOK, WriterInv, Content, FileRec
<1>3. QED
  BY <1>1, <1>2

LEMMA FflushStep ==
  ASSUME FileInv, NEW p \in Processes, Fflush(p)
  PROVE  FileInv'
<1>1. /\ content' = Written(p) /\ opened' = Moved(p)
      /\ pending' = [pending EXCEPT ![p] = <<>>]
      /\ midPrint' = [midPrint EXCEPT ![p] = FALSE]
      /\ UNCHANGED <<procVars, pidVars, sLogFilePath, sLogFileStream,
                     sWarnNoLogFileSet, callVars, lines, forkedWith, excused, split>>
  BY DEF Fflush
<1>2. /\ content' \in Content /\ WriterInv'
      /\ opened' \in Seq(FileRec) /\ Len(opened') = Len(opened)
      /\ \A i \in 1..Len(opened) : opened'[i].file = opened[i].file
  BY <1>1, DiskKeeps
<1>3. /\ pending' \in [Processes -> Seq(Lines)]
      /\ \A q \in Processes :
           /\ \A line \in Range(pending'[q]) : OwnPid(line)
           /\ pending'[q] # <<>> => pending[q] # <<>>
  BY <1>1, EmptiedKeeps
<1>4. TypeOK
  BY DEF FileInv
<1>5. kept' \in [Files -> SUBSET Lines]
  <2>1. kept' = [kept EXCEPT ![opened[sLogFileStream[p]].file] =
                   kept[opened[sLogFileStream[p]].file] \cup Range(pending[p])]
    BY DEF Fflush, Keep
  <2>2. Range(pending[p]) \subseteq Lines
    BY <1>4 DEF TypeOK, Range
  <2>3. QED
    BY <1>4, <2>1, <2>2 DEF TypeOK
<1>6. midPrint' \in [Processes -> BOOLEAN]
  BY <1>1, <1>4 DEF TypeOK
<1>7. TypeOK'
  BY <1>1, <1>2, <1>3, <1>4, <1>5, <1>6 DEF TypeOK, Content, FileRec, procVars, pidVars, callVars
<1>8. StreamInv'
  <2>1. \A q \in Processes : pending'[q] # <<>> => IsOpen(q)
    BY <1>3 DEF FileInv, StreamInv, ProcInv
  <2>2. opened \in Seq(FileRec)
    BY <1>4 DEF TypeOK, FileRec
  <2>3. QED
    BY <1>1, <1>2, <2>1, <2>2, SameStream DEF StreamInv, callVars, procVars
<1>9. OwnInv'
  BY <1>1, <1>3 DEF FileInv, OwnInv, pidVars
<1>10. QED
  BY <1>2, <1>7, <1>8, <1>9 DEF FileInv

(* The steps of setLogFilePath() and closeLogFile() that write nothing. *)
QuietSet(p) ==
  \/ CloseLogFile(p) \/ SetLogFilePath(p)
  \/ ForgetStream(p) \/ ForgetPath(p)
  \/ NoPath(p) \/ FopenFails(p) \/ ClearWarning(p)
  \/ \E f \in Files : StorePath(p, f)

LEMMA QuietSetFrame ==
  ASSUME NEW p \in Processes, QuietSet(p)
  PROVE  UNCHANGED <<procVars, pidVars, pending, midPrint, diskVars, lines, forkedWith,
                     kept, split>>
<1> USE DEF fileVars, histVars
<1>1. CASE CloseLogFile(p) \/ SetLogFilePath(p)
  BY <1>1 DEF CloseLogFile, SetLogFilePath
<1>2. CASE ForgetStream(p) \/ ForgetPath(p) \/ NoPath(p)
  BY <1>2 DEF ForgetStream, ForgetPath, NoPath
<1>3. CASE FopenFails(p) \/ ClearWarning(p) \/ \E f \in Files : StorePath(p, f)
  BY <1>3 DEF FopenFails, ClearWarning, StorePath
<1>4. QED
  BY <1>1, <1>2, <1>3 DEF QuietSet

(* What they assign, and to p alone. *)
LEMMA QuietSetTypes ==
  ASSUME FileInv, NEW p \in Processes, QuietSet(p)
  PROVE  /\ TypeOK'
         /\ \A q \in Processes \ {p} :
              /\ sLogFileStream'[q] = sLogFileStream[q]
              /\ sLogFilePath'[q] = sLogFilePath[q]
              /\ at'[q] = at[q] /\ halfway'[q] = halfway[q]
<1>1. TypeOK
  BY DEF FileInv
<1>2. UNCHANGED <<procVars, pidVars, pending, midPrint, diskVars, lines, forkedWith,
                  kept, split>>
  BY QuietSetFrame
<1> USE DEF TypeOK, fileVars, histVars, Steps
<1>3. CASE CloseLogFile(p)
  <2>1. (excused[p] \/ sLogFileStream[p] # NoStream) \in BOOLEAN
    OBVIOUS
  <2>2. excused' = [excused EXCEPT ![p] = excused[p] \/ sLogFileStream[p] # NoStream]
    BY <1>3 DEF CloseLogFile
  <2>3. excused' \in [Processes -> BOOLEAN]
    BY <1>1, <2>1, <2>2
  <2>4. at' \in [Processes -> Steps] /\ calls' \in Nat
        /\ \A q \in Processes \ {p} : at'[q] = at[q]
    BY <1>1, <1>3 DEF CloseLogFile, CloseFirst
  <2>5. UNCHANGED <<fileVars, setting, halfway>>
    BY <1>3 DEF CloseLogFile
  <2>6. QED
    BY <1>1, <1>2, <2>3, <2>4, <2>5 DEF procVars, pidVars, diskVars
<1>4. CASE SetLogFilePath(p)
  BY <1>1, <1>2, <1>4 DEF SetLogFilePath, CloseFirst, procVars, pidVars, diskVars
<1>5. CASE ForgetStream(p)
  BY <1>1, <1>2, <1>5 DEF ForgetStream, NoStream, procVars, pidVars, diskVars
<1>6. CASE ForgetPath(p)
  BY <1>1, <1>2, <1>6 DEF ForgetPath, procVars, pidVars, diskVars
<1>7. CASE NoPath(p)
  BY <1>1, <1>2, <1>7 DEF NoPath, procVars, pidVars, diskVars
<1>8. CASE FopenFails(p)
  BY <1>1, <1>2, <1>8 DEF FopenFails, procVars, pidVars, diskVars
<1>9. CASE ClearWarning(p)
  BY <1>1, <1>2, <1>9 DEF ClearWarning, procVars, pidVars, diskVars
<1>10. ASSUME NEW f \in Files, StorePath(p, f)
       PROVE  /\ TypeOK'
              /\ \A q \in Processes \ {p} :
                   /\ sLogFileStream'[q] = sLogFileStream[q]
                   /\ sLogFilePath'[q] = sLogFilePath[q]
                   /\ at'[q] = at[q] /\ halfway'[q] = halfway[q]
  BY <1>1, <1>2, <1>10 DEF StorePath, procVars, pidVars, diskVars
<1>11. QED
  BY <1>3, <1>4, <1>5, <1>6, <1>7, <1>8, <1>9, <1>10 DEF QuietSet

(* What the process itself is left with. *)
LEMMA QuietSetOwn ==
  ASSUME FileInv, NEW p \in Processes, QuietSet(p)
  PROVE  ProcInv(p)'
<1>1. TypeOK /\ ProcInv(p)
  BY DEF FileInv, StreamInv
<1>2. UNCHANGED <<pending, opened, running>> /\ p \in running
  <2>1. p \in running
    BY DEF QuietSet, CloseLogFile, SetLogFilePath, CloseFirst, Ready, ForgetStream,
           ForgetPath, NoPath, FopenFails, ClearWarning, StorePath
  <2>2. QED
    BY <2>1, QuietSetFrame DEF diskVars, procVars
<1> USE DEF ProcInv, Agree, IsOpen, NoStream, Closed, Disagreeing
<1>3. CASE CloseLogFile(p) \/ SetLogFilePath(p)
  <2>1. /\ UNCHANGED <<sLogFileStream, sLogFilePath, halfway>>
        /\ at[p] = "out"
        /\ at'[p] = IF sLogFileStream[p] = NoStream THEN "forget" ELSE "fclose"
    BY <1>1, <1>3
    DEF CloseLogFile, SetLogFilePath, CloseFirst, Ready, fileVars, TypeOK
  <2>2. QED
    BY <1>1, <1>2, <2>1
<1>4. CASE ForgetStream(p)
  <2>1. /\ UNCHANGED <<sLogFilePath, halfway>>
        /\ at[p] = "null" /\ at'[p] = "forget" /\ sLogFileStream'[p] = NoStream
    BY <1>1, <1>4 DEF ForgetStream, TypeOK
  <2>2. QED
    BY <1>1, <1>2, <2>1
<1>5. CASE ForgetPath(p)
  <2>1. /\ UNCHANGED sLogFileStream
        /\ at[p] = "forget" /\ at'[p] \in {"store", "out"}
        /\ sLogFilePath'[p] = Null /\ ~ halfway'[p]
    BY <1>1, <1>5 DEF ForgetPath, TypeOK
  <2>2. QED
    BY <1>1, <1>2, <2>1
<1>6. CASE NoPath(p)
  <2>1. /\ UNCHANGED <<sLogFileStream, sLogFilePath, halfway>>
        /\ at[p] = "store" /\ at'[p] = "out"
    BY <1>1, <1>6 DEF NoPath, TypeOK, fileVars
  <2>2. QED
    BY <1>1, <1>2, <2>1
<1>7. CASE FopenFails(p)
  <2>1. /\ UNCHANGED <<sLogFileStream, halfway>>
        /\ at[p] = "fopen" /\ at'[p] = "out" /\ sLogFilePath'[p] = Null
    BY <1>1, <1>7 DEF FopenFails, TypeOK
  <2>2. QED
    BY <1>1, <1>2, <2>1
<1>8. CASE ClearWarning(p)
  <2>1. /\ UNCHANGED <<sLogFileStream, sLogFilePath, halfway>>
        /\ at[p] = "unwarn" /\ at'[p] = "out"
    BY <1>1, <1>8 DEF ClearWarning, TypeOK
  <2>2. QED
    BY <1>1, <1>2, <2>1
<1>9. ASSUME NEW f \in Files, StorePath(p, f) PROVE ProcInv(p)'
  <2>1. /\ UNCHANGED <<sLogFileStream, halfway>>
        /\ at[p] = "store" /\ at'[p] = "fopen" /\ sLogFilePath'[p] = f
    BY <1>1, <1>9 DEF StorePath, TypeOK
  <2>2. QED
    BY <1>1, <1>2, <2>1
<1>10. QED
  BY <1>3, <1>4, <1>5, <1>6, <1>7, <1>8, <1>9 DEF QuietSet

LEMMA QuietSetStep ==
  ASSUME FileInv, NEW p \in Processes, QuietSet(p)
  PROVE  FileInv'
<1>1. UNCHANGED <<sLogPid, pending, opened, content, running>>
  BY QuietSetFrame DEF pidVars, diskVars, procVars
<1>2. StreamInv'
  <2>1. ASSUME NEW q \in Processes, q # p PROVE ProcInv(q)'
    <3>1. opened \in Seq(FileRec) /\ ProcInv(q)
      BY DEF FileInv, TypeOK, FileRec, StreamInv
    <3>2. pending'[q] # <<>> => IsOpen(q)
      BY <1>1, <3>1 DEF ProcInv
    <3>3. /\ sLogFileStream'[q] = sLogFileStream[q] /\ sLogFilePath'[q] = sLogFilePath[q]
          /\ at'[q] = at[q] /\ halfway'[q] = halfway[q]
      BY <2>1, QuietSetTypes
    <3>4. QED
      BY <1>1, <3>1, <3>2, <3>3, SameStream
  <2>2. QED
    BY <2>1, QuietSetOwn DEF StreamInv
<1>3. OwnInv' /\ WriterInv'
  BY <1>1 DEF FileInv, OwnInv, WriterInv
<1>4. QED
  BY <1>2, <1>3, QuietSetTypes DEF FileInv

LEMMA FcloseStep ==
  ASSUME FileInv, NEW p \in Processes, Fclose(p)
  PROVE  FileInv'
<1>1. TypeOK /\ ProcInv(p)
  BY DEF FileInv, StreamInv
<1>2. /\ content' = Written(p) /\ opened' = Moved(p)
      /\ pending' = [pending EXCEPT ![p] = <<>>]
      /\ sLogFileStream' = [sLogFileStream EXCEPT ![p] = Closed]
      /\ p \in running /\ running' = running
      /\ at[p] = "fclose" /\ at' = [at EXCEPT ![p] = "null"]
      /\ UNCHANGED <<procVars, pidVars, sLogFilePath, sWarnNoLogFileSet, midPrint,
                     setting, calls, halfway, lines, histVars>>
  BY DEF Fclose, procVars
<1>3. /\ content' \in Content /\ WriterInv' /\ opened' \in Seq(FileRec)
      /\ Len(opened') = Len(opened)
      /\ \A i \in 1..Len(opened) : opened'[i].file = opened[i].file
  BY <1>2, DiskKeeps
<1>4. /\ pending' \in [Processes -> Seq(Lines)]
      /\ \A q \in Processes :
           /\ \A line \in Range(pending'[q]) : OwnPid(line)
           /\ pending'[q] # <<>> => pending[q] # <<>> /\ q # p
  BY <1>2, EmptiedKeeps
<1>5. TypeOK'
  <2>1. /\ sLogFileStream' \in [Processes -> Int] /\ at' \in [Processes -> Steps]
    BY <1>1, <1>2 DEF TypeOK, Closed, Steps
  <2>2. QED
    BY <1>1, <1>2, <1>3, <1>4, <2>1
    DEF TypeOK, Content, FileRec, procVars, pidVars, histVars
<1>6. ProcInv(p)'
  <2>1. at'[p] = "null" /\ sLogFileStream'[p] = Closed /\ pending'[p] = <<>>
    BY <1>1, <1>2, <1>4 DEF TypeOK
  <2>2. QED
    BY <1>2, <2>1 DEF ProcInv, Agree, IsOpen, NoStream, Closed, Disagreeing
<1>7. StreamInv'
  <2>1. ASSUME NEW q \in Processes, q # p PROVE ProcInv(q)'
    <3>1. opened \in Seq(FileRec) /\ ProcInv(q)
      BY DEF FileInv, TypeOK, FileRec, StreamInv
    <3>2. pending'[q] # <<>> => IsOpen(q)
      BY <1>4, <3>1 DEF ProcInv
    <3>3. /\ sLogFileStream'[q] = sLogFileStream[q] /\ sLogFilePath'[q] = sLogFilePath[q]
          /\ at'[q] = at[q] /\ halfway'[q] = halfway[q]
      BY <1>1, <1>2, <2>1 DEF TypeOK
    <3>4. QED
      BY <1>2, <1>3, <3>1, <3>2, <3>3, SameStream
  <2>2. QED
    BY <1>6, <2>1 DEF StreamInv
<1>8. OwnInv'
  BY <1>2, <1>4 DEF FileInv, OwnInv, pidVars
<1>9. QED
  BY <1>3, <1>5, <1>7, <1>8 DEF FileInv

LEMMA FopenStep ==
  ASSUME FileInv, NEW p \in Processes, NEW f \in Files, Fopen(p, f)
  PROVE  FileInv'
<1> DEFINE new == [file |-> f, offset |-> 0]
           n == Len(opened) + 1
<1>1. TypeOK /\ ProcInv(p)
  BY DEF FileInv, StreamInv
<1>2. new \in FileRec /\ new.file = f
  BY DEF FileRec
<1>3. opened' = Append(opened, new) /\ opened \in Seq(FileRec)
  BY <1>1 DEF Fopen, TypeOK, FileRec
<1> HIDE DEF new
<1>4. /\ opened' \in Seq(FileRec) /\ n \in Nat /\ n > NoStream /\ Len(opened) \in Nat
      /\ Len(opened') = n /\ opened'[n] = new
      /\ \A i \in 1..Len(opened) : opened'[i] = opened[i]
  BY <1>2, <1>3 DEF NoStream
<1>5. /\ sLogFileStream' = [sLogFileStream EXCEPT ![p] = n]
      /\ at[p] = "fopen" /\ at' = [at EXCEPT ![p] = "unwarn"]
      /\ sLogFilePath[p] = f
      /\ p \in running /\ running' = running
      /\ content' = [content EXCEPT ![f] = <<>>]
      /\ kept' = [kept EXCEPT ![f] = {}]
      /\ split' \subseteq split \cup {f}
      /\ UNCHANGED <<procVars, pidVars, sLogFilePath, sWarnNoLogFileSet, pending,
                     midPrint, setting, calls, halfway, lines, forkedWith, excused>>
  BY <1>4 DEF Fopen, procVars
<1>6. content \in Content /\ content' \in Content
  BY <1>1, <1>5 DEF TypeOK, Content
<1>7. WriterInv'
  <2>1. ASSUME NEW g \in Files, NEW line \in Range(content'[g]) \ {Null}
        PROVE  OwnPid(line)
    <3>1. CASE g = f
      BY <1>5, <1>6, <2>1, <3>1 DEF Content, Range
    <3>2. CASE g # f
      BY <1>5, <1>6, <2>1, <3>2 DEF Content, OwnPids, OwnPid, FileInv, WriterInv
    <3>3. QED
      BY <3>1, <3>2
  <2>2. QED
    BY <2>1 DEF WriterInv, OwnPids
<1>8. TypeOK'
  <2>1. /\ sLogFileStream' \in [Processes -> Int] /\ at' \in [Processes -> Steps]
        /\ kept' \in [Files -> SUBSET Lines] /\ split' \subseteq Files
    BY <1>1, <1>4, <1>5 DEF TypeOK, Steps
  <2>2. QED
    BY <1>1, <1>4, <1>5, <1>6, <2>1 DEF TypeOK, Content, FileRec, procVars, pidVars
<1>9. ProcInv(p)'
  <2>1. /\ at'[p] = "unwarn" /\ sLogFileStream'[p] = n /\ sLogFilePath'[p] = f
        /\ ~ halfway'[p]
    BY <1>1, <1>5 DEF TypeOK, ProcInv
  <2>2. IsOpen(p)' /\ n \in 1..Len(opened') /\ opened'[n].file = f
    BY <1>2, <1>4, <2>1 DEF IsOpen
  <2>3. n # Closed /\ n >= Closed
    BY <1>4 DEF NoStream, Closed
  <2> HIDE DEF n
  <2>4. QED
    BY <1>5, <2>1, <2>2, <2>3 DEF ProcInv, Agree
<1>10. StreamInv'
  <2>1. ASSUME NEW q \in Processes, q # p PROVE ProcInv(q)'
    <3>1. pending'[q] # <<>> => IsOpen(q)
      BY <1>5 DEF FileInv, StreamInv, ProcInv
    <3>2. /\ sLogFileStream'[q] = sLogFileStream[q] /\ sLogFilePath'[q] = sLogFilePath[q]
          /\ at'[q] = at[q] /\ halfway'[q] = halfway[q]
      BY <1>1, <1>5, <2>1 DEF TypeOK
    <3>3. /\ Len(opened') >= Len(opened)
          /\ \A i \in 1..Len(opened) : opened'[i].file = opened[i].file
      BY <1>4
    <3>4. QED
      BY <1>3, <1>4, <1>5, <3>1, <3>2, <3>3, SameStream
  <2>2. QED
    BY <1>9, <2>1 DEF StreamInv
<1>11. OwnInv'
  BY <1>5 DEF FileInv, OwnInv, pidVars
<1>12. QED
  BY <1>7, <1>8, <1>10, <1>11 DEF FileInv

-----------------------------------------------------------------------------
(* Processes.                                                              *)

(* fork() by forkChild() or by a caller who updates the pid. *)
LEMMA ForkStep ==
  ASSUME FileInv, NEW p \in Processes, NEW c \in Processes,
         NEW updates \in BOOLEAN, Fork(p, c, updates), Updated => updates
  PROVE  FileInv'
<1>1. TypeOK
  BY DEF FileInv
<1>2. /\ running' = running \cup {c}
      /\ sCacheLogPid' = Copied(sCacheLogPid, p, c)
      /\ sLogPid' = IF updates THEN [sLogPid EXCEPT ![c] = c] ELSE Copied(sLogPid, p, c)
      /\ sLogFilePath' = Copied(sLogFilePath, p, c)
      /\ sLogFileStream' = Copied(sLogFileStream, p, c)
      /\ sWarnNoLogFileSet' = Copied(sWarnNoLogFileSet, p, c)
      /\ pending' = Copied(pending, p, c)
      /\ excused' = Copied(excused, p, c)
      /\ forkedWith' = forkedWith \cup Range(pending[p])
      /\ halfway' = [halfway EXCEPT ![c] = halfway[p] \/ at[p] \in Disagreeing]
      /\ c \notin running
      /\ UNCHANGED <<ended, midPrint, at, setting, calls, diskVars, lines, kept, split>>
  BY DEF Fork
<1>3. /\ pending' \in [Processes -> Seq(Lines)]
      /\ pending'[c] = pending[p]
      /\ \A q \in Processes \ {c} : pending'[q] = pending[q]
  BY <1>1, <1>2 DEF TypeOK, Copied
<1>4. /\ sLogFilePath' \in [Processes -> Files \cup {Null}]
      /\ sLogFilePath'[c] = sLogFilePath[p]
      /\ \A q \in Processes \ {c} : sLogFilePath'[q] = sLogFilePath[q]
  BY <1>1, <1>2 DEF TypeOK, Copied
<1>5. /\ sLogFileStream' \in [Processes -> Int]
      /\ sLogFileStream'[c] = sLogFileStream[p]
      /\ \A q \in Processes \ {c} : sLogFileStream'[q] = sLogFileStream[q]
  BY <1>1, <1>2 DEF TypeOK, Copied
<1>15. /\ halfway' \in [Processes -> BOOLEAN]
       /\ halfway'[c] = (halfway[p] \/ at[p] \in Disagreeing)
       /\ \A q \in Processes \ {c} : halfway'[q] = halfway[q]
  <2>1. (halfway[p] \/ at[p] \in Disagreeing) \in BOOLEAN
    OBVIOUS
  <2>2. QED
    BY <1>1, <1>2, <2>1 DEF TypeOK
<1>6. /\ sCacheLogPid' \in [Processes -> BOOLEAN]
      /\ sWarnNoLogFileSet' \in [Processes -> BOOLEAN]
      /\ excused' \in [Processes -> BOOLEAN]
  BY <1>1, <1>2 DEF TypeOK, Copied
<1>7. /\ sLogPid' \in [Processes -> Processes \cup {Null}]
      /\ \A q \in Processes : Updated => sLogPid'[q] \in {Null, q}
  <2>1. /\ sLogPid \in [Processes -> Processes \cup {Null}]
        /\ \A q \in Processes : Updated => sLogPid[q] \in {Null, q}
    BY <1>1 DEF TypeOK, FileInv, OwnInv
  <2>2. CASE updates
    BY <1>2, <2>1, <2>2
  <2>3. CASE ~ updates
    BY <1>2, <2>1, <2>3 DEF Copied
  <2>4. QED
    BY <2>2, <2>3
<1>8. TypeOK'
  <2>1. forkedWith' \subseteq Lines
    BY <1>1, <1>2 DEF TypeOK, Range
  <2>2. QED
    BY <1>1, <1>2, <1>3, <1>4, <1>5, <1>6, <1>7, <1>15, <2>1 DEF TypeOK, diskVars
<1>9. ASSUME NEW q \in Processes
      PROVE  \E r \in Processes : /\ pending'[q] = pending[r]
                                  /\ sLogFilePath'[q] = sLogFilePath[r]
                                  /\ sLogFileStream'[q] = sLogFileStream[r]
  BY <1>3, <1>4, <1>5
<1>10. UNCHANGED <<opened, content>>
  BY <1>2 DEF diskVars
<1>11. StreamInv'
  <2>1. opened \in Seq(FileRec) /\ \A q \in Processes : ProcInv(q)
    BY <1>1 DEF TypeOK, FileRec, FileInv, StreamInv
  <2>2. ASSUME NEW q \in Processes, q # c PROVE ProcInv(q)'
    <3>1. pending'[q] # <<>> => IsOpen(q)
      BY <1>3, <2>1, <2>2 DEF ProcInv
    <3>2. /\ sLogFileStream'[q] = sLogFileStream[q] /\ sLogFilePath'[q] = sLogFilePath[q]
          /\ at'[q] = at[q] /\ halfway'[q] = halfway[q]
      BY <1>2, <1>4, <1>5, <1>15, <2>2
    <3>3. QED
      BY <1>2, <1>10, <2>1, <3>1, <3>2, SameStream
  <2>3. ProcInv(c)'
    <3>1. at'[c] = "out"
      BY <1>2, <2>1 DEF ProcInv
    <3>2. IsOpen(c)' <=> IsOpen(p)
      BY <1>5 DEF IsOpen
    <3>3. Agree(p) => Agree(c)'
      BY <1>4, <1>5, <1>10, <3>2 DEF Agree
    <3>4. QED
      BY <1>3, <1>5, <1>10, <1>15, <2>1, <3>1, <3>2, <3>3 DEF ProcInv, Disagreeing
  <2>4. QED
    BY <2>2, <2>3 DEF StreamInv
<1>12. OwnInv'
  <2>1. ASSUME NEW q \in Processes, NEW line \in Range(pending'[q])
        PROVE  OwnPid(line)
    BY <1>9, <2>1 DEF FileInv, OwnInv
  <2>2. QED
    BY <1>7, <2>1 DEF OwnInv
<1>13. WriterInv'
  BY <1>10 DEF FileInv, WriterInv
<1>14. QED
  BY <1>8, <1>11, <1>12, <1>13 DEF FileInv

LEMMA EndsStep ==
  ASSUME FileInv, NEW p \in Processes, Exit(p) \/ Killed(p)
  PROVE  FileInv'
<1>1. TypeOK
  BY DEF FileInv
<1>2. /\ running' = running \ {p} /\ ended' = ended \cup {p}
      /\ sCacheLogPid' = [sCacheLogPid EXCEPT ![p] = FALSE]
      /\ sLogPid' = [sLogPid EXCEPT ![p] = Null]
      /\ sLogFilePath' = [sLogFilePath EXCEPT ![p] = Null]
      /\ sLogFileStream' = [sLogFileStream EXCEPT ![p] = NoStream]
      /\ sWarnNoLogFileSet' = [sWarnNoLogFileSet EXCEPT ![p] = TRUE]
      /\ pending' = [pending EXCEPT ![p] = <<>>]
      /\ midPrint' = [midPrint EXCEPT ![p] = FALSE]
      /\ excused' = [excused EXCEPT ![p] = FALSE]
      /\ at' = [at EXCEPT ![p] = "out"]
      /\ setting' = [setting EXCEPT ![p] = FALSE]
      /\ halfway' = [halfway EXCEPT ![p] = FALSE]
      /\ UNCHANGED <<calls, lines, forkedWith, kept, split>>
  BY DEF Exit, Killed, Ends
<1>3. (content' = Written(p) /\ opened' = Moved(p)) \/ UNCHANGED diskVars
  BY DEF Exit, Killed
<1>4. /\ content' \in Content /\ WriterInv' /\ opened' \in Seq(FileRec)
      /\ Len(opened') = Len(opened)
      /\ \A i \in 1..Len(opened) : opened'[i].file = opened[i].file
  BY <1>3, DiskKeeps
<1>5. /\ pending' \in [Processes -> Seq(Lines)]
      /\ \A q \in Processes :
           /\ \A line \in Range(pending'[q]) : OwnPid(line)
           /\ pending'[q] # <<>> => pending[q] # <<>> /\ q # p
  BY <1>2, EmptiedKeeps
<1>6. StreamInv'
  <2>1. ASSUME NEW q \in Processes, q # p PROVE ProcInv(q)'
    <3>1. opened \in Seq(FileRec) /\ ProcInv(q)
      BY DEF FileInv, TypeOK, FileRec, StreamInv
    <3>2. pending'[q] # <<>> => IsOpen(q)
      BY <1>5, <3>1 DEF ProcInv
    <3>3. /\ sLogFileStream'[q] = sLogFileStream[q] /\ sLogFilePath'[q] = sLogFilePath[q]
          /\ at'[q] = at[q] /\ halfway'[q] = halfway[q]
      BY <1>1, <1>2, <2>1 DEF TypeOK
    <3>4. q \in running => q \in running'
      BY <1>2, <2>1
    <3>5. QED
      BY <1>4, <3>1, <3>2, <3>3, <3>4, SameStream
  <2>2. ProcInv(p)'
    <3>1. /\ at'[p] = "out" /\ sLogFileStream'[p] = NoStream
          /\ sLogFilePath'[p] = Null /\ pending'[p] = <<>>
      BY <1>1, <1>2, <1>5 DEF TypeOK
    <3>2. QED
      BY <3>1 DEF ProcInv, Agree, IsOpen, NoStream, Closed
  <2>3. QED
    BY <2>1, <2>2 DEF StreamInv
<1>7. /\ sLogPid' \in [Processes -> Processes \cup {Null}]
      /\ \A q \in Processes : Updated => sLogPid'[q] \in {Null, q}
  BY <1>1, <1>2 DEF TypeOK, FileInv, OwnInv
<1>8. TypeOK'
  <2>1. /\ sCacheLogPid' \in [Processes -> BOOLEAN]
        /\ sWarnNoLogFileSet' \in [Processes -> BOOLEAN]
        /\ midPrint' \in [Processes -> BOOLEAN]
        /\ excused' \in [Processes -> BOOLEAN]
        /\ at' \in [Processes -> Steps]
        /\ setting' \in [Processes -> BOOLEAN]
        /\ halfway' \in [Processes -> BOOLEAN]
        /\ sLogFilePath' \in [Processes -> Files \cup {Null}]
        /\ sLogFileStream' \in [Processes -> Int]
        /\ running' \subseteq Processes /\ ended' \subseteq Processes
    BY <1>1, <1>2 DEF TypeOK, Steps, NoStream
  <2>2. QED
    BY <1>1, <1>2, <1>4, <1>5, <1>7, <2>1 DEF TypeOK, Content, FileRec
<1>9. OwnInv'
  BY <1>5, <1>7 DEF OwnInv
<1>10. QED
  BY <1>4, <1>6, <1>8, <1>9 DEF FileInv

LEMMA FileInvStep ==
  ASSUME FileInv, [Next]_vars
  PROVE  FileInv'
<1>1. ASSUME NEW p \in Processes, NEW c \in Processes,
             ForkChild(p, c) \/ ForkByCaller(p, c)
      PROVE  FileInv'
  <2>1. \E updates \in BOOLEAN : Fork(p, c, updates) /\ (Updated => updates)
    <3>1. (UpdateOn = "everyFork" \/ sCacheLogPid[p]) \in BOOLEAN
      BY DEF FileInv, TypeOK
    <3>2. QED
      BY <1>1, <3>1 DEF ForkChild, ForkByCaller, Updated
  <2>2. QED
    BY <2>1, ForkStep
<1>2. CASE UNCHANGED vars
  BY <1>2
  DEF vars, procVars, pidVars, fileVars, callVars, diskVars, histVars,
      FileInv, TypeOK, StreamInv, ProcInv, Agree, IsOpen, OwnInv, WriterInv
<1>3. CASE Next
  BY <1>1, <1>3, SetCacheLogPidStep, DropStep, LoseStep, FprintfStep, FflushStep,
     QuietSetStep, FcloseStep, FopenStep, EndsStep, LogAssumption
  DEF Next, SetStep, QuietSet
<1>4. QED
  BY <1>2, <1>3

-----------------------------------------------------------------------------

(* The types, and at each step of setLogFilePath() and closeLogFile() what *)
(* the path and the stream of every process are, whenever a fork updates   *)
(* the pid; the pids as well when every fork does.                         *)
THEOREM FileCorrect == Spec => []FileInv
<1>1. QED
  BY FileInvInit, FileInvStep, PTL DEF Spec

LEMMA FileInvAgrees == FileInv => PathIsStreams
<1> SUFFICES ASSUME FileInv, NEW p \in Processes
             PROVE  /\ IsOpen(p) => sLogFileStream[p] \in 1..Len(opened)
                    /\ pending[p] # <<>> => IsOpen(p)
                    /\ at[p] \notin Disagreeing /\ ~ halfway[p] => Agree(p)
  BY DEF PathIsStreams, Agree
<1>1. QED
  BY DEF FileInv, StreamInv, ProcInv

(* getLogFilePath() is the path of the stream messages go to, and no       *)
(* closed stream is written to, whoever updates the pid, in every process  *)
(* that is not between two of the assignments of setLogFilePath() and      *)
(* closeLogFile() that change them one after the other, nor was forked     *)
(* there by another thread (FileLoggerImpl.c:49-99).                       *)
THEOREM PathCorrect == Spec => []PathIsStreams
<1>1. QED
  BY FileInvAgrees, FileCorrect, PTL

(* When every fork updates the pid, every line in a log file has the pid   *)
(* of the process that logged it, however processes fork, switch caching,  *)
(* share files and end (Logger.c:48-60, UnixForkUtils.c:39).               *)
THEOREM PidCorrect ==
  ASSUME UpdateOn = "everyFork"
  PROVE  Spec => []PidIsWriters
<1>1. FileInv => PidIsWriters
  BY DEF FileInv, WriterInv, OwnPids, OwnPid, Updated, PidIsWriters
<1>2. QED
  BY <1>1, FileCorrect, PTL

(* The types, PathIsStreams with its two exceptions, and that the pid that *)
(* may be cached is the process's own, when every fork updates it          *)
(* (FileLoggerImpl.c:49-99, Logger.c:164-176).                             *)
THEOREM LogCorrect ==
  ASSUME UpdateOn = "everyFork"
  PROVE  Spec => []LogInv
<1>1. FileInv => LogInv
  BY FileInvAgrees DEF FileInv, OwnInv, OwnPid, Updated, LogInv, PidsAreOwn
<1>2. QED
  BY <1>1, FileCorrect, PTL

-----------------------------------------------------------------------------
(* What is logged is kept.  A file that nobody truncated while it was in   *)
(* use has one open file, at its end, however many processes share it, so  *)
(* that a buffer that is written is appended.  A buffer holds at most one  *)
(* line that no fork() has copied, the last, between fprintf() and         *)
(* fflush() of the process that logged it, later than its lines in the     *)
(* files.                                                                  *)

InUse(p, f) == IsOpen(p) /\ opened[sLogFileStream[p]].file = f

IdleInv ==
  \A p \in Processes :
    /\ p \notin running => ~ IsOpen(p) /\ ~ midPrint[p]
    /\ midPrint[p] => IsOpen(p) /\ at[p] = "out"

EndInv ==
  \A f \in Files \ split : \A p \in Processes :
    InUse(p, f) =>
      /\ opened[sLogFileStream[p]].offset = Len(content[f])
      /\ \A q \in Processes : InUse(q, f) => sLogFileStream[q] = sLogFileStream[p]

NumberInv ==
  /\ \A f \in Files : \A line \in Range(content[f]) \ {Null} : line.n <= lines
  /\ \A p \in Processes : \A line \in Range(pending[p]) : line.n <= lines

(* The lines of p in a file are earlier than this one, but for copies. *)
LaterThan(c, line) ==
  \A f \in Files : \A l \in Range(c[f]) \ {Null} :
    l.writer = line.writer /\ l \notin forkedWith => l.n < line.n

FreshInv ==
  \A p \in Processes : \A i \in 1..Len(pending[p]) :
    pending[p][i] \notin forkedWith =>
      /\ midPrint[p] /\ i = Len(pending[p]) /\ pending[p][i].writer = p
      /\ LaterThan(content, pending[p][i])

InOrder(c, copies) ==
  \A i, j \in 1..Len(c) :
    i < j /\ c[i].writer = c[j].writer /\ {c[i], c[j]} \cap copies = {} => c[i].n < c[j].n

Kept(c, f) ==
  kept[f] \subseteq Range(c[f]) /\ Null \notin Range(c[f]) /\ InOrder(c[f], forkedWith)

KeptInv == \A f \in Files \ split : Kept(content, f)

KeepInv == IdleInv /\ EndInv /\ NumberInv /\ FreshInv /\ KeptInv

-----------------------------------------------------------------------------
(* Writing at the end of a file appends. *)
LEMMA WriteAtEnd ==
  ASSUME NEW S, NEW old \in Seq(S), NEW new \in Seq(S)
  PROVE  WriteAt(old, Len(old), new) = old \o new
<1> DEFINE m == IF Len(old) > Len(old) + Len(new) THEN Len(old) ELSE Len(old) + Len(new)
           w == WriteAt(old, Len(old), new)
<1>1. Len(old) \in Nat /\ Len(new) \in Nat
  OBVIOUS
<1>2. m = Len(old) + Len(new)
  BY <1>1
<1>3. w = [k \in 1..m |->
             IF k > Len(old) /\ k <= Len(old) + Len(new) THEN new[k - Len(old)]
             ELSE IF k <= Len(old) THEN old[k] ELSE Null]
  BY DEF WriteAt
<1> HIDE DEF m, w
<1>4. ASSUME NEW k \in 1..(Len(old) + Len(new))
      PROVE  w[k] = (old \o new)[k]
  <2>1. CASE k <= Len(old)
    BY <1>1, <1>2, <1>3, <2>1
  <2>2. CASE ~ (k <= Len(old))
    BY <1>1, <1>2, <1>3, <2>2
  <2>3. QED
    BY <2>1, <2>2
<1> DEFINE c == old \o new
<1>5. c \in Seq(S) /\ Len(c) = Len(old) + Len(new)
  OBVIOUS
<1>6. \A k \in 1..Len(c) : w[k] = c[k]
  BY <1>4, <1>5
<1> HIDE DEF c
<1>7. c = [k \in 1..Len(c) |-> c[k]]
  BY <1>5
<1>8. w = [k \in 1..Len(c) |-> w[k]]
  BY <1>2, <1>3, <1>5
<1>9. w = c
  BY <1>6, <1>7, <1>8
<1>10. QED
  BY <1>9 DEF w, c

LEMMA RangeAppended ==
  ASSUME NEW S, NEW old \in Seq(S), NEW new \in Seq(S)
  PROVE  Range(old \o new) = Range(old) \cup Range(new)
<1> DEFINE w == old \o new
<1>1. /\ Len(old) \in Nat /\ DOMAIN old = 1..Len(old)
      /\ Len(new) \in Nat /\ DOMAIN new = 1..Len(new)
      /\ w \in Seq(S) /\ Len(w) = Len(old) + Len(new) /\ DOMAIN w = 1..Len(w)
      /\ \A k \in 1..Len(w) : w[k] = IF k <= Len(old) THEN old[k] ELSE new[k - Len(old)]
  OBVIOUS
<1> HIDE DEF w
<1>2. ASSUME NEW x \in Range(w) PROVE x \in Range(old) \cup Range(new)
  <2>1. PICK k \in 1..Len(w) : w[k] = x
    BY <1>1, <1>2 DEF Range
  <2>2. CASE k <= Len(old)
    <3>1. k \in 1..Len(old) /\ x = old[k]
      BY <1>1, <2>1, <2>2
    <3>2. QED
      BY <1>1, <3>1 DEF Range
  <2>3. CASE ~ (k <= Len(old))
    <3>1. k - Len(old) \in 1..Len(new) /\ x = new[k - Len(old)]
      BY <1>1, <2>1, <2>3
    <3>2. QED
      BY <1>1, <3>1 DEF Range
  <2>4. QED
    BY <2>2, <2>3
<1>3. ASSUME NEW x \in Range(old) PROVE x \in Range(w)
  <2>1. PICK k \in 1..Len(old) : old[k] = x
    BY <1>1, <1>3 DEF Range
  <2>2. k \in 1..Len(w) /\ w[k] = x
    BY <1>1, <2>1
  <2>3. QED
    BY <1>1, <2>2 DEF Range
<1>4. ASSUME NEW x \in Range(new) PROVE x \in Range(w)
  <2>1. PICK k \in 1..Len(new) : new[k] = x
    BY <1>1, <1>4 DEF Range
  <2>2. k + Len(old) \in 1..Len(w) /\ w[k + Len(old)] = x
    BY SMTT(30), <1>1, <2>1
  <2>3. QED
    BY <1>1, <2>2 DEF Range
<1>5. QED
  BY <1>2, <1>3, <1>4 DEF w

(* A buffer whose only line that is not a copy is its last, and later than *)
(* what is in the file, keeps the file in order.                           *)
LEMMA AppendOrder ==
  ASSUME NEW old \in Seq(Lines), NEW new \in Seq(Lines), NEW copies,
         InOrder(old, copies),
         \A i \in 1..Len(new) : new[i] \notin copies =>
           /\ i = Len(new)
           /\ \A l \in Range(old) :
                l.writer = new[i].writer /\ l \notin copies => l.n < new[i].n
  PROVE  InOrder(old \o new, copies)
<1> DEFINE w == old \o new
<1>1. /\ Len(old) \in Nat /\ DOMAIN old = 1..Len(old) /\ Len(new) \in Nat
      /\ Len(w) = Len(old) + Len(new)
      /\ \A k \in 1..Len(w) : w[k] = IF k <= Len(old) THEN old[k] ELSE new[k - Len(old)]
  OBVIOUS
<1> HIDE DEF w
<1>2. SUFFICES ASSUME NEW i \in 1..Len(w), NEW j \in 1..Len(w), i < j,
                      w[i].writer = w[j].writer, w[i] \notin copies, w[j] \notin copies
               PROVE  w[i].n < w[j].n
  BY DEF InOrder, w
<1>3. CASE j <= Len(old)
  <2>1. /\ i \in 1..Len(old) /\ j \in 1..Len(old)
        /\ w[i] = old[i] /\ w[j] = old[j]
    BY <1>1, <1>2, <1>3
  <2>2. QED
    BY <1>2, <2>1 DEF InOrder
<1>4. CASE i <= Len(old) /\ ~ (j <= Len(old))
  <2>1. /\ i \in 1..Len(old) /\ j - Len(old) \in 1..Len(new)
        /\ w[i] = old[i] /\ w[j] = new[j - Len(old)]
    BY <1>1, <1>2, <1>4
  <2>2. old[i] \in Range(old)
    BY <1>1, <2>1 DEF Range
  <2>3. QED
    BY <1>2, <2>1, <2>2
<1>5. CASE ~ (i <= Len(old))
  <2>1. /\ i - Len(old) \in 1..Len(new) /\ j - Len(old) \in 1..Len(new)
        /\ w[i] = new[i - Len(old)] /\ w[j] = new[j - Len(old)]
    BY <1>1, <1>2, <1>5
  <2>2. i - Len(old) = Len(new) /\ j - Len(old) = Len(new)
    BY <1>2, <2>1
  <2>3. QED
    BY <1>1, <1>2, <2>2
<1>6. QED
  BY <1>1, <1>3, <1>4, <1>5

-----------------------------------------------------------------------------
(* What is in the files when a buffer was written.                         *)

LEMMA WrittenIs ==
  ASSUME FileInv, KeepInv, NEW p \in Processes, NEW f \in Files
  PROVE  /\ ~ InUse(p, f) => Written(p)[f] = content[f]
         /\ InUse(p, f) /\ f \notin split => Written(p)[f] = content[f] \o pending[p]
<1>1. content \in Content /\ pending[p] \in Seq(Lines)
  BY DEF FileInv, TypeOK, Content
<1>2. CASE ~ IsOpen(p)
  BY <1>2 DEF Written, InUse
<1>3. CASE IsOpen(p) /\ pending[p] = <<>>
  <2>1. Written(p)[f] = content[f]
    BY <1>3 DEF Written
  <2>2. content[f] \o pending[p] = content[f]
    BY <1>1, <1>3 DEF Content
  <2>3. QED
    BY <2>1, <2>2
<1>4. CASE IsOpen(p) /\ pending[p] # <<>>
  <2> DEFINE o == opened[sLogFileStream[p]]
             w == WriteAt(content[o.file], o.offset, pending[p])
  <2>1. Written(p) = [content EXCEPT ![o.file] = w]
    BY <1>4 DEF Written
  <2>2. InUse(p, f) <=> o.file = f
    BY <1>4 DEF InUse
  <2>3. ASSUME InUse(p, f), f \notin split
        PROVE  w = content[f] \o pending[p]
    <3>1. o.file = f /\ o.offset = Len(content[f])
      BY <2>2, <2>3 DEF KeepInv, EndInv
    <3>2. w = WriteAt(content[f], Len(content[f]), pending[p])
      BY <3>1
    <3>3. content[f] \in Seq(Lines \cup {Null}) /\ pending[p] \in Seq(Lines \cup {Null})
      BY <1>1 DEF Content
    <3>4. QED
      BY <3>2, <3>3, WriteAtEnd
  <2> HIDE DEF w, o
  <2>4. QED
    BY <1>1, <2>1, <2>2, <2>3 DEF Content
<1>5. QED
  BY <1>2, <1>3, <1>4

(* No line comes into a file but from the buffer. *)
LEMMA WrittenLines ==
  ASSUME FileInv, NEW p \in Processes, NEW f \in Files,
         NEW line \in Range(Written(p)[f]) \ {Null}
  PROVE  line \in Range(content[f]) \ {Null} \/ line \in Range(pending[p])
<1>1. content \in Content /\ pending[p] \in Seq(Lines)
  BY DEF FileInv, TypeOK, Content
<1>2. CASE ~ IsOpen(p) \/ pending[p] = <<>>
  BY <1>2 DEF Written
<1>3. CASE IsOpen(p) /\ pending[p] # <<>>
  <2> DEFINE o == opened[sLogFileStream[p]]
             w == WriteAt(content[o.file], o.offset, pending[p])
  <2>1. Written(p) = [content EXCEPT ![o.file] = w]
    BY <1>3 DEF Written
  <2>2. o.file \in Files /\ o.offset \in Nat
    <3>1. opened \in Seq(FileRec) /\ sLogFileStream[p] \in 1..Len(opened)
      BY <1>3 DEF FileInv, TypeOK, StreamInv, ProcInv, FileRec
    <3>2. o \in FileRec
      BY <3>1
    <3>3. QED
      BY <3>2 DEF FileRec
  <2>3. content[o.file] \in Seq(Lines \cup {Null})
    BY <1>1, <2>2 DEF Content
  <2>4. Range(w) \subseteq Range(content[o.file]) \cup Range(pending[p]) \cup {Null}
    BY <1>1, <2>2, <2>3, WriteAtType
  <2> HIDE DEF w, o
  <2>5. CASE f = o.file
    BY <1>1, <2>1, <2>4, <2>5 DEF Content
  <2>6. CASE f # o.file
    BY <1>1, <2>1, <2>6 DEF Content
  <2>7. QED
    BY <2>5, <2>6
<1>4. QED
  BY <1>2, <1>3

(* Files that nobody truncated keep what they must, and in order, and have *)
(* the buffer as well.                                                     *)
LEMMA WrittenKept ==
  ASSUME FileInv, KeepInv, NEW p \in Processes, NEW f \in Files \ split
  PROVE  /\ Kept(Written(p), f)
         /\ InUse(p, f) => Range(pending[p]) \subseteq Range(Written(p)[f])
<1>1. /\ content[f] \in Seq(Lines \cup {Null}) /\ pending[p] \in Seq(Lines)
      /\ Kept(content, f)
  BY DEF FileInv, TypeOK, KeepInv, KeptInv
<1>2. CASE ~ InUse(p, f)
  <2>1. Written(p)[f] = content[f]
    BY <1>2, WrittenIs
  <2>2. QED
    BY <1>1, <1>2, <2>1 DEF Kept
<1>3. CASE InUse(p, f)
  <2>1. Written(p)[f] = content[f] \o pending[p]
    BY <1>3, WrittenIs
  <2>2. content[f] \in Seq(Lines)
    <3>1. \A k \in 1..Len(content[f]) : content[f][k] \in Range(content[f])
      BY <1>1 DEF Range
    <3>2. \A k \in 1..Len(content[f]) : content[f][k] \in Lines
      BY <1>1, <3>1 DEF Kept
    <3>3. QED
      BY <1>1, <3>2
  <2>3. Range(Written(p)[f]) = Range(content[f]) \cup Range(pending[p])
    BY <1>1, <2>1, <2>2, RangeAppended
  <2>4. Null \notin Range(pending[p])
    BY <1>1, LogAssumption DEF Range
  <2>5. ASSUME NEW i \in 1..Len(pending[p]), pending[p][i] \notin forkedWith
        PROVE  /\ i = Len(pending[p])
               /\ \A l \in Range(content[f]) :
                    l.writer = pending[p][i].writer /\ l \notin forkedWith =>
                      l.n < pending[p][i].n
    <3>1. i = Len(pending[p]) /\ LaterThan(content, pending[p][i])
      BY <2>5 DEF KeepInv, FreshInv
    <3>2. Null \notin Range(content[f])
      BY <1>1 DEF Kept
    <3>3. QED
      BY <3>1, <3>2 DEF LaterThan
  <2>6. InOrder(content[f] \o pending[p], forkedWith)
    BY <1>1, <2>2, <2>5, AppendOrder DEF Kept
  <2>7. QED
    BY <1>1, <2>1, <2>3, <2>4, <2>6 DEF Kept
<1>4. QED
  BY <1>2, <1>3

(* The open file of a file that nobody truncated moves to its new end. *)
LEMMA MovedToEnd ==
  ASSUME FileInv, KeepInv, NEW p \in Processes, NEW q \in Processes,
         NEW f \in Files \ split, InUse(q, f)
  PROVE  Moved(p)[sLogFileStream[q]].offset = Len(Written(p)[f])
<1> DEFINE s == sLogFileStream[q]
<1>1. /\ opened \in Seq(FileRec) /\ s \in 1..Len(opened)
      /\ opened[s].offset = Len(content[f])
      /\ pending[p] \in Seq(Lines) /\ content[f] \in Seq(Lines \cup {Null})
  BY DEF FileInv, TypeOK, StreamInv, ProcInv, FileRec, KeepInv, EndInv, InUse
<1>2. CASE InUse(p, f)
  <2>1. sLogFileStream[p] = s /\ IsOpen(p)
    BY <1>2 DEF KeepInv, EndInv, InUse
  <2> HIDE DEF s
  <2> DEFINE r == [opened[s] EXCEPT !.offset = @ + Len(pending[p])]
  <2>2. Moved(p) = [opened EXCEPT ![s] = r]
    BY <2>1 DEF Moved
  <2>3. opened[s] \in FileRec
    BY <1>1
  <2>4. r.offset = opened[s].offset + Len(pending[p])
    BY <2>3 DEF FileRec
  <2> HIDE DEF r
  <2>5. Moved(p)[s] = r
    BY <1>1, <2>2
  <2>6. Written(p)[f] = content[f] \o pending[p]
    BY <1>2, WrittenIs
  <2>7. Len(content[f] \o pending[p]) = Len(content[f]) + Len(pending[p])
    BY <1>1
  <2>8. Moved(p)[s].offset = Len(Written(p)[f])
    BY <1>1, <2>4, <2>5, <2>6, <2>7
  <2>9. QED
    BY <2>8 DEF s
<1>3. CASE ~ InUse(p, f)
  <2>1. Written(p)[f] = content[f]
    BY <1>3, WrittenIs
  <2>2. sLogFileStream[p] # s \/ ~ IsOpen(p)
    BY <1>3 DEF InUse
  <2>3. Moved(p)[s] = opened[s]
    BY <1>1, <2>2 DEF Moved
  <2>4. QED
    BY <1>1, <2>1, <2>3
<1>4. QED
  BY <1>2, <1>3

(* The files and the open files after a step that writes a buffer or none. *)
LEMMA DiskKept ==
  ASSUME FileInv, KeepInv, NEW p \in Processes,
         \/ content' = Written(p) /\ opened' = Moved(p)
         \/ UNCHANGED diskVars
  PROVE  /\ \A f \in Files \ split : Kept(content', f)
         /\ \A f \in Files : \A line \in Range(content'[f]) \ {Null} :
              line \in Range(content[f]) \ {Null} \/ line \in Range(pending[p])
         /\ \A f \in Files \ split : \A q \in Processes :
              InUse(q, f) => opened'[sLogFileStream[q]].offset = Len(content'[f])
<1>1. CASE content' = Written(p) /\ opened' = Moved(p)
  <2>1. \A f \in Files \ split : Kept(content', f)
    BY <1>1, WrittenKept
  <2>2. \A f \in Files : \A line \in Range(content'[f]) \ {Null} :
          line \in Range(content[f]) \ {Null} \/ line \in Range(pending[p])
    BY <1>1, WrittenLines
  <2>3. \A f \in Files \ split : \A q \in Processes :
          InUse(q, f) => opened'[sLogFileStream[q]].offset = Len(content'[f])
    BY <1>1, MovedToEnd
  <2>4. QED
    BY <2>1, <2>2, <2>3
<1>2. CASE UNCHANGED diskVars
  <2>1. content' = content /\ opened' = opened
    BY <1>2 DEF diskVars
  <2>2. \A f \in Files \ split : Kept(content', f)
    BY <2>1 DEF KeepInv, KeptInv
  <2>3. \A f \in Files \ split : \A q \in Processes :
          InUse(q, f) => opened'[sLogFileStream[q]].offset = Len(content'[f])
    BY <2>1 DEF KeepInv, EndInv
  <2>4. QED
    BY <2>1, <2>2, <2>3
<1>3. QED
  BY <1>1, <1>2

(* The lines on their way after a step that empties the buffer of p. *)
LEMMA EmptiedFresh ==
  ASSUME FileInv, KeepInv, NEW p \in Processes,
         pending' = [pending EXCEPT ![p] = <<>>],
         UNCHANGED <<lines, forkedWith>>,
         \A q \in Processes \ {p} : midPrint'[q] = midPrint[q],
         \A f \in Files : \A line \in Range(content'[f]) \ {Null} :
           line \in Range(content[f]) \ {Null} \/ line \in Range(pending[p])
  PROVE  NumberInv' /\ FreshInv'
<1>1. pending \in [Processes -> Seq(Lines)]
  BY DEF FileInv, TypeOK
<1>2. pending'[p] = <<>> /\ \A q \in Processes \ {p} : pending'[q] = pending[q]
  BY <1>1
<1>3. NumberInv
  BY DEF KeepInv
<1>4. \A q \in Processes : Range(pending'[q]) \subseteq Range(pending[q])
  BY <1>2 DEF Range
<1>5. NumberInv'
  <2>1. \A f \in Files : \A line \in Range(content'[f]) \ {Null} : line.n <= lines
    BY <1>3 DEF NumberInv
  <2>2. \A q \in Processes : \A line \in Range(pending'[q]) : line.n <= lines
    BY <1>3, <1>4 DEF NumberInv
  <2>3. QED
    BY <2>1, <2>2 DEF NumberInv
<1>6. ASSUME NEW q \in Processes, NEW i \in 1..Len(pending'[q]),
             pending'[q][i] \notin forkedWith
      PROVE  /\ midPrint'[q] /\ i = Len(pending'[q]) /\ pending'[q][i].writer = q
             /\ \A f \in Files : \A l \in Range(content'[f]) \ {Null} :
                  l.writer = pending'[q][i].writer /\ l \notin forkedWith =>
                    l.n < pending'[q][i].n
  <2>1. q # p /\ pending'[q] = pending[q]
    BY <1>2, <1>6
  <2>2. /\ midPrint[q] /\ i = Len(pending[q]) /\ pending[q][i].writer = q
        /\ LaterThan(content, pending[q][i])
    BY <1>6, <2>1 DEF KeepInv, FreshInv
  <2>3. ASSUME NEW l \in Range(pending[p]), l \notin forkedWith
        PROVE  l.writer = p
    <3>1. PICK k \in 1..Len(pending[p]) : l = pending[p][k]
      BY <1>1, <2>3 DEF Range
    <3>2. QED
      BY <2>3, <3>1 DEF KeepInv, FreshInv
  <2>4. ASSUME NEW f \in Files, NEW l \in Range(content'[f]) \ {Null},
               l.writer = pending[q][i].writer, l \notin forkedWith
        PROVE  l.n < pending[q][i].n
    <3>1. l \in Range(content[f]) \ {Null}
      BY <2>1, <2>2, <2>3, <2>4
    <3>2. QED
      BY <2>2, <2>4, <3>1 DEF LaterThan
  <2>5. QED
    BY <2>1, <2>2, <2>4
<1>7. FreshInv'
  BY <1>6 DEF FreshInv, LaterThan
<1>8. QED
  BY <1>5, <1>7

(* A process whose stream is gone: fclose() and the end of the process. *)
LEMMA GoneKeeps ==
  ASSUME FileInv, KeepInv, NEW p \in Processes, NEW gone \in {NoStream, Closed},
         \/ content' = Written(p) /\ opened' = Moved(p)
         \/ UNCHANGED diskVars,
         pending' = [pending EXCEPT ![p] = <<>>],
         sLogFileStream' = [sLogFileStream EXCEPT ![p] = gone],
         UNCHANGED <<lines, forkedWith, kept, split>>,
         running \ {p} \subseteq running',
         \A q \in Processes \ {p} : midPrint'[q] = midPrint[q] /\ at'[q] = at[q],
         ~ midPrint'[p]
  PROVE  KeepInv'
<1>1. /\ \A f \in Files \ split : Kept(content', f)
      /\ \A f \in Files : \A line \in Range(content'[f]) \ {Null} :
           line \in Range(content[f]) \ {Null} \/ line \in Range(pending[p])
      /\ \A f \in Files \ split : \A q \in Processes :
           InUse(q, f) => opened'[sLogFileStream[q]].offset = Len(content'[f])
      /\ \A i \in 1..Len(opened) : opened'[i].file = opened[i].file
  BY DiskKept, DiskKeeps
<1>2. NumberInv' /\ FreshInv'
  BY <1>1, EmptiedFresh
<1>3. sLogFileStream \in [Processes -> Int]
  BY DEF FileInv, TypeOK
<1>4. /\ ~ IsOpen(p)'
      /\ \A q \in Processes \ {p} :
           sLogFileStream'[q] = sLogFileStream[q] /\ (IsOpen(q)' <=> IsOpen(q))
  BY <1>3 DEF IsOpen, NoStream, Closed
<1>5. IdleInv'
  <2>1. ASSUME NEW q \in Processes
        PROVE  /\ q \notin running' => ~ IsOpen(q)' /\ ~ midPrint'[q]
               /\ midPrint'[q] => IsOpen(q)' /\ at'[q] = "out"
    <3>1. CASE q = p
      BY <1>4, <3>1
    <3>2. CASE q # p
      BY <1>4, <3>2 DEF KeepInv, IdleInv
    <3>3. QED
      BY <3>1, <3>2
  <2>2. QED
    BY <2>1 DEF IdleInv
<1>6. ASSUME NEW q \in Processes, NEW f \in Files, InUse(q, f)'
      PROVE  InUse(q, f) /\ sLogFileStream'[q] = sLogFileStream[q]
  <2>1. q # p /\ sLogFileStream'[q] = sLogFileStream[q] /\ IsOpen(q)
    BY <1>4, <1>6 DEF InUse
  <2>2. sLogFileStream[q] \in 1..Len(opened)
    BY <2>1 DEF FileInv, StreamInv, ProcInv
  <2>3. QED
    BY <1>1, <1>6, <2>1, <2>2 DEF InUse
<1>7. EndInv'
  <2>1. ASSUME NEW f \in Files \ split, NEW q \in Processes, InUse(q, f)'
        PROVE  /\ opened'[sLogFileStream'[q]].offset = Len(content'[f])
               /\ \A r \in Processes : InUse(r, f)' =>
                    sLogFileStream'[r] = sLogFileStream'[q]
    <3>1. InUse(q, f) /\ sLogFileStream'[q] = sLogFileStream[q]
      BY <1>6, <2>1
    <3>2. opened'[sLogFileStream'[q]].offset = Len(content'[f])
      BY <1>1, <3>1
    <3>3. ASSUME NEW r \in Processes, InUse(r, f)'
          PROVE  sLogFileStream'[r] = sLogFileStream'[q]
      <4>1. InUse(r, f) /\ sLogFileStream'[r] = sLogFileStream[r]
        BY <1>6, <3>3
      <4>2. QED
        BY <3>1, <4>1 DEF KeepInv, EndInv
    <3>4. QED
      BY <3>2, <3>3
  <2>2. QED
    BY <2>1 DEF EndInv
<1>8. KeptInv'
  BY <1>1 DEF KeptInv, Kept
<1>9. QED
  BY <1>2, <1>5, <1>7, <1>8 DEF KeepInv

-----------------------------------------------------------------------------
LEMMA KeepInvInit == Init => KeepInv
<1> SUFFICES ASSUME Init PROVE KeepInv
  OBVIOUS
<1>1. IdleInv /\ EndInv
  BY DEF Init, IdleInv, EndInv, InUse, IsOpen, NoStream
<1>2. NumberInv /\ FreshInv
  BY DEF Init, NumberInv, FreshInv, Range
<1>3. KeptInv
  BY DEF Init, KeptInv, Kept, InOrder, Range
<1>4. QED
  BY <1>1, <1>2, <1>3 DEF KeepInv

(* A step that writes to no stream, and opens and closes none. *)
LEMMA QuietKeeps ==
  ASSUME FileInv, KeepInv,
         UNCHANGED <<procVars, pending, midPrint, diskVars, forkedWith, kept, split>>,
         \A p \in Processes :
           /\ IsOpen(p)' <=> IsOpen(p)
           /\ IsOpen(p) => sLogFileStream'[p] = sLogFileStream[p]
           /\ midPrint[p] => at'[p] = at[p],
         lines' \in {lines, lines + 1}
  PROVE  KeepInv'
<1>1. /\ running' = running /\ pending' = pending /\ midPrint' = midPrint
      /\ opened' = opened /\ content' = content
      /\ forkedWith' = forkedWith /\ kept' = kept /\ split' = split
  BY DEF procVars, diskVars
<1>2. IdleInv' /\ FreshInv' /\ KeptInv'
  BY <1>1 DEF KeepInv, IdleInv, FreshInv, LaterThan, KeptInv, Kept
<1>3. \A p \in Processes : \A f \in Files :
        InUse(p, f)' => InUse(p, f) /\ sLogFileStream'[p] = sLogFileStream[p]
  BY <1>1 DEF InUse
<1>4. EndInv'
  BY <1>1, <1>3 DEF KeepInv, EndInv
<1>5. lines \in Nat /\ content \in Content /\ pending \in [Processes -> Seq(Lines)]
  BY DEF FileInv, TypeOK, Content
<1>6. NumberInv'
  <2>1. ASSUME NEW line \in Lines, line.n <= lines PROVE line.n <= lines'
    BY <1>5, <2>1 DEF Lines
  <2>2. ASSUME NEW f \in Files, NEW line \in Range(content[f]) \ {Null}
        PROVE  line.n <= lines'
    <3>1. content[f] \in Seq(Lines \cup {Null})
      BY <1>5 DEF Content
    <3>2. line \in Lines
      BY <2>2, <3>1 DEF Range
    <3>3. QED
      BY <2>1, <2>2, <3>2 DEF KeepInv, NumberInv
  <2>3. ASSUME NEW p \in Processes, NEW line \in Range(pending[p])
        PROVE  line.n <= lines'
    <3>1. line \in Lines
      BY <1>5, <2>3 DEF Range
    <3>2. QED
      BY <2>1, <2>3, <3>1 DEF KeepInv, NumberInv
  <2>4. QED
    BY <1>1, <2>2, <2>3 DEF NumberInv
<1>7. QED
  BY <1>2, <1>4, <1>6 DEF KeepInv

LEMMA FprintfKeeps ==
  ASSUME FileInv, KeepInv, NEW p \in Processes, Fprintf(p)
  PROVE  KeepInv'
<1> DEFINE line == [writer |-> p, pid |-> GetLogPid(p), n |-> lines']
<1>1. /\ pending' = [pending EXCEPT ![p] = Append(pending[p], line)]
      /\ midPrint' = [midPrint EXCEPT ![p] = TRUE]
      /\ p \in running /\ ~ midPrint[p] /\ at[p] = "out" /\ IsOpen(p)
      /\ lines' = lines + 1 /\ at' = at
      /\ running' = running /\ sLogFileStream' = sLogFileStream
      /\ opened' = opened /\ content' = content
      /\ forkedWith' = forkedWith /\ kept' = kept /\ split' = split
  BY DEF Fprintf, Ready, procVars, callVars, diskVars, histVars
<1>2. line.writer = p /\ line.n = lines + 1
  BY <1>1
<1> HIDE DEF line
<1>3. /\ pending \in [Processes -> Seq(Lines)] /\ midPrint \in [Processes -> BOOLEAN]
      /\ lines \in Nat /\ content \in Content
  BY DEF FileInv, TypeOK, Content
<1>4. /\ pending'[p] = Append(pending[p], line)
      /\ \A q \in Processes \ {p} : pending'[q] = pending[q]
      /\ midPrint'[p]
      /\ \A q \in Processes \ {p} : midPrint'[q] = midPrint[q]
  BY <1>1, <1>3
<1>5. IdleInv' /\ EndInv' /\ KeptInv'
  BY <1>1, <1>4 DEF KeepInv, IdleInv, EndInv, KeptInv, Kept, InUse, IsOpen
<1>6. \A f \in Files : \A l \in Range(content[f]) \ {Null} :
        l.n \in Nat /\ l.n <= lines
  <2>1. ASSUME NEW f \in Files, NEW l \in Range(content[f]) \ {Null}
        PROVE  l \in Lines
    <3>1. content[f] \in Seq(Lines \cup {Null})
      BY <1>3 DEF Content
    <3>2. QED
      BY <2>1, <3>1 DEF Range
  <2>2. QED
    BY <2>1 DEF KeepInv, NumberInv, Lines
<1>7. NumberInv'
  <2>1. ASSUME NEW q \in Processes, NEW l \in Range(pending'[q])
        PROVE  l.n <= lines'
    <3>1. l = line \/ l \in Range(pending[q])
      <4>1. CASE q = p
        <5>1. pending[p] \in Seq(Lines) /\ pending'[q] = Append(pending[p], line)
          BY <1>3, <1>4, <4>1
        <5>2. QED
          BY <2>1, <4>1, <5>1 DEF Range
      <4>2. CASE q # p
        BY <1>4, <2>1, <4>2
      <4>3. QED
        BY <4>1, <4>2
    <3>2. CASE l = line
      BY <1>1, <1>2, <1>3, <3>2
    <3>3. CASE l \in Range(pending[q])
      <4>1. l \in Lines /\ l.n <= lines
        BY <1>3, <3>3 DEF Range, KeepInv, NumberInv
      <4>2. QED
        BY <1>1, <1>3, <4>1 DEF Lines
    <3>4. QED
      BY <3>1, <3>2, <3>3
  <2>2. \A f \in Files : \A l \in Range(content'[f]) \ {Null} : l.n <= lines'
    BY <1>1, <1>3, <1>6
  <2>3. QED
    BY <2>1, <2>2 DEF NumberInv
<1>8. ASSUME NEW q \in Processes, NEW i \in 1..Len(pending'[q]),
             pending'[q][i] \notin forkedWith
      PROVE  /\ midPrint'[q] /\ i = Len(pending'[q]) /\ pending'[q][i].writer = q
             /\ LaterThan(content, pending'[q][i])
  <2>1. CASE q = p
    <3>1. /\ pending[p] \in Seq(Lines) /\ Len(pending[p]) \in Nat
          /\ Len(pending'[p]) = Len(pending[p]) + 1
          /\ pending'[p][Len(pending[p]) + 1] = line
          /\ \A k \in 1..Len(pending[p]) : pending'[p][k] = pending[p][k]
      BY <1>3, <1>4
    <3>2. i \notin 1..Len(pending[p])
      BY <1>1, <1>8, <2>1, <3>1 DEF KeepInv, FreshInv
    <3>3. i = Len(pending'[p]) /\ pending'[q][i] = line
      BY <1>8, <2>1, <3>1, <3>2
    <3>4. LaterThan(content, line)
      BY <1>2, <1>3, <1>6 DEF LaterThan
    <3>5. QED
      BY <1>2, <1>4, <2>1, <3>3, <3>4
  <2>2. CASE q # p
    BY <1>4, <1>8, <2>2 DEF KeepInv, FreshInv
  <2>3. QED
    BY <2>1, <2>2
<1>9. FreshInv'
  BY <1>1, <1>8 DEF FreshInv, LaterThan
<1>10. QED
  BY <1>5, <1>7, <1>9 DEF KeepInv

LEMMA FflushKeeps ==
  ASSUME FileInv, KeepInv, NEW p \in Processes, Fflush(p)
  PROVE  KeepInv'
<1> DEFINE g == opened[sLogFileStream[p]].file
<1>1. /\ content' = Written(p) /\ opened' = Moved(p)
      /\ pending' = [pending EXCEPT ![p] = <<>>]
      /\ midPrint[p] /\ midPrint' = [midPrint EXCEPT ![p] = FALSE]
      /\ running' = running /\ sLogFileStream' = sLogFileStream /\ at' = at
      /\ lines' = lines /\ forkedWith' = forkedWith /\ split' = split
      /\ kept' = [kept EXCEPT ![g] = kept[g] \cup Range(pending[p])]
  BY DEF Fflush, Keep, procVars, callVars
<1>2. InUse(p, g)
  BY <1>1 DEF KeepInv, IdleInv, InUse
<1> HIDE DEF g
<1>3. /\ \A f \in Files \ split : Kept(content', f)
      /\ \A f \in Files : \A line \in Range(content'[f]) \ {Null} :
           line \in Range(content[f]) \ {Null} \/ line \in Range(pending[p])
      /\ \A f \in Files \ split : \A q \in Processes :
           InUse(q, f) => opened'[sLogFileStream[q]].offset = Len(content'[f])
      /\ \A i \in 1..Len(opened) : opened'[i].file = opened[i].file
  BY <1>1, DiskKept, DiskKeeps
<1>4. midPrint \in [Processes -> BOOLEAN] /\ kept \in [Files -> SUBSET Lines]
  BY DEF FileInv, TypeOK
<1>5. NumberInv' /\ FreshInv'
  <2>1. \A q \in Processes \ {p} : midPrint'[q] = midPrint[q]
    BY <1>1, <1>4
  <2>2. QED
    BY <1>1, <1>3, <2>1, EmptiedFresh
<1>6. IdleInv'
  BY <1>1, <1>4 DEF KeepInv, IdleInv, IsOpen
<1>7. ASSUME NEW q \in Processes, NEW f \in Files, InUse(q, f)'
      PROVE  InUse(q, f)
  <2>1. IsOpen(q) /\ sLogFileStream[q] \in 1..Len(opened)
    BY <1>1, <1>7 DEF InUse, IsOpen, FileInv, StreamInv, ProcInv
  <2>2. QED
    BY <1>1, <1>3, <1>7, <2>1 DEF InUse
<1>8. EndInv'
  <2>1. ASSUME NEW f \in Files \ split, NEW q \in Processes, InUse(q, f)'
        PROVE  /\ opened'[sLogFileStream[q]].offset = Len(content'[f])
               /\ \A r \in Processes : InUse(r, f)' =>
                    sLogFileStream[r] = sLogFileStream[q]
    BY <1>3, <1>7, <2>1 DEF KeepInv, EndInv
  <2>2. QED
    BY <1>1, <2>1 DEF EndInv
<1>9. KeptInv'
  <2>1. ASSUME NEW f \in Files \ split
        PROVE  /\ kept'[f] \subseteq Range(content'[f]) /\ Null \notin Range(content'[f])
               /\ InOrder(content'[f], forkedWith)
    <3>1. Kept(content', f)
      BY <1>3
    <3>2. CASE f = g
      <4>1. Range(pending[p]) \subseteq Range(content'[f])
        BY <1>1, <1>2, <3>2, WrittenKept
      <4>2. kept'[f] = kept[f] \cup Range(pending[p])
        BY <1>1, <1>4, <3>2
      <4>3. QED
        BY <3>1, <4>1, <4>2 DEF Kept
    <3>3. CASE f # g
      BY <1>1, <1>4, <3>1, <3>3 DEF Kept
    <3>4. QED
      BY <3>2, <3>3
  <2>2. QED
    BY <1>1, <2>1 DEF KeptInv, Kept
<1>10. QED
  BY <1>5, <1>6, <1>8, <1>9 DEF KeepInv

LEMMA QuietSetKeeps ==
  ASSUME FileInv, KeepInv, NEW p \in Processes, QuietSet(p)
  PROVE  KeepInv'
<1>1. /\ UNCHANGED <<procVars, pending, midPrint, diskVars, forkedWith, kept, split>>
      /\ lines' = lines
  BY QuietSetFrame
<1>2. \A q \in Processes \ {p} : sLogFileStream'[q] = sLogFileStream[q] /\ at'[q] = at[q]
  BY QuietSetTypes
<1>3. /\ ~ midPrint[p]
      /\ IsOpen(p)' <=> IsOpen(p)
      /\ IsOpen(p) => sLogFileStream'[p] = sLogFileStream[p]
  <2>1. CASE CloseLogFile(p) \/ SetLogFilePath(p)
    BY <2>1 DEF CloseLogFile, SetLogFilePath, CloseFirst, Ready, fileVars, IsOpen
  <2>2. CASE ForgetStream(p)
    <3>1. sLogFileStream[p] = Closed /\ sLogFileStream'[p] = NoStream
      BY <2>2 DEF ForgetStream, FileInv, TypeOK, StreamInv, ProcInv
    <3>2. QED
      BY <2>2, <3>1 DEF ForgetStream, KeepInv, IdleInv, IsOpen, NoStream, Closed
  <2>3. CASE \/ ForgetPath(p) \/ NoPath(p) \/ FopenFails(p) \/ ClearWarning(p)
             \/ \E f \in Files : StorePath(p, f)
    BY <2>3
    DEF ForgetPath, NoPath, FopenFails, ClearWarning, StorePath, fileVars, KeepInv,
        IdleInv, IsOpen
  <2>4. QED
    BY <2>1, <2>2, <2>3 DEF QuietSet
<1>4. ASSUME NEW q \in Processes
      PROVE  /\ IsOpen(q)' <=> IsOpen(q)
             /\ IsOpen(q) => sLogFileStream'[q] = sLogFileStream[q]
             /\ midPrint[q] => at'[q] = at[q]
  <2>1. CASE q = p
    BY <1>3, <2>1
  <2>2. CASE q # p
    BY <1>2, <2>2 DEF IsOpen
  <2>3. QED
    BY <2>1, <2>2
<1>5. QED
  BY <1>1, <1>4, QuietKeeps

LEMMA FcloseKeeps ==
  ASSUME FileInv, KeepInv, NEW p \in Processes, Fclose(p)
  PROVE  KeepInv'
<1>1. /\ at[p] = "fclose" /\ at' = [at EXCEPT ![p] = "null"]
      /\ content' = Written(p) /\ opened' = Moved(p)
      /\ pending' = [pending EXCEPT ![p] = <<>>]
      /\ sLogFileStream' = [sLogFileStream EXCEPT ![p] = Closed]
      /\ running' = running /\ midPrint' = midPrint
      /\ UNCHANGED <<lines, forkedWith, kept, split>>
  BY DEF Fclose, procVars, histVars
<1>2. ~ midPrint'[p]
  BY <1>1 DEF KeepInv, IdleInv
<1>3. \A q \in Processes \ {p} : midPrint'[q] = midPrint[q] /\ at'[q] = at[q]
  BY <1>1 DEF FileInv, TypeOK
<1>4. QED
  BY <1>1, <1>2, <1>3, GoneKeeps

LEMMA EndsKeeps ==
  ASSUME FileInv, KeepInv, NEW p \in Processes, Exit(p) \/ Killed(p)
  PROVE  KeepInv'
<1>1. /\ running' = running \ {p}
      /\ sLogFileStream' = [sLogFileStream EXCEPT ![p] = NoStream]
      /\ pending' = [pending EXCEPT ![p] = <<>>]
      /\ midPrint' = [midPrint EXCEPT ![p] = FALSE]
      /\ at' = [at EXCEPT ![p] = "out"]
      /\ UNCHANGED <<lines, forkedWith, kept, split>>
      /\ (content' = Written(p) /\ opened' = Moved(p)) \/ UNCHANGED diskVars
  BY DEF Exit, Killed, Ends
<1>2. /\ ~ midPrint'[p]
      /\ \A q \in Processes \ {p} : midPrint'[q] = midPrint[q] /\ at'[q] = at[q]
  BY <1>1 DEF FileInv, TypeOK
<1>3. QED
  BY <1>1, <1>2, GoneKeeps

LEMMA FopenKeeps ==
  ASSUME FileInv, KeepInv, NEW p \in Processes, NEW f \in Files, Fopen(p, f)
  PROVE  KeepInv'
<1> DEFINE new == [file |-> f, offset |-> 0]
           n == Len(opened) + 1
<1>1. opened \in Seq(FileRec) /\ new \in FileRec /\ new.file = f /\ new.offset = 0
  BY DEF FileInv, TypeOK, FileRec
<1>2. opened' = Append(opened, new)
  BY DEF Fopen
<1> HIDE DEF new
<1>3. /\ Len(opened) \in Nat /\ n \in Nat /\ n > NoStream /\ n \notin 1..Len(opened)
      /\ Len(opened') = n /\ opened'[n] = new
      /\ \A i \in 1..Len(opened) : opened'[i] = opened[i]
  BY <1>1, <1>2 DEF NoStream
<1>4. /\ sLogFileStream' = [sLogFileStream EXCEPT ![p] = n]
      /\ content' = [content EXCEPT ![f] = <<>>]
      /\ kept' = [kept EXCEPT ![f] = {}]
      /\ split' = IF OthersOn(p, f) THEN split \cup {f} ELSE split \ {f}
      /\ p \in running /\ running' = running
      /\ at[p] = "fopen" /\ at' = [at EXCEPT ![p] = "unwarn"]
      /\ midPrint' = midPrint /\ pending' = pending
      /\ lines' = lines /\ forkedWith' = forkedWith
  BY <1>3 DEF Fopen, procVars
<1> HIDE DEF n
<1>5. /\ sLogFileStream \in [Processes -> Int] /\ kept \in [Files -> SUBSET Lines]
      /\ at \in [Processes -> Steps] /\ content \in Content
  BY DEF FileInv, TypeOK, Content
<1>6. ~ midPrint[p]
  BY <1>4 DEF KeepInv, IdleInv
<1>7. /\ sLogFileStream'[p] = n /\ IsOpen(p)'
      /\ \A q \in Processes \ {p} : /\ sLogFileStream'[q] = sLogFileStream[q]
                                    /\ IsOpen(q)' <=> IsOpen(q)
                                    /\ at'[q] = at[q]
      /\ content'[f] = <<>> /\ kept'[f] = {}
      /\ \A g \in Files \ {f} : content'[g] = content[g] /\ kept'[g] = kept[g]
  BY <1>3, <1>4, <1>5 DEF Content, IsOpen
<1>8. NumberInv' /\ FreshInv'
  <2>1. ASSUME NEW g \in Files, NEW line \in Range(content'[g]) \ {Null}
        PROVE  line \in Range(content[g]) \ {Null}
    BY <1>7, <2>1 DEF Range
  <2>2. NumberInv'
    BY <1>4, <2>1 DEF KeepInv, NumberInv
  <2>3. ASSUME NEW line, LaterThan(content, line) PROVE LaterThan(content', line)
    BY <2>1, <2>3 DEF LaterThan
  <2>4. FreshInv'
    <3>1. ASSUME NEW q \in Processes, NEW i \in 1..Len(pending[q]),
                 pending[q][i] \notin forkedWith
          PROVE  /\ midPrint[q] /\ i = Len(pending[q]) /\ pending[q][i].writer = q
                 /\ LaterThan(content', pending[q][i])
      BY <2>3, <3>1 DEF KeepInv, FreshInv
    <3>2. QED
      BY <1>4, <3>1 DEF FreshInv, LaterThan
  <2>5. QED
    BY <2>2, <2>4
<1>9. IdleInv'
  <2>1. ASSUME NEW q \in Processes
        PROVE  /\ q \notin running => ~ IsOpen(q)' /\ ~ midPrint[q]
               /\ midPrint[q] => IsOpen(q)' /\ at'[q] = "out"
    <3>1. CASE q = p
      BY <1>4, <1>6, <3>1
    <3>2. CASE q # p
      BY <1>7, <3>2 DEF KeepInv, IdleInv
    <3>3. QED
      BY <3>1, <3>2
  <2>2. QED
    BY <1>4, <2>1 DEF IdleInv
<1>10. ASSUME NEW q \in Processes \ {p}, NEW g \in Files, InUse(q, g)'
       PROVE  /\ sLogFileStream'[q] = sLogFileStream[q]
              /\ sLogFileStream[q] \in 1..Len(opened)
              /\ InUse(q, g) /\ q \in running
  <2>1. sLogFileStream'[q] = sLogFileStream[q] /\ IsOpen(q)
    BY <1>7, <1>10 DEF InUse
  <2>2. sLogFileStream[q] \in 1..Len(opened)
    BY <2>1 DEF FileInv, StreamInv, ProcInv
  <2>3. opened'[sLogFileStream[q]].file = opened[sLogFileStream[q]].file
    BY <1>3, <2>2
  <2>4. QED
    BY <1>10, <2>1, <2>2, <2>3 DEF InUse, KeepInv, IdleInv
<1>11. ASSUME NEW g \in Files, InUse(p, g)' PROVE g = f
  BY <1>1, <1>3, <1>7, <1>11 DEF InUse
<1>12. ASSUME NEW g \in Files \ split', NEW q \in Processes, InUse(q, g)'
       PROVE  /\ opened'[sLogFileStream'[q]].offset = Len(content'[g])
              /\ \A r \in Processes : InUse(r, g)' => sLogFileStream'[r] = sLogFileStream'[q]
  <2>1. CASE g = f
    <3>1. ~ OthersOn(p, f)
      BY <1>4, <1>12, <2>1
    <3>2. ASSUME NEW r \in Processes, InUse(r, f)' PROVE r = p
      BY <1>10, <3>1, <3>2 DEF OthersOn, InUse
    <3>3. q = p /\ \A r \in Processes : InUse(r, g)' => r = p
      BY <1>12, <2>1, <3>2
    <3>4. Len(content'[g]) = 0
      BY <1>7, <2>1
    <3>5. QED
      BY <1>1, <1>3, <1>7, <3>3, <3>4
  <2>2. CASE g # f
    <3>1. g \in Files \ split
      BY <1>4, <1>12, <2>2
    <3>2. ASSUME NEW r \in Processes, InUse(r, g)' PROVE r # p
      BY <1>11, <2>2, <3>2
    <3>3. /\ sLogFileStream'[q] = sLogFileStream[q] /\ InUse(q, g)
          /\ sLogFileStream[q] \in 1..Len(opened)
      BY <1>10, <1>12, <3>2
    <3>4. opened[sLogFileStream[q]].offset = Len(content[g])
      BY <3>1, <3>3 DEF KeepInv, EndInv
    <3>5. opened'[sLogFileStream'[q]].offset = Len(content'[g])
      BY <1>3, <1>7, <2>2, <3>3, <3>4
    <3>6. ASSUME NEW r \in Processes, InUse(r, g)'
          PROVE  sLogFileStream'[r] = sLogFileStream'[q]
      <4>1. sLogFileStream'[r] = sLogFileStream[r] /\ InUse(r, g)
        BY <1>10, <3>2, <3>6
      <4>2. QED
        BY <3>1, <3>3, <4>1 DEF KeepInv, EndInv
    <3>7. QED
      BY <3>5, <3>6
  <2>3. QED
    BY <2>1, <2>2
<1>13. EndInv'
  BY <1>12 DEF EndInv
<1>14. KeptInv'
  <2>1. ASSUME NEW g \in Files \ split'
        PROVE  /\ kept'[g] \subseteq Range(content'[g]) /\ Null \notin Range(content'[g])
               /\ InOrder(content'[g], forkedWith)
    <3>1. CASE g = f
      BY <1>7, <3>1 DEF Range, InOrder
    <3>2. CASE g # f
      <4>1. g \in Files \ split
        BY <1>4, <3>2
      <4>2. Kept(content, g)
        BY <4>1 DEF KeepInv, KeptInv
      <4>3. QED
        BY <1>7, <3>2, <4>2 DEF Kept
    <3>3. QED
      BY <3>1, <3>2
  <2>2. QED
    BY <1>4, <2>1 DEF KeptInv, Kept
<1>15. QED
  BY <1>8, <1>9, <1>13, <1>14 DEF KeepInv

LEMMA ForkKeeps ==
  ASSUME FileInv, KeepInv, NEW p \in Processes, NEW c \in Processes,
         NEW updates, Fork(p, c, updates)
  PROVE  KeepInv'
<1>1. /\ p \in running /\ c \notin running
      /\ running' = running \cup {c}
      /\ sLogFileStream' = Copied(sLogFileStream, p, c)
      /\ pending' = Copied(pending, p, c)
      /\ forkedWith' = forkedWith \cup Range(pending[p])
      /\ midPrint' = midPrint /\ at' = at /\ opened' = opened /\ content' = content
      /\ lines' = lines /\ kept' = kept /\ split' = split
  BY DEF Fork, diskVars
<1>2. /\ pending \in [Processes -> Seq(Lines)]
      /\ pending'[c] = pending[p]
      /\ \A q \in Processes \ {c} : pending'[q] = pending[q]
  BY <1>1 DEF FileInv, TypeOK, Copied
<1>3. /\ sLogFileStream'[c] = sLogFileStream[p]
      /\ \A q \in Processes \ {c} : sLogFileStream'[q] = sLogFileStream[q]
      /\ IsOpen(c)' <=> IsOpen(p)
      /\ \A q \in Processes \ {c} : IsOpen(q)' <=> IsOpen(q)
  BY <1>1 DEF FileInv, TypeOK, Copied, IsOpen
<1>4. IdleInv'
  <2>1. ~ midPrint[c]
    BY <1>1 DEF KeepInv, IdleInv
  <2>2. QED
    BY <1>1, <1>3, <2>1 DEF KeepInv, IdleInv
<1>5. EndInv'
  <2>1. ASSUME NEW q \in Processes
        PROVE  \E r \in Processes : /\ sLogFileStream'[q] = sLogFileStream[r]
                                    /\ \A f \in Files : InUse(q, f)' <=> InUse(r, f)
    BY <1>1, <1>3 DEF InUse
  <2>2. ASSUME NEW f \in Files \ split, NEW q \in Processes, InUse(q, f)'
        PROVE  /\ opened[sLogFileStream'[q]].offset = Len(content[f])
               /\ \A r \in Processes : InUse(r, f)' =>
                    sLogFileStream'[r] = sLogFileStream'[q]
    <3>1. PICK q1 \in Processes : sLogFileStream'[q] = sLogFileStream[q1] /\ InUse(q1, f)
      BY <2>1, <2>2
    <3>2. ASSUME NEW r \in Processes, InUse(r, f)'
          PROVE  sLogFileStream'[r] = sLogFileStream'[q]
      <4>1. PICK r1 \in Processes : sLogFileStream'[r] = sLogFileStream[r1] /\ InUse(r1, f)
        BY <2>1, <3>2
      <4>2. QED
        BY <3>1, <4>1 DEF KeepInv, EndInv
    <3>3. QED
      BY <3>1, <3>2 DEF KeepInv, EndInv
  <2>3. QED
    BY <1>1, <2>2 DEF EndInv
<1>6. NumberInv'
  BY <1>1, <1>2 DEF KeepInv, NumberInv
<1>7. FreshInv'
  <2>1. ASSUME NEW q \in Processes, NEW i \in 1..Len(pending'[q]),
               pending'[q][i] \notin forkedWith'
        PROVE  /\ midPrint[q] /\ i = Len(pending'[q]) /\ pending'[q][i].writer = q
               /\ \A f \in Files : \A l \in Range(content[f]) \ {Null} :
                    l.writer = pending'[q][i].writer /\ l \notin forkedWith' =>
                      l.n < pending'[q][i].n
    <3>1. q # c
      <4>1. SUFFICES ASSUME q = c PROVE FALSE
        OBVIOUS
      <4>2. pending'[q][i] \in Range(pending[p])
        BY <1>2, <2>1, <4>1 DEF Range
      <4>3. QED
        BY <1>1, <2>1, <4>2
    <3>2. /\ midPrint[q] /\ i = Len(pending[q]) /\ pending[q][i].writer = q
          /\ LaterThan(content, pending[q][i])
      BY <1>1, <1>2, <2>1, <3>1 DEF KeepInv, FreshInv
    <3>3. QED
      BY <1>1, <1>2, <3>1, <3>2 DEF LaterThan
  <2>2. QED
    BY <1>1, <2>1 DEF FreshInv, LaterThan
<1>8. KeptInv'
  <2>1. ASSUME NEW f \in Files \ split PROVE InOrder(content[f], forkedWith')
    <3>1. InOrder(content[f], forkedWith)
      BY DEF KeepInv, KeptInv, Kept
    <3>2. QED
      BY <1>1, <3>1 DEF InOrder
  <2>2. QED
    BY <1>1, <2>1 DEF KeepInv, KeptInv, Kept
<1>9. QED
  BY <1>4, <1>5, <1>6, <1>7, <1>8 DEF KeepInv

LEMMA KeepInvStep ==
  ASSUME FileInv, KeepInv, [Next]_vars
  PROVE  KeepInv'
<1>1. ASSUME NEW p \in Processes, NEW cache \in BOOLEAN,
             SetCacheLogPid(p, cache) \/ Drop(p) \/ Lose(p)
      PROVE  KeepInv'
  <2>1. /\ UNCHANGED <<procVars, pending, midPrint, diskVars, forkedWith, kept, split>>
        /\ lines' \in {lines, lines + 1}
        /\ sLogFileStream' = sLogFileStream /\ at' = at
    BY <1>1 DEF SetCacheLogPid, Drop, Lose, fileVars, callVars, histVars
  <2>2. QED
    BY <2>1, QuietKeeps DEF IsOpen
<1>2. CASE UNCHANGED vars
  <2>1. /\ UNCHANGED <<procVars, pending, midPrint, diskVars, forkedWith, kept, split>>
        /\ lines' \in {lines, lines + 1}
        /\ sLogFileStream' = sLogFileStream /\ at' = at
    BY <1>2 DEF vars, fileVars, callVars, histVars
  <2>2. QED
    BY <2>1, QuietKeeps DEF IsOpen
<1>3. CASE Next
  BY <1>1, <1>3, FprintfKeeps, FflushKeeps, QuietSetKeeps, FcloseKeeps, FopenKeeps,
     ForkKeeps, EndsKeeps, LogAssumption
  DEF Next, SetStep, QuietSet, ForkChild, ForkByCaller
<1>4. QED
  BY <1>2, <1>3

(* What has been logged is in the file it was logged to, and in order, for *)
(* any number of processes that share its stream, fork between fprintf()   *)
(* and fflush(), are killed, close the log file and open it again          *)
(* (FileLoggerImpl.c:28-41), whoever updates the pid.                      *)
THEOREM KeepCorrect == Spec => []LoggedIsKept
<1>1. KeepInv => LoggedIsKept
  BY DEF KeepInv, KeptInv, Kept, InOrder, LoggedIsKept
<1>2. FileInv /\ KeepInv /\ [Next]_vars => KeepInv'
  BY KeepInvStep
<1>3. QED
  BY <1>1, <1>2, KeepInvInit, FileCorrect, PTL DEF Spec

-----------------------------------------------------------------------------
(* A process that has no stream, or is about to lose it, and need not warn *)
(* any more has warned, or its caller closed the log file.                 *)
Excused(p) == (~ IsOpen(p) \/ at[p] = "fclose") => sWarnNoLogFileSet[p] \/ excused[p]

ExcusedInv == \A p \in Processes : Excused(p)

LEMMA ExcusedStep ==
  ASSUME FileInv, ExcusedInv, [Next]_vars
  PROVE  ExcusedInv'
<1> USE DEF ExcusedInv, Excused
<1>1. /\ sLogFileStream \in [Processes -> Int]
      /\ at \in [Processes -> Steps]
      /\ sWarnNoLogFileSet \in [Processes -> BOOLEAN]
      /\ excused \in [Processes -> BOOLEAN]
  BY DEF FileInv, TypeOK
<1>2. CASE UNCHANGED <<sLogFileStream, at, sWarnNoLogFileSet, excused>>
  BY <1>2 DEF IsOpen
<1>3. ASSUME NEW p \in Processes,
             \A q \in Processes \ {p} :
               /\ sLogFileStream'[q] = sLogFileStream[q] /\ at'[q] = at[q]
               /\ sWarnNoLogFileSet'[q] = sWarnNoLogFileSet[q]
               /\ excused'[q] = excused[q],
             Excused(p)'
      PROVE  ExcusedInv'
  BY <1>3 DEF IsOpen
<1>4. ASSUME NEW p \in Processes, Drop(p) PROVE ExcusedInv'
  <2>1. /\ sLogFileStream' = sLogFileStream /\ at' = at
        /\ sWarnNoLogFileSet' = [sWarnNoLogFileSet EXCEPT ![p] = FALSE]
        /\ excused' = [excused EXCEPT ![p] = excused[p] \/ sWarnNoLogFileSet[p]]
        /\ sLogFileStream[p] = NoStream
    BY <1>4 DEF Drop, callVars
  <2>2. ~ IsOpen(p)
    BY <2>1 DEF IsOpen, NoStream
  <2>3. excused'[p] = (excused[p] \/ sWarnNoLogFileSet[p])
    BY <1>1, <2>1
  <2>4. excused'[p]
    BY <2>2, <2>3
  <2>5. QED
    BY <1>1, <1>3, <2>1, <2>4
<1>5. ASSUME NEW p \in Processes, CloseLogFile(p) PROVE ExcusedInv'
  <2>1. /\ sLogFileStream' = sLogFileStream /\ sWarnNoLogFileSet' = sWarnNoLogFileSet
        /\ at' = [at EXCEPT ![p] = IF sLogFileStream[p] = NoStream THEN "forget"
                                   ELSE "fclose"]
        /\ excused' = [excused EXCEPT ![p] = excused[p] \/ sLogFileStream[p] # NoStream]
    BY <1>5 DEF CloseLogFile, CloseFirst, fileVars
  <2>2. excused'[p] = (excused[p] \/ sLogFileStream[p] # NoStream)
    BY <1>1, <2>1
  <2>3. Excused(p)'
    <3>1. CASE sLogFileStream[p] = NoStream
      <4>1. ~ IsOpen(p)
        BY <3>1 DEF IsOpen, NoStream
      <4>2. sWarnNoLogFileSet[p] \/ excused[p]
        BY <4>1
      <4>3. QED
        BY <2>1, <2>2, <4>2
    <3>2. CASE sLogFileStream[p] # NoStream
      BY <2>2, <3>2
    <3>3. QED
      BY <3>1, <3>2
  <2>4. QED
    BY <1>1, <1>3, <2>1, <2>3
<1>6. ASSUME NEW p \in Processes, SetLogFilePath(p) PROVE ExcusedInv'
  <2>1. /\ sLogFileStream' = sLogFileStream
        /\ sWarnNoLogFileSet' = [sWarnNoLogFileSet EXCEPT ![p] = TRUE]
        /\ at' = [at EXCEPT ![p] = IF sLogFileStream[p] = NoStream THEN "forget"
                                   ELSE "fclose"]
        /\ excused' = [excused EXCEPT ![p] = FALSE]
    BY <1>6 DEF SetLogFilePath, CloseFirst
  <2>2. sWarnNoLogFileSet'[p]
    BY <1>1, <2>1
  <2>3. QED
    BY <1>1, <1>3, <2>1, <2>2
<1>7. ASSUME NEW p \in Processes, Fclose(p) \/ ForgetStream(p) \/ ForgetPath(p)
      PROVE  ExcusedInv'
  <2>1. /\ UNCHANGED <<sWarnNoLogFileSet, excused>>
        /\ at[p] \in {"fclose", "null", "forget"}
        /\ \A q \in Processes \ {p} :
             sLogFileStream'[q] = sLogFileStream[q] /\ at'[q] = at[q]
    BY <1>1, <1>7 DEF Fclose, ForgetStream, ForgetPath, histVars
  <2>2. at[p] # "fclose" => ~ IsOpen(p)
    BY <2>1 DEF FileInv, StreamInv, ProcInv, IsOpen, NoStream, Closed
  <2>3. sWarnNoLogFileSet[p] \/ excused[p]
    BY <2>2
  <2>4. QED
    BY <1>3, <2>1, <2>3
<1>8. ASSUME NEW p \in Processes,
             \/ NoPath(p) \/ FopenFails(p)
             \/ \E f \in Files : StorePath(p, f)
      PROVE  ExcusedInv'
  <2>1. /\ UNCHANGED <<sLogFileStream, sWarnNoLogFileSet, excused>>
        /\ at[p] \in {"store", "fopen"}
        /\ \A q \in Processes \ {p} : at'[q] = at[q]
    BY <1>1, <1>8 DEF NoPath, FopenFails, StorePath, fileVars, histVars
  <2>2. ~ IsOpen(p)
    BY <2>1 DEF FileInv, StreamInv, ProcInv, IsOpen, NoStream
  <2>3. sWarnNoLogFileSet[p] \/ excused[p]
    BY <2>2
  <2>4. QED
    BY <1>3, <2>1, <2>3
<1>9. ASSUME NEW p \in Processes, NEW f \in Files, Fopen(p, f) PROVE ExcusedInv'
  <2>1. Len(opened') \in Nat /\ Len(opened') > NoStream
    <3>1. opened' = Append(opened, [file |-> f, offset |-> 0])
      BY <1>9 DEF Fopen
    <3>2. opened \in Seq(FileRec)
      BY DEF FileInv, TypeOK, FileRec
    <3>3. QED
      BY <3>1, <3>2 DEF NoStream
  <2>2. /\ sLogFileStream' = [sLogFileStream EXCEPT ![p] = Len(opened')]
        /\ at' = [at EXCEPT ![p] = "unwarn"]
        /\ UNCHANGED <<sWarnNoLogFileSet, excused>>
    BY <1>9 DEF Fopen
  <2>3. IsOpen(p)' /\ at'[p] # "fclose"
    BY <1>1, <2>1, <2>2 DEF IsOpen
  <2>4. QED
    BY <1>1, <1>3, <2>2, <2>3
<1>10. ASSUME NEW p \in Processes, ClearWarning(p) PROVE ExcusedInv'
  <2>1. /\ UNCHANGED <<sLogFileStream, excused>>
        /\ at[p] = "unwarn" /\ at' = [at EXCEPT ![p] = "out"]
        /\ sWarnNoLogFileSet' = [sWarnNoLogFileSet EXCEPT ![p] = FALSE]
    BY <1>10 DEF ClearWarning, histVars
  <2>2. IsOpen(p)' /\ at'[p] # "fclose"
    BY <1>1, <2>1 DEF FileInv, StreamInv, ProcInv, IsOpen
  <2>3. QED
    BY <1>1, <1>3, <2>1, <2>2
<1>11. ASSUME NEW p \in Processes, NEW c \in Processes, NEW updates, Fork(p, c, updates)
       PROVE  ExcusedInv'
  <2>1. /\ at' = at /\ at[c] = "out"
        /\ sLogFileStream' = [sLogFileStream EXCEPT ![c] = sLogFileStream[p]]
        /\ sWarnNoLogFileSet' = [sWarnNoLogFileSet EXCEPT ![c] = sWarnNoLogFileSet[p]]
        /\ excused' = [excused EXCEPT ![c] = excused[p]]
    BY <1>11 DEF Fork, Copied, FileInv, StreamInv, ProcInv
  <2>2. Excused(c)'
    BY <1>1, <2>1 DEF IsOpen
  <2>3. QED
    BY <1>1, <1>3, <2>1, <2>2
<1>12. ASSUME NEW p \in Processes, Exit(p) \/ Killed(p) PROVE ExcusedInv'
  BY <1>1, <1>12 DEF Exit, Killed, Ends, IsOpen
<1>13. ASSUME NEW p \in Processes,
              \/ \E cache \in Caching : SetCacheLogPid(p, cache)
              \/ Lose(p) \/ Fprintf(p) \/ Fflush(p)
       PROVE  ExcusedInv'
  <2>1. UNCHANGED <<sLogFileStream, at, sWarnNoLogFileSet, excused>>
    BY <1>13 DEF SetCacheLogPid, Lose, Fprintf, Fflush, fileVars, callVars, histVars
  <2>2. QED
    BY <1>2, <2>1
<1>14. CASE Next
  BY <1>4, <1>5, <1>6, <1>7, <1>8, <1>9, <1>10, <1>11, <1>12, <1>13, <1>14
  DEF Next, SetStep, ForkChild, ForkByCaller
<1>15. CASE UNCHANGED vars
  BY <1>2, <1>15 DEF vars, fileVars, callVars, histVars
<1>16. QED
  BY <1>14, <1>15

(* Nobody drops a message without having been told on stderr that no log   *)
(* file is set, unless the caller closed it, through any calls of          *)
(* setLogFilePath() that fail, and in processes that inherit a logger      *)
(* without a file; and only a process that was forked where its parent     *)
(* changed path and stream writes to a stream that was closed              *)
(* (FileLoggerImpl.c:31-37, 54, 93-96).                                    *)
THEOREM DropsExcused == Spec => DropsAnnounced
<1>1. Init => ExcusedInv
  BY DEF Init, ExcusedInv, Excused
<1>2. FileInv /\ ExcusedInv /\ [Next]_vars => ExcusedInv'
  BY ExcusedStep
<1>3. FileInv /\ ExcusedInv /\ [Next]_vars =>
        [\A p \in Processes : /\ Drop(p) => excused'[p]
                              /\ Lose(p) => halfway[p]]_vars
  <2>1. ASSUME FileInv, ExcusedInv, NEW p \in Processes, Drop(p)
        PROVE  excused'[p]
    <3>1. excused'[p] = (excused[p] \/ sWarnNoLogFileSet[p]) /\ sLogFileStream[p] = NoStream
      BY <2>1 DEF Drop, FileInv, TypeOK
    <3>2. ~ IsOpen(p)
      BY <3>1 DEF IsOpen, NoStream
    <3>3. QED
      BY <2>1, <3>1, <3>2 DEF ExcusedInv, Excused
  <2>2. ASSUME FileInv, NEW p \in Processes, Lose(p)
        PROVE  halfway[p]
    <3>1. at[p] = "out" /\ sLogFileStream[p] = Closed
      BY <2>2 DEF Lose, Ready
    <3>2. SUFFICES ASSUME ~ halfway[p] PROVE FALSE
      OBVIOUS
    <3>3. ProcInv(p)
      BY <2>2 DEF FileInv, StreamInv
    <3>4. at[p] \notin Disagreeing
      BY <3>1 DEF Disagreeing
    <3>5. Agree(p)
      BY <3>2, <3>3, <3>4 DEF ProcInv
    <3>6. QED
      BY <3>1, <3>5 DEF Agree
  <2>3. QED
    BY <2>1, <2>2
<1>4. QED
  BY <1>1, <1>2, <1>3, FileCorrect, PTL DEF Spec, DropsAnnounced

=============================================================================
