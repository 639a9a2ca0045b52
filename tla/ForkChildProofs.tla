-------------------------- MODULE ForkChildProofs --------------------------
(***************************************************************************)
(* forkChild() for all processes, bytes, pipe capacities and buffer sizes. *)
(***************************************************************************)
EXTENDS ForkChild, TLAPS, SequenceTheorems

-----------------------------------------------------------------------------
(* The sizes of the buffer by themselves: for every initial size and every *)
(* output an int can count, the reading loop of forkChild() stays inside   *)
(* its buffer and leaves room for the NUL.                                 *)

(* As long as the output is bounded by INT_MAX, the int holds the size_t. *)
LEMMA CIntIsIdentity ==
  ASSUME NEW k \in Nat, k <= MaxOutput
  PROVE  CInt(k) = k
BY SizesAssumption DEF CInt

(* The sizes are related before the buffer is allocated. *)
LEMMA SizesInvInit == BufferInit => SizesInv
BY SizesAssumption DEF BufferInit, SizesInv, BufferTypeOK, StoresInBounds, RoomLeft,
                       Phases

(* Every step of the loop keeps them related. *)
LEMMA SizesInvStep == SizesInv /\ [BufferNext]_(bufVars) => SizesInv'
<1> SUFFICES ASSUME SizesInv, [BufferNext]_(bufVars)
             PROVE  SizesInv'
  OBVIOUS
<1> USE SizesAssumption DEF SizesInv, BufferTypeOK, StoresInBounds, RoomLeft,
                            Phases
<1>1. CASE Allocate
  BY <1>1 DEF Allocate
<1>2. CASE CopyByte
  BY <1>2 DEF CopyByte
<1>3. ASSUME NEW ended \in BOOLEAN, NEW err \in BOOLEAN, FreadReturn(ended, err)
      PROVE  SizesInv'
  <2>1. phase = "fread" /\ CInt(copied) = copied
    BY <1>3, CIntIsIdentity DEF FreadReturn
  <2>2. CASE bufferFree - copied <= 0
    <3>1. bufferFree = copied
      BY <2>1, <2>2
    <3>2. bufferSize' = bufferSize * 2
      BY <1>3, <2>1, <2>2 DEF FreadReturn, Full
    <3>3. bufferFree' = bufferSize /\ bufferData' = bufferSize /\ copied' = 0
      BY <1>3, <2>1, <2>2, <3>1 DEF FreadReturn, Full, Freed
    <3>4. phase' \in {"fread", "eof"}
      BY <1>3 DEF FreadReturn
    <3>5. QED
      BY <2>1, <3>1, <3>2, <3>3, <3>4
  <2>3. CASE bufferFree - copied > 0
    <3>1. /\ bufferSize' = bufferSize
          /\ bufferFree' = bufferFree - copied
          /\ bufferData' = bufferData + copied
          /\ copied' = 0
      BY <1>3, <2>1, <2>3 DEF FreadReturn, Full, Freed
    <3>2. phase' \in {"fread", "eof"}
      BY <1>3 DEF FreadReturn
    <3>3. QED
      BY <2>1, <2>3, <3>1, <3>2
  <2>4. QED
    BY <2>2, <2>3
<1>4. ASSUME NEW newline \in BOOLEAN, Finish(newline)
      PROVE  SizesInv'
  BY <1>4 DEF Finish
<1>5. CASE Fail
  BY <1>5 DEF Fail
<1>6. CASE UNCHANGED bufVars
  BY <1>6 DEF bufVars
<1>7. QED
  BY <1>1, <1>2, <1>3, <1>4, <1>5, <1>6 DEF BufferNext

(* The sizes stay related as the loop of forkChild() needs them to be. *)
THEOREM SizesCorrect == BufferSpec => []SizesInv
BY SizesInvInit, SizesInvStep, PTL DEF BufferSpec

-----------------------------------------------------------------------------
(* Each step of forkChild() is a step of the sizes, or leaves them alone. *)

LEMMA ChildStepKeepsBuf == ChildStep => UNCHANGED <<bufVars, ppc, readVars>>
<1> SUFFICES ASSUME ChildStep PROVE UNCHANGED <<bufVars, ppc, readVars>>
  OBVIOUS
<1>1. CASE ChildSetupFails
  BY <1>1 DEF ChildSetupFails, ChildEnds
<1>2. CASE ChildSetup
  BY <1>2 DEF ChildSetup
<1>3. CASE ChildWrites
  BY <1>3 DEF ChildWrites, WriteByte
<1>4. CASE ChildClosesOutput
  BY <1>4 DEF ChildClosesOutput
<1>5. ASSUME NEW g \in Grandchildren, ChildForks(g)
      PROVE  UNCHANGED <<bufVars, ppc, readVars>>
  BY <1>5 DEF ChildForks
<1>6. ASSUME NEW code \in ExitCodes, ChildExits(code)
      PROVE  UNCHANGED <<bufVars, ppc, readVars>>
  BY <1>6 DEF ChildExits, ChildEnds
<1>7. ASSUME NEW sig \in Signals, ChildKilled(sig) \/ StopChild(sig)
      PROVE  UNCHANGED <<bufVars, ppc, readVars>>
  BY <1>7 DEF ChildKilled, ChildEnds, StopChild
<1>8. CASE ContinueChild
  BY <1>8 DEF ContinueChild
<1>9. CASE ChildBecomesZombie
  BY <1>9 DEF ChildBecomesZombie
<1>10. QED
  BY <1>1, <1>2, <1>3, <1>4, <1>5, <1>6, <1>7, <1>8, <1>9 DEF ChildStep

LEMMA OtherStepKeepsBuf == OtherStep => UNCHANGED <<bufVars, ppc, readVars>>
BY DEF OtherStep, SiblingForked, GrandchildWrites, WriteByte, OtherExits

LEMMA BufStep ==
  ASSUME ferr \in BOOLEAN, [Next]_vars
  PROVE  [BufferNext]_bufVars
<1>1. CASE PipeFails \/ PipeCreated \/ ForkFails \/ Fork \/ CloseWriteEnd
           \/ Fdopen \/ WaitPid \/ WaitFails \/ Return
  BY <1>1 DEF PipeFails, PipeCreated, ForkFails, Fork, CloseWriteEnd, Fdopen,
              WaitPid, WaitFails, Return
<1>2. CASE FdopenFails
  BY <1>2 DEF FdopenFails
<1>3. CASE AllocateBuffer
  BY <1>3 DEF AllocateBuffer, BufferNext
<1>4. CASE AllocationFails \/ ReadFails
  <2>1. Fail
    BY <1>4 DEF AllocationFails, ReadFails
  <2>2. QED
    BY <2>1 DEF BufferNext
<1>5. CASE ReadByte
  BY <1>5 DEF ReadByte, BufferNext
<1>6. CASE ReadFull
  BY <1>6 DEF ReadFull, BufferNext
<1>7. CASE ReadEof \/ ReadInterrupted
  BY <1>7 DEF ReadEof, ReadInterrupted, BufferNext
<1>8. CASE StoreNul
  <2>1. EndsInNewline(stored) \in BOOLEAN
    BY DEF EndsInNewline
  <2>2. QED
    BY <1>8, <2>1 DEF StoreNul, BufferNext
<1>9. CASE ChildStep
  BY <1>9, ChildStepKeepsBuf
<1>10. CASE OtherStep
  BY <1>10, OtherStepKeepsBuf
<1>11. CASE UNCHANGED vars
  BY <1>11 DEF vars
<1>12. QED
  BY <1>1, <1>2, <1>3, <1>4, <1>5, <1>6, <1>7, <1>8, <1>9, <1>10, <1>11
  DEF Next, ParentStep, ParentRead

(* The sizes stay related in every step of forkChild(). *)
LEMMA BufInv ==
  ASSUME SizesInv, [BufferNext]_bufVars
  PROVE  SizesInv'
BY SizesInvStep DEF bufVars, bufVars

-----------------------------------------------------------------------------
(* Facts about the byte sequences.                                         *)

LEMMA MoveByte ==
  ASSUME NEW S, NEW s \in Seq(S), NEW t \in Seq(S), t # <<>>
  PROVE  /\ Append(s, Head(t)) \in Seq(S)
         /\ Len(Append(s, Head(t))) = Len(s) + 1
         /\ Tail(t) \in Seq(S)
         /\ Append(s, Head(t)) \o Tail(t) = s \o t
OBVIOUS

LEMMA AddByte ==
  ASSUME NEW S, NEW s \in Seq(S), NEW t \in Seq(S), NEW b \in S
  PROVE  s \o Append(t, b) = Append(s \o t, b)
OBVIOUS

LEMMA TrimType ==
  ASSUME NEW S, NEW s \in Seq(S)
  PROVE  /\ Trim(s) \in Seq(S)
         /\ Len(Trim(s)) = IF EndsInNewline(s) THEN Len(s) - 1 ELSE Len(s)
         /\ EndsInNewline(s) => Len(s) > 0
<1>1. s = <<>> <=> Len(s) = 0
  OBVIOUS
<1>2. CASE EndsInNewline(s)
  <2>1. Len(s) \in Nat \ {0}
    BY <1>1, <1>2 DEF EndsInNewline
  <2>2. Trim(s) = SubSeq(s, 1, Len(s) - 1)
    BY <1>2 DEF Trim
  <2>3. \A i \in 1 .. Len(s) - 1 : s[i] \in S
    BY <2>1
  <2>4. /\ SubSeq(s, 1, Len(s) - 1) \in Seq(S)
        /\ Len(SubSeq(s, 1, Len(s) - 1)) = Len(s) - 1
    <3> DEFINE n == Len(s) - 1
    <3>1. n \in Nat
      BY <2>1
    <3>2. \A i \in 1 .. n : s[i] \in S
      BY <2>3
    <3> HIDE DEF n
    <3>3. /\ SubSeq(s, 1, n) \in Seq(S)
          /\ Len(SubSeq(s, 1, n)) = IF 1 <= n THEN n - 1 + 1 ELSE 0
      BY <3>1, <3>2, SubSeqProperties
    <3>4. SubSeq(s, 1, n) \in Seq(S) /\ Len(SubSeq(s, 1, n)) = n
      BY <3>1, <3>3
    <3>5. QED
      BY <3>4 DEF n
  <2>5. QED
    BY <1>2, <2>1, <2>2, <2>4
<1>3. CASE ~ EndsInNewline(s)
  BY <1>3 DEF Trim
<1>4. QED
  BY <1>2, <1>3

LEMMA BytesInclude == Seq(Bytes) \subseteq Seq(Bytes \cup {Nul})
OBVIOUS

-----------------------------------------------------------------------------
(* The invariant holds initially.                                          *)

LEMMA ForkInvInit == Init => ForkInv
<1> SUFFICES ASSUME Init PROVE ForkInv
  OBVIOUS
<1>1. SizesInv
  BY SizesAssumption
  DEF Init, BufferInit, SizesInv, BufferTypeOK, Phases, StoresInBounds,
      RoomLeft
<1>2. TypeOK
  <2>1. <<>> \in Seq(Bytes) /\ <<>> \in Seq(Bytes \cup {Nul})
    OBVIOUS
  <2>2. exitCode \in -1..255
    BY DEF Init
  <2>3. ppc \in ParentPcs /\ cpc \in ChildPcs
    BY DEF Init, ParentPcs, ChildPcs
  <2>4. QED
    BY <1>1, <2>1, <2>2, <2>3 DEF Init, TypeOK, SizesInv
<1>3. StreamInv
  BY DEF Init, StreamInv, BeforeRead, AfterRead
<1>4. LengthInv /\ EofInv /\ ResultInv
  BY DEF Init, BufferInit, LengthInv, EofInv, EofIsFinal, ResultInv, BeforeRead,
         AfterRead, NoStatus
<1>5. QED
  BY <1>1, <1>2, <1>3, <1>4 DEF ForkInv

-----------------------------------------------------------------------------
(* Every step preserves it.                                                *)

LEMMA SizesStep ==
  ASSUME ForkInv, [Next]_vars
  PROVE  SizesInv'
BY BufStep, BufInv DEF ForkInv, TypeOK

LEMMA ExitTypes ==
  ASSUME TypeOK, ExitForkWithError
  PROVE  /\ ppc' = "exited"
         /\ writers' \subseteq Processes /\ readers' \subseteq Processes
         /\ UNCHANGED <<cpc, exitStatus, stopped, event, spawned, pipe, sent,
                        resultVars>>
BY DEF ExitForkWithError, ParentExits, KillChildOnError, InfoCpid, TypeOK

LEMMA StatusTypes ==
  /\ \A c \in ExitCodes : Exited(c) \in EndStatuses
  /\ \A sig \in Signals : Signaled(sig) \in EndStatuses
  /\ \A sig \in Signals : Stopped(sig) \in Events
  /\ Continued \in Events
  /\ \A st \in EndStatuses \cup Events \cup {NoStatus} : 
       st.kind \in {"exited", "signaled", "stopped", "continued", "none"}
  /\ \A st \in EndStatuses \cup Events : WEXITSTATUS(st) \in 0..255
  /\ \A st \in Events \cup {NoStatus} : st.kind # "exited"
<1> USE ValuesAssumption
    DEF Exited, Signaled, Stopped, Continued, NoStatus, EndStatuses, Events
<1>1. /\ \A c \in ExitCodes : Exited(c) \in EndStatuses
      /\ \A sig \in Signals : Signaled(sig) \in EndStatuses
      /\ \A sig \in Signals : Stopped(sig) \in Events
      /\ Continued \in Events
  OBVIOUS
<1>2. \A st \in Events \cup {NoStatus} : st.kind # "exited"
  OBVIOUS
<1>3. \A st \in EndStatuses \cup Events \cup {NoStatus} : 
       st.kind \in {"exited", "signaled", "stopped", "continued", "none"}
  OBVIOUS
<1>4. \A st \in EndStatuses \cup Events : WEXITSTATUS(st) \in 0..255
  <2> SUFFICES ASSUME NEW st \in EndStatuses \cup Events
               PROVE  WEXITSTATUS(st) \in 0..255
    OBVIOUS
  <2>1. CASE \E c \in ExitCodes : st = Exited(c)
    BY <2>1 DEF WEXITSTATUS
  <2>2. CASE \E sig \in Signals : st = Signaled(sig)
    BY <2>2 DEF WEXITSTATUS
  <2>3. CASE \E sig \in Signals : st = Stopped(sig)
    BY <2>3 DEF WEXITSTATUS
  <2>4. CASE st = Continued
    BY <2>4 DEF WEXITSTATUS
  <2>5. \/ \E c \in ExitCodes : st = Exited(c)
        \/ \E sig \in Signals : st = Signaled(sig) \/ st = Stopped(sig)
        \/ st = Continued
    OBVIOUS
  <2>6. QED
    BY <2>1, <2>2, <2>3, <2>4, <2>5
<1>5. QED
  BY <1>1, <1>2, <1>3, <1>4

LEMMA TypeOKStep ==
  ASSUME ForkInv, [Next]_vars
  PROVE  TypeOK'
<1>0. TypeOK /\ ResultInv /\ BufferTypeOK'
  BY SizesStep DEF SizesInv, ForkInv
<1> USE DEF childVars, pipeVars, readVars, resultVars
<1>1. CASE PipeFails \/ PipeCreated \/ ForkFails \/ Fork \/ CloseWriteEnd
           \/ Fdopen \/ WaitFails
  <2> USE <1>0 DEF ParentPcs, ChildPcs, Processes, ParentExits, TypeOK
  <2>1. CASE PipeFails
    BY <2>1 DEF PipeFails
  <2>2. CASE PipeCreated
    BY <2>2 DEF PipeCreated
  <2>3. CASE ForkFails
    BY <2>3 DEF ForkFails
  <2>4. CASE Fork
    BY <2>4 DEF Fork
  <2>5. CASE CloseWriteEnd
    BY <2>5 DEF CloseWriteEnd
  <2>6. CASE Fdopen
    BY <2>6 DEF Fdopen
  <2>7. CASE WaitFails
    BY <2>7 DEF WaitFails
  <2>8. QED
    BY <1>1, <2>1, <2>2, <2>3, <2>4, <2>5, <2>6, <2>7
<1>2. CASE FdopenFails \/ AllocationFails \/ ReadFails
  <2>1. ExitForkWithError /\ stored' = stored
    BY <1>2 DEF FdopenFails, AllocationFails, ReadFails
  <2>2. eof' \in BOOLEAN /\ ferr' \in BOOLEAN
    <3>1. CASE FdopenFails
      BY <1>0, <3>1 DEF FdopenFails, TypeOK
    <3>2. CASE AllocationFails
      BY <1>0, <3>2 DEF AllocationFails, TypeOK
    <3>3. CASE ReadFails
      BY <1>0, <3>3 DEF ReadFails, TypeOK
    <3>4. QED
      BY <1>2, <3>1, <3>2, <3>3
  <2>3. /\ ppc' = "exited"
        /\ writers' \subseteq Processes /\ readers' \subseteq Processes
        /\ UNCHANGED <<cpc, exitStatus, stopped, event, spawned, pipe, sent,
                       resultVars>>
    BY <1>0, <2>1, ExitTypes
  <2>4. QED
    BY <1>0, <2>1, <2>2, <2>3 DEF TypeOK, ParentPcs
<1>5. CASE ReadByte
  <2>1. Head(pipe) \in Bytes \cup {Nul} /\ Tail(pipe) \in Seq(Bytes)
    BY <1>0, <1>5 DEF ReadByte, TypeOK
  <2>2. stored' \in Seq(Bytes \cup {Nul}) /\ pipe' \in Seq(Bytes)
    BY <1>0, <1>5, <2>1 DEF ReadByte, TypeOK
  <2>3. QED
    BY <1>0, <1>5, <2>2 DEF ReadByte, TypeOK, childVars, resultVars
<1>6. CASE AllocateBuffer \/ ReadFull \/ ReadEof \/ ReadInterrupted
  <2>1. CASE AllocateBuffer
    BY <1>0, <2>1 DEF AllocateBuffer, TypeOK
  <2>2. CASE ReadFull
    BY <1>0, <2>2 DEF ReadFull, TypeOK
  <2>3. CASE ReadEof
    BY <1>0, <2>3 DEF ReadEof, TypeOK
  <2>4. CASE ReadInterrupted
    BY <1>0, <2>4 DEF ReadInterrupted, TypeOK
  <2>5. QED
    BY <1>6, <2>1, <2>2, <2>3, <2>4
<1>7. CASE StoreNul
  <2>1. Append(Trim(stored), Nul) \in Seq(Bytes \cup {Nul})
    BY <1>0, TrimType DEF TypeOK
  <2>2. QED
    BY <1>0, <1>7, <2>1
    DEF StoreNul, TypeOK, ParentPcs, childVars, pipeVars, resultVars
<1>8. CASE WaitPid
  BY <1>0, <1>8
  DEF WaitPid, WaitExited, WaitEvent, TypeOK, ParentPcs, ChildPcs, pipeVars,
      readVars
<1>9. CASE Return
  <2>1. status # NoStatus
    BY <1>0, <1>9 DEF Return, ResultInv
  <2>2. exitCode' \in 0..255
    BY <1>0, <1>9, <2>1, StatusTypes DEF Return, TypeOK
  <2>3. exitCode' \in -1..255 
        /\ output' \in Seq(Bytes \cup {Nul}) \cup {NoOutput}
    BY <1>0, <1>9, <2>2 DEF Return, TypeOK
  <2>4. QED
    BY <1>0, <1>9, <2>3
    DEF Return, TypeOK, ParentPcs, childVars, readVars
<1>10. CASE ChildStep
  <2> USE StatusTypes DEF TypeOK, ChildPcs
  <2>1. CASE ChildSetupFails
    BY <1>0, <2>1, ValuesAssumption DEF ChildSetupFails, ChildEnds
  <2>2. CASE ChildSetup
    BY <1>0, <2>2 DEF ChildSetup
  <2>3. CASE ChildWrites
    BY <1>0, <2>3 DEF ChildWrites, WriteByte
  <2>4. CASE ChildClosesOutput
    BY <1>0, <2>4 DEF ChildClosesOutput
  <2>5. ASSUME NEW g \in Grandchildren, ChildForks(g)
        PROVE  TypeOK'
    BY <1>0, <2>5 DEF ChildForks, Processes
  <2>6. ASSUME NEW code \in ExitCodes, ChildExits(code)
        PROVE  TypeOK'
    BY <1>0, <2>6 DEF ChildExits, ChildEnds
  <2>7. ASSUME NEW sig \in Signals, ChildKilled(sig) \/ StopChild(sig)
        PROVE  TypeOK'
    <3>1. CASE ChildKilled(sig)
      BY <1>0, <3>1 DEF ChildKilled, ChildEnds
    <3>2. CASE StopChild(sig)
      BY <1>0, <3>2 DEF StopChild
    <3>3. QED
      BY <2>7, <3>1, <3>2
  <2>8. CASE ContinueChild
    BY <1>0, <2>8 DEF ContinueChild
  <2>9. CASE ChildBecomesZombie
    BY <1>0, <2>9 DEF ChildBecomesZombie
  <2>10. QED
    BY <1>10, <2>1, <2>2, <2>3, <2>4, <2>5, <2>6, <2>7, <2>8, <2>9
    DEF ChildStep
<1>11. CASE OtherStep
  <2>1. ASSUME NEW s \in Siblings, SiblingForked(s)
        PROVE  TypeOK'
    BY <1>0, <2>1 DEF SiblingForked, TypeOK, Processes
  <2>2. ASSUME NEW g \in Grandchildren, GrandchildWrites(g)
        PROVE  TypeOK'
    BY <1>0, <2>2 DEF GrandchildWrites, WriteByte, TypeOK
  <2>3. ASSUME NEW p \in Grandchildren \cup Siblings, OtherExits(p)
        PROVE  TypeOK'
    BY <1>0, <2>3 DEF OtherExits, TypeOK
  <2>4. QED
    BY <1>11, <2>1, <2>2, <2>3 DEF OtherStep
<1>12. CASE UNCHANGED vars
  BY <1>0, <1>12
  DEF vars, TypeOK, childVars, pipeVars
<1>13. QED
  BY <1>1, <1>2, <1>5, <1>6, <1>7, <1>8, <1>9, <1>10, <1>11, <1>12
  DEF Next, ParentStep, ParentRead

(* Only a write changes the stream seen by the parent before StoreNul; and *)
(* a write needs a writer, of which there is none after the end of file.   *)
LEMMA ChildOtherStream ==
  ASSUME TypeOK, ChildStep \/ OtherStep
  PROVE  \/ UNCHANGED <<pipe, sent>>
         \/ /\ writers # {}
            /\ \E b \in Bytes : pipe' = Append(pipe, b) /\ sent' = Append(sent, b)
<1>1. CASE ChildStep
  BY <1>1
  DEF ChildStep, ChildSetupFails, ChildEnds, ChildSetup, ChildWrites, WriteByte,
      ChildClosesOutput, ChildForks, ChildExits, ChildKilled, StopChild,
      ContinueChild, ChildBecomesZombie, pipeVars
<1>2. CASE OtherStep
  BY <1>2 DEF OtherStep, SiblingForked, GrandchildWrites, WriteByte, OtherExits
<1>3. QED
  BY <1>1, <1>2

LEMMA StreamStep ==
  ASSUME ForkInv, [Next]_vars
  PROVE  StreamInv'
<1>0. TypeOK /\ StreamInv /\ EofInv
  BY DEF ForkInv
<1> USE DEF StreamInv, BeforeRead, AfterRead
<1>1. CASE PipeFails \/ PipeCreated \/ ForkFails \/ Fork \/ CloseWriteEnd
           \/ Fdopen \/ WaitFails \/ WaitPid \/ Return
  BY <1>0, <1>1
  DEF PipeFails, PipeCreated, ForkFails, Fork, CloseWriteEnd, Fdopen, WaitFails,
      WaitPid, Return, ParentExits, pipeVars, readVars
<1>2. CASE FdopenFails \/ AllocationFails \/ ReadFails
  BY <1>0, <1>2, ExitTypes DEF FdopenFails, AllocationFails, ReadFails
<1>3. CASE ReadByte
  <2>1. pipe # <<>> /\ stored' = Append(stored, Head(pipe))
        /\ pipe' = Tail(pipe) /\ sent' = sent /\ ppc' = ppc /\ ppc = "read"
    BY <1>3 DEF ReadByte
  <2>2. pipe \in Seq(Bytes \cup {Nul}) /\ stored \in Seq(Bytes \cup {Nul})
    BY <1>0, BytesInclude DEF TypeOK
  <2>3. stored' \o pipe' = stored \o pipe
    BY <2>1, <2>2, MoveByte
  <2>4. QED
    BY <1>0, <2>1, <2>3
<1>4. CASE AllocateBuffer \/ ReadFull \/ ReadEof \/ ReadInterrupted
  BY <1>0, <1>4
  DEF AllocateBuffer, ReadFull, ReadEof, ReadInterrupted, pipeVars, readVars
<1>5. CASE StoreNul
  <2>1. pipe = <<>> /\ stored \o pipe = sent
    BY <1>0, <1>5 DEF StoreNul, Finish, EofInv, EofIsFinal
  <2>2. stored = sent
    BY <1>0, <2>1 DEF TypeOK
  <2>3. QED
    BY <1>5, <2>2 DEF StoreNul, pipeVars
<1>6. CASE ChildStep \/ OtherStep
  <2>1. UNCHANGED <<ppc, stored>>
    BY <1>6, ChildStepKeepsBuf, OtherStepKeepsBuf DEF readVars
  <2>2. CASE UNCHANGED <<pipe, sent>>
    BY <1>0, <2>1, <2>2
  <2>3. ASSUME NEW b \in Bytes, writers # {},
               pipe' = Append(pipe, b), sent' = Append(sent, b)
        PROVE  StreamInv'
    <3>1. pipe \in Seq(Bytes \cup {Nul}) /\ stored \in Seq(Bytes \cup {Nul})
      BY <1>0, BytesInclude DEF TypeOK
    <3>2. stored \o pipe' = Append(stored \o pipe, b)
      BY <2>3, <3>1, AddByte
    <3>3. ppc \notin AfterRead
      BY <1>0, <2>3 DEF EofInv, EofIsFinal
    <3>4. QED
      BY <1>0, <2>1, <2>3, <3>2, <3>3
  <2>4. QED
    BY <1>0, <1>6, <2>2, <2>3, ChildOtherStream
<1>7. CASE UNCHANGED vars
  BY <1>0, <1>7 DEF vars, pipeVars, readVars
<1>8. QED
  BY <1>1, <1>2, <1>3, <1>4, <1>5, <1>6, <1>7 DEF Next, ParentStep, ParentRead

LEMMA LengthStep ==
  ASSUME ForkInv, [Next]_vars
  PROVE  LengthInv'
<1>0. TypeOK /\ LengthInv /\ EofInv /\ SizesInv
  BY DEF ForkInv
<1> USE DEF LengthInv
<1>1. CASE PipeFails \/ PipeCreated \/ ForkFails \/ Fork \/ CloseWriteEnd
           \/ Fdopen \/ WaitFails \/ WaitPid \/ Return
  BY <1>0, <1>1
  DEF PipeFails, PipeCreated, ForkFails, Fork, CloseWriteEnd, Fdopen, WaitFails,
      WaitPid, Return, ParentExits, bufVars, readVars, EofInv, BeforeRead
<1>2. CASE FdopenFails \/ AllocationFails \/ ReadFails
  BY <1>0, <1>2, ExitTypes
  DEF FdopenFails, AllocationFails, ReadFails, Fail, bufVars, readVars
<1>3. CASE ReadByte
  <2>1. Len(stored') = Len(stored) + 1
    BY <1>0, <1>3 DEF ReadByte, TypeOK
  <2>2. QED
    <3>1. phase = "fread" /\ phase' = phase /\ ppc' = ppc
          /\ copied' = copied + 1 /\ bufferData' = bufferData
      BY <1>3 DEF ReadByte, CopyByte
    <3>2. bufferData \in Nat /\ copied \in Nat /\ Len(stored) \in Nat
      BY <1>0 DEF TypeOK, BufferTypeOK
    <3>3. Len(stored) = bufferData + copied
      BY <1>0, <3>1
    <3>4. QED
      BY <1>0, <2>1, <3>1, <3>2, <3>3
<1>4. CASE AllocateBuffer
  BY <1>0, <1>4 DEF AllocateBuffer, Allocate, readVars
<1>5. ASSUME NEW e, NEW r, FreadReturn(e, r), UNCHANGED <<ppc, stored>>
      PROVE  LengthInv'
  <2>1. CInt(copied) = copied
    BY <1>0, <1>5, SizesAssumption
    DEF FreadReturn, SizesInv, BufferTypeOK, CInt
  <2>2. bufferData' + copied' = bufferData + copied
    BY <1>0, <1>5, <2>1 DEF FreadReturn, TypeOK, BufferTypeOK
  <2>3. QED
    BY <1>0, <1>5, <2>2 DEF FreadReturn
<1>6. CASE ReadFull \/ ReadEof \/ ReadInterrupted
  BY <1>5, <1>6 DEF ReadFull, ReadEof, ReadInterrupted, readVars
<1>7. CASE StoreNul
  <2>1. Len(stored') = Len(Trim(stored)) + 1
    BY <1>0, <1>7, TrimType DEF StoreNul, TypeOK
  <2>2. Len(stored) = bufferData
    BY <1>0, <1>7
    DEF StoreNul, Finish, TypeOK, BufferTypeOK, SizesInv
  <2>3. Len(stored') = bufferData' /\ bufferData' <= bufferSize'
    BY <1>0, <1>7, <2>1, <2>2, TrimType
    DEF StoreNul, Finish, TypeOK, BufferTypeOK
  <2>4. QED
    BY <1>7, <2>3 DEF StoreNul, Finish
<1>8. CASE ChildStep \/ OtherStep
  BY <1>0, <1>8, ChildStepKeepsBuf, OtherStepKeepsBuf DEF bufVars, readVars
<1>9. CASE UNCHANGED vars
  BY <1>0, <1>9 DEF vars, bufVars, readVars
<1>10. QED
  BY <1>1, <1>2, <1>3, <1>4, <1>6, <1>7, <1>8, <1>9
  DEF Next, ParentStep, ParentRead

LEMMA EofStep ==
  ASSUME ForkInv, [Next]_vars
  PROVE  EofInv'
<1>0. TypeOK /\ EofInv
  BY DEF ForkInv
<1> USE DEF EofInv, EofIsFinal, BeforeRead, AfterRead
<1>1. CASE PipeFails \/ PipeCreated \/ ForkFails \/ Fork \/ CloseWriteEnd
           \/ Fdopen \/ WaitFails \/ WaitPid \/ Return
  BY <1>0, <1>1
  DEF PipeFails, PipeCreated, ForkFails, Fork, CloseWriteEnd, Fdopen, WaitFails,
      WaitPid, Return, ParentExits, bufVars, readVars, pipeVars
<1>2. CASE FdopenFails \/ AllocationFails \/ ReadFails
  <2>1. ppc' = "exited" /\ writers' \subseteq writers /\ pipe' = pipe
    BY <1>2
    DEF FdopenFails, AllocationFails, ReadFails, ExitForkWithError, ParentExits
  <2>2. eof' = eof \/ (eof' /\ pipe = <<>> /\ writers = {})
    BY <1>2 DEF FdopenFails, AllocationFails, ReadFails, AtEof, readVars
  <2>3. QED
    BY <1>0, <2>1, <2>2
<1>3. CASE AllocateBuffer \/ ReadByte \/ ReadFull \/ ReadInterrupted
  <2>1. ppc = "read" /\ ppc' = "read" /\ writers' = writers /\ eof' = eof
    BY <1>3
    DEF AllocateBuffer, ReadByte, ReadFull, ReadInterrupted, readVars, pipeVars
  <2>2. phase' = "fread"
    BY <1>3
    DEF AllocateBuffer, ReadByte, ReadFull, ReadInterrupted, Allocate,
        CopyByte, FreadReturn
  <2>3. pipe = <<>> => pipe' = pipe
    BY <1>3
    DEF AllocateBuffer, ReadByte, ReadFull, ReadInterrupted, pipeVars
  <2>4. QED
    BY <1>0, <2>1, <2>2, <2>3
<1>4. CASE ReadEof
  BY <1>0, <1>4 DEF ReadEof, AtEof, FreadReturn, pipeVars
<1>5. CASE StoreNul
  BY <1>0, <1>5 DEF StoreNul, Finish, pipeVars
<1>6. CASE ChildStep \/ OtherStep
  <2>1. UNCHANGED <<ppc, eof, phase>>
    BY <1>6, ChildStepKeepsBuf, OtherStepKeepsBuf DEF bufVars, readVars
  <2>2. CASE ~ eof
    BY <1>0, <2>1, <2>2
  <2>3. CASE eof
    <3>1. writers = {} /\ pipe = <<>> /\ ppc \notin {"fork", "closeWrite"}
      BY <1>0, <2>3
    <3>2. pipe' = <<>>
      BY <1>0, <1>6, <3>1, ChildOtherStream
    <3>3. CASE ChildStep
      <4>1. writers' = {}
        BY <3>1, <3>3
        DEF ChildStep, ChildSetupFails, ChildEnds, ChildSetup, ChildWrites,
            WriteByte, ChildClosesOutput, ChildForks, ChildExits, ChildKilled,
            StopChild, ContinueChild, ChildBecomesZombie, pipeVars
      <4>2. QED
        BY <1>0, <2>1, <3>2, <4>1
    <3>4. CASE OtherStep
      <4>1. writers' = {}
        BY <3>1, <3>4
        DEF OtherStep, SiblingForked, GrandchildWrites, WriteByte, OtherExits
      <4>2. QED
        BY <1>0, <2>1, <3>2, <4>1
    <3>5. QED
      BY <1>6, <3>3, <3>4
  <2>4. QED
    BY <2>2, <2>3
<1>7. CASE UNCHANGED vars
  BY <1>0, <1>7 DEF vars, bufVars, readVars, pipeVars
<1>8. QED
  BY <1>1, <1>2, <1>3, <1>4, <1>5, <1>6, <1>7 DEF Next, ParentStep, ParentRead

LEMMA ResultStep ==
  ASSUME ForkInv, [Next]_vars
  PROVE  ResultInv'
<1>0. TypeOK /\ ResultInv
  BY DEF ForkInv
<1> USE DEF ResultInv
<1>1. CASE PipeFails \/ PipeCreated \/ ForkFails \/ Fork \/ CloseWriteEnd
           \/ Fdopen \/ WaitFails
  BY <1>0, <1>1
  DEF PipeFails, PipeCreated, ForkFails, Fork, CloseWriteEnd, Fdopen, WaitFails,
      ParentExits, childVars, resultVars, readVars
<1>2. CASE FdopenFails \/ AllocationFails \/ ReadFails
  BY <1>0, <1>2, ExitTypes
  DEF FdopenFails, AllocationFails, ReadFails, resultVars
<1>3. CASE ParentRead
  <2>1. CASE AllocationFails \/ ReadFails
    BY <1>2, <2>1
  <2>2. \/ /\ UNCHANGED <<childVars, resultVars>>
           /\ ppc = "read"
           /\ ppc' \in {"read", "waitpid"}
        \/ AllocationFails \/ ReadFails
    BY <1>3
    DEF ParentRead, AllocateBuffer, ReadByte, ReadFull, ReadEof,
        ReadInterrupted, StoreNul
  <2>3. QED
    BY <1>0, <2>1, <2>2 DEF childVars, resultVars
<1>4. CASE WaitPid
  <2>1. status' # NoStatus /\ ppc' = "close" /\ output' = output
        /\ exitStatus' = exitStatus
    BY <1>0, <1>4 DEF WaitPid, WaitExited, WaitEvent
  <2>2. status'.kind = "exited" => cpc' = "reaped" /\ status' = exitStatus
    BY <1>0, <1>4, StatusTypes DEF WaitPid, WaitExited, WaitEvent, TypeOK
  <2>3. cpc' \in {"exiting", "zombie", "reaped"} => exitStatus' # NoStatus
    BY <1>0, <1>4 DEF WaitPid, WaitExited, WaitEvent
  <2>4. output' = NoOutput
    BY <1>0, <1>4 DEF WaitPid
  <2>5. QED
    BY <2>1, <2>2, <2>3, <2>4
<1>5. CASE Return
  BY <1>0, <1>5 DEF Return, childVars, readVars
<1>6. CASE ChildStep
  <2>1. UNCHANGED <<ppc, stored, resultVars>>
    BY <1>6, ChildStepKeepsBuf
    DEF readVars, ChildStep, ChildSetupFails, ChildEnds, ChildSetup,
        ChildWrites, WriteByte, ChildClosesOutput, ChildForks, ChildExits,
        ChildKilled, StopChild, ContinueChild, ChildBecomesZombie
  <2>2. \/ UNCHANGED <<cpc, exitStatus>>
        \/ cpc # "reaped" /\ cpc' \notin {"exiting", "zombie", "reaped"}
        \/ cpc # "reaped" /\ cpc' = "exiting" /\ exitStatus' \in EndStatuses
        \/ cpc = "exiting" /\ cpc' = "zombie" /\ exitStatus' = exitStatus
    BY <1>6, StatusTypes, ValuesAssumption
    DEF ChildStep, ChildSetupFails, ChildEnds, ChildSetup, ChildWrites,
        WriteByte, ChildClosesOutput, ChildForks, ChildExits, ChildKilled,
        StopChild, ContinueChild, ChildBecomesZombie, childVars, CanRun
  <2>3. NoStatus \notin EndStatuses
    BY DEF NoStatus, EndStatuses, Exited, Signaled
  <2>4. QED
    BY <1>0, <2>1, <2>2, <2>3 DEF resultVars
<1>7. CASE OtherStep
  BY <1>0, <1>7, OtherStepKeepsBuf
  DEF OtherStep, SiblingForked, GrandchildWrites, WriteByte, OtherExits,
      childVars, resultVars, readVars
<1>8. CASE UNCHANGED vars
  BY <1>0, <1>8 DEF vars, childVars, resultVars, readVars
<1>9. QED
  BY <1>1, <1>2, <1>3, <1>4, <1>5, <1>6, <1>7, <1>8 DEF Next, ParentStep

-----------------------------------------------------------------------------
(* The theorems.                                                           *)

(* The inductive invariant of forkChild(). *)
THEOREM ForkCorrect == Spec => []ForkInv
<1>1. ForkInv /\ [Next]_vars => ForkInv'
  BY SizesStep, TypeOKStep, StreamStep, LengthStep, EofStep, ResultStep
  DEF ForkInv
<1>2. QED
  BY <1>1, ForkInvInit, PTL DEF Spec

(* No fread() of forkChild() can store a byte outside its buffer, whatever *)
(* the chunks in which the pipe delivers the output.                       *)
THEOREM NeverOutOfBounds == Spec => []StoresInBounds
<1>1. ForkInv => StoresInBounds
  BY DEF ForkInv, SizesInv
<1>2. QED
  BY <1>1, ForkCorrect, PTL

(* The loop always has a byte to ask for, and one for the final NUL. *)
THEOREM AlwaysRoomLeft == Spec => []RoomLeft
<1>1. ForkInv => RoomLeft
  BY DEF ForkInv, SizesInv
<1>2. QED
  BY <1>1, ForkCorrect, PTL

(* No byte the child or its descendants write is lost, duplicated or       *)
(* reordered on its way to the buffer of the parent.                       *)
THEOREM NothingIsLost == Spec => []NothingLost
<1>1. ForkInv => NothingLost
  BY DEF ForkInv, StreamInv, NothingLost
<1>2. QED
  BY <1>1, ForkCorrect, PTL

(* The end of file the parent has seen is final. *)
THEOREM EofFinal == Spec => []EofIsFinal
<1>1. ForkInv => EofIsFinal
  BY DEF ForkInv, EofInv
<1>2. QED
  BY <1>1, ForkCorrect, PTL

(* The output forkChild() returns is all that was ever written. *)
THEOREM CompleteOutput == Spec => []OutputComplete
<1>1. ForkInv => OutputComplete
  BY DEF ForkInv, StreamInv, ResultInv, OutputComplete, AfterRead
<1>2. QED
  BY <1>1, ForkCorrect, PTL

(* An exit status comes from a child that has been reaped. *)
THEOREM FaithfulExitCode == Spec => []ExitCodeFaithful
<1>1. ForkInv => ExitCodeFaithful
  BY DEF ForkInv, ResultInv, ExitCodeFaithful, WEXITSTATUS
<1>2. QED
  BY <1>1, ForkCorrect, PTL

(* forkChild(), with its pipe, read errors and processes, implements the   *)
(* promise of Capture: deliver everything, once, or nothing.               *)
THEOREM CaptureRefinement == Spec => ImplementsCapture
<1>1. Init => Capturing!Init
  BY DEF Init, Capturing!Init
<1>2. ASSUME ForkInv, [Next]_vars
      PROVE  [Capturing!Next]_(Capturing!capVars)
  <2>0. TypeOK /\ StreamInv /\ EofInv /\ ResultInv
    BY <1>2 DEF ForkInv
  <2>1. CASE PipeFails \/ PipeCreated \/ ForkFails \/ Fork \/ CloseWriteEnd
             \/ Fdopen \/ WaitFails \/ WaitPid
    BY <2>1
    DEF PipeFails, PipeCreated, ForkFails, Fork, CloseWriteEnd, Fdopen,
        WaitFails, WaitPid, Capturing!capVars, pipeVars, resultVars
  <2>2. CASE FdopenFails
    BY <2>0, <2>2, ExitTypes DEF FdopenFails, Capturing!capVars, resultVars
  <2>3. CASE ParentRead
    BY <2>0, <2>3, ExitTypes
    DEF ParentRead, AllocateBuffer, AllocationFails, ReadByte, ReadFull,
        ReadEof, ReadInterrupted, ReadFails, StoreNul, Capturing!capVars,
        pipeVars, resultVars
  <2>4. CASE Return
    <3>1. /\ output = NoOutput /\ sent' = sent
          /\ output' = IF returnOutput THEN Append(Trim(sent), Nul) ELSE output
      BY <2>0, <2>4 DEF Return, ResultInv, StreamInv, AfterRead
    <3>2. returnOutput => Capturing!Deliver
      BY <3>1 DEF Capturing!Deliver, Capturing!Trim, Trim,
                  Capturing!EndsInNewline, EndsInNewline
    <3>3. QED
      BY <3>1, <3>2 DEF Capturing!Next, Capturing!capVars
  <2>5. CASE ChildStep \/ OtherStep
    <3>1. UNCHANGED output
      BY <2>5
      DEF ChildStep, ChildSetupFails, ChildEnds, ChildSetup, ChildWrites,
          WriteByte, ChildClosesOutput, ChildForks, ChildExits, ChildKilled,
          StopChild, ContinueChild, ChildBecomesZombie, OtherStep,
          SiblingForked, GrandchildWrites, OtherExits, resultVars
    <3>2. CASE UNCHANGED sent
      BY <3>1, <3>2 DEF Capturing!capVars
    <3>3. ASSUME NEW b \in Bytes, writers # {}, sent' = Append(sent, b)
          PROVE  Capturing!Write(b)
      <4>1. ppc # "returned"
        BY <2>0, <3>3 DEF EofInv, EofIsFinal, AfterRead
      <4>2. QED
        BY <2>0, <3>1, <3>3, <4>1 DEF ResultInv, Capturing!Write
    <3>4. QED
      BY <2>0, <2>5, <3>2, <3>3, ChildOtherStream DEF Capturing!Next
  <2>6. CASE UNCHANGED vars
    BY <2>6 DEF vars, Capturing!capVars, pipeVars, resultVars
  <2>7. QED
    BY <1>2, <2>1, <2>2, <2>3, <2>4, <2>5, <2>6 DEF Next, ParentStep
<1>3. QED
  BY <1>1, <1>2, ForkCorrect, PTL DEF Spec, ImplementsCapture, Capturing!Spec

=============================================================================
