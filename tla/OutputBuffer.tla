---------------------------- MODULE OutputBuffer ----------------------------
(***************************************************************************)
(* The sizes kept by the loop of forkChild() that reads the output of the  *)
(* child into a growing heap buffer (UnixForkUtils.c).  Only the arithmetic *)
(* is here; the bytes themselves, the pipe and the processes are in        *)
(* ForkChild, which extends this module.                                   *)
(*                                                                         *)
(* The C types are kept: the three sizes are unsigned long, fread()        *)
(* returns a size_t, and the code stores that result in an int.            *)
(***************************************************************************)
EXTENDS Integers

CONSTANTS
  InitialSize,  \* info->outputInitialBuffer, 255 in INIT_FORK_INFO
  IntMax,       \* INT_MAX of the build
  MaxOutput     \* bound: the most bytes that are ever read from the pipe

ASSUME SizesAssumption ==
  /\ InitialSize \in Nat \ {0}
  /\ IntMax \in Nat
  /\ MaxOutput \in Nat
  /\ MaxOutput <= IntMax     \* the child writes less than 2 GiB

VARIABLES
  bufferSize,   \* bytes allocated
  bufferData,   \* bytes of data in the buffer
  bufferFree,   \* bytes that the next fread() may store
  copied,       \* bytes the fread() under way has stored so far
  phase         \* where the parent is in the life of the buffer

bufVars == <<bufferSize, bufferData, bufferFree, copied, phase>>

Phases == {"unallocated", "fread", "eof", "stored", "failed"}

(* The value of the int that receives a size_t k (k < 2 * (IntMax + 1)). *)
CInt(k) == IF k > IntMax THEN k - 2 * (IntMax + 1) ELSE k

BufferInit ==
  /\ bufferSize = 0
  /\ bufferData = 0
  /\ bufferFree = 0
  /\ copied = 0
  /\ phase = "unallocated"

(* malloc(bufferSize); the other outcome of any allocation is Fail. *)
Allocate ==
  /\ phase = "unallocated"
  /\ phase' = "fread"
  /\ bufferSize' = InitialSize
  /\ bufferData' = 0
  /\ bufferFree' = InitialSize
  /\ copied' = 0

(* One byte of fread(buffer + bufferData, 1, bufferFree, pipeFile). *)
CopyByte ==
  /\ phase = "fread"
  /\ copied < bufferFree
  /\ bufferData + copied < MaxOutput
  /\ copied' = copied + 1
  /\ UNCHANGED <<bufferSize, bufferData, bufferFree, phase>>

(* fread() returns: all that was asked for, or less at an end of file or a *)
(* read error.  An error is only noticed when the call stored nothing.     *)
ReadFailed(err) == CInt(copied) <= 0 /\ err

(* A full buffer is doubled, the new half being free. *)
Full_TooLate(n) == bufferFree - n < 0          \* mutation
Full(n) == bufferFree - n <= 0

Freed_Both(n) == IF Full(n) THEN 2 * bufferSize ELSE 0   \* mutation
Freed(n) == IF Full(n) THEN bufferSize ELSE 0

FreadReturn(eof, err) ==
  LET n == CInt(copied)
  IN
  /\ phase = "fread"
  /\ eof \/ err \/ copied = bufferFree
  /\ ~ ReadFailed(err)
  /\ bufferData' = bufferData + n
  /\ bufferFree' = bufferFree - n + Freed(n)
  /\ bufferSize' = bufferSize * (IF Full(n) THEN 2 ELSE 1)
  /\ copied' = 0
  /\ phase' = IF eof THEN "eof" ELSE "fread"

(* The trailing newline is dropped, the NUL is stored, the buffer shrunk. *)
Finish(newline) ==
  LET length == IF newline THEN bufferData - 1 ELSE bufferData
  IN
  /\ phase = "eof"
  /\ newline => bufferData > 0
  /\ bufferData' = length + 1
  /\ bufferSize' = length + 1
  /\ bufferFree' = 0
  /\ phase' = "stored"
  /\ UNCHANGED copied

(* An allocation or the read fails: exitForkWithError(info, 1). *)
Fail ==
  /\ phase \in {"unallocated", "fread", "eof"}
  /\ phase' = "failed"
  /\ UNCHANGED <<bufferSize, bufferData, bufferFree, copied>>

BufferNext ==
  \/ Allocate
  \/ CopyByte
  \/ \E eof, err \in BOOLEAN : FreadReturn(eof, err)
  \/ \E newline \in BOOLEAN : Finish(newline)
  \/ Fail

BufferSpec == BufferInit /\ [][BufferNext]_bufVars

-----------------------------------------------------------------------------

BufferTypeOK ==
  /\ bufferSize \in Nat
  /\ bufferData \in Nat
  /\ bufferFree \in Nat
  /\ copied \in Nat
  /\ phase \in Phases

(* No byte is ever stored outside the allocation, whatever the sizes of    *)
(* the chunks the pipe delivers: what fread() may still store ends where   *)
(* the allocation ends (UnixForkUtils.c:126-145).                          *)
StoresInBounds ==
  phase = "fread" =>
    /\ copied <= bufferFree
    /\ bufferData + bufferFree = bufferSize

(* The loop never calls fread() for zero bytes, which would return 0       *)
(* without an end of file and spin for ever, and when it ends a byte is    *)
(* left for the NUL, without looking at the size again (line 148).         *)
RoomLeft ==
  phase \in {"fread", "eof"} => bufferFree > 0 /\ bufferData < bufferSize

(* The inductive invariant: both of the above and what they rest on, the   *)
(* bound on the output, which keeps the int n from overflowing.            *)
SizesInv ==
  /\ BufferTypeOK
  /\ StoresInBounds
  /\ RoomLeft
  /\ bufferData + copied <= MaxOutput + 1
  /\ phase = "fread" => bufferData + copied <= MaxOutput
  /\ phase = "eof" => copied = 0 /\ bufferData <= MaxOutput

=============================================================================
