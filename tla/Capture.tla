------------------------------ MODULE Capture ------------------------------
(***************************************************************************)
(* What forkChild() promises its caller about the output of the child.     *)
(* Processes write bytes; some day the caller is handed all the bytes that *)
(* were written, in order, less one trailing newline and followed by a     *)
(* NUL, and nothing can be written after that.  Or it is handed nothing.   *)
(***************************************************************************)
EXTENDS Sequences, Integers

CONSTANTS
  Bytes,      \* what can be written
  Newline,    \* the byte '\n'
  Nul,        \* the byte '\0'
  NoOutput    \* the caller has been handed nothing

VARIABLES
  sent,       \* all the bytes written so far
  output      \* what the caller has been handed

capVars == <<sent, output>>

(* The bytes of an output that are kept of s. *)
EndsInNewline(s) == s # <<>> /\ s[Len(s)] = Newline
Trim(s) == IF EndsInNewline(s) THEN SubSeq(s, 1, Len(s) - 1) ELSE s

Init ==
  /\ sent = <<>>
  /\ output = NoOutput

Write(b) ==
  /\ output = NoOutput
  /\ sent' = Append(sent, b)
  /\ UNCHANGED output

Deliver ==
  /\ output = NoOutput
  /\ output' = Append(Trim(sent), Nul)
  /\ UNCHANGED sent

Next == (\E b \in Bytes : Write(b)) \/ Deliver

Spec == Init /\ [][Next]_capVars

=============================================================================
