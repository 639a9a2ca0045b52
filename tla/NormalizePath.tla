--------------------------- MODULE NormalizePath ---------------------------
(***************************************************************************)
(* normalizePath() (Canonicalize.c, with removeDupSeparator() of           *)
(* UnixFileUtils.c), which rewrites a path in the buffer it is given.      *)
(*                                                                         *)
(* A path is a sequence of tokens, the separator and names; what matters   *)
(* of a name is whether it is ".", "..", starts with '~', and how many     *)
(* bytes it has.  Both what the function returns and what it leaves in the *)
(* buffer are kept, for getPathFromEnv() reads the buffer (PathFromEnv).   *)
(***************************************************************************)
EXTENDS Integers, SequencesExt

CONSTANTS
  Slash, Dot, DotDot, TildeNames, PlainNames,
  Bytes,     \* the length of each token
  Inputs,    \* paths normalizePath() is called with
  Gone,      \* an index entry that has been cleared
  Null

Names  == {Dot, DotDot} \cup TildeNames \cup PlainNames
Tokens == Names \cup {Slash}

ASSUME TokensAssumption ==
  /\ Slash \notin Names /\ Gone \notin Tokens /\ Dot # DotDot
  /\ {Dot, DotDot} \cap (TildeNames \cup PlainNames) = {}
  /\ TildeNames \cap PlainNames = {}
  /\ Bytes \in [Tokens -> Nat \ {0}] /\ Bytes[Slash] = 1
  /\ Inputs \subseteq Seq(Tokens)
  /\ \A p \in Inputs : \A k \in 1..(Len(p) - 1) :   \* names are apart
       Slash \in {p[k], p[k + 1]}
  /\ Null \notin Seq(Tokens)

VARIABLES
  input,        \* history: the path as given
  keepEnd,      \* keepEndSeparator
  removeDD,     \* removeDoubleDot
  path,         \* what is in the buffer
  pc,
  ix, i,        \* the index array, the position in it; 0 outside the loop
  end,          \* where __joinNames() wrote the final NUL, counted from names
  result        \* what is returned

argVars == <<input, keepEnd, removeDD>>
normVars == <<input, keepEnd, removeDD, path, pc, ix, i, end, result>>

Root == <<Slash>>
IsAbsolute(p) == p # <<>> /\ p[1] = Slash
EndsWithSeparator(p) == p # <<>> /\ p[Len(p)] = Slash
Without(s, x) == FoldLeft(LAMBDA out, t : IF t = x THEN out ELSE Append(out, t), <<>>, s)
NamesOf(p) == Without(p, Slash)
Length(p) == FoldLeft(LAMBDA n, t : n + Bytes[t], 0, p)
DropEnd(p) == SubSeq(p, 1, Len(p) - 1)

(* The names of an index array that are left, with separators between them. *)
Kept(entries) == Without(entries, Gone)
Join(names) ==
  [k \in 1..(2 * Len(names) - 1) |-> IF k % 2 = 1 THEN names[(k + 1) \div 2] ELSE Slash]

(* removeDupSeparator(path, keepEndSeparator) *)
RemoveDupSeparator(p, keepEndSeparator) ==
  LET once == FoldLeft(LAMBDA out, t : IF t = Slash /\ EndsWithSeparator(out)
                                       THEN out ELSE Append(out, t), <<>>, p)
  IN  IF ~ keepEndSeparator /\ EndsWithSeparator(p) /\ Length(once) > 1
      THEN DropEnd(once) ELSE once

-----------------------------------------------------------------------------

Call(p, keep, remove) ==
  /\ input' = p /\ keepEnd' = keep /\ removeDD' = remove
  /\ path' = p
  /\ pc' = "start"
  /\ ix' = <<>> /\ i' = 0 /\ end' = 0
  /\ result' = Null

NormInit ==
  /\ input \in Inputs
  /\ keepEnd \in BOOLEAN
  /\ removeDD \in BOOLEAN
  /\ path = input
  /\ pc = "start"
  /\ ix = <<>> /\ i = 0 /\ end = 0
  /\ result = Null

Return(buffer, r) ==
  /\ pc' = "done"
  /\ path' = buffer
  /\ result' = r
  /\ UNCHANGED <<argVars, ix, i, end>>

(* The paths that are answered without looking at their names. *)
NullBefore == {<<>>, <<Dot>>, <<DotDot>>}
NullAfter  == {<<Dot, Slash>>, <<DotDot, Slash>>}
RootAfter  == {Root, <<Slash, DotDot>>, <<Slash, DotDot, Slash>>}
Once == RemoveDupSeparator(path, TRUE)
Special == path \in NullBefore \/ Once \in NullAfter \cup RootAfter

ReturnSpecial ==
  /\ pc = "start"
  /\ \/ path \in NullBefore /\ Return(path, Null)
     \/ path \notin NullBefore /\ Once \in NullAfter /\ Return(Once, Null)
     \/ Once \in RootAfter /\ Return(Root, Root)

(* __collapsible(): the number of names when one of them is "." or "..". *)
Collapsible(p) ==
  LET names == NamesOf(p)
  IN  IF \E k \in DOMAIN names : names[k] \in {Dot, DotDot} THEN Len(names) ELSE 0

NothingToCollapse ==
  /\ pc = "start" /\ ~ Special
  /\ Collapsible(Once) < 2
  /\ pc' = "ends"
  /\ path' = Once
  /\ UNCHANGED <<argVars, ix, i, end, result>>

(* __splitNames() *)
Split ==
  /\ pc = "start" /\ ~ Special
  /\ Collapsible(Once) >= 2
  /\ pc' = "loop"
  /\ path' = Once
  /\ ix' = NamesOf(Once)
  /\ i' = 1
  /\ UNCHANGED <<argVars, end, result>>

(* malloc() fails: the buffer has lost its double separators only. *)
MallocFails ==
  /\ pc = "start" /\ ~ Special
  /\ Collapsible(Once) >= 2
  /\ pc' = "nomemory"
  /\ path' = Once
  /\ UNCHANGED <<argVars, ix, i, end, result>>

AtName == pc = "loop" /\ i <= Len(ix)
Above == {j \in 1..(i - 1) : ix[j] # Gone}   \* what precedes name i

Advance(entries) ==
  /\ ix' = entries
  /\ i' = i + 1
  /\ UNCHANGED <<argVars, path, pc, end, result>>

\* mutation: "." is not looked for
SkipName_Dot ==
  /\ AtName
  /\ ix[i] = DotDot => ~ removeDD
  /\ Advance(ix)

SkipName ==
  /\ AtName
  /\ ix[i] # Dot
  /\ ix[i] = DotDot => ~ removeDD
  /\ Advance(ix)

RemoveDot ==
  /\ AtName
  /\ ix[i] = Dot
  /\ Advance([ix EXCEPT ![i] = Gone])

AtDoubleDot == AtName /\ ix[i] = DotDot /\ removeDD

DoubleDotAtRoot ==
  /\ AtDoubleDot
  /\ Above = {} /\ IsAbsolute(path)
  /\ Advance([ix EXCEPT ![i] = Gone])

\* mutation: the name before it in the array is removed, even when gone
RemoveDoubleDot_Previous ==
  /\ AtDoubleDot
  /\ Above # {}
  /\ ~ (Max(Above) = 1 /\ ix[1] \in TildeNames)
  /\ Advance([ix EXCEPT ![i] = Gone, ![i - 1] = Gone])

RemoveDoubleDot ==
  /\ AtDoubleDot
  /\ Above # {}
  /\ LET j == Max(Above)
     IN  /\ ~ (j = 1 /\ ix[j] \in TildeNames)
         /\ Advance([ix EXCEPT ![i] = Gone, ![j] = Gone])

(* NULL; the separators after the first name are already NULs. *)
CannotRemove ==
  /\ AtDoubleDot
  /\ \/ Above = {} /\ ~ IsAbsolute(path)
     \/ Above # {} /\ Max(Above) = 1 /\ ix[1] \in TildeNames
  /\ Return((IF IsAbsolute(path) THEN Root ELSE <<>>) \o <<NamesOf(path)[1]>>, Null)

(* __joinNames(), and the trailing separator is put back. *)
Joined == (IF IsAbsolute(path) THEN Root ELSE <<>>) \o Join(Kept(ix))

JoinEnd(names) == Length(names) + Len(names)

JoinNames ==
  /\ pc = "loop" /\ i > Len(ix)
  /\ end' = JoinEnd(Kept(ix))
  /\ path' = IF /\ keepEnd /\ EndsWithSeparator(input)
                /\ Joined # <<>> /\ ~ EndsWithSeparator(Joined)
                /\ Length(Joined) + 1 <= Length(input)
             THEN Append(Joined, Slash) ELSE Joined
  /\ pc' = "ends"
  /\ UNCHANGED <<argVars, ix, i, result>>

(* What is left to do at the ends.  Of "./" at the start and "/." at the end *)
(* only the paths "/." and "/./" are left here: see DotsAreGone.             *)
Unslashed_Root(p) ==   \* mutation: the separator of "/" is removed too
  IF (~ EndsWithSeparator(input) \/ ~ keepEnd) /\ EndsWithSeparator(p)
  THEN DropEnd(p) ELSE p

Unslashed(p) ==
  IF (~ EndsWithSeparator(input) \/ ~ keepEnd) /\ p # Root /\ EndsWithSeparator(p)
  THEN DropEnd(p) ELSE p

TrimEnds ==
  /\ pc = "ends"
  /\ IF path \in {<<Slash, Dot>>, <<Slash, Dot, Slash>>}
     THEN Return(Root, Root)
     ELSE LET p == Unslashed(path)
          IN  Return(p, IF p # <<>> THEN p ELSE Null)

NormNext ==
  \/ ReturnSpecial \/ NothingToCollapse \/ Split \/ MallocFails
  \/ SkipName \/ RemoveDot \/ DoubleDotAtRoot \/ RemoveDoubleDot \/ CannotRemove
  \/ JoinNames \/ TrimEnds

NormSpec == NormInit /\ [][NormNext]_normVars

-----------------------------------------------------------------------------
(* Properties.                                                             *)

(* The walk of PathWalk as a function of the names of a path: what is left *)
(* of them, or where the way was lost.                                     *)
Floor == IF ~ IsAbsolute(input) /\ NamesOf(input) # <<>> /\ NamesOf(input)[1] \in TildeNames
         THEN 1 ELSE 0

WalkOn(at, name) ==
  IF at.lost \/ name = Dot THEN at
  ELSE IF name # DotDot \/ ~ removeDD THEN [at EXCEPT !.stack = Append(@, name)]
  ELSE IF Len(at.stack) > Floor THEN [at EXCEPT !.stack = DropEnd(@)]
  ELSE [at EXCEPT !.lost = ~ IsAbsolute(input)]

Walked == FoldLeft(WalkOn, [stack |-> <<>>, lost |-> FALSE], NamesOf(input))

Expected ==
  IF Walked.lost \/ (Walked.stack = <<>> /\ ~ IsAbsolute(input)) THEN Null
  ELSE (IF IsAbsolute(input) THEN Root ELSE <<>>) \o Join(Walked.stack)
       \o (IF keepEnd /\ EndsWithSeparator(input) /\ Walked.stack # <<>>
           THEN Root ELSE <<>>)

(* The path returned leads where the path given leads, in as few names as  *)
(* can be, with its trailing separator if asked for; NULL is returned only *)
(* when the way is lost or nothing is left.  (".." alone is resolved also  *)
(* when removeDoubleDot is false: lines 134 and 147-151 do not ask.)  The  *)
(* buffer, which is what getPathFromEnv() reads, holds the same path.      *)
ResultIsWalked ==
  pc = "done" =>
    /\ removeDD \/ NamesOf(input) # <<DotDot>> => result = Expected
    /\ result # Null => path = result

(* The loop over the index array, which clears entries and looks back over *)
(* the cleared ones, is the walk with a stack.                             *)
Lost == pc = "done" /\ i \in 1..Len(ix)
WalkTodo == IF Lost THEN <<>>
            ELSE IF i = 0 THEN NamesOf(input) ELSE SubSeq(ix, i, Len(ix))

Walk == INSTANCE PathWalk WITH
          rooted <- IsAbsolute(input), resolve <- removeDD, todo <- WalkTodo,
          stack <- Kept(SubSeq(ix, 1, i - 1)), floor <- Floor, lost <- Lost

ImplementsWalk == Walk!Spec

(* __joinNames() moves names towards the start of the buffer and ends with *)
(* a NUL that it writes inside the names it was given: when ".." is        *)
(* removed there is always a name less than before.  (When it is kept and  *)
(* no name is ".", the last NUL goes one byte past that of the string.)    *)
NamesLength == Length(RemoveDupSeparator(input, TRUE)) - (IF IsAbsolute(input) THEN 1 ELSE 0)
WritesInPlace == removeDD => end <= NamesLength

(* "If path is an absolute path, then path above rootfs will reset to `/`  *)
(* and any remaining path will be kept as well" (UnixFileUtils.h:50-51)    *)
AbsoluteIsNeverNull == pc = "done" /\ IsAbsolute(input) => result # Null

(* After the names are joined only a path that was never split can have a  *)
(* "." at an end, so that of what normalizePath() goes on to look for      *)
(* there, "./" in front and "/." behind, it can only meet "/." and "/./".  *)
DotsAreGone ==
  pc = "ends" => path \in {<<Slash, Dot>>, <<Slash, Dot, Slash>>} \/ Dot \notin Range(path)

=============================================================================
