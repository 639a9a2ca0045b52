------------------------------ MODULE PathWalk ------------------------------
(***************************************************************************)
(* What the names of a path mean: a walk that takes one name at a time and *)
(* remembers where it is as the names that lead there.  "." stays, ".."    *)
(* goes up, any other name goes down.  At the root ".." stays; where       *)
(* nothing is known of what is above (the directory a relative path starts *)
(* from, a home directory) it loses the way.                               *)
(***************************************************************************)
EXTENDS Integers, Sequences

CONSTANTS
  Dot, DotDot,   \* the names "." and ".."
  TildeNames,    \* names that start with '~'
  PlainNames     \* the other names

VARIABLES
  rooted,        \* the path is absolute
  resolve,       \* ".." goes up; otherwise it is a name like any other
  todo,          \* names not yet walked
  stack,         \* names that lead to where the walk is
  floor,         \* how many of them cannot be left: 1 for a home directory
  lost

walkVars == <<rooted, resolve, todo, stack, floor, lost>>

Names == {Dot, DotDot} \cup TildeNames \cup PlainNames

(* "~" and "~user" are home directories at the start of a relative path. *)
StartsAtHome(isRooted, names) ==
  ~ isRooted /\ names # <<>> /\ names[1] \in TildeNames

Init ==
  /\ rooted \in BOOLEAN
  /\ resolve \in BOOLEAN
  /\ todo \in Seq(Names)
  /\ stack = <<>>
  /\ floor = IF StartsAtHome(rooted, todo) THEN 1 ELSE 0
  /\ lost = FALSE

Take == todo # <<>> /\ todo' = Tail(todo) /\ UNCHANGED <<rooted, resolve, floor>>

GoesUp(name) == name = DotDot /\ resolve

Stay ==
  /\ Take
  /\ Head(todo) = Dot
  /\ UNCHANGED <<stack, lost>>

Down ==
  /\ Take
  /\ Head(todo) # Dot /\ ~ GoesUp(Head(todo))
  /\ stack' = Append(stack, Head(todo))
  /\ UNCHANGED lost

Up ==
  /\ Take
  /\ GoesUp(Head(todo))
  /\ Len(stack) > floor
  /\ stack' = SubSeq(stack, 1, Len(stack) - 1)
  /\ UNCHANGED lost

UpFromRoot ==
  /\ Take
  /\ GoesUp(Head(todo))
  /\ rooted /\ stack = <<>>
  /\ UNCHANGED <<stack, lost>>

GetLost ==
  /\ todo # <<>>
  /\ GoesUp(Head(todo))
  /\ ~ rooted /\ Len(stack) <= floor
  /\ todo' = <<>>
  /\ lost' = TRUE
  /\ UNCHANGED <<rooted, resolve, stack, floor>>

Next == Stay \/ Down \/ Up \/ UpFromRoot \/ GetLost

Spec == Init /\ [][Next]_walkVars

=============================================================================
