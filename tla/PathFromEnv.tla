----------------------------- MODULE PathFromEnv -----------------------------
(***************************************************************************)
(* getPathFromEnvOrDefault() and the getPathFromEnv() it calls             *)
(* (UnixFileUtils.c), over the steps of normalizePath() (NormalizePath):   *)
(* the path in an environment variable if it is usable, else the default.  *)
(* Both are normalized in the caller's buffer, and what is in the buffer   *)
(* afterwards is the answer, whatever normalizePath() returned.            *)
(***************************************************************************)
EXTENDS NormalizePath

CONSTANTS
  Unset,       \* the variable is not set
  Defaults,    \* values of defaultPath
  Limits,      \* values of envPathMaxLength
  BufferSizes, \* values of bufferSize
  AbsoluteOnly \* values of ensureAbsolute

VARIABLES
  env,         \* the value of the variable
  args,        \* the other arguments; denied: an access() asked for fails
  at,          \* the next step of the two functions
  code,        \* what getPathFromEnv() returns
  answer       \* what getPathFromEnvOrDefault() returns

vars == <<normVars, env, args, at, code, answer>>

ASSUME PathFromEnvAssumption ==
  /\ Unset \notin Inputs /\ Null \notin Inputs
  /\ Defaults \subseteq Inputs
  /\ Limits \subseteq Nat /\ BufferSizes \subseteq Nat \ {0}
  /\ AbsoluteOnly \subseteq BOOLEAN

Args == [absolute: AbsoluteOnly, limit: Limits, size: BufferSizes,
         normalize: BOOLEAN, remove: BOOLEAN,
         default: Defaults, denied: BOOLEAN]

(* The buffer is not initialized: it holds nothing of use. *)
Init ==
  /\ env \in Inputs \cup {Unset}
  /\ args \in Args
  /\ at = "getenv"
  /\ code = 1
  /\ answer = Null
  /\ input = <<>> /\ keepEnd = FALSE /\ removeDD = FALSE
  /\ path = <<>> /\ pc = "idle" /\ ix = <<>> /\ i = 0 /\ end = 0
  /\ result = Null

Goto(next) == at' = next /\ UNCHANGED <<env, args>>

-----------------------------------------------------------------------------
(* getPathFromEnv()                                                        *)

IsUnset  == env = Unset \/ env = <<>>
Relative == args.absolute /\ ~ IsAbsolute(env)
TooLong  == args.limit >= 1 /\ Length(env) >= args.limit
Usable   == ~ IsUnset /\ ~ Relative /\ ~ TooLong

(* strcpy() leaves no room for the NUL when the lengths are equal. *)
Fits_NoNul(p) == Length(p) <= args.size   \* mutation
Fits(p) == Length(p) < args.size

FromEnvReturns(c) ==
  /\ code' = c
  /\ Goto(IF c = 0 THEN "found" ELSE IF c = 1 THEN "default" ELSE "returned")
  /\ UNCHANGED answer

NotUsable ==
  /\ at = "getenv"
  /\ ~ Usable
  /\ FromEnvReturns(1)
  /\ UNCHANGED normVars

NoRoom ==
  /\ at = "getenv"
  /\ Usable /\ ~ Fits(env)
  /\ FromEnvReturns(-1)
  /\ UNCHANGED normVars

(* strcpy(), and normalizePath(buffer, false, removeDoubleDot) if asked for *)
Copy_KeepDots(p) ==   \* mutation: the flags are passed in the wrong order
  IF args.normalize THEN Call(p, args.remove, FALSE)
  ELSE /\ path' = p /\ pc' = "idle"
       /\ UNCHANGED <<input, keepEnd, removeDD, ix, i, end, result>>

Copy(p) ==
  IF args.normalize THEN Call(p, FALSE, args.remove)
  ELSE /\ path' = p /\ pc' = "idle"
       /\ UNCHANGED <<input, keepEnd, removeDD, ix, i, end, result>>

CopyFromEnv ==
  /\ at = "getenv"
  /\ Usable /\ Fits(env)
  /\ Copy(env)
  /\ Goto("fromEnv")
  /\ UNCHANGED <<code, answer>>

Normalizing == at \in {"fromEnv", "fromDefault"} /\ pc \in {"start", "loop", "ends"}

Normalize ==
  /\ Normalizing
  /\ NormNext
  /\ UNCHANGED <<env, args, at, code, answer>>

(* The pointer normalizePath() returned is not looked at. *)
BecameNull_Pointer == args.normalize /\ pc = "nomemory"   \* mutation
BecameNull == args.normalize /\ path = <<>>

FromEnvCopied ==
  /\ at = "fromEnv" /\ ~ Normalizing
  /\ FromEnvReturns(IF BecameNull THEN 1 ELSE 0)
  /\ UNCHANGED normVars

-----------------------------------------------------------------------------
(* getPathFromEnvOrDefault()                                               *)

Answer(a) ==
  /\ answer' = a
  /\ Goto("returned")
  /\ UNCHANGED <<normVars, code>>

AnswerFound == at = "found" /\ Answer(path)

DefaultUsable == IsAbsolute(args.default) /\ Fits(args.default)

DefaultNotUsable == at = "default" /\ ~ DefaultUsable /\ Answer(Null)

CopyDefault ==
  /\ at = "default"
  /\ DefaultUsable
  /\ Copy(args.default)
  /\ Goto("fromDefault")
  /\ UNCHANGED <<code, answer>>

(* access() of the default path, in the modes that ask for it. *)
AnswerDefault ==
  /\ at = "fromDefault" /\ ~ Normalizing
  /\ Answer(IF BecameNull \/ args.denied THEN Null ELSE path)

Next ==
  \/ NotUsable \/ NoRoom \/ CopyFromEnv \/ FromEnvCopied
  \/ Normalize
  \/ AnswerFound \/ DefaultNotUsable \/ CopyDefault \/ AnswerDefault

Spec == Init /\ [][Next]_vars

-----------------------------------------------------------------------------
(* Properties.                                                             *)

(* What is in the buffer fits in it with its NUL at every step, for either *)
(* path, and a path taken from the variable is shorter than the maximum:   *)
(* normalizing never makes a path longer.  (Excepted is the second NUL     *)
(* __joinNames() writes when removeDoubleDot is false: see WritesInPlace.) *)
FitsInBuffer ==
  /\ path # <<>> => Length(path) < args.size
  /\ at = "found" /\ args.limit >= 1 => Length(path) < args.limit

(* A path that is to be absolute is, and no answer is an empty path; also  *)
(* when normalizePath() ran out of memory half way.                        *)
AnswerIsPath ==
  answer # Null =>
    /\ answer # <<>>
    /\ args.absolute => IsAbsolute(answer)

(* The answer to the callers of this repository, which ask for an absolute *)
(* path without "..": where the path of the variable, or the default,      *)
(* leads, and in normal form; if there was memory for it.                  *)
Source == IF code = 0 THEN env ELSE args.default
AnswerIsNormal ==
  answer # Null /\ args.absolute /\ args.normalize /\ args.remove /\ pc # "nomemory" =>
    input = Source /\ answer = Expected

=============================================================================
