------------------------------ MODULE TermuxDirs ------------------------------
(***************************************************************************)
(* The five directories TermuxFile.c keeps in static buffers, and the      *)
(* functions that use them, called by several threads while the            *)
(* environment and the access to the default directory change.             *)
(*                                                                         *)
(* A getter fills its buffer when the static pointer beside it is NULL,    *)
(* stores what the fill returns in the pointer, NULL too, and returns what *)
(* the pointer is then.  The five share nothing: a behaviour is about one. *)
(***************************************************************************)
EXTENDS TermuxPaths

CONSTANTS
  Threads,
  EnvPaths,     \* values of the variable; <<>>: it is not set
  DefaultPaths, \* directories the library may be built with
  NormalOf(_),  \* what normalizePath() makes of an absolute path (NormalizePath)
  LeftOf(_),    \* what it leaves in place of the path when it has no memory
  Torn,         \* what two threads that write to the buffer at once leave there
  MaxLen,       \* TERMUX__*_DIR___MAX_LEN: the size of each buffer
  Arguments     \* the calls of the functions that use a directory

(* The directories, and the two whose default must be readable and         *)
(* executable.                                                             *)
Dirs == {"data", "legacy", "rootfs", "prefix", "tmp"}
AccessChecked == {"rootfs", "prefix"}

ASSUME TermuxDirsAssumption ==
  /\ MaxLen \in [Dirs -> Nat]
  /\ Torn \in Seq(Chars)
  /\ \A a \in Arguments :
       /\ a.path # Null => a.path \in Seq(Chars)
       /\ a.op = "prefixPath" => a.path # Null /\ a.size \in Nat
       /\ a.own # Null =>
            /\ a.own \in Seq(Chars) /\ IsNormal(a.own)
            /\ a.op = "prefixPath" => Len(a.own) < MaxLen["prefix"]
  /\ \A p \in EnvPaths \cup DefaultPaths :
       p \in Seq(Chars) /\ NormalOf(p) \in Seq(Chars) /\ LeftOf(p) \in Seq(Chars)
  /\ \A p \in EnvPaths \cup DefaultPaths : IsAbsolute(p) =>
       /\ IsNormal(NormalOf(p)) /\ Len(NormalOf(p)) <= Len(p)
       /\ IsAbsolute(LeftOf(p)) /\ Len(LeftOf(p)) <= Len(p)

VARIABLES
  dir,        \* the directory followed
  default,    \* its default
  buffer,     \* its static buffer
  cached,     \* its static pointer is not NULL
  pc, arg,    \* the call of each thread
  copy,       \* termuxLegacyAppDataDirCopy
  sources,    \* history: the texts copied to the buffer by fills
  overlapped, \* history: two fills have been under way at once
  noMemory,   \* history: normalizePath() has left a path as LeftOf() has it
  handed,     \* history: the text first handed out
  blamed      \* history: a fill failed during the call of the thread

callVars == <<pc, arg, copy, blamed>>
vars == <<dir, default, buffer, cached, callVars, sources, overlapped, noMemory, handed>>

(* The arguments of a call; own is the directory that is passed, or Null.  *)
Get == [op |-> "get", path |-> <<>>, size |-> 0, own |-> Null]
NoAnswer == [path |-> Null, written |-> 0, verdict |-> 1, memory |-> TRUE]
Empty == <<>>

Init ==
  /\ dir \in Dirs
  /\ default \in DefaultPaths
  /\ buffer = Empty
  /\ cached = FALSE
  /\ pc = [t \in Threads |-> "idle"]
  /\ arg = [t \in Threads |-> Get]
  /\ copy = [t \in Threads |-> Empty]
  /\ sources = {}
  /\ overlapped = FALSE
  /\ noMemory = FALSE
  /\ handed = Null
  /\ blamed = [t \in Threads |-> FALSE]

FillSteps == {"getenv", "default", "normalize", "normalizeDefault", "access",
              "normal", "convert", "failed", "filled"}
Filling(t) == pc[t] \in FillSteps
Writing(t) == pc[t] \in {"getenv", "default", "normalize", "normalizeDefault", "convert"}

Goto(t, next) == pc' = [pc EXCEPT ![t] = next]

-----------------------------------------------------------------------------
(* termux*_getFromEnvOrDefault() of the directory, into its static buffer. *)

(* strcpy() or an in-place change of the buffer.  When another thread is   *)
(* about to write there too, and the text changes, the two may mix.        *)
Write(t, text) ==
  \/ buffer' = text
  \/ /\ buffer \notin {Empty, text}
     /\ \E u \in Threads \ {t} : Writing(u)
     /\ buffer' = Torn

FillStep(t, next) ==
  /\ Goto(t, next)
  /\ UNCHANGED <<dir, default, cached, arg, overlapped, handed, blamed>>

(* The limit on the variable's length is the size of the buffer.  The      *)
(* variable may be set or unset between any two calls: any of its values   *)
(* may be there.                                                           *)
Usable(path) == IsAbsolute(path) /\ Len(path) < MaxLen[dir]

\* mutation: the pointer is reset before it is filled
FromEnv_Resets(t) ==
  /\ pc[t] = "getenv"
  /\ Goto(t, "default")
  /\ cached' = FALSE
  /\ UNCHANGED <<dir, default, buffer, arg, copy, blamed, sources,
                 overlapped, noMemory, handed>>

FromEnv(t) ==
  /\ pc[t] = "getenv"
  /\ \/ \E path \in {p \in EnvPaths : Usable(p)} :
          /\ FillStep(t, "normalize")
          /\ Write(t, path)
          /\ sources' = sources \cup {path}
     \/ /\ \E path \in EnvPaths : ~ Usable(path)
        /\ FillStep(t, "default")
        /\ UNCHANGED <<buffer, sources>>
  /\ UNCHANGED <<copy, noMemory>>

CopyDefault(t) ==
  /\ pc[t] = "default"
  /\ IF Usable(default)
     THEN /\ FillStep(t, "normalizeDefault")
          /\ Write(t, default)
          /\ sources' = sources \cup {default}
     ELSE FillStep(t, "failed") /\ UNCHANGED <<buffer, sources>>
  /\ UNCHANGED <<copy, noMemory>>

(* normalizePath() of the buffer.  It needs memory where there are dots to *)
(* remove; the NULL it returns without is not looked at.                   *)
Normalize(t) ==
  /\ pc[t] \in {"normalize", "normalizeDefault"}
  /\ FillStep(t, IF pc[t] = "normalizeDefault" /\ dir \in AccessChecked
                 THEN "access" ELSE "normal")
  /\ \/ Write(t, NormalOf(buffer)) /\ UNCHANGED noMemory
     \/ /\ LeftOf(buffer) # NormalOf(buffer)
        /\ Write(t, LeftOf(buffer))
        /\ noMemory' = TRUE
  /\ UNCHANGED <<copy, sources>>

(* access(path, R_OK | X_OK) *)
Access(t) ==
  /\ pc[t] = "access"
  /\ FillStep(t, "normal") \/ FillStep(t, "failed")
  /\ UNCHANGED <<buffer, copy, sources, noMemory>>

(* The legacy directory is converted unless it has the form already. *)
ToBeConverted_Default(text) ==     \* mutation: only a default is converted
  dir = "legacy" /\ text = default /\ ~ StartsWith(text, LegacyRoot)
ToBeConverted(text) == dir = "legacy" /\ ~ StartsWith(text, LegacyRoot)

Normal(t) ==
  /\ pc[t] = "normal"
  /\ IF ToBeConverted(buffer)
     THEN FillStep(t, "convert") /\ copy' = [copy EXCEPT ![t] = buffer]
     ELSE FillStep(t, "filled") /\ UNCHANGED copy
  /\ UNCHANGED <<buffer, sources, noMemory>>

Convert(t) ==
  /\ pc[t] = "convert"
  /\ LET legacy == ConvertToLegacyPath(copy[t], MaxLen[dir])
     IN  IF legacy = Null
         THEN FillStep(t, "failed") /\ UNCHANGED buffer
         ELSE FillStep(t, "filled") /\ Write(t, legacy)
  /\ copy' = [copy EXCEPT ![t] = Empty]
  /\ UNCHANGED <<sources, noMemory>>

-----------------------------------------------------------------------------
(* termux*_get() *)

\* mutation: the pointer is not looked at
Check_Always(t) ==
  /\ pc[t] = "check"
  /\ Goto(t, "getenv")
  /\ overlapped' = (overlapped \/ \E u \in Threads : Filling(u))
  /\ UNCHANGED <<dir, default, buffer, cached, arg, copy, sources,
                 noMemory, handed, blamed>>

Check(t) ==
  /\ pc[t] = "check"
  /\ IF cached
     THEN Goto(t, "return") /\ UNCHANGED overlapped
     ELSE /\ Goto(t, "getenv")
          /\ overlapped' = (overlapped \/ \E u \in Threads : Filling(u))
  /\ UNCHANGED <<dir, default, buffer, cached, arg, copy, sources,
                 noMemory, handed, blamed>>

(* What the fill returned is stored, NULL or the buffer. *)
Store(t) ==
  /\ pc[t] \in {"filled", "failed"}
  /\ Goto(t, "return")
  /\ cached' = (pc[t] = "filled")
  /\ blamed' = [u \in Threads |->
                  blamed[u] \/ (pc[t] = "failed" /\ pc[u] # "idle")]
  /\ UNCHANGED <<dir, default, buffer, arg, copy, sources,
                 overlapped, noMemory, handed>>

(* The static pointer is read again to be returned; NULL ends every call   *)
(* with an error, and a call that was for the directory itself ends here.  *)
Finish(t) == Goto(t, "idle") /\ arg' = [arg EXCEPT ![t] = Get]

ReturnPointer(t) ==
  /\ pc[t] = "return"
  /\ IF cached /\ arg[t].op # "get"
     THEN Goto(t, "use") /\ UNCHANGED arg
     ELSE Finish(t)
  /\ handed' = IF cached /\ handed = Null THEN buffer ELSE handed
  /\ UNCHANGED <<dir, default, buffer, cached, copy, sources, overlapped,
                 noMemory, blamed>>

-----------------------------------------------------------------------------
(* The functions that use a directory: termuxApp_dataDir_isPathUnder(),    *)
(* which takes the legacy directory for a path of that form,               *)
(* termux_rootfsDir_isPathUnder() and termuxPrefixPath().  A path Null is  *)
(* a path of a descriptor that getRegularFileFdRealPath() cannot resolve.  *)

Uses(a) ==
  CASE a.op = "get"        -> Dirs
    [] a.op = "prefixPath" -> {"prefix"}
    [] a.op = "isPathUnder" ->
         {"rootfs", IF a.path # Null /\ StartsWith(a.path, LegacyRoot)
                    THEN "legacy" ELSE "data"}

(* What is answered before the directory is asked for. *)
NeedsDir(a) ==
  CASE a.op = "get"         -> TRUE
    [] a.op = "prefixPath"  -> Len(a.path) < a.size /\ IsPrefixed(a.path)
    [] a.op = "isPathUnder" -> dir = "rootfs" \/ a.path \notin {Null, Empty}

(* What is answered.  An error of asprintf() is returned as a bool, and so *)
(* it reads 1.                                                             *)
Verdict(path, d) ==
  IF path = Null THEN -1
  ELSE IF path = Empty THEN 1 ELSE IsPathInDirPath(path, d, TRUE)

Results(a, d) ==
  IF a.op = "prefixPath"
  THEN LET r == PrefixPath(d, a.path, a.size)
       IN  {[NoAnswer EXCEPT !.path = r.path, !.written = r.written]}
  ELSE {[NoAnswer EXCEPT !.verdict = Verdict(a.path, d)],
        [NoAnswer EXCEPT !.memory = FALSE]}

(* A directory the caller passes is used in place of the static one.       *)
Call(t, a) ==
  /\ pc[t] = "idle"
  /\ dir \in Uses(a)
  /\ IF NeedsDir(a)
     THEN /\ Goto(t, IF a.own = Null THEN "check" ELSE "use")
          /\ arg' = [arg EXCEPT ![t] = a]
     ELSE Finish(t)
  /\ blamed' = [blamed EXCEPT ![t] = FALSE]
  /\ UNCHANGED <<dir, default, buffer, cached, copy, sources, overlapped,
                 noMemory, handed>>

DirOf(t) == IF arg[t].own = Null THEN buffer ELSE arg[t].own

Use(t) ==
  /\ pc[t] = "use"
  /\ Finish(t)      \* with one of Results(arg[t], DirOf(t))
  /\ UNCHANGED <<dir, default, buffer, cached, copy, sources, overlapped,
                 noMemory, handed, blamed>>

Next ==
  \E t \in Threads :
    \/ \E a \in Arguments \cup {Get} : Call(t, a)
    \/ Check(t) \/ FromEnv(t) \/ CopyDefault(t) \/ Normalize(t) \/ Access(t)
    \/ Normal(t) \/ Convert(t) \/ Store(t) \/ ReturnPointer(t) \/ Use(t)

Spec == Init /\ [][Next]_vars

-----------------------------------------------------------------------------
(* Properties.                                                             *)

(* What normalizePath() may have made of a path, and the texts the         *)
(* directory may be when it was found as source.                           *)
Made(source) == {NormalOf(source)} \cup (IF noMemory THEN {LeftOf(source)} ELSE {})

IsFormOf(text, source) ==
  \E path \in Made(source) :
    IF dir = "legacy" /\ ~ StartsWith(path, LegacyRoot)
    THEN text = LegacyRoot \o Basename(path) /\ Basename(path) # <<>>
    ELSE text = path

(* Fills do not disturb each other when they never overlap, whatever the   *)
(* environment becomes, or when all of them copy the same text and that    *)
(* needs no change.                                                        *)
NeedsNoChange(text) ==
  {NormalOf(text), LeftOf(text)} = {text} /\ ~ ToBeConverted(text)
Undisturbed == ~ overlapped \/ \E s \in sources : sources = {s} /\ NeedsNoChange(s)

(* A directory once handed out stands, unless fills disturb each other: a  *)
(* pointer a getter has returned points to the same text ever after, and   *)
(* that is made of a path that was in the environment or the default, by   *)
(* normalizePath() and, for the legacy directory, by conversion            *)
(* (TermuxFile.c:64-277).  It is the normal form unless normalizePath()    *)
(* had no memory to remove the dots, which no getter notices.              *)
HandedPathStands ==
  handed # Null /\ Undisturbed =>
    buffer = handed /\ \E s \in sources : IsFormOf(handed, s)

(* A getter returns NULL only if a fill failed during the very call, its   *)
(* own or another thread's, which wipes a path that was already found      *)
(* (lines 66, 91, 205, 231, 257): failures are not cached.                 *)
NullMeansFailure ==
  \A t \in Threads : pc[t] = "return" /\ ~ cached => blamed[t]

(* However fills overlapped and the environment changed: once there is a   *)
(* path and no fill is under way, no fill ever begins again and nothing    *)
(* changes the path any more.                                              *)
Settled == cached /\ \A t \in Threads : ~ Filling(t)
SettledForGood == [][Settled => Settled' /\ buffer' = buffer]_vars

(* What the functions answer about the directory passed to them or found.  *)
(* A path with no '/' too many is under the directory if and only if it    *)
(* has the names of the directory and at least one more: not the directory *)
(* itself, nor one whose name only begins with the directory's.  That asks *)
(* the same of the directory's path: callers see to it for theirs, and     *)
(* fills unless they disturb each other or had no memory.  An executable   *)
(* whose first or second name is "bin" is prefixed by replacing what is    *)
(* before it with the directory's names (TermuxFile.c:303-353).  Nothing   *)
(* is asked of one like /o/b/bin/s, which the code prefixes though the     *)
(* comment at line 322 does not say so: a third name may begin four bytes  *)
(* after the start too.                                                    *)
AnswersRight ==
  \A t \in Threads : pc[t] = "use" =>
    LET a == arg[t]
        d == DirOf(t)
    IN  \A r \in Results(a, d) :
          /\ a.op = "isPathUnder" /\ r.memory /\ a.path # Null /\ IsNormal(a.path)
               /\ (IsNormal(d) \/ (Undisturbed /\ ~ noMemory)) =>
               (r.verdict = 0 <=> Under(a.path, d))
          /\ a.op = "prefixPath" /\ r.path # Null /\ InBinDir(a.path) =>
               IF d = Root THEN r.path = a.path
               ELSE Names(r.path) = Names(d) \o NamesFromBin(a.path)

(* "The buffer size must at least be `TERMUX__PREFIX_DIR___MAX_LEN` +      *)
(* strlen(executablePath)`" (TermuxFile.h:331): then termuxPrefixPath()    *)
(* always finds room in it, and it writes outside neither the buffer nor   *)
(* termuxBinPath (TermuxFile.c:301), although it copies "<prefix>/bin"     *)
(* before it compares the length with the size, or without (lines 338-343, *)
(* 316-318).  A prefix the caller passes is shorter than                   *)
(* TERMUX__PREFIX_DIR___MAX_LEN, as TermuxDirsAssumption has it.           *)
BinPathSize == MaxLen["prefix"] + 1 + 3 + 1
PrefixFits ==
  \A t \in Threads :
    /\ pc[t] = "use" /\ arg[t].op = "prefixPath"
    /\ Undisturbed \/ arg[t].own # Null
    =>
      /\ Len(TermuxBinPath(DirOf(t), arg[t].path)) < BinPathSize
      /\ arg[t].size >= MaxLen["prefix"] + Len(arg[t].path) =>
           \A r \in Results(arg[t], DirOf(t)) :
             r.path # Null /\ r.written <= arg[t].size

=============================================================================
