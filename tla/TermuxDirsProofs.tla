--------------------------- MODULE TermuxDirsProofs ---------------------------
(***************************************************************************)
(* What TermuxDirs promises of a directory's static buffer and pointer,    *)
(* for any number of threads and any paths: the directory stands, a prefix *)
(* fits, and, after the lemmas about the names of paths they need, the     *)
(* functions of TermuxPaths answer right.                                  *)
(***************************************************************************)
EXTENDS TermuxDirs, TLAPS, SequenceTheorems, WellFoundedInduction

Texts == EnvPaths \cup DefaultPaths

Steps == FillSteps \cup {"idle", "check", "return", "use"}

TypeInv ==
  /\ pc \in [Threads -> Steps]
  /\ DOMAIN copy = Threads /\ DOMAIN arg = Threads
  /\ blamed \in [Threads -> BOOLEAN]
  /\ cached \in BOOLEAN
  /\ overlapped \in BOOLEAN
  /\ default \in DefaultPaths
  /\ sources \subseteq Texts

(* While fills have never overlapped, one thread fills at most, and none   *)
(* when there is a path; what the buffer holds follows from how far that   *)
(* thread is.                                                              *)
AloneAt(t) ==
  /\ pc[t] \in {"normalize", "normalizeDefault"} => buffer \in sources
  /\ pc[t] \in {"access", "normal"} => \E s \in sources : buffer \in Made(s)
  /\ pc[t] = "convert" =>
       \E s \in sources : copy[t] \in Made(s) /\ ToBeConverted(copy[t])
  /\ pc[t] = "filled" => \E s \in sources : IsFormOf(buffer, s)

AloneInv ==
  ~ overlapped =>
    /\ \A t, u \in Threads : Filling(t) /\ Filling(u) => t = u
    /\ \A t \in Threads : Filling(t) => ~ cached /\ AloneAt(t)
    /\ cached => \E s \in sources : IsFormOf(buffer, s)
    /\ handed # Null => cached /\ buffer = handed
    /\ \A t \in Threads : pc[t] = "use" /\ arg[t].own = Null => cached

(* While all fills have copied one text that needs no change, the buffer   *)
(* holds that text or nothing, however the fills overlapped.               *)
SameInv ==
  \A s \in Texts : sources \subseteq {s} /\ NeedsNoChange(s) =>
    /\ buffer \in {Empty, s}
    /\ \A t \in Threads :
         /\ pc[t] # "convert"
         /\ \/ pc[t] \in {"normalize", "normalizeDefault", "access", "normal", "filled"}
            \/ pc[t] = "use" /\ arg[t].own = Null
            => buffer = s /\ s \in sources
    /\ cached => buffer = s /\ s \in sources
    /\ handed # Null => buffer = s /\ handed = s /\ s \in sources

TermuxDirsInv == TypeInv /\ NullMeansFailure /\ AloneInv /\ SameInv

-----------------------------------------------------------------------------
LEMMA InitInv == Init => TermuxDirsInv
  BY DEF Init, TermuxDirsInv, TypeInv, NullMeansFailure, AloneInv, SameInv, AloneAt,
         Steps, FillSteps, Filling, Texts

LEMMA TypeStep == TypeInv /\ [Next]_vars => TypeInv'
<1> SUFFICES ASSUME TypeInv, [Next]_vars PROVE TypeInv'
  OBVIOUS
<1> USE DEF TypeInv, Steps, FillSteps
<1>1. CASE UNCHANGED vars
  BY <1>1 DEF vars, callVars
<1>2. ASSUME NEW t \in Threads, NEW a \in Arguments \cup {Get}, Call(t, a)
      PROVE  TypeInv'
  BY <1>2 DEF Call, Goto, Finish
<1>3. ASSUME NEW t \in Threads, Check(t) PROVE TypeInv'
  BY <1>3 DEF Check, Goto, Filling
<1>4. ASSUME NEW t \in Threads, FromEnv(t) PROVE TypeInv'
  BY <1>4 DEF FromEnv, FillStep, Goto, Texts
<1>5. ASSUME NEW t \in Threads, CopyDefault(t) PROVE TypeInv'
  BY <1>5 DEF CopyDefault, FillStep, Goto, Texts
<1>6. ASSUME NEW t \in Threads, Normalize(t) PROVE TypeInv'
  BY <1>6 DEF Normalize, FillStep, Goto
<1>7. ASSUME NEW t \in Threads, Access(t) PROVE TypeInv'
  BY <1>7 DEF Access, FillStep, Goto
<1>8. ASSUME NEW t \in Threads, Normal(t) PROVE TypeInv'
  BY <1>8 DEF Normal, FillStep, Goto
<1>9. ASSUME NEW t \in Threads, Convert(t) PROVE TypeInv'
  BY <1>9 DEF Convert, FillStep, Goto
<1>10. ASSUME NEW t \in Threads, Store(t) PROVE TypeInv'
  BY <1>10 DEF Store, Goto
<1>11. ASSUME NEW t \in Threads, ReturnPointer(t) PROVE TypeInv'
  BY <1>11 DEF ReturnPointer, Goto, Finish
<1>12. ASSUME NEW t \in Threads, Use(t) PROVE TypeInv'
  BY <1>12 DEF Use, Goto, Finish
<1> QED
  BY <1>1, <1>2, <1>3, <1>4, <1>5, <1>6, <1>7, <1>8, <1>9, <1>10, <1>11, <1>12 DEF Next

(* A NULL pointer at the return is stored by a failed fill, which blames   *)
(* every call under way; a call that begins later has yet to read it.      *)
LEMMA NullStep == TypeInv /\ NullMeansFailure /\ [Next]_vars => NullMeansFailure'
<1> SUFFICES ASSUME TypeInv, NullMeansFailure, [Next]_vars PROVE NullMeansFailure'
  OBVIOUS
<1> USE DEF TypeInv, NullMeansFailure, Steps, FillSteps
<1>1. CASE UNCHANGED vars
  BY <1>1 DEF vars, callVars
<1>2. ASSUME NEW t \in Threads, NEW a \in Arguments \cup {Get}, Call(t, a)
      PROVE  NullMeansFailure'
  BY <1>2 DEF Call, Goto, Finish
<1>3. ASSUME NEW t \in Threads, Check(t) PROVE NullMeansFailure'
  BY <1>3 DEF Check, Goto
<1>4. ASSUME NEW t \in Threads, NEW next \in Steps \ {"return"}, FillStep(t, next)
      PROVE  NullMeansFailure'
  BY <1>4 DEF FillStep, Goto
<1>5. ASSUME NEW t \in Threads, Store(t) PROVE NullMeansFailure'
  BY <1>5 DEF Store, Goto
<1>6. ASSUME NEW t \in Threads, ReturnPointer(t) PROVE NullMeansFailure'
  BY <1>6 DEF ReturnPointer, Goto, Finish
<1>7. ASSUME NEW t \in Threads, Use(t) PROVE NullMeansFailure'
  BY <1>7 DEF Use, Goto, Finish
<1>8. ASSUME NEW t \in Threads,
             FromEnv(t) \/ CopyDefault(t) \/ Normalize(t) \/ Access(t) \/ Normal(t)
               \/ Convert(t)
      PROVE  NullMeansFailure'
  BY <1>4, <1>8 DEF FromEnv, CopyDefault, Normalize, Access, Normal, Convert
<1> QED
  BY <1>1, <1>2, <1>3, <1>5, <1>6, <1>7, <1>8 DEF Next

-----------------------------------------------------------------------------
(* Nobody else writes while a fill is alone. *)
LEMMA AloneWrite ==
  ASSUME NEW t \in Threads, NEW text, Write(t, text), Filling(t),
         \A u, v \in Threads : Filling(u) /\ Filling(v) => u = v
  PROVE  buffer' = text
  BY DEF Write, Writing, Filling, FillSteps

(* A step of the fill leaves all but its own progress as it was. *)
LEMMA AloneFill ==
  ASSUME TypeInv, AloneInv, ~ overlapped, NEW t \in Threads, Filling(t),
         NEW next \in FillSteps, FillStep(t, next), AloneAt(t)'
  PROVE  AloneInv'
<1>1. /\ pc' = [pc EXCEPT ![t] = next]
      /\ dir' = dir /\ cached' = cached /\ overlapped' = overlapped /\ handed' = handed
  BY DEF FillStep, Goto
<1>2. ~ cached /\ handed = Null
  BY DEF AloneInv
<1>3. ASSUME NEW u \in Threads, Filling(u)' PROVE u = t
  BY <1>1, <1>3 DEF AloneInv, Filling, TypeInv
<1>4. ASSUME NEW u \in Threads, pc'[u] = "use" PROVE arg'[u].own # Null
  <2>1. pc[u] = "use" /\ arg' = arg
    BY <1>1, <1>4 DEF TypeInv, FillSteps, FillStep
  <2> QED
    BY <1>2, <2>1 DEF AloneInv
<1> QED
  BY <1>1, <1>2, <1>3, <1>4 DEF AloneInv

(* Nor does a step of another part of a call do harm. *)
LEMMA AloneOther ==
  ASSUME TypeInv, AloneInv, ~ overlapped, NEW t \in Threads, NEW next,
         pc' = [pc EXCEPT ![t] = next], pc[t] \notin FillSteps, next \notin FillSteps,
         next = "use" => cached \/ arg'[t].own # Null,
         \A u \in Threads \ {t} : arg'[u] = arg[u],
         dir' = dir, buffer' = buffer, cached' = cached, copy' = copy,
         sources' = sources, noMemory' = noMemory,
         handed' \in {handed, IF cached THEN buffer ELSE handed}
  PROVE  AloneInv'
<1>1. ASSUME NEW u \in Threads, Filling(u)'
      PROVE  Filling(u) /\ pc'[u] = pc[u]
  BY <1>1 DEF Filling, TypeInv
<1>2. ASSUME NEW u \in Threads, Filling(u)', AloneAt(u) PROVE AloneAt(u)'
  BY <1>1, <1>2 DEF AloneAt, IsFormOf, Made, ToBeConverted
<1>3. (\E s \in sources : IsFormOf(buffer, s)) => \E s \in sources' : IsFormOf(buffer, s)'
  BY DEF IsFormOf, Made
<1>4. ASSUME NEW u \in Threads, pc'[u] = "use", arg'[u].own = Null PROVE cached'
  BY <1>4 DEF AloneInv, TypeInv
<1> QED
  BY <1>1, <1>2, <1>3, <1>4 DEF AloneInv

LEMMA AloneStep == TypeInv /\ AloneInv /\ [Next]_vars => AloneInv'
<1> SUFFICES ASSUME TypeInv, AloneInv, [Next]_vars, ~ overlapped'
             PROVE  AloneInv'
  BY DEF AloneInv
<1>0. ~ overlapped
  BY DEF Next, vars, callVars, Call, Check, FromEnv, CopyDefault, Normalize, Access,
         Normal, Convert, Store, ReturnPointer, Use, FillStep
<1>1. CASE UNCHANGED vars
  BY <1>0, <1>1 DEF vars, callVars, AloneInv, AloneAt, Filling, IsFormOf, Made, ToBeConverted
<1>2. ASSUME NEW t \in Threads, NEW a \in Arguments \cup {Get}, Call(t, a)
      PROVE  AloneInv'
  <2>1. PICK next \in {"check", "use", "idle"} :
          /\ pc' = [pc EXCEPT ![t] = next]
          /\ next = "use" => arg'[t].own # Null
    BY <1>2 DEF Call, Goto, Finish, TypeInv
  <2>2. \A u \in Threads \ {t} : arg'[u] = arg[u]
    BY <1>2 DEF Call, Finish, TypeInv
  <2> QED
    BY <1>0, <1>2, <2>1, <2>2, AloneOther DEF Call, FillSteps
<1>3. ASSUME NEW t \in Threads, Check(t) PROVE AloneInv'
  <2>1. CASE cached
    <3>1. pc' = [pc EXCEPT ![t] = "return"]
      BY <1>3, <2>1 DEF Check, Goto
    <3> QED
      BY <1>0, <1>3, <3>1, AloneOther DEF Check, FillSteps
  <2>2. CASE ~ cached
    <3>1. pc' = [pc EXCEPT ![t] = "getenv"] /\ \A u \in Threads : ~ Filling(u)
      BY <1>3, <2>2 DEF Check, Goto
    <3>2. ASSUME NEW u \in Threads, Filling(u)' PROVE u = t /\ AloneAt(u)'
      BY <3>1, <3>2 DEF Filling, AloneAt, TypeInv
    <3>3. cached' = cached /\ handed' = handed /\ arg' = arg
      BY <1>3 DEF Check
    <3>4. ASSUME NEW u \in Threads, pc'[u] = "use" PROVE arg'[u].own # Null
      BY <1>0, <2>2, <3>1, <3>3, <3>4 DEF AloneInv, TypeInv
    <3> QED
      BY <1>0, <2>2, <3>2, <3>3, <3>4 DEF AloneInv
  <2> QED
    BY <2>1, <2>2
<1>4. ASSUME NEW t \in Threads, FromEnv(t) PROVE AloneInv'
  <2>1. Filling(t)
    BY <1>4 DEF FromEnv, Filling, FillSteps
  <2>2. ASSUME NEW text, Write(t, text) PROVE buffer' = text
    BY <1>0, <2>1, <2>2, AloneWrite DEF AloneInv
  <2>3. CASE FillStep(t, "default")
    BY <1>0, <2>1, <2>3, AloneFill DEF AloneAt, FillStep, Goto, Steps, FillSteps, TypeInv
  <2>4. CASE FillStep(t, "normalize") /\ buffer' \in sources'
    BY <1>0, <2>1, <2>4, AloneFill DEF AloneAt, FillStep, Goto, Steps, FillSteps, TypeInv
  <2> QED
    BY <1>4, <2>2, <2>3, <2>4 DEF FromEnv
<1>5. ASSUME NEW t \in Threads, CopyDefault(t) PROVE AloneInv'
  <2>1. Filling(t)
    BY <1>5 DEF CopyDefault, Filling, FillSteps
  <2>2. ASSUME NEW text, Write(t, text) PROVE buffer' = text
    BY <1>0, <2>1, <2>2, AloneWrite DEF AloneInv
  <2>3. CASE FillStep(t, "failed")
    BY <1>0, <2>1, <2>3, AloneFill DEF AloneAt, FillStep, Goto, Steps, FillSteps, TypeInv
  <2>4. CASE FillStep(t, "normalizeDefault") /\ buffer' \in sources'
    BY <1>0, <2>1, <2>4, AloneFill DEF AloneAt, FillStep, Goto, Steps, FillSteps, TypeInv
  <2> QED
    BY <1>5, <2>2, <2>3, <2>4 DEF CopyDefault
<1>6. ASSUME NEW t \in Threads, Normalize(t) PROVE AloneInv'
  <2>1. Filling(t)
    BY <1>6 DEF Normalize, Filling, FillSteps
  <2>2. AloneAt(t)
    BY <1>0, <2>1 DEF AloneInv
  <2>3. \/ buffer' = NormalOf(buffer) /\ noMemory' = noMemory
        \/ buffer' = LeftOf(buffer) /\ noMemory'
    <3>1. ASSUME NEW text, Write(t, text) PROVE buffer' = text
      BY <1>0, <2>1, <3>1, AloneWrite DEF AloneInv
    <3> QED
      BY <1>6, <3>1 DEF Normalize
  <2>4. \E s \in sources' : buffer' \in Made(s)'
    <3>1. PICK s \in sources' : s = buffer
      BY <1>6, <2>2 DEF Normalize, AloneAt
    <3> QED
      BY <2>3, <3>1 DEF Made
  <2>5. ASSUME NEW next \in {"access", "normal"}, FillStep(t, next) PROVE AloneInv'
    BY <1>0, <2>1, <2>4, <2>5, AloneFill DEF AloneAt, FillStep, Goto, Steps, FillSteps, TypeInv
  <2> QED
    BY <1>6, <2>5 DEF Normalize
<1>7. ASSUME NEW t \in Threads, Access(t) PROVE AloneInv'
  <2>1. Filling(t)
    BY <1>7 DEF Access, Filling, FillSteps
  <2>2. \E s \in sources' : buffer' \in Made(s)'
    BY <1>0, <1>7, <2>1 DEF AloneInv, AloneAt, Access, Made
  <2>3. ASSUME NEW next \in {"normal", "failed"}, FillStep(t, next) PROVE AloneInv'
    BY <1>0, <2>1, <2>2, <2>3, AloneFill DEF AloneAt, FillStep, Goto, Steps, FillSteps, TypeInv
  <2> QED
    BY <1>7, <2>3 DEF Access
<1>8. ASSUME NEW t \in Threads, Normal(t) PROVE AloneInv'
  <2>1. Filling(t)
    BY <1>8 DEF Normal, Filling, FillSteps
  <2>2. PICK s \in sources : buffer \in Made(s)
    BY <1>0, <1>8, <2>1 DEF AloneInv, AloneAt, Normal
  <2>3. dir' = dir /\ buffer' = buffer /\ sources' = sources /\ noMemory' = noMemory
    BY <1>8 DEF Normal, FillStep
  <2>4. CASE ToBeConverted(buffer)
    <3>1. FillStep(t, "convert") /\ copy'[t] = buffer
      BY <1>8, <2>4 DEF Normal, TypeInv
    <3>2. copy'[t] \in Made(s)' /\ ToBeConverted(copy[t])' /\ pc'[t] = "convert"
      BY <2>2, <2>3, <2>4, <3>1 DEF ToBeConverted, Made, FillStep, Goto, TypeInv
    <3>3. AloneAt(t)'
      BY <2>3, <3>2 DEF AloneAt
    <3> QED
      BY <1>0, <2>1, <3>1, <3>3, AloneFill DEF Steps, FillSteps
  <2>5. CASE ~ ToBeConverted(buffer)
    <3>1. FillStep(t, "filled")
      BY <1>8, <2>5 DEF Normal
    <3>2. pc'[t] = "filled" /\ IsFormOf(buffer, s)'
      BY <2>2, <2>3, <2>5, <3>1 DEF ToBeConverted, IsFormOf, Made, FillStep, Goto, TypeInv
    <3>3. AloneAt(t)'
      BY <2>3, <3>2 DEF AloneAt
    <3> QED
      BY <1>0, <2>1, <3>1, <3>3, AloneFill DEF Steps, FillSteps
  <2> QED
    BY <2>4, <2>5
<1>9. ASSUME NEW t \in Threads, Convert(t) PROVE AloneInv'
  <2>1. Filling(t)
    BY <1>9 DEF Convert, Filling, FillSteps
  <2>2. PICK s \in sources : copy[t] \in Made(s) /\ ToBeConverted(copy[t])
    BY <1>0, <1>9, <2>1 DEF AloneInv, AloneAt, Convert
  <2> DEFINE legacy == ConvertToLegacyPath(copy[t], MaxLen[dir])
  <2>3. CASE legacy = Null
    <3>1. FillStep(t, "failed")
      BY <1>9, <2>3 DEF Convert
    <3>2. AloneAt(t)'
      BY <3>1 DEF AloneAt, FillStep, Goto, TypeInv
    <3> QED
      BY <1>0, <2>1, <3>1, <3>2, AloneFill DEF Steps, FillSteps
  <2>4. CASE legacy # Null
    <3>1. FillStep(t, "filled") /\ Write(t, legacy) /\ UNCHANGED <<sources, noMemory>>
      BY <1>9, <2>4 DEF Convert
    <3>2. buffer' = legacy
      BY <1>0, <2>1, <3>1, AloneWrite DEF AloneInv
    <3>3. legacy = LegacyRoot \o Basename(copy[t]) /\ Basename(copy[t]) # <<>>
      BY <2>2, <2>4 DEF ConvertToLegacyPath
    <3>4. IsFormOf(buffer', s) /\ dir' = dir /\ pc'[t] = "filled"
      BY <2>2, <3>1, <3>2, <3>3 DEF IsFormOf, ToBeConverted, FillStep, Goto, TypeInv
    <3>5. AloneAt(t)'
      BY <3>1, <3>4 DEF AloneAt, IsFormOf, Made
    <3> QED
      BY <1>0, <2>1, <3>1, <3>5, AloneFill DEF Steps, FillSteps
  <2> QED
    BY <2>3, <2>4
<1>10. ASSUME NEW t \in Threads, Store(t) PROVE AloneInv'
  <2>1. Filling(t)
    BY <1>10 DEF Store, Filling, FillSteps
  <2>2. ASSUME NEW u \in Threads PROVE ~ Filling(u)'
    BY <1>0, <1>10, <2>1, <2>2 DEF Store, Goto, AloneInv, Filling, FillSteps, TypeInv
  <2>3. handed' = Null
    BY <1>0, <1>10, <2>1 DEF Store, AloneInv
  <2>4. cached' => \E s \in sources : IsFormOf(buffer, s)
    BY <1>0, <1>10, <2>1 DEF Store, AloneInv, AloneAt
  <2>5. dir' = dir /\ buffer' = buffer /\ sources' = sources /\ noMemory' = noMemory
    BY <1>10 DEF Store
  <2>6. cached' => \E s \in sources' : IsFormOf(buffer, s)'
    BY <2>4, <2>5 DEF IsFormOf, Made
  <2>7. ASSUME NEW u \in Threads, pc'[u] = "use" PROVE arg'[u].own # Null
    BY <1>0, <1>10, <2>1, <2>7 DEF Store, Goto, AloneInv, TypeInv
  <2> QED
    BY <2>2, <2>3, <2>6, <2>7 DEF AloneInv
<1>11. ASSUME NEW t \in Threads, ReturnPointer(t) PROVE AloneInv'
  <2>1. PICK next \in {"use", "idle"} :
          pc' = [pc EXCEPT ![t] = next] /\ (next = "use" => cached)
    BY <1>11 DEF ReturnPointer, Goto, Finish
  <2>2. handed' \in {handed, IF cached THEN buffer ELSE handed}
    BY <1>11 DEF ReturnPointer
  <2>3. \A u \in Threads \ {t} : arg'[u] = arg[u]
    BY <1>11 DEF ReturnPointer, Finish, TypeInv
  <2> QED
    BY <1>0, <1>11, <2>1, <2>2, <2>3, AloneOther DEF ReturnPointer, FillSteps
<1>12. ASSUME NEW t \in Threads, Use(t) PROVE AloneInv'
  <2>1. pc' = [pc EXCEPT ![t] = "idle"] /\ \A u \in Threads \ {t} : arg'[u] = arg[u]
    BY <1>12 DEF Use, Goto, Finish, TypeInv
  <2> QED
    BY <1>0, <1>12, <2>1, AloneOther DEF Use, FillSteps
<1> QED
  BY <1>1, <1>2, <1>3, <1>4, <1>5, <1>6, <1>7, <1>8, <1>9, <1>10, <1>11, <1>12 DEF Next

-----------------------------------------------------------------------------
(* SameInv of one text, and what a step under it needs to show. *)
Found(s) == buffer = s /\ s \in sources
FoundBy(t, s) ==
  /\ pc[t] # "convert"
  /\ \/ pc[t] \in {"normalize", "normalizeDefault", "access", "normal", "filled"}
     \/ pc[t] = "use" /\ arg[t].own = Null
     => Found(s)
Same(s) ==
  /\ buffer \in {Empty, s}
  /\ \A t \in Threads : FoundBy(t, s)
  /\ cached => Found(s)
  /\ handed # Null => Found(s) /\ handed = s

LEMMA SameWrite ==
  ASSUME NEW t, NEW s, buffer \in {Empty, s}, Write(t, s)
  PROVE  buffer' = s
  BY DEF Write

LEMMA SameStep == TypeInv /\ SameInv /\ [Next]_vars => SameInv'
<1> SUFFICES ASSUME TypeInv, SameInv, [Next]_vars, NEW s \in Texts,
                    sources' \subseteq {s}, NeedsNoChange(s)'
             PROVE  Same(s)'
  BY DEF SameInv, Same, FoundBy, Found
<1>1. dir' = dir /\ sources \subseteq sources'
  BY DEF Next, vars, callVars, Call, Check, FromEnv, CopyDefault, Normalize, Access,
         Normal, Convert, Store, ReturnPointer, Use, FillStep
<1>2. NeedsNoChange(s) /\ sources \subseteq {s}
  BY <1>1 DEF NeedsNoChange, ToBeConverted
<1>3. Same(s)
  BY <1>2 DEF SameInv, Same, FoundBy, Found
<1>4. CASE UNCHANGED vars
  BY <1>3, <1>4 DEF vars, callVars, Same, FoundBy, Found
<1>5. ASSUME NEW t \in Threads, NEW next, pc' = [pc EXCEPT ![t] = next], FoundBy(t, s)',
             \A u \in Threads \ {t} : arg'[u] = arg[u],
             buffer' = buffer \/ buffer' = s, Found(s) => Found(s)',
             cached' => cached \/ Found(s), handed' \in {handed, s},
             handed' # handed => Found(s)
      PROVE  Same(s)'
  <2>1. ASSUME NEW u \in Threads PROVE FoundBy(u, s)'
    BY <1>3, <1>5 DEF Same, FoundBy, TypeInv
  <2> QED
    BY <1>3, <1>5, <2>1 DEF Same
<1>6. ASSUME NEW t \in Threads, NEW a \in Arguments \cup {Get}, Call(t, a)
      PROVE  Same(s)'
  <2>1. PICK next \in {"check", "use", "idle"} :
          pc' = [pc EXCEPT ![t] = next] /\ (next = "use" => arg'[t].own # Null)
    BY <1>6 DEF Call, Goto, Finish, TypeInv
  <2>2. \A u \in Threads \ {t} : arg'[u] = arg[u]
    BY <1>6 DEF Call, Finish, TypeInv
  <2> QED
    BY <1>5, <1>6, <2>1, <2>2 DEF Call, FoundBy, Found, TypeInv
<1>7. ASSUME NEW t \in Threads, Check(t) PROVE Same(s)'
  <2>1. PICK next \in {"return", "getenv"} : pc' = [pc EXCEPT ![t] = next]
    BY <1>7 DEF Check, Goto
  <2> QED
    BY <1>5, <1>7, <2>1 DEF Check, FoundBy, Found, TypeInv
<1>8. ASSUME NEW t \in Threads, NEW next \in Steps \ {"convert"}, FillStep(t, next),
             \/ /\ buffer' = buffer /\ sources' = sources
                /\ next \in {"default", "failed"} \/ Found(s)
             \/ buffer' = s /\ s \in sources'
      PROVE  Same(s)'
  BY <1>1, <1>5, <1>8 DEF FillStep, Goto, FoundBy, Found, TypeInv
<1>9. ASSUME NEW t \in Threads, NEW path, Write(t, path), sources' = sources \cup {path}
      PROVE  buffer' = s /\ s \in sources'
  BY <1>3, <1>9, SameWrite DEF Same
<1>10. ASSUME NEW t \in Threads, FromEnv(t) PROVE Same(s)'
  BY <1>8, <1>9, <1>10 DEF FromEnv, Steps, FillSteps
<1>11. ASSUME NEW t \in Threads, CopyDefault(t) PROVE Same(s)'
  BY <1>8, <1>9, <1>11 DEF CopyDefault, Steps, FillSteps
<1>12. ASSUME NEW t \in Threads, Normalize(t) PROVE Same(s)'
  <2>1. Found(s)
    BY <1>3, <1>12 DEF Normalize, Same, FoundBy
  <2>2. buffer' = s /\ sources' = sources
    BY <1>2, <1>3, <1>12, <2>1, SameWrite DEF Normalize, NeedsNoChange, Found, Same
  <2>3. PICK next \in {"access", "normal"} : FillStep(t, next)
    BY <1>12 DEF Normalize
  <2> QED
    BY <1>8, <2>1, <2>2, <2>3 DEF Found, Steps, FillSteps
<1>13. ASSUME NEW t \in Threads, Access(t) PROVE Same(s)'
  <2>1. Found(s)
    BY <1>3, <1>13 DEF Access, Same, FoundBy
  <2> QED
    BY <1>8, <1>13, <2>1 DEF Access, Steps, FillSteps
<1>14. ASSUME NEW t \in Threads, Normal(t) PROVE Same(s)'
  <2>1. Found(s)
    BY <1>3, <1>14 DEF Normal, Same, FoundBy
  <2>2. ~ ToBeConverted(buffer)
    BY <1>2, <2>1 DEF NeedsNoChange, Found
  <2> QED
    BY <1>8, <1>14, <2>1, <2>2 DEF Normal, Steps, FillSteps
<1>15. ASSUME NEW t \in Threads, Convert(t) PROVE Same(s)'
  BY <1>3, <1>15 DEF Convert, Same, FoundBy
<1>16. ASSUME NEW t \in Threads, Store(t) PROVE Same(s)'
  <2>1. pc[t] = "filled" => Found(s)
    BY <1>3 DEF Same, FoundBy
  <2> QED
    BY <1>5, <1>16, <2>1 DEF Store, Goto, FoundBy, Found, TypeInv
<1>17. ASSUME NEW t \in Threads, ReturnPointer(t) PROVE Same(s)'
  <2>1. PICK next \in {"use", "idle"} :
          pc' = [pc EXCEPT ![t] = next] /\ (next = "use" => cached)
    BY <1>17 DEF ReturnPointer, Goto, Finish
  <2>2. handed' \in {handed, s} /\ (handed' # handed => Found(s))
    BY <1>3, <1>17 DEF ReturnPointer, Same, Found
  <2>3. FoundBy(t, s)'
    BY <1>3, <1>17, <2>1 DEF ReturnPointer, Same, FoundBy, Found, TypeInv
  <2>4. \A u \in Threads \ {t} : arg'[u] = arg[u]
    BY <1>17 DEF ReturnPointer, Finish, TypeInv
  <2> QED
    BY <1>5, <1>17, <2>1, <2>2, <2>3, <2>4 DEF ReturnPointer, Found
<1>18. ASSUME NEW t \in Threads, Use(t) PROVE Same(s)'
  <2>1. pc' = [pc EXCEPT ![t] = "idle"] /\ \A u \in Threads \ {t} : arg'[u] = arg[u]
    BY <1>18 DEF Use, Goto, Finish, TypeInv
  <2> QED
    BY <1>5, <1>18, <2>1 DEF Use, FoundBy, Found, TypeInv
<1> QED
  BY <1>4, <1>6, <1>7, <1>10, <1>11, <1>12, <1>13, <1>14, <1>15, <1>16, <1>17, <1>18
  DEF Next

-----------------------------------------------------------------------------
(* The invariant of the getters holds in every run. *)
THEOREM Invariance == Spec => []TermuxDirsInv
<1>1. TermuxDirsInv /\ [Next]_vars => TermuxDirsInv'
  BY TypeStep, NullStep, AloneStep, SameStep DEF TermuxDirsInv
<1> QED
  BY InitInv, <1>1, PTL DEF Spec

(* Whatever the number of threads, a directory handed out stands, and it   *)
(* is made of what was found, unless fills overlapped that did not copy    *)
(* the same normal path (HandedPathStands).                                *)
THEOREM DirectoryStands == Spec => []HandedPathStands
<1>1. ASSUME TermuxDirsInv PROVE HandedPathStands
  <2>1. CASE ~ overlapped
    BY <1>1, <2>1 DEF TermuxDirsInv, AloneInv, HandedPathStands
  <2>2. ASSUME NEW s \in sources, sources = {s}, NeedsNoChange(s), handed # Null
        PROVE  buffer = handed /\ IsFormOf(handed, s)
    <3>1. handed = s /\ buffer = s
      BY <1>1, <2>2 DEF TermuxDirsInv, TypeInv, SameInv
    <3> QED
      BY <2>2, <3>1 DEF NeedsNoChange, ToBeConverted, IsFormOf, Made
  <2> QED
    BY <2>1, <2>2 DEF HandedPathStands, Undisturbed
<1> QED
  BY Invariance, <1>1, PTL

(* NULL is returned for a failure during the call only (NullMeansFailure). *)
THEOREM NullIsFailure == Spec => []NullMeansFailure
<1>1. TermuxDirsInv => NullMeansFailure
  BY DEF TermuxDirsInv
<1> QED
  BY Invariance, <1>1, PTL

(* A path that is there while no fill is under way is there for good       *)
(* (SettledForGood).                                                       *)
THEOREM StaysSettled == Spec => SettledForGood
<1>1. ASSUME TypeInv, Settled, [Next]_vars PROVE Settled' /\ buffer' = buffer
  <2>1. ASSUME NEW t \in Threads PROVE pc[t] \notin FillSteps
    BY <1>1 DEF Settled, Filling
  <2>2. cached' = cached /\ buffer' = buffer
    BY <1>1, <2>1 DEF Next, vars, callVars, Call, Check, FromEnv, CopyDefault, Normalize,
       Access, Normal, Convert, Store, ReturnPointer, Use, FillSteps
  <2>3. \/ UNCHANGED vars
        \/ \E u \in Threads : \/ \E a \in Arguments \cup {Get} : Call(u, a)
                             \/ Check(u) \/ ReturnPointer(u) \/ Use(u)
    BY <1>1, <2>1 DEF Next, FromEnv, CopyDefault, Normalize, Access, Normal, Convert,
       Store, FillSteps
  <2>4. \/ pc' = pc
        \/ \E u \in Threads, next \in {"check", "return", "use", "idle"} :
             pc' = [pc EXCEPT ![u] = next]
    BY <1>1, <2>3 DEF vars, callVars, Settled, Call, Check, ReturnPointer, Use, Goto, Finish
  <2>5. ASSUME NEW t \in Threads PROVE pc'[t] \notin FillSteps
    BY <1>1, <2>1, <2>4 DEF TypeInv, FillSteps
  <2> QED
    BY <1>1, <2>2, <2>5 DEF Settled, Filling
<1>2. TermuxDirsInv => TypeInv
  BY DEF TermuxDirsInv
<1>3. TypeInv /\ [Next]_vars => [Settled => Settled' /\ buffer' = buffer]_vars
  BY <1>1
<1> QED
  BY Invariance, <1>2, <1>3, PTL DEF Spec, SettledForGood

-----------------------------------------------------------------------------
(* A call that comes to use a directory is one that needs this directory,  *)
(* and what was copied to the buffer fits in it.                           *)
CallInv ==
  /\ dir \in Dirs
  /\ arg \in [Threads -> Arguments \cup {Get}]
  /\ \A t \in Threads : pc[t] # "idle" => dir \in Uses(arg[t]) /\ NeedsDir(arg[t])
  /\ \A s \in sources : Usable(s)

LEMMA CallStep == TypeInv /\ CallInv /\ [Next]_vars => CallInv'
<1> SUFFICES ASSUME TypeInv, CallInv, [Next]_vars PROVE CallInv'
  OBVIOUS
<1>0. dir' = dir
  BY DEF Next, vars, callVars, Call, Check, FromEnv, CopyDefault, Normalize, Access,
         Normal, Convert, Store, ReturnPointer, Use, FillStep
<1>1. \A s \in sources' : Usable(s)'
  <2>1. \A s \in sources' : Usable(s)
    BY DEF CallInv, Next, vars, callVars, Call, Check, FromEnv, CopyDefault, Normalize,
       Access, Normal, Convert, Store, ReturnPointer, Use, FillStep
  <2> QED
    BY <1>0, <2>1 DEF Usable
<1>2. \A a : (dir \in Uses(a))' = (dir \in Uses(a)) /\ NeedsDir(a)' = NeedsDir(a)
  BY <1>0 DEF Uses, NeedsDir
<1>3. ASSUME arg' = arg, \A t \in Threads : pc'[t] # "idle" => pc[t] # "idle"
      PROVE  CallInv'
  BY <1>0, <1>1, <1>2, <1>3 DEF CallInv
<1>4. ASSUME NEW t \in Threads, pc' = [pc EXCEPT ![t] = "idle"],
             arg' = [arg EXCEPT ![t] = Get]
      PROVE  CallInv'
  BY <1>0, <1>1, <1>2, <1>4 DEF CallInv, TypeInv
<1>5. ASSUME NEW t \in Threads, NEW a \in Arguments \cup {Get}, Call(t, a)
      PROVE  CallInv'
  <2>1. CASE NeedsDir(a)
    <3>1. /\ \E next : pc' = [pc EXCEPT ![t] = next]
          /\ arg' = [arg EXCEPT ![t] = a] /\ dir \in Uses(a)
      BY <1>5, <2>1 DEF Call, Goto
    <3> QED
      BY <1>0, <1>1, <1>2, <2>1, <3>1 DEF CallInv, TypeInv
  <2>2. CASE ~ NeedsDir(a)
    BY <1>4, <1>5, <2>2 DEF Call, Goto, Finish
  <2> QED
    BY <2>1, <2>2
<1>6. ASSUME NEW t \in Threads, NEW next, pc' = [pc EXCEPT ![t] = next],
             pc[t] # "idle", arg' = arg
      PROVE  CallInv'
  BY <1>3, <1>6 DEF TypeInv
<1>7. ASSUME NEW t \in Threads, NEW next, pc[t] # "idle", FillStep(t, next) PROVE CallInv'
  BY <1>6, <1>7 DEF FillStep, Goto
<1>8. ASSUME NEW t \in Threads,
             FromEnv(t) \/ CopyDefault(t) \/ Normalize(t) \/ Access(t) \/ Normal(t)
               \/ Convert(t)
      PROVE  CallInv'
  BY <1>7, <1>8 DEF FromEnv, CopyDefault, Normalize, Access, Normal, Convert
<1>9. ASSUME NEW t \in Threads, Check(t) \/ Store(t) PROVE CallInv'
  BY <1>6, <1>9 DEF Check, Store, Goto
<1>10. ASSUME NEW t \in Threads, ReturnPointer(t) PROVE CallInv'
  BY <1>4, <1>6, <1>10 DEF ReturnPointer, Goto, Finish
<1>11. ASSUME NEW t \in Threads, Use(t) PROVE CallInv'
  BY <1>4, <1>11 DEF Use, Goto, Finish
<1> QED
  <2>1. CASE UNCHANGED vars
    BY <1>3, <2>1 DEF vars, callVars
  <2> QED
    BY <1>5, <1>8, <1>9, <1>10, <1>11, <2>1 DEF Next

LEMMA AlwaysCallInv == Spec => []CallInv
<1>1. Init => CallInv
  BY DEF Init, CallInv
<1>2. TermuxDirsInv => TypeInv
  BY DEF TermuxDirsInv
<1> QED
  BY Invariance, <1>1, <1>2, CallStep, PTL DEF Spec

(* The lengths termuxPrefixPath() reckons with. *)
LEMMA PrefixedLength ==
  ASSUME NEW prefix \in Seq(Chars), NEW exe \in Seq(Chars), IsPrefixed(exe)
  PROVE  /\ PrefixedPath(prefix, exe) \in Seq(Chars)
         /\ Len(PrefixedPath(prefix, exe)) <= Len(prefix) + Len(exe)
         /\ Len(TermuxBinPath(prefix, exe)) <= Len(prefix) + 5
<1>1. {"/", "b", "i", "n", "u", "s", "r"} \subseteq Chars
  BY TermuxPathsAssumption
<1>2. BinDir \in Seq(Chars) /\ Len(BinDir) = 4
  BY <1>1 DEF BinDir
<1>3. BinSlash \in Seq(Chars) /\ Len(BinSlash) = 5
  <2>1. "/" \in Chars /\ BinDir \in Seq(Chars)
    BY <1>1, <1>2
  <2>2. BinSlash \in Seq(Chars) /\ Len(BinSlash) = Len(BinDir) + 1
    BY <2>1 DEF BinSlash
  <2> QED
    BY <1>2, <2>2
<1>4. Len(prefix) \in Nat /\ Len(exe) \in Nat
  OBVIOUS
<1>5. CASE IsBinDir(exe)
  <2>1. Len(exe) >= 4
    <3>1. <<"/", "u", "s", "r">> \in Seq(Chars) /\ Len(<<"/", "u", "s", "r">>) = 4
      BY <1>1
    <3>2. Len(UsrBinDir) = Len(<<"/", "u", "s", "r">>) + Len(BinDir)
      BY <1>2, <3>1, ConcatProperties DEF UsrBinDir
    <3>3. Len(UsrBinDir) = 8
      BY <1>2, <3>1, <3>2
    <3>4. exe = BinDir \/ exe = UsrBinDir
      BY <1>5 DEF IsBinDir
    <3>5. 4 <= Len(BinDir) /\ 4 <= Len(UsrBinDir)
      BY <1>2, <3>3
    <3> QED
      BY <3>4, <3>5
  <2>2. TermuxBinPath(prefix, exe) = prefix \o BinDir /\ AfterBin(exe) = <<>>
    BY <1>5 DEF TermuxBinPath, AfterBin
  <2>3. /\ prefix \o BinDir \in Seq(Chars)
        /\ Len(prefix \o BinDir) = Len(prefix) + Len(BinDir)
    BY <1>2, ConcatProperties
  <2>4. PrefixedPath(prefix, exe) = prefix \o BinDir
    BY <2>2, <2>3, ConcatEmptySeq DEF PrefixedPath
  <2> QED
    BY <1>2, <1>4, <2>1, <2>2, <2>3, <2>4
<1>6. CASE ~ IsBinDir(exe)
  <2>1. IsFirstBin(exe, BinMatchIndex(exe))
    BY <1>6 DEF IsPrefixed, BinMatchIndex, IsFirstBin
  <2> DEFINE k == BinMatchIndex(exe)
             after == SubSeq(exe, k + 5, Len(exe))
             bin == prefix \o BinSlash
  <2>2. k \in 1..(Len(exe) - 4)
    BY <2>1 DEF IsFirstBin, BinMatches
  <2> HIDE DEF k
  <2>3. after \in Seq(Chars) /\ Len(after) = Len(exe) - k - 4
    <3>1. k + 5 \in Int /\ Len(exe) \in Int
      BY <1>4, <2>2
    <3>2. \A i \in (k + 5)..Len(exe) : exe[i] \in Chars
      BY <1>4, <2>2
    <3>3. after \in Seq(Chars) /\ Len(after) = IF k + 5 <= Len(exe) THEN Len(exe) - (k + 5) + 1 ELSE 0
      BY <3>1, <3>2, SubSeqProperties
    <3> QED
      BY <1>4, <2>2, <3>3
  <2>4. TermuxBinPath(prefix, exe) = bin /\ AfterBin(exe) = after
    BY <1>6 DEF TermuxBinPath, AfterBin, k
  <2>5. bin \in Seq(Chars) /\ Len(bin) = Len(prefix) + Len(BinSlash)
    BY <1>3, ConcatProperties
  <2> HIDE DEF after, bin
  <2>6. bin \o after \in Seq(Chars) /\ Len(bin \o after) = Len(bin) + Len(after)
    BY <2>3, <2>5, ConcatProperties
  <2>7. PrefixedPath(prefix, exe) = bin \o after
    BY <2>4 DEF PrefixedPath
  <2> QED
    BY <1>3, <1>4, <2>2, <2>3, <2>4, <2>5, <2>6, <2>7
<1> QED
  BY <1>5, <1>6

(* Whatever the paths and the sizes: termuxPrefixPath() finds room in a    *)
(* buffer of the documented size, and writes outside neither it nor        *)
(* termuxBinPath (PrefixFits).                                             *)
THEOREM PrefixAlwaysFits == Spec => []PrefixFits
<1>1. ASSUME TermuxDirsInv, CallInv, NEW t \in Threads, pc[t] = "use",
             arg[t].op = "prefixPath", Undisturbed \/ arg[t].own # Null
      PROVE  /\ Len(TermuxBinPath(DirOf(t), arg[t].path)) < BinPathSize
             /\ arg[t].size >= MaxLen["prefix"] + Len(arg[t].path) =>
                  \A r \in Results(arg[t], DirOf(t)) :
                    r.path # Null /\ r.written <= arg[t].size
  <2> DEFINE a == arg[t]
             exe == arg[t].path
             prefix == DirOf(t)
  <2>1. /\ a \in Arguments /\ exe \in Seq(Chars) /\ a.size \in Nat
        /\ dir = "prefix" /\ Len(exe) < a.size /\ IsPrefixed(exe)
    <3>1. a \in Arguments /\ dir \in Uses(a) /\ NeedsDir(a)
      BY <1>1 DEF CallInv, Get
    <3> QED
      BY <1>1, <3>1, TermuxDirsAssumption DEF Uses, NeedsDir
  <2>2. MaxLen["prefix"] \in Nat
    BY TermuxDirsAssumption DEF Dirs
  <2>3. prefix \in Seq(Chars) /\ Len(prefix) < MaxLen["prefix"]
    <3>1. CASE a.own # Null
      BY <1>1, <2>1, <3>1, TermuxDirsAssumption DEF DirOf
    <3>2. CASE a.own = Null
      <4>1. PICK s \in sources : buffer \in {NormalOf(s), LeftOf(s)}
        <5>1. CASE ~ overlapped
          <6>1. PICK s \in sources : IsFormOf(buffer, s)
            BY <1>1, <3>2, <5>1 DEF TermuxDirsInv, AloneInv
          <6> QED
            BY <2>1, <6>1 DEF IsFormOf, Made
        <5>2. CASE overlapped
          BY <1>1, <3>2, <5>2
          DEF TermuxDirsInv, TypeInv, SameInv, Undisturbed, NeedsNoChange
        <5> QED
          BY <5>1, <5>2
      <4>2. s \in Texts /\ IsAbsolute(s) /\ Len(s) < MaxLen["prefix"]
        BY <1>1, <2>1 DEF TermuxDirsInv, TypeInv, CallInv, Usable
      <4>3. /\ s \in Seq(Chars) /\ NormalOf(s) \in Seq(Chars) /\ LeftOf(s) \in Seq(Chars)
            /\ Len(NormalOf(s)) <= Len(s) /\ Len(LeftOf(s)) <= Len(s)
        BY <4>2, TermuxDirsAssumption DEF Texts
      <4>4. prefix = buffer
        BY <3>2 DEF DirOf
      <4> QED
        BY <2>2, <4>1, <4>2, <4>3, <4>4
    <3> QED
      BY <3>1, <3>2
  <2> HIDE DEF prefix
  <2>4. /\ PrefixedPath(prefix, exe) \in Seq(Chars)
        /\ Len(PrefixedPath(prefix, exe)) <= Len(prefix) + Len(exe)
        /\ Len(TermuxBinPath(prefix, exe)) <= Len(prefix) + 5
    BY <2>1, <2>3, PrefixedLength
  <2>5. Len(TermuxBinPath(prefix, exe)) < BinPathSize
    BY <2>2, <2>3, <2>4 DEF BinPathSize
  <2>6. ASSUME a.size >= MaxLen["prefix"] + Len(exe)
        PROVE  /\ PrefixPath(prefix, exe, a.size).path # Null
               /\ PrefixPath(prefix, exe, a.size).written <= a.size
    <3>1. exe # Null /\ PrefixedPath(prefix, exe) # Null
      BY <2>1, <2>4, TermuxPathsAssumption
    <3>2. /\ a.size > Len(exe)
          /\ a.size > Len(PrefixedPath(prefix, exe))
          /\ Len(exe) + 1 <= a.size /\ Len(PrefixedPath(prefix, exe)) + 1 <= a.size
      BY SMTT(30), <2>1, <2>2, <2>3, <2>4, <2>6
    <3>3. ~ a.size <= Len(exe) /\ ~ a.size <= Len(PrefixedPath(prefix, exe))
      BY <2>1, <2>4, <3>2
    <3>4. PrefixPath(prefix, exe, a.size) \in
            {[path |-> exe, written |-> Len(exe) + 1],
             [path |-> PrefixedPath(prefix, exe),
              written |-> Len(PrefixedPath(prefix, exe)) + 1]}
      BY <3>3 DEF PrefixPath
    <3> QED
      BY <3>1, <3>2, <3>4
  <2> QED
    BY <1>1, <2>5, <2>6 DEF Results, NoAnswer, prefix
<1>2. TermuxDirsInv /\ CallInv => PrefixFits
  BY <1>1 DEF PrefixFits
<1> QED
  BY Invariance, AlwaysCallInv, <1>2, PTL

-----------------------------------------------------------------------------
(* Induction over sequences, and from it what Scanned() computes: the      *)
(* characters in turn.                                                     *)

(* A set of numbers that is not empty has a least one. *)
LEMMA LeastNumber ==
  ASSUME NEW N \in SUBSET Nat, N # {}
  PROVE  \E n \in N : \A m \in N : n <= m
<1>1. PICK n \in N : \A m \in N : ~ (<<m, n>> \in OpToRel(<, Nat))
  BY NatLessThanWellFounded, WFMin
<1>2. ASSUME NEW m \in N PROVE n <= m
  <2>1. m \in Nat /\ n \in Nat /\ ~ (m < n)
    BY <1>1 DEF OpToRel
  <2> QED
    BY <2>1
<1> QED
  BY <1>2

(* What holds of the empty sequence and is kept by Append holds of all. *)
LEMMA SeqInduction ==
  ASSUME NEW T, NEW P, <<>> \in P,
         \A s \in Seq(T), t \in T : s \in P => Append(s, t) \in P
  PROVE  Seq(T) \subseteq P
<1> SUFFICES ASSUME NEW w \in Seq(T), w \notin P PROVE FALSE
  OBVIOUS
<1> DEFINE N == {n \in Nat : \E s \in Seq(T) : s \notin P /\ Len(s) = n}
<1>1. Len(w) \in N /\ N \in SUBSET Nat
  BY LenProperties
<1>2. PICK n \in N : \A m \in N : n <= m
  <2> HIDE DEF N
  <2> QED
    BY <1>1, LeastNumber
<1>3. PICK s \in Seq(T) : s \notin P /\ Len(s) = n
  BY <1>2
<1>4. PICK r \in Seq(T), e \in T : s = Append(r, e)
  BY <1>3, SequenceEmptyOrAppend
<1>5. Len(r) \in Nat /\ n = Len(r) + 1
  BY <1>3, <1>4, LenProperties, AppendProperties
<1>6. Len(r) \in N
  BY <1>3, <1>4, <1>5
<1> QED
  BY SMTT(30), <1>2, <1>5, <1>6

(* f scans p: the function Scanned() chooses. *)
IsScan(f, p) ==
  f = [k \in 0..Len(p) |-> IF k = 0 THEN [open |-> FALSE, names |-> <<>>]
                           ELSE OnChar(f[k - 1], p[k])]

LEMMA ScanUnique ==
  ASSUME NEW p \in Seq(Chars), NEW f, NEW g, IsScan(f, p), IsScan(g, p)
  PROVE  f[Len(p)] = g[Len(p)]
<1> SUFFICES ASSUME f[Len(p)] # g[Len(p)] PROVE FALSE
  OBVIOUS
<1> DEFINE N == {k \in 0..Len(p) : f[k] # g[k]}
<1>1. Len(p) \in N /\ N \in SUBSET Nat
  OBVIOUS
<1>2. PICK k \in N : \A m \in N : k <= m
  <2> HIDE DEF N
  <2> QED
    BY <1>1, LeastNumber
<1>3. k # 0 /\ k \in 1..Len(p)
  BY <1>2 DEF IsScan
<1>4. f[k] = OnChar(f[k - 1], p[k]) /\ g[k] = OnChar(g[k - 1], p[k])
  BY <1>3 DEF IsScan
<1>5. k - 1 \in N
  BY <1>2, <1>3, <1>4
<1> QED
  BY <1>2, <1>3, <1>5

LEMMA ScanAppend ==
  ASSUME NEW p \in Seq(Chars), NEW c \in Chars, NEW f, IsScan(f, p)
  PROVE  \E g : /\ IsScan(g, Append(p, c))
                /\ g[Len(p) + 1] = OnChar(f[Len(p)], c)
<1> DEFINE n == Len(p)
           q == Append(p, c)
           g == [k \in 0..(n + 1) |-> IF k = n + 1 THEN OnChar(f[n], c) ELSE f[k]]
           G == [k \in 0..(n + 1) |-> IF k = 0 THEN [open |-> FALSE, names |-> <<>>]
                                      ELSE OnChar(g[k - 1], q[k])]
<1>1. n \in Nat /\ Len(q) = n + 1 /\ q[n + 1] = c /\ \A k \in 1..n : q[k] = p[k]
  BY LenProperties, AppendProperties
<1>2. f[0] = [open |-> FALSE, names |-> <<>>]
  BY <1>1 DEF IsScan
<1>3. ASSUME NEW k \in 1..Len(p) PROVE f[k] = OnChar(f[k - 1], p[k])
  <2>1. k # 0 /\ k \in 0..Len(p)
    OBVIOUS
  <2> QED
    BY <2>1 DEF IsScan
<1>4. ASSUME NEW k \in 0..(n + 1) PROVE g[k] = G[k]
  <2>1. CASE k = 0
    BY <1>1, <1>2, <2>1
  <2>2. CASE k = n + 1
    BY <1>1, <2>2
  <2>3. CASE k \in 1..n
    BY <1>1, <1>3, <2>3
  <2> QED
    BY <1>1, <2>1, <2>2, <2>3
<1>5. g = G
  <2> g = [k \in 0..(n + 1) |-> g[k]] /\ G = [k \in 0..(n + 1) |-> G[k]]
    OBVIOUS
  <2> HIDE DEF g, G
  <2> QED
    BY <1>4
<1>6. g[n + 1] = OnChar(f[n], c)
  BY <1>1
<1>7. IsScan(g, q)
  BY <1>1, <1>5 DEF IsScan
<1> HIDE DEF g
<1> QED
  BY <1>6, <1>7

LEMMA ScanExists ==
  ASSUME NEW p \in Seq(Chars)
  PROVE  \E f : IsScan(f, p)
<1> DEFINE P == {w \in Seq(Chars) : \E f : IsScan(f, w)}
<1>1. <<>> \in P
  <2> DEFINE f == [k \in 0..0 |-> [open |-> FALSE, names |-> <<>>]]
  <2>1. f = [k \in 0..0 |-> IF k = 0 THEN [open |-> FALSE, names |-> <<>>]
                            ELSE OnChar(f[k - 1], <<>>[k])]
    OBVIOUS
  <2>2. Len(<<>>) = 0 /\ <<>> \in Seq(Chars)
    OBVIOUS
  <2>3. IsScan(f, <<>>)
    BY <2>1, <2>2 DEF IsScan
  <2> QED
    BY <2>2, <2>3
<1>2. ASSUME NEW w \in Seq(Chars), NEW c \in Chars, w \in P
      PROVE  Append(w, c) \in P
  BY <1>2, ScanAppend, AppendProperties
<1>3. Seq(Chars) \subseteq P
  <2> HIDE DEF P
  <2> QED
    BY <1>1, <1>2, SeqInduction
<1> QED
  BY <1>3

LEMMA ScannedIsScan ==
  ASSUME NEW p \in Seq(Chars), NEW f, IsScan(f, p)
  PROVE  Scanned(p) = f[Len(p)]
<1> DEFINE g == CHOOSE g : IsScan(g, p)
<1>1. IsScan(g, p)
  OBVIOUS
<1>2. Scanned(p) = g[Len(p)]
  BY Zenon DEF Scanned, IsScan
<1> HIDE DEF g
<1> QED
  BY <1>1, <1>2, ScanUnique

LEMMA ScanStep ==
  /\ Scanned(<<>>) = [open |-> FALSE, names |-> <<>>]
  /\ \A p \in Seq(Chars), c \in Chars : Scanned(Append(p, c)) = OnChar(Scanned(p), c)
<1>1. Scanned(<<>>) = [open |-> FALSE, names |-> <<>>]
  <2>1. <<>> \in Seq(Chars) /\ Len(<<>>) = 0
    OBVIOUS
  <2>2. PICK f : IsScan(f, <<>>)
    BY <2>1, ScanExists
  <2>3. Scanned(<<>>) = f[0]
    BY <2>1, <2>2, ScannedIsScan
  <2>4. f[0] = [open |-> FALSE, names |-> <<>>]
    BY <2>1, <2>2 DEF IsScan
  <2> QED
    BY <2>3, <2>4
<1>2. ASSUME NEW p \in Seq(Chars), NEW c \in Chars
      PROVE  Scanned(Append(p, c)) = OnChar(Scanned(p), c)
  <2>1. PICK f : IsScan(f, p)
    BY ScanExists
  <2>2. PICK g : IsScan(g, Append(p, c)) /\ g[Len(p) + 1] = OnChar(f[Len(p)], c)
    BY <2>1, ScanAppend
  <2>3. Append(p, c) \in Seq(Chars) /\ Len(Append(p, c)) = Len(p) + 1
    BY AppendProperties
  <2>4. Scanned(Append(p, c)) = g[Len(p) + 1]
    BY <2>2, <2>3, ScannedIsScan
  <2> QED
    BY <2>1, <2>2, <2>4, ScannedIsScan
<1> QED
  BY <1>1, <1>2

(* What a scan is: its names have characters, and it is in the last of     *)
(* them only if there is one.                                              *)
IsGoodScan(s) ==
  /\ s = [open |-> s.open, names |-> s.names]
  /\ s.open \in BOOLEAN
  /\ s.names \in Seq(Seq(Chars))
  /\ s.open => s.names # <<>>
  /\ \A i \in 1..Len(s.names) : s.names[i] # <<>>

(* A character more in the last name. *)
Longer(names, c) == [names EXCEPT ![Len(names)] = Append(@, c)]

LEMMA LongerLast ==
  ASSUME NEW names \in Seq(Seq(Chars)), names # <<>>, NEW c \in Chars
  PROVE  /\ Longer(names, c) \in Seq(Seq(Chars))
         /\ Len(names) \in Nat \ {0}
         /\ Len(Longer(names, c)) = Len(names)
         /\ Longer(names, c)[Len(names)] = Append(names[Len(names)], c)
         /\ \A i \in 1..(Len(names) - 1) : Longer(names, c)[i] = names[i]
<1>1. Len(names) \in Nat \ {0} /\ names \in [1..Len(names) -> Seq(Chars)]
  BY EmptySeq, LenProperties
<1>2. Append(names[Len(names)], c) \in Seq(Chars)
  BY <1>1, AppendProperties
<1>3. PICK m, e : m = Len(names) /\ e = Append(names[Len(names)], c)
  OBVIOUS
<1>4. m \in 1..Len(names) /\ e \in Seq(Chars)
  BY <1>1, <1>2, <1>3
<1>5. /\ [names EXCEPT ![m] = e] \in Seq(Seq(Chars))
      /\ Len([names EXCEPT ![m] = e]) = Len(names)
      /\ \A j \in 1..Len(names) :
           [names EXCEPT ![m] = e][j] = IF j = m THEN e ELSE names[j]
  BY <1>4, ExceptSeq
<1>6. PICK L : L = Longer(names, c)
  OBVIOUS
<1>7. L = [names EXCEPT ![m] = e]
  BY <1>3, <1>6 DEF Longer
<1>8. /\ L \in Seq(Seq(Chars)) /\ Len(L) = Len(names)
      /\ \A j \in 1..Len(names) : L[j] = IF j = m THEN e ELSE names[j]
  BY <1>5, <1>7
<1>9. L[Len(names)] = Append(names[Len(names)], c)
  BY <1>3, <1>4, <1>8
<1>10. ASSUME NEW i \in 1..(Len(names) - 1) PROVE L[i] = names[i]
  <2>1. PICK n \in Nat : n = Len(names)
    BY <1>1
  <2>2. i \in 1..n /\ i # n
    BY <2>1
  <2>3. i \in 1..Len(names) /\ i # m
    BY <1>3, <2>1, <2>2
  <2> QED
    BY <1>8, <2>3
<1> QED
  BY <1>1, <1>6, <1>8, <1>9, <1>10

LEMMA GoodStep ==
  ASSUME NEW s, IsGoodScan(s), NEW c \in Chars
  PROVE  /\ IsGoodScan(OnChar(s, c))
         /\ OnChar(s, c).open = (c # "/")
         /\ c = "/" => OnChar(s, c).names = s.names
         /\ c # "/" /\ ~ s.open => OnChar(s, c).names = Append(s.names, <<c>>)
         /\ c # "/" /\ s.open => OnChar(s, c).names = Longer(s.names, c)
<1>1. /\ OnChar(s, c).open = (c # "/")
      /\ OnChar(s, c) = [open |-> OnChar(s, c).open, names |-> OnChar(s, c).names]
      /\ c = "/" => OnChar(s, c).names = s.names
      /\ c # "/" /\ ~ s.open => OnChar(s, c).names = Append(s.names, <<c>>)
      /\ c # "/" /\ s.open => OnChar(s, c).names = Longer(s.names, c)
  BY DEF OnChar, Longer
<1>2. CASE c = "/"
  BY <1>1, <1>2 DEF IsGoodScan
<1>3. CASE c # "/" /\ ~ s.open
  <2>1. <<c>> \in Seq(Chars) /\ <<c>> # <<>> /\ s.names \in Seq(Seq(Chars))
    BY DEF IsGoodScan
  <2>2. /\ Append(s.names, <<c>>) \in Seq(Seq(Chars))
        /\ Len(Append(s.names, <<c>>)) = Len(s.names) + 1
        /\ Append(s.names, <<c>>) # <<>>
        /\ \A i \in 1..Len(s.names) : Append(s.names, <<c>>)[i] = s.names[i]
        /\ Append(s.names, <<c>>)[Len(s.names) + 1] = <<c>>
    BY <2>1, AppendProperties
  <2>3. ASSUME NEW i \in 1..(Len(s.names) + 1) PROVE Append(s.names, <<c>>)[i] # <<>>
    <3>1. i \in 1..Len(s.names) \/ i = Len(s.names) + 1
      BY <2>1
    <3> QED
      BY <2>1, <2>2, <3>1 DEF IsGoodScan
  <2> QED
    BY <1>1, <1>3, <2>2, <2>3 DEF IsGoodScan
<1>4. CASE c # "/" /\ s.open
  <2>1. s.names \in Seq(Seq(Chars)) /\ s.names # <<>>
    BY <1>4 DEF IsGoodScan
  <2>2. /\ Longer(s.names, c) \in Seq(Seq(Chars))
        /\ Len(s.names) \in Nat \ {0}
        /\ Len(Longer(s.names, c)) = Len(s.names)
        /\ Longer(s.names, c)[Len(s.names)] = Append(s.names[Len(s.names)], c)
        /\ \A i \in 1..(Len(s.names) - 1) : Longer(s.names, c)[i] = s.names[i]
    BY <2>1, LongerLast
  <2>3. ASSUME NEW i \in 1..Len(s.names) PROVE Longer(s.names, c)[i] # <<>>
    <3>1. CASE i \in 1..(Len(s.names) - 1)
      BY <2>2, <3>1 DEF IsGoodScan
    <3>2. CASE i = Len(s.names)
      <4>1. s.names[i] \in Seq(Chars)
        BY <2>1
      <4>2. Append(s.names[i], c) # <<>>
        BY <4>1, AppendProperties
      <4> QED
        BY <2>2, <3>2, <4>2
    <3> QED
      BY <2>2, <3>1, <3>2
  <2>4. Longer(s.names, c) # <<>>
    BY <2>2
  <2> QED
    BY <1>1, <1>4, <2>2, <2>3, <2>4 DEF IsGoodScan
<1> QED
  BY <1>1, <1>2, <1>3, <1>4

LEMMA ScanIsGood ==
  ASSUME NEW p \in Seq(Chars)
  PROVE  IsGoodScan(Scanned(p))
<1> DEFINE P == {w \in Seq(Chars) : IsGoodScan(Scanned(w))}
<1>1. <<>> \in P
  <2>1. PICK s : s = Scanned(<<>>)
    OBVIOUS
  <2>2. s = [open |-> FALSE, names |-> <<>>]
    BY <2>1, ScanStep
  <2>3. s.open = FALSE /\ s.names = <<>> /\ s = [open |-> s.open, names |-> s.names]
    BY <2>2
  <2>4. s.names \in Seq(Seq(Chars)) /\ \A i \in 1..Len(s.names) : FALSE
    BY <2>3
  <2>5. IsGoodScan(s)
    BY <2>3, <2>4 DEF IsGoodScan
  <2>6. <<>> \in Seq(Chars)
    OBVIOUS
  <2> QED
    BY <2>1, <2>5, <2>6
<1>2. ASSUME NEW w \in Seq(Chars), NEW c \in Chars, w \in P
      PROVE  Append(w, c) \in P
  BY <1>2, ScanStep, GoodStep, AppendProperties
<1>3. Seq(Chars) \subseteq P
  <2> HIDE DEF P
  <2> QED
    BY <1>1, <1>2, SeqInduction
<1> QED
  BY <1>3

(* What a path followed by one character scans to. *)
LEMMA NamesStep ==
  ASSUME NEW p \in Seq(Chars), NEW c \in Chars
  PROVE  /\ Scanned(Append(p, c)).open = (c # "/")
         /\ c = "/" => Names(Append(p, c)) = Names(p)
         /\ c # "/" /\ ~ Scanned(p).open => Names(Append(p, c)) = Append(Names(p), <<c>>)
         /\ c # "/" /\ Scanned(p).open => Names(Append(p, c)) = Longer(Names(p), c)
         /\ Names(p) \in Seq(Seq(Chars)) /\ Len(Names(p)) \in Nat
         /\ Scanned(p).open => Names(p) # <<>>
<1>1. IsGoodScan(Scanned(p))
  BY ScanIsGood
<1>2. Scanned(Append(p, c)) = OnChar(Scanned(p), c)
  BY ScanStep
<1>3. /\ Names(p) \in Seq(Seq(Chars)) /\ Len(Names(p)) \in Nat
      /\ Scanned(p).open => Names(p) # <<>>
  BY <1>1, LenProperties DEF Names, IsGoodScan
<1> QED
  BY <1>1, <1>2, <1>3, GoodStep DEF Names

LEMMA NamesOfNone == Names(<<>>) = <<>> /\ ~ Scanned(<<>>).open
  BY ScanStep DEF Names

(* The last name, made longer. *)
LEMMA LongerOfAppend ==
  ASSUME NEW N \in Seq(Seq(Chars)), NEW n \in Seq(Chars), NEW c \in Chars
  PROVE  Longer(Append(N, n), c) = Append(N, Append(n, c))
<1>1. PICK m \in Nat : m = Len(N)
  BY LenProperties
<1>2. PICK e : e = Append(n, c)
  OBVIOUS
<1>3. e \in Seq(Chars)
  BY <1>2, AppendProperties
<1>4. PICK a : a = Append(N, n)
  OBVIOUS
<1>5. PICK b : b = Append(N, e)
  OBVIOUS
<1>6. /\ a \in Seq(Seq(Chars)) /\ Len(a) = m + 1 /\ a # <<>> /\ a[m + 1] = n
      /\ \A i \in 1..m : a[i] = N[i]
  BY <1>1, <1>4, AppendProperties
<1>7. /\ b \in Seq(Seq(Chars)) /\ Len(b) = m + 1 /\ b[m + 1] = e
      /\ \A i \in 1..m : b[i] = N[i]
  BY <1>1, <1>3, <1>5, AppendProperties
<1>8. /\ Longer(a, c) \in Seq(Seq(Chars)) /\ Len(Longer(a, c)) = m + 1
      /\ Longer(a, c)[m + 1] = e
      /\ \A i \in 1..m : Longer(a, c)[i] = a[i]
  <2>1. /\ Longer(a, c) \in Seq(Seq(Chars)) /\ Len(Longer(a, c)) = Len(a)
        /\ Longer(a, c)[Len(a)] = Append(a[Len(a)], c)
        /\ \A i \in 1..(Len(a) - 1) : Longer(a, c)[i] = a[i]
    BY <1>6, LongerLast
  <2>2. Len(a) = m + 1 /\ Len(a) - 1 = m
    BY <1>6
  <2> QED
    BY <1>2, <1>6, <2>1, <2>2
<1>9. ASSUME NEW i \in 1..(m + 1) PROVE Longer(a, c)[i] = b[i]
  <2>1. i \in 1..m \/ i = m + 1
    OBVIOUS
  <2> QED
    BY <1>6, <1>7, <1>8, <2>1
<1>10. Longer(a, c) = b
  BY <1>7, <1>8, <1>9, SeqEqual
<1> QED
  BY <1>2, <1>4, <1>5, <1>10

LEMMA ConcatOfAppend ==
  ASSUME NEW T, NEW N \in Seq(T), NEW M \in Seq(T), NEW e \in T
  PROVE  N \o Append(M, e) = Append(N \o M, e)
  BY AppendIsConcat, ConcatAssociative, ConcatProperties

LEMMA LongerConcat ==
  ASSUME NEW N \in Seq(Seq(Chars)), NEW M \in Seq(Seq(Chars)), M # <<>>, NEW c \in Chars
  PROVE  Longer(N \o M, c) = N \o Longer(M, c)
<1>1. PICK F \in Seq(Seq(Chars)), n \in Seq(Chars) : M = Append(F, n)
  BY SequenceEmptyOrAppend
<1>2. Append(n, c) \in Seq(Chars) /\ N \o F \in Seq(Seq(Chars))
  BY AppendProperties, ConcatProperties
<1>3. N \o M = Append(N \o F, n)
  BY <1>1, ConcatOfAppend
<1>4. Longer(M, c) = Append(F, Append(n, c))
  BY <1>1, LongerOfAppend
<1>5. N \o Append(F, Append(n, c)) = Append(N \o F, Append(n, c))
  BY <1>2, ConcatOfAppend
<1>6. Longer(Append(N \o F, n), c) = Append(N \o F, Append(n, c))
  BY <1>2, LongerOfAppend
<1> QED
  BY <1>3, <1>4, <1>5, <1>6

(* The names of two paths one after the other, unless a name spans both. *)
LEMMA NamesOfConcat ==
  ASSUME NEW p \in Seq(Chars), NEW q \in Seq(Chars), ~ Scanned(p).open
  PROVE  /\ Names(p \o q) = Names(p) \o Names(q)
         /\ Scanned(p \o q).open = Scanned(q).open
<1> DEFINE P == {w \in Seq(Chars) : /\ Names(p \o w) = Names(p) \o Names(w)
                                    /\ Scanned(p \o w).open = Scanned(w).open}
<1>1. <<>> \in P
  <2>1. p \o <<>> = p /\ Names(p) \o <<>> = Names(p)
    BY ConcatEmptySeq, ScanIsGood DEF Names, IsGoodScan
  <2>2. Scanned(<<>>).open = FALSE /\ Scanned(p).open = FALSE
    BY ScanStep, ScanIsGood DEF IsGoodScan
  <2>3. <<>> \in Seq(Chars)
    OBVIOUS
  <2> QED
    BY <2>1, <2>2, <2>3, NamesOfNone
<1>2. ASSUME NEW w \in Seq(Chars), NEW c \in Chars, w \in P
      PROVE  Append(w, c) \in P
  <2>1. p \o Append(w, c) = Append(p \o w, c) /\ p \o w \in Seq(Chars)
    BY ConcatOfAppend, ConcatProperties
  <2>2. /\ Names(p) \in Seq(Seq(Chars)) /\ Names(w) \in Seq(Seq(Chars))
        /\ Scanned(w).open => Names(w) # <<>>
    BY ScanIsGood DEF Names, IsGoodScan
  <2>3. Names(p) \o Append(Names(w), <<c>>) = Append(Names(p) \o Names(w), <<c>>)
    <3>1. <<c>> \in Seq(Chars)
      OBVIOUS
    <3> QED
      BY SMTT(30), <2>2, <3>1, ConcatOfAppend
  <2>4. Scanned(w).open => Longer(Names(p) \o Names(w), c) = Names(p) \o Longer(Names(w), c)
    BY <2>2, LongerConcat
  <2>5. Append(w, c) \in Seq(Chars)
    BY AppendProperties
  <2>6. /\ Names(p \o w) = Names(p) \o Names(w)
        /\ Scanned(p \o w).open = Scanned(w).open
        /\ Scanned(w).open \in BOOLEAN
    BY <1>2, ScanIsGood DEF IsGoodScan
  <2>7. Names(Append(p \o w, c)) = Names(p) \o Names(Append(w, c))
    BY <2>1, <2>3, <2>4, <2>6, NamesStep
  <2>8. Scanned(Append(p \o w, c)).open = Scanned(Append(w, c)).open
    BY <2>1, NamesStep
  <2> QED
    BY <2>1, <2>5, <2>7, <2>8
<1>3. Seq(Chars) \subseteq P
  <2> HIDE DEF P
  <2> QED
    BY <1>1, <1>2, SeqInduction
<1> QED
  BY <1>3

-----------------------------------------------------------------------------
(* A path with no '/' too many is what its names are, and no other.        *)

IsStrict(p) == IsAbsolute(p) /\ \A k \in 2..Len(p) : p[k] = "/" => p[k - 1] # "/"

LEMMA OpenAtEnd ==
  ASSUME NEW p \in Seq(Chars), p # <<>>
  PROVE  Scanned(p).open = (p[Len(p)] # "/")
<1>1. PICK w \in Seq(Chars), c \in Chars : p = Append(w, c)
  BY SequenceEmptyOrAppend
<1>2. p[Len(p)] = c
  BY <1>1, AppendProperties
<1> QED
  BY <1>1, <1>2, NamesStep

(* Without its last character such a path is one, or nothing. *)
LEMMA StrictFront ==
  ASSUME NEW w \in Seq(Chars), NEW c \in Chars, IsStrict(Append(w, c))
  PROVE  /\ w = <<>> => c = "/"
         /\ w # <<>> => IsStrict(w) /\ (c = "/" => Scanned(w).open)
<1>1. PICK n \in Nat : n = Len(w)
  BY LenProperties
<1>2. PICK p : p = Append(w, c)
  OBVIOUS
<1>3. p[1] = "/" /\ \A k \in 2..Len(p) : p[k] = "/" => p[k - 1] # "/"
  BY <1>2 DEF IsStrict, IsAbsolute
<1>4. Len(p) = n + 1 /\ p[n + 1] = c /\ \A k \in 1..n : p[k] = w[k]
  BY <1>1, <1>2, AppendProperties
<1>5. CASE w = <<>>
  <2>1. n = 0
    BY <1>1, <1>5
  <2> QED
    BY <1>3, <1>4, <1>5, <2>1
<1>6. CASE w # <<>>
  <2>1. n > 0
    BY <1>1, <1>6, EmptySeq
  <2>2. w[1] = "/"
    BY <1>3, <1>4, <2>1
  <2>3. ASSUME NEW k \in 2..n, w[k] = "/" PROVE w[k - 1] # "/"
    <3>1. k \in 2..(n + 1) /\ k \in 1..n /\ k - 1 \in 1..n
      BY <2>1
    <3> QED
      BY <1>3, <1>4, <2>3, <3>1
  <2>4. c = "/" => w[n] # "/"
    <3>1. n + 1 \in 2..(n + 1) /\ n \in 1..n /\ n + 1 - 1 = n
      BY <2>1
    <3> QED
      BY <1>3, <1>4, <3>1
  <2>5. Scanned(w).open = (w[n] # "/")
    BY <1>1, <1>6, OpenAtEnd
  <2> QED
    BY <1>1, <1>6, <2>2, <2>3, <2>4, <2>5 DEF IsStrict, IsAbsolute
<1> QED
  BY <1>5, <1>6

(* The last name grows from nothing, or from what it was. *)
GrowsFrom(p, N, n) ==
  /\ N \in Seq(Seq(Chars)) /\ n \in Seq(Chars)
  /\ IF Scanned(p).open THEN n # <<>> /\ Names(p) = Append(N, n)
                        ELSE n = <<>> /\ Names(p) = N

LEMMA LastName ==
  ASSUME NEW p \in Seq(Chars), NEW c \in Chars, c # "/"
  PROVE  \E N, n : GrowsFrom(p, N, n) /\ Names(Append(p, c)) = Append(N, Append(n, c))
<1>1. /\ Names(p) \in Seq(Seq(Chars))
      /\ Scanned(p).open => Names(p) # <<>>
      /\ \A i \in 1..Len(Names(p)) : Names(p)[i] # <<>>
  BY ScanIsGood DEF IsGoodScan, Names
<1>2. CASE Scanned(p).open
  <2>1. PICK N \in Seq(Seq(Chars)), n \in Seq(Chars) : Names(p) = Append(N, n)
    BY <1>1, <1>2, SequenceEmptyOrAppend
  <2>2. n # <<>>
    <3>1. PICK m \in Nat : m = Len(N)
      BY LenProperties
    <3>2. Len(Names(p)) = m + 1 /\ Names(p)[m + 1] = n /\ m + 1 \in 1..(m + 1)
      BY <2>1, <3>1, AppendProperties
    <3> QED
      BY <1>1, <3>2
  <2>3. Names(Append(p, c)) = Append(N, Append(n, c))
    <3>1. Names(Append(p, c)) = Longer(Names(p), c)
      BY <1>2, NamesStep
    <3>2. Longer(Append(N, n), c) = Append(N, Append(n, c))
      BY LongerOfAppend
    <3> QED
      BY <2>1, <3>1, <3>2
  <2> QED
    BY <1>2, <2>1, <2>2, <2>3 DEF GrowsFrom
<1>3. CASE ~ Scanned(p).open
  <2>1. Append(<<>>, c) = <<c>> /\ <<>> \in Seq(Chars)
    OBVIOUS
  <2>2. Names(Append(p, c)) = Append(Names(p), <<c>>)
    BY <1>3, NamesStep
  <2>3. GrowsFrom(p, Names(p), <<>>)
    BY <1>1, <1>3, <2>1 DEF GrowsFrom
  <2> QED
    BY <2>1, <2>2, <2>3
<1> QED
  BY <1>2, <1>3

SameScan(d, q) == Names(d) = Names(q) /\ Scanned(d).open = Scanned(q).open

LEMMA NamesDetermine ==
  ASSUME NEW d \in Seq(Chars), NEW q \in Seq(Chars), IsStrict(d), IsStrict(q),
         SameScan(d, q)
  PROVE  d = q
<1> DEFINE P == {w \in Seq(Chars) : IsStrict(w) =>
                   \A v \in Seq(Chars) : IsStrict(v) /\ SameScan(v, w) => v = w}
<1>1. <<>> \in P
  <2>1. ~ IsStrict(<<>>) /\ <<>> \in Seq(Chars)
    BY DEF IsStrict, IsAbsolute
  <2> QED
    BY <2>1
<1>2. ASSUME NEW w \in Seq(Chars), NEW c \in Chars, w \in P
      PROVE  Append(w, c) \in P
  <2> SUFFICES ASSUME IsStrict(Append(w, c)), NEW u \in Seq(Chars), IsStrict(u),
                      SameScan(u, Append(w, c))
               PROVE  u = Append(w, c)
    BY AppendProperties
  <2>1. PICK v \in Seq(Chars), e \in Chars : u = Append(v, e)
    <3>1. u # <<>>
      BY DEF IsStrict, IsAbsolute
    <3> QED
      BY <3>1, SequenceEmptyOrAppend
  <2>2. (c = "/") = (e = "/") /\ Names(Append(v, e)) = Names(Append(w, c))
    BY <2>1, NamesStep DEF SameScan
  <2>3. /\ w = <<>> => c = "/"
        /\ w # <<>> => IsStrict(w) /\ (c = "/" => Scanned(w).open)
    BY StrictFront
  <2>4. /\ v = <<>> => e = "/"
        /\ v # <<>> => IsStrict(v) /\ (e = "/" => Scanned(v).open)
    BY <2>1, StrictFront
  <2>5. IsStrict(w) /\ IsStrict(v) /\ SameScan(v, w) => v = w
    BY <1>2
  <2>6. CASE c = "/"
    <3>1. Names(v) = Names(w)
      BY <2>2, <2>6, NamesStep
    <3>2. /\ w # <<>> => Names(w) # <<>>
          /\ v # <<>> => Names(v) # <<>>
      BY <2>2, <2>3, <2>4, <2>6, NamesStep
    <3>3. v = w
      <4>1. CASE w = <<>>
        BY <3>1, <3>2, <4>1, NamesOfNone
      <4>2. CASE w # <<>>
        <5>1. v # <<>>
          BY <3>1, <3>2, <4>2, NamesOfNone
        <5>2. Scanned(w).open /\ Scanned(v).open
          BY <2>2, <2>3, <2>4, <2>6, <4>2, <5>1
        <5>3. Scanned(w).open = Scanned(v).open
          BY <5>2, ScanIsGood DEF IsGoodScan
        <5> QED
          BY <2>3, <2>4, <2>5, <3>1, <4>2, <5>1, <5>3 DEF SameScan
      <4> QED
        BY <4>1, <4>2
    <3> QED
      BY <2>1, <2>2, <2>6, <3>3
  <2>7. CASE c # "/"
    <3>1. PICK N, n : GrowsFrom(w, N, n) /\ Names(Append(w, c)) = Append(N, Append(n, c))
      BY <2>7, LastName
    <3>2. PICK M, m : GrowsFrom(v, M, m) /\ Names(Append(v, e)) = Append(M, Append(m, e))
      BY <2>2, <2>7, LastName
    <3>3. /\ N \in Seq(Seq(Chars)) /\ n \in Seq(Chars)
          /\ M \in Seq(Seq(Chars)) /\ m \in Seq(Chars)
      BY <3>1, <3>2 DEF GrowsFrom
    <3>4. N = M /\ Append(n, c) = Append(m, e)
      <4>1. PICK a, b : a = Append(n, c) /\ b = Append(m, e)
        OBVIOUS
      <4>2. a \in Seq(Chars) /\ b \in Seq(Chars)
        BY <3>3, <4>1, AppendProperties
      <4>3. Append(N, a) = Append(M, b)
        BY <2>2, <3>1, <3>2, <4>1
      <4>4. N = M /\ a = b
        BY SMTT(30), <3>3, <4>2, <4>3, AppendInjective
      <4> QED
        BY <4>1, <4>4
    <3>5. n = m /\ c = e
      BY <3>3, <3>4, AppendInjective
    <3>6. Scanned(w).open \in BOOLEAN /\ Scanned(v).open \in BOOLEAN
      BY ScanIsGood DEF IsGoodScan
    <3>7. SameScan(v, w)
      BY <3>1, <3>2, <3>4, <3>5, <3>6 DEF GrowsFrom, SameScan
    <3>8. IsStrict(w) /\ IsStrict(v)
      BY <2>2, <2>3, <2>4, <2>7
    <3> QED
      BY <2>1, <2>5, <3>5, <3>7, <3>8
  <2> QED
    BY <2>6, <2>7
<1>3. Seq(Chars) \subseteq P
  <2> HIDE DEF P
  <2> QED
    BY <1>1, <1>2, SeqInduction
<1> QED
  BY <1>3

-----------------------------------------------------------------------------
(* Prefixes.                                                               *)

LEMMA PrefixIs ==
  ASSUME NEW T, NEW s \in Seq(T), NEW t \in Seq(T)
  PROVE  IsPrefix(s, t) <=> Len(s) <= Len(t) /\ \A i \in 1..Len(s) : s[i] = t[i]
<1>1. PICK n \in Nat : n = Len(s) /\ SubSeq(s, 1, n) = s
  BY LenProperties, SubSeqFull
<1>2. CASE n <= Len(t)
  <2>1. \A i \in 1..n : t[i] \in T
    BY <1>2, ElementOfSeq
  <2>2. PICK u : u = SubSeq(t, 1, n)
    OBVIOUS
  <2>3. u \in Seq(T) /\ Len(u) = n /\ \A i \in 1..n : u[i] = t[i]
    <3>1. /\ SubSeq(t, 1, n) \in Seq(T)
          /\ Len(SubSeq(t, 1, n)) = IF 1 <= n THEN n - 1 + 1 ELSE 0
          /\ \A i \in 1..(n - 1 + 1) : SubSeq(t, 1, n)[i] = t[1 + i - 1]
      BY <2>1, SubSeqProperties
    <3> QED
      BY <2>2, <3>1
  <2>4. s = u <=> \A i \in 1..n : s[i] = u[i]
    BY <1>1, <2>3, SeqEqual
  <2>5. IsPrefix(s, t) <=> s = u
    BY <1>1, <1>2, <2>2 DEF IsPrefix
  <2> QED
    BY <1>1, <1>2, <2>3, <2>4, <2>5
<1>3. CASE ~ n <= Len(t)
  BY <1>1, <1>3 DEF IsPrefix
<1> QED
  BY <1>2, <1>3

(* A prefix of t and one element more is one of t, or all of it. *)
LEMMA PrefixOfAppend ==
  ASSUME NEW T, NEW s \in Seq(T), NEW t \in Seq(T), NEW e \in T
  PROVE  /\ IsPrefix(s, Append(t, e)) <=> IsPrefix(s, t) \/ s = Append(t, e)
         /\ IsPrefix(s, t) => s # Append(t, e)
<1>1. PICK n \in Nat, m \in Nat : n = Len(s) /\ m = Len(t)
  BY LenProperties
<1>2. PICK a : a = Append(t, e)
  OBVIOUS
<1>3. a \in Seq(T) /\ Len(a) = m + 1 /\ \A i \in 1..m : a[i] = t[i]
  BY <1>1, <1>2, AppendProperties
<1>4. IsPrefix(s, t) <=> n <= m /\ \A i \in 1..n : s[i] = t[i]
  BY <1>1, PrefixIs
<1>5. IsPrefix(s, a) <=> n <= m + 1 /\ \A i \in 1..n : s[i] = a[i]
  <2>1. IsPrefix(s, a) <=> Len(s) <= Len(a) /\ \A i \in 1..Len(s) : s[i] = a[i]
    BY <1>3, PrefixIs
  <2> QED
    BY <1>1, <1>3, <2>1
<1>6. CASE n <= m
  <2>1. \A i \in 1..n : i \in 1..m
    BY <1>6
  <2>2. IsPrefix(s, a) <=> IsPrefix(s, t)
    BY <1>3, <1>4, <1>5, <1>6, <2>1
  <2>3. s # a
    BY <1>1, <1>3, <1>6
  <2> QED
    BY <1>2, <2>2, <2>3
<1>7. CASE n = m + 1
  <2>1. ~ IsPrefix(s, t)
    BY <1>4, <1>7
  <2>2. s = a <=> \A i \in 1..n : s[i] = a[i]
    BY <1>1, <1>3, <1>7, SeqEqual
  <2>3. n <= m + 1
    BY <1>7
  <2>4. IsPrefix(s, a) <=> s = a
    BY <1>5, <2>2, <2>3
  <2> QED
    BY <1>2, <2>1, <2>4
<1>8. CASE n > m + 1
  <2>1. s # a
    BY <1>1, <1>3, <1>8
  <2> QED
    BY <1>2, <1>4, <1>5, <1>8, <2>1
<1> QED
  BY <1>6, <1>7, <1>8

LEMMA PrefixRest ==
  ASSUME NEW T, NEW s \in Seq(T), NEW t \in Seq(T), IsPrefix(s, t)
  PROVE  \E u \in Seq(T) : t = s \o u
<1>1. PICK n \in Nat, m \in Nat : n = Len(s) /\ m = Len(t)
  BY LenProperties
<1>2. n <= m /\ SubSeq(t, 1, n) = s
  BY <1>1, SubSeqFull DEF IsPrefix
<1>3. SubSeq(t, n + 1, m) \in Seq(T)
  <2>1. \A i \in (n + 1)..m : t[i] \in T
    BY <1>1, ElementOfSeq
  <2> QED
    BY <2>1, SubSeqProperties
<1>4. SubSeq(t, 1, n) \o SubSeq(t, n + 1, m) = SubSeq(t, 1, m)
  <2>1. 1 \in 1..(Len(t) + 1) /\ n \in (1 - 1)..Len(t) /\ m \in n..Len(t)
    BY <1>1, <1>2
  <2> QED
    BY <2>1, ConcatAdjacentSubSeq
<1>5. SubSeq(t, 1, m) = t
  BY <1>1, SubSeqFull
<1> QED
  BY <1>2, <1>3, <1>4, <1>5

LEMMA ConcatPrefix ==
  ASSUME NEW T, NEW s \in Seq(T), NEW u \in Seq(T)
  PROVE  IsPrefix(s, s \o u)
<1>1. /\ s \o u \in Seq(T) /\ Len(s \o u) = Len(s) + Len(u)
      /\ Len(s) \in Nat /\ Len(u) \in Nat
      /\ \A i \in 1..Len(s) : (s \o u)[i] = s[i]
  BY ConcatProperties, LenProperties
<1>2. Len(s) <= Len(s \o u)
  BY <1>1
<1> QED
  BY <1>1, <1>2, PrefixIs

(* A path whose names begin with those of d, and that goes on after them,  *)
(* begins with d and a '/'.                                                *)
LEMMA BeginsWithDir ==
  ASSUME NEW d \in Seq(Chars), IsStrict(d), Scanned(d).open,
         NEW q \in Seq(Chars), IsStrict(q), IsPrefix(Names(d), Names(q)),
         Names(d) # Names(q) \/ ~ Scanned(q).open
  PROVE  IsPrefix(Append(d, "/"), q)
<1> DEFINE GoesOn(w) == /\ IsPrefix(Names(d), Names(w))
                        /\ Names(d) # Names(w) \/ ~ Scanned(w).open
           P == {w \in Seq(Chars) : IsStrict(w) /\ GoesOn(w) => IsPrefix(Append(d, "/"), w)}
<1>1. "/" \in Chars /\ Append(d, "/") \in Seq(Chars)
  BY TermuxPathsAssumption, AppendProperties
<1>2. Names(d) \in Seq(Seq(Chars)) /\ Names(d) # <<>>
  BY ScanIsGood DEF IsGoodScan, Names
<1>3. <<>> \in P
  <2>1. ~ IsStrict(<<>>) /\ <<>> \in Seq(Chars)
    BY DEF IsStrict, IsAbsolute
  <2> QED
    BY <2>1
<1>4. ASSUME NEW w \in Seq(Chars), NEW c \in Chars, w \in P
      PROVE  Append(w, c) \in P
  <2> SUFFICES ASSUME IsStrict(Append(w, c)), GoesOn(Append(w, c))
               PROVE  IsPrefix(Append(d, "/"), Append(w, c))
    BY AppendProperties
  <2>1. /\ w = <<>> => c = "/"
        /\ w # <<>> => IsStrict(w) /\ (c = "/" => Scanned(w).open)
    BY StrictFront
  <2>2. IsStrict(w) /\ GoesOn(w) => IsPrefix(Append(d, "/"), Append(w, c))
    BY <1>1, <1>4, PrefixOfAppend
  <2>3. Names(w) \in Seq(Seq(Chars)) /\ Scanned(w).open \in BOOLEAN
    BY ScanIsGood DEF IsGoodScan, Names
  <2> HIDE DEF P
  <2>4. CASE c = "/"
    <3>1. IsPrefix(Names(d), Names(w))
      BY <2>4, NamesStep
    <3>2. w # <<>>
      <4>1. ~ IsPrefix(Names(d), <<>>)
        BY <1>2, EmptySeq, LenProperties DEF IsPrefix
      <4> QED
        BY <3>1, <4>1, NamesOfNone
    <3>3. CASE Names(d) = Names(w)
      <4>1. d = w
        <5>1. Scanned(w).open /\ IsStrict(w)
          BY <2>1, <2>4, <3>2
        <5>2. Scanned(d).open = Scanned(w).open
          BY <5>1, ScanIsGood DEF IsGoodScan
        <5> QED
          BY <3>3, <5>1, <5>2, NamesDetermine DEF SameScan
      <4> QED
        BY <1>1, <2>4, <4>1, PrefixOfAppend
    <3>4. CASE Names(d) # Names(w)
      BY <2>1, <2>2, <3>1, <3>2, <3>4
    <3> QED
      BY <3>3, <3>4
  <2>5. CASE c # "/"
    <3>1. PICK N, n : GrowsFrom(w, N, n) /\ Names(Append(w, c)) = Append(N, Append(n, c))
      BY <2>5, LastName
    <3>2. N \in Seq(Seq(Chars)) /\ n \in Seq(Chars) /\ Append(n, c) \in Seq(Chars)
      BY <3>1, AppendProperties DEF GrowsFrom
    <3>3. Names(d) # Append(N, Append(n, c)) /\ IsPrefix(Names(d), Append(N, Append(n, c)))
      BY <2>5, <3>1, NamesStep
    <3>4. IsPrefix(Names(d), N)
      <4>1. PICK e \in Seq(Chars), X \in Seq(Seq(Chars)) : e = Append(n, c) /\ X = Names(d)
        BY <1>2, <3>2
      <4>2. N \in Seq(Seq(Chars))
        BY <3>2
      <4>3. IsPrefix(X, Append(N, e)) <=> IsPrefix(X, N) \/ X = Append(N, e)
        BY <4>2, PrefixOfAppend
      <4> QED
        BY <3>3, <4>1, <4>3
    <3>5. GoesOn(w)
      <4>1. CASE Scanned(w).open
        <5>1. Names(w) = Append(N, n)
          BY <3>1, <4>1 DEF GrowsFrom
        <5> QED
          BY <1>2, <3>2, <3>4, <5>1, PrefixOfAppend
      <4>2. CASE ~ Scanned(w).open
        BY <3>1, <3>4, <4>2 DEF GrowsFrom
      <4> QED
        BY <4>1, <4>2
    <3> QED
      BY <2>1, <2>2, <2>5, <3>5
  <2> QED
    BY <2>4, <2>5
<1>5. Seq(Chars) \subseteq P
  <2> HIDE DEF P
  <2> QED
    BY <1>3, <1>4, SeqInduction
<1> QED
  BY <1>5

(* isPathInDirPath() finds a path under a directory if and only if it has  *)
(* the names of the directory and at least one more.                       *)
LEMMA UnderByNames ==
  ASSUME NEW path \in Seq(Chars), NEW d \in Seq(Chars), IsNormal(path), IsNormal(d)
  PROVE  IsPathInDirPath(path, d, TRUE) = 0 <=> Under(path, d)
<1> DEFINE Begins == IsPrefix(DirSubPath(d), path) /\ path # DirSubPath(d)
<1>1. "/" \in Chars /\ Root \in Seq(Chars) /\ Root = Append(<<>>, "/")
  BY TermuxPathsAssumption DEF Root
<1>2. \A p \in {path, d} :
        /\ p # <<>> /\ IsStrict(p)
        /\ Scanned(p).open = (p # Root)
        /\ Names(p) \in Seq(Seq(Chars))
        /\ Scanned(p).open => Names(p) # <<>>
  <2> TAKE p \in {path, d}
  <2>1. p # <<>> /\ IsStrict(p) /\ (p # Root => p[Len(p)] # "/")
    BY DEF IsNormal, IsStrict, IsAbsolute
  <2>2. p = Root => p[Len(p)] = "/"
    BY DEF Root
  <2>3. Names(p) \in Seq(Seq(Chars)) /\ (Scanned(p).open => Names(p) # <<>>)
    BY ScanIsGood DEF IsGoodScan, Names
  <2> QED
    BY <2>1, <2>2, <2>3, OpenAtEnd
<1>3. Names(Root) = <<>>
  <2>1. <<>> \in Seq(Chars)
    OBVIOUS
  <2> QED
    BY <1>1, <2>1, NamesStep, NamesOfNone
<1>4. DirSubPath(d) # <<>> /\ DirSubPath(d) \in Seq(Chars)
  BY <1>1, AppendProperties DEF DirSubPath
<1>5. IsPathInDirPath(path, d, TRUE) = 0 <=> Begins
  BY <1>2, <1>4 DEF IsPathInDirPath, StartsWith, IsNormal
<1>6. CASE d = Root
  <2>1. IsPrefix(Root, path)
    <3>1. Len(Root) = 1 /\ Len(path) \in Nat \ {0} /\ Root[1] = path[1]
      BY <1>2, EmptySeq, LenProperties DEF Root, IsStrict, IsAbsolute
    <3>2. Len(Root) <= Len(path) /\ \A i \in 1..Len(Root) : Root[i] = path[i]
      BY <3>1
    <3> QED
      BY <1>1, <3>2, PrefixIs
  <2>2. IsPrefix(<<>>, Names(path))
    <3>1. <<>> \o Names(path) = Names(path) /\ <<>> \in Seq(Seq(Chars))
      BY <1>2, ConcatEmptySeq
    <3>2. IsPrefix(<<>>, <<>> \o Names(path))
      BY <1>2, <3>1, ConcatPrefix
    <3> QED
      BY <3>1, <3>2
  <2>3. path # Root <=> Names(path) # <<>>
    BY <1>2, <1>3
  <2> QED
    BY <1>3, <1>5, <1>6, <2>1, <2>2, <2>3 DEF DirSubPath, Under, IsStrictPrefix
<1>7. CASE d # Root
  <2>1. DirSubPath(d) = Append(d, "/") /\ Scanned(d).open
    BY <1>2, <1>7 DEF DirSubPath
  <2>2. ASSUME Begins PROVE Under(path, d)
    <3>0. PICK D \in Seq(Chars) : D = Append(d, "/") /\ IsPrefix(D, path)
      BY <1>4, <2>1, <2>2
    <3>1. PICK rest \in Seq(Chars) : path = D \o rest
      <4> HIDE DEF Begins
      <4> QED
        BY ZenonT(60), <3>0, PrefixRest
    <3>2. path # Root
      <4>1. Len(Root) = 1 /\ Len(d) \in Nat \ {0} /\ Len(Append(d, "/")) = Len(d) + 1
        BY <1>1, <1>2, EmptySeq, LenProperties, AppendProperties DEF Root
      <4>2. Len(path) >= Len(d) + 1
        BY <2>1, <2>2, <4>1 DEF IsPrefix
      <4> QED
        BY <4>1, <4>2
    <3>3. ~ Scanned(D).open /\ Names(D) = Names(d)
      BY <1>1, <3>0, NamesStep
    <3>4. Names(path) = Names(d) \o Names(rest) /\ Scanned(rest).open
      <4>1. Names(path) = Names(D) \o Names(rest) /\ Scanned(path).open = Scanned(rest).open
        BY <3>1, <3>3, NamesOfConcat
      <4>2. Scanned(path).open
        BY <1>2, <3>2
      <4> QED
        BY <3>3, <4>1, <4>2
    <3>5. Names(rest) \in Seq(Seq(Chars)) /\ Names(rest) # <<>>
      BY <3>4, ScanIsGood DEF IsGoodScan, Names
    <3>6. Names(d) # Names(path)
      BY <1>2, <3>4, <3>5, ConcatEqualIffEmpty
    <3> QED
      BY <1>2, <3>4, <3>5, <3>6, ConcatPrefix DEF Under, IsStrictPrefix
  <2>3. ASSUME Under(path, d) PROVE Begins
    <3>1. IsPrefix(Append(d, "/"), path)
      BY <1>2, <2>1, <2>3, BeginsWithDir DEF Under, IsStrictPrefix
    <3>2. path # Append(d, "/")
      <4>1. path # Root
        <5>1. Names(d) # <<>> /\ ~ IsPrefix(Names(d), <<>>)
          BY <1>2, <2>1, EmptySeq, LenProperties DEF IsPrefix
        <5> QED
          BY <1>3, <2>3, <5>1 DEF Under, IsStrictPrefix
      <4>2. Scanned(path).open /\ ~ Scanned(Append(d, "/")).open
        BY <1>1, <1>2, <4>1, NamesStep
      <4> QED
        BY <4>2
    <3> QED
      BY <2>1, <3>1, <3>2
  <2> QED
    BY <1>5, <2>2, <2>3
<1> QED
  BY <1>6, <1>7

-----------------------------------------------------------------------------
(* Prefixed executables: the names from "bin" on stay, after the prefix's. *)

Bin == <<"b", "i", "n">>

LEMMA BinText ==
  /\ "/" \in Chars /\ Bin \in Seq(Chars) /\ <<"/">> \in Seq(Chars)
  /\ BinDir \in Seq(Chars) /\ Len(BinDir) = 4 /\ BinDir = <<"/">> \o Bin
  /\ BinSlash \in Seq(Chars) /\ Len(BinSlash) = 5 /\ BinSlash = <<"/">> \o Append(Bin, "/")
  /\ Tail(BinDir) = Bin
<1>1. {"/", "b", "i", "n"} \subseteq Chars
  BY TermuxPathsAssumption
<1>2. /\ Bin \in Seq(Chars) /\ <<"/">> \in Seq(Chars)
      /\ BinDir \in Seq(Chars) /\ Len(BinDir) = 4 /\ Tail(BinDir) = Bin
  BY <1>1 DEF Bin, BinDir
<1>3. BinDir = <<"/">> \o Bin
  BY DEF Bin, BinDir
<1>4. BinSlash \in Seq(Chars) /\ Len(BinSlash) = 5
  <2>1. PICK d \in Seq(Chars) : d = BinDir /\ Len(d) = 4
    BY <1>2
  <2>2. PICK c \in Chars : c = "/"
    BY <1>1
  <2>3. Append(d, c) \in Seq(Chars) /\ Len(Append(d, c)) = Len(d) + 1
    BY AppendProperties
  <2> QED
    BY <2>1, <2>2, <2>3 DEF BinSlash
<1>5. BinSlash = <<"/">> \o Append(Bin, "/")
  BY <1>1, <1>2, <1>3, ConcatOfAppend DEF BinSlash
<1> QED
  BY <1>1, <1>2, <1>3, <1>4, <1>5

(* No name is longer than the path, and only the path itself is as long. *)
LEMMA NameLength ==
  ASSUME NEW p \in Seq(Chars), NEW i \in 1..Len(Names(p)), Len(Names(p)[i]) >= Len(p)
  PROVE  Names(p)[i] = p
<1> DEFINE Short(n, w) == n \in Seq(Chars) /\ Len(n) <= Len(w) /\ (Len(n) = Len(w) => n = w)
           P == {w \in Seq(Chars) : \A k \in 1..Len(Names(w)) : Short(Names(w)[k], w)}
<1>1. <<>> \in P
  <2>1. <<>> \in Seq(Chars) /\ \A k \in 1..Len(<<>>) : FALSE
    OBVIOUS
  <2> QED
    BY <2>1, NamesOfNone
<1>2. ASSUME NEW w \in Seq(Chars), NEW c \in Chars, w \in P
      PROVE  Append(w, c) \in P
  <2>1. PICK v \in Seq(Chars) : v = Append(w, c) /\ Len(v) = Len(w) + 1
    BY AppendProperties
  <2>2. Len(w) \in Nat
    BY LenProperties
  <2>3. ASSUME NEW n, Short(n, w) PROVE Short(n, v)
    BY <2>1, <2>2, <2>3, LenProperties
  <2> SUFFICES ASSUME NEW k \in 1..Len(Names(v)) PROVE Short(Names(v)[k], v)
    BY <2>1
  <2>4. CASE c = "/"
    <3>1. Names(v) = Names(w)
      BY <2>1, <2>4, NamesStep
    <3>2. Short(Names(w)[k], w)
      BY <1>2, <3>1
    <3> HIDE DEF Short
    <3> QED
      BY <2>3, <3>1, <3>2
  <2>5. CASE c # "/"
    <3>1. PICK N, n : GrowsFrom(w, N, n) /\ Names(v) = Append(N, Append(n, c))
      BY <2>1, <2>5, LastName
    <3>2. N \in Seq(Seq(Chars)) /\ n \in Seq(Chars)
      BY <3>1 DEF GrowsFrom
    <3>3. PICK m \in Nat : m = Len(N)
      BY <3>2, LenProperties
    <3>4. PICK e \in Seq(Chars) : e = Append(n, c) /\ Len(e) = Len(n) + 1
      BY <3>2, AppendProperties
    <3>5. /\ Len(Names(v)) = m + 1 /\ Names(v)[m + 1] = e
          /\ \A j \in 1..m : Names(v)[j] = N[j]
      BY <3>1, <3>2, <3>3, <3>4, AppendProperties
    <3>6. Short(n, w) /\ \A j \in 1..m : Short(N[j], w)
      <4>1. CASE Scanned(w).open
        <5>1. Names(w) = Append(N, n)
          BY <3>1, <4>1 DEF GrowsFrom
        <5>2. /\ Len(Names(w)) = m + 1 /\ Names(w)[m + 1] = n
              /\ \A j \in 1..m : Names(w)[j] = N[j]
          BY <3>2, <3>3, <5>1, AppendProperties
        <5>3. m + 1 \in 1..(m + 1) /\ \A j \in 1..m : j \in 1..(m + 1)
          OBVIOUS
        <5> QED
          BY <1>2, <5>2, <5>3
      <4>2. CASE ~ Scanned(w).open
        <5>1. n = <<>> /\ Names(w) = N
          BY <3>1, <4>2 DEF GrowsFrom
        <5>2. Short(n, w)
          BY <2>2, <3>2, <5>1, EmptySeq
        <5> QED
          BY <1>2, <3>3, <5>1, <5>2
      <4> QED
        BY <4>1, <4>2
    <3>7. Short(e, v)
      <4>1. Len(n) \in Nat
        BY <3>2, LenProperties
      <4> QED
        BY <2>1, <2>2, <3>4, <3>6, <4>1
    <3>8. k \in 1..m \/ k = m + 1
      BY <3>5
    <3> HIDE DEF Short
    <3> QED
      BY <2>3, <3>5, <3>6, <3>7, <3>8
  <2> QED
    BY <2>4, <2>5
<1>3. Seq(Chars) \subseteq P
  <2> HIDE DEF P
  <2> QED
    BY <1>1, <1>2, SeqInduction
<1>4. Short(Names(p)[i], p)
  BY <1>3
<1>5. Len(Names(p)[i]) \in Nat /\ Len(p) \in Nat
  BY <1>4, LenProperties
<1>6. Len(Names(p)[i]) = Len(p)
  BY <1>4, <1>5
<1> QED
  BY <1>4, <1>6

(* A '/' between two paths is between their names. *)
LEMMA NamesOfJoin ==
  ASSUME NEW p \in Seq(Chars), NEW q \in Seq(Chars)
  PROVE  Names(p \o (<<"/">> \o q)) = Names(p) \o Names(q)
<1>1. "/" \in Chars /\ <<"/">> \in Seq(Chars)
  BY BinText
<1>2. p \o (<<"/">> \o q) = Append(p, "/") \o q
  BY <1>1, ConcatAssociative, AppendIsConcat
<1>3. Append(p, "/") \in Seq(Chars)
  BY <1>1, AppendProperties
<1>4. ~ Scanned(Append(p, "/")).open /\ Names(Append(p, "/")) = Names(p)
  BY <1>1, NamesStep
<1> QED
  BY <1>2, <1>3, <1>4, NamesOfConcat

LEMMA NamesOfBin ==
  /\ Names(Bin) = <<Bin>>
  /\ \A q \in Seq(Chars) : Names(Append(Bin, "/") \o q) = <<Bin>> \o Names(q)
<1>1. {"/", "b", "i", "n"} \subseteq Chars
  BY TermuxPathsAssumption
<1>2. /\ <<>> \in Seq(Chars) /\ <<"b">> \in Seq(Chars) /\ <<"b", "i">> \in Seq(Chars)
      /\ <<"b">> = Append(<<>>, "b") /\ <<"b", "i">> = Append(<<"b">>, "i")
      /\ Bin = Append(<<"b", "i">>, "n")
  BY <1>1 DEF Bin
<1>3. Names(<<"b">>) = << <<"b">> >> /\ Scanned(<<"b">>).open
  <2>1. Append(<<>>, <<"b">>) = << <<"b">> >> /\ "b" # "/"
    OBVIOUS
  <2>2. PICK p \in Seq(Chars), c \in Chars : p = <<>> /\ c = "b"
    BY <1>1, <1>2
  <2>3. Names(Append(p, c)) = Append(Names(p), <<c>>) /\ Scanned(Append(p, c)).open
    BY <2>1, <2>2, NamesStep, NamesOfNone
  <2> QED
    BY <1>2, <2>1, <2>2, <2>3, NamesOfNone
<1>4. Names(<<"b", "i">>) = << <<"b", "i">> >> /\ Scanned(<<"b", "i">>).open
  <2>1. Longer(<< <<"b">> >>, "i") = << <<"b", "i">> >>
    BY DEF Longer
  <2> QED
    BY <1>1, <1>2, <1>3, <2>1, NamesStep
<1>5. Names(Bin) = <<Bin>>
  <2>1. Longer(<< <<"b", "i">> >>, "n") = <<Bin>>
    BY DEF Longer, Bin
  <2> QED
    BY <1>1, <1>2, <1>4, <2>1, NamesStep
<1>6. ASSUME NEW q \in Seq(Chars)
      PROVE  Names(Append(Bin, "/") \o q) = <<Bin>> \o Names(q)
  <2>1. Append(Bin, "/") \in Seq(Chars)
    BY BinText, AppendProperties
  <2>2. ~ Scanned(Append(Bin, "/")).open /\ Names(Append(Bin, "/")) = <<Bin>>
    BY <1>5, BinText, NamesStep
  <2> QED
    BY <2>1, <2>2, NamesOfConcat
<1> QED
  BY <1>5, <1>6

(* Which names NamesFromBin() drops. *)
LEMMA FromFirstBin ==
  ASSUME NEW exe, NEW H \in Seq(Seq(Chars)), NEW A \in Seq(Seq(Chars)),
         \A i \in 1..Len(H) : H[i] # Bin, Names(exe) = H \o (<<Bin>> \o A)
  PROVE  NamesFromBin(exe) = <<Bin>> \o A
<1>1. PICK h \in Nat : h = Len(H)
  BY LenProperties
<1>2. PICK B \in Seq(Seq(Chars)) : B = <<Bin>> \o A
  <2>1. <<Bin>> \in Seq(Seq(Chars))
    BY BinText
  <2> QED
    BY <2>1, ConcatProperties
<1>3. PICK b \in Nat : b = Len(B) /\ b >= 1 /\ B[1] = Bin
  <2>1. <<Bin>> \in Seq(Seq(Chars)) /\ Len(<<Bin>>) = 1 /\ <<Bin>>[1] = Bin
    BY BinText
  <2>2. Len(A) \in Nat
    BY LenProperties
  <2>3. Len(B) = 1 + Len(A) /\ B[1] = Bin
    BY <1>2, <2>1, <2>2, ConcatProperties
  <2> QED
    BY <2>2, <2>3
<1>4. PICK N \in Seq(Seq(Chars)) : N = Names(exe) /\ N = H \o B
  BY <1>2, ConcatProperties
<1>5. /\ Len(N) = h + b
      /\ \A i \in 1..(h + b) : N[i] = IF i <= h THEN H[i] ELSE B[i - h]
  <2>1. /\ Len(H \o B) = Len(H) + Len(B)
        /\ \A i \in 1..(Len(H) + Len(B)) :
             (H \o B)[i] = IF i <= Len(H) THEN H[i] ELSE B[i - Len(H)]
    BY ConcatProperties
  <2>2. N = H \o B
    BY <1>4
  <2> QED
    BY <1>1, <1>3, <2>1, <2>2
<1>6. /\ Len(N) = h + b /\ DOMAIN N = 1..(h + b)
      /\ \A i \in 1..h : N[i] # Bin
      /\ N[h + 1] = Bin
  <2>1. Len(N) = h + b
    BY <1>1, <1>3, <1>4, <1>5
  <2>2. h + 1 \in 1..(h + b) /\ ~ h + 1 <= h /\ h + 1 - h = 1
    BY <1>3
  <2>3. \A i \in 1..h : i \in 1..(h + b) /\ i <= h
    BY <1>3
  <2>4. DOMAIN N = 1..Len(N)
    BY LenProperties
  <2>5. \A i \in 1..h : N[i] # Bin
    <3> TAKE i \in 1..h
    <3>1. N[i] = H[i] /\ i \in 1..Len(H)
      BY <1>1, <1>5, <2>3
    <3> QED
      BY <3>1
  <2>6. N[h + 1] = Bin
    BY <1>3, <1>5, <2>2
  <2> QED
    BY <2>1, <2>4, <2>5, <2>6
<1> DEFINE bins == {k \in DOMAIN N : N[k] = Bin}
<1>7. Min(bins) = h + 1
  <2>1. h + 1 \in bins
    BY <1>3, <1>6
  <2>2. ASSUME NEW k \in bins PROVE k \in Nat /\ h + 1 <= k
    <3>1. k \in 1..(h + b) /\ k \notin 1..h
      BY <1>6
    <3> QED
      BY <3>1
  <2> HIDE DEF bins
  <2>3. \A k \in bins : (\A j \in bins : k <= j) => k = h + 1
    <3> TAKE k \in bins
    <3>1. k \in Nat /\ h + 1 <= k
      BY <2>2
    <3> QED
      BY <2>1, <3>1
  <2>4. \A j \in bins : h + 1 <= j
    BY <2>2
  <2>5. PICK m : m = CHOOSE k \in bins : \A j \in bins : k <= j
    OBVIOUS
  <2>6. m \in bins /\ \A j \in bins : m <= j
    BY <2>1, <2>4, <2>5
  <2> QED
    BY <2>3, <2>5, <2>6 DEF Min
<1>8. SubSeq(N, h + 1, Len(N)) = B
  <2>1. PICK u : u = SubSeq(N, h + 1, h + b)
    OBVIOUS
  <2>2. h + 1 \in Int /\ h + b \in Int /\ \A i \in (h + 1)..(h + b) : N[i] \in Seq(Chars)
    <3>1. \A i \in (h + 1)..(h + b) : i \in 1..Len(N)
      BY <1>6
    <3> QED
      BY <3>1, ElementOfSeq
  <2>3. /\ u \in Seq(Seq(Chars)) /\ Len(u) = b
        /\ \A i \in 1..b : u[i] = N[h + 1 + i - 1]
    <3>1. /\ SubSeq(N, h + 1, h + b) \in Seq(Seq(Chars))
          /\ Len(SubSeq(N, h + 1, h + b)) =
               IF h + 1 <= h + b THEN h + b - (h + 1) + 1 ELSE 0
          /\ \A i \in 1..(h + b - (h + 1) + 1) :
               SubSeq(N, h + 1, h + b)[i] = N[h + 1 + i - 1]
      BY <2>2, SubSeqProperties
    <3>2. h + 1 <= h + b /\ h + b - (h + 1) + 1 = b
      BY <1>3
    <3> QED
      BY <2>1, <3>1, <3>2
  <2>4. ASSUME NEW i \in 1..b PROVE u[i] = B[i]
    <3>1. PICK j \in 1..(h + b) : j = h + 1 + i - 1 /\ ~ j <= h /\ j - h = i
      OBVIOUS
    <3>2. N[j] = IF j <= h THEN H[j] ELSE B[j - h]
      BY <1>5
    <3>3. u[i] = N[j]
      BY <2>3, <3>1
    <3> QED
      BY <3>1, <3>2, <3>3
  <2>5. u = B
    <3>1. Len(u) = Len(B) /\ \A i \in 1..Len(u) : u[i] = B[i]
      BY <1>3, <2>3, <2>4
    <3>2. u \in Seq(Seq(Chars))
      BY Zenon, <2>3
    <3> QED
      BY ZenonT(40), <3>1, <3>2, SeqEqual
  <2> QED
    BY <1>6, <2>1, <2>5
<1>9. NamesFromBin(exe) = SubSeq(N, Min(bins), Len(N))
  BY <1>4, BinText DEF NamesFromBin
<1> QED
  BY <1>2, <1>7, <1>8, <1>9

(* A first name other than "bin" of three characters. *)
LEMMA NoBinIn ==
  ASSUME NEW w \in Seq(Chars), Len(w) = 3, w # Bin
  PROVE  /\ <<"/">> \o w \in Seq(Chars)
         /\ \A i \in 1..Len(Names(<<"/">> \o w)) : Names(<<"/">> \o w)[i] # Bin
<1>1. <<"/">> \o w \in Seq(Chars) /\ <<>> \in Seq(Chars)
  BY BinText, ConcatProperties
<1>2. Names(<<"/">> \o w) = Names(w)
  <2>1. <<>> \o (<<"/">> \o w) = <<"/">> \o w
    BY <1>1, ConcatEmptySeq
  <2>2. <<>> \o Names(w) = Names(w)
    BY ScanIsGood, ConcatEmptySeq DEF IsGoodScan, Names
  <2>3. Names(<<>> \o (<<"/">> \o w)) = Names(<<>>) \o Names(w)
    BY <1>1, NamesOfJoin
  <2> QED
    BY <2>1, <2>2, <2>3, NamesOfNone
<1>3. ASSUME NEW i \in 1..Len(Names(w)), Names(w)[i] = Bin PROVE FALSE
  <2>1. Len(Bin) = 3
    BY DEF Bin
  <2>2. Len(Names(w)[i]) >= Len(w)
    BY <1>3, <2>1
  <2> QED
    BY <1>3, <2>2, NameLength
<1> QED
  BY <1>1, <1>2, <1>3

(* termuxPrefixPath() replaces the names before the first "bin" with the   *)
(* prefix's.                                                               *)
LEMMA PrefixByNames ==
  ASSUME NEW prefix \in Seq(Chars), NEW exe \in Seq(Chars), IsPrefixed(exe)
  PROVE  Names(PrefixedPath(prefix, exe)) = Names(prefix) \o NamesFromBin(exe)
<1>1. {"/", "u", "s", "r"} \subseteq Chars /\ <<>> \in Seq(Chars)
  BY TermuxPathsAssumption
<1>2. \A p \in Seq(Chars) : Names(p) \in Seq(Seq(Chars))
  BY ScanIsGood DEF IsGoodScan, Names
<1>3. CASE IsBinDir(exe)
  <2>1. PICK head \in Seq(Chars) :
          /\ exe = head \o BinDir
          /\ \A i \in 1..Len(Names(head)) : Names(head)[i] # Bin
    <3>1. CASE exe = BinDir
      <4>1. exe = <<>> \o BinDir
        BY <3>1, ConcatEmptySeq
      <4>2. \A i \in 1..Len(Names(<<>>)) : FALSE
        BY NamesOfNone
      <4> QED
        BY <1>1, <4>1, <4>2
    <3>2. CASE exe = UsrBinDir
      <4>1. PICK w \in Seq(Chars) : w = <<"u", "s", "r">> /\ Len(w) = 3 /\ w # Bin
        <5>1. <<"u", "s", "r">> \in Seq(Chars) /\ Len(<<"u", "s", "r">>) = 3
          BY <1>1
        <5>2. <<"u", "s", "r">>[1] # Bin[1]
          BY DEF Bin
        <5> QED
          BY <5>1, <5>2
      <4>2. <<"/", "u", "s", "r">> = <<"/">> \o w
        BY <4>1
      <4> QED
        BY <3>2, <4>1, <4>2, NoBinIn DEF UsrBinDir
    <3> QED
      BY <1>3, <3>1, <3>2 DEF IsBinDir
  <2>2. <<Bin>> \in Seq(Seq(Chars)) /\ <<Bin>> \o <<>> = <<Bin>> /\ <<>> \in Seq(Seq(Chars))
    BY BinText, ConcatEmptySeq
  <2>3. \A p \in Seq(Chars) : Names(p \o BinDir) = Names(p) \o <<Bin>>
    <3> TAKE p \in Seq(Chars)
    <3>1. Names(p \o (<<"/">> \o Bin)) = Names(p) \o Names(Bin)
      BY BinText, NamesOfJoin
    <3>2. BinDir = <<"/">> \o Bin /\ Names(Bin) = <<Bin>>
      BY BinText, NamesOfBin
    <3> QED
      BY <3>1, <3>2
  <2>4. NamesFromBin(exe) = <<Bin>>
    <3>1. Names(head) \in Seq(Seq(Chars)) /\ Names(exe) = Names(head) \o (<<Bin>> \o <<>>)
      BY <1>2, <2>1, <2>2, <2>3
    <3>2. NamesFromBin(exe) = <<Bin>> \o <<>>
      BY <2>1, <2>2, <3>1, FromFirstBin
    <3> QED
      BY <2>2, <3>2
  <2>5. PrefixedPath(prefix, exe) = prefix \o BinDir
    <3>1. prefix \o BinDir \in Seq(Chars)
      BY BinText, ConcatProperties
    <3> QED
      BY <1>3, <3>1, ConcatEmptySeq DEF PrefixedPath, TermuxBinPath, AfterBin
  <2> QED
    BY <2>3, <2>4, <2>5
<1>4. CASE ~ IsBinDir(exe)
  <2>1. PICK k \in {1, 5} : IsFirstBin(exe, k)
    BY <1>4 DEF IsPrefixed
  <2>2. PICK n \in Nat : n = Len(exe)
    BY LenProperties
  <2>3. /\ k \in 1..(n - 4) /\ SubSeq(exe, k, k + 4) = BinSlash
        /\ \A j \in BinMatches(exe) : k <= j
    BY <2>1, <2>2 DEF IsFirstBin, BinMatches
  <2>4. BinMatchIndex(exe) = k
    <3>1. ASSUME NEW j \in BinMatches(exe), IsFirstBin(exe, j) PROVE j = k
      <4>1. k <= j /\ j <= k /\ j \in Int
        BY <2>1, <3>1 DEF IsFirstBin, BinMatches
      <4> QED
        BY <4>1
    <3>2. k \in BinMatches(exe)
      BY <2>1 DEF IsFirstBin
    <3> QED
      BY <2>1, <3>1, <3>2 DEF BinMatchIndex
  <2>5. PICK head \in Seq(Chars), after \in Seq(Chars) :
          head = SubSeq(exe, 1, k - 1) /\ after = SubSeq(exe, k + 5, n)
    <3>1. \A i \in 1..n : exe[i] \in Chars
      BY <2>2, ElementOfSeq
    <3>2. \A i \in 1..(k - 1) : exe[i] \in Chars
      BY <2>3, <3>1
    <3>3. \A i \in (k + 5)..n : exe[i] \in Chars
      BY <3>1
    <3>4. 1 \in Int /\ k - 1 \in Int /\ k + 5 \in Int /\ n \in Int
      BY <2>3
    <3>5. SubSeq(exe, 1, k - 1) \in Seq(Chars)
      BY <3>2, <3>4, SubSeqProperties
    <3>6. SubSeq(exe, k + 5, n) \in Seq(Chars)
      BY <3>3, <3>4, SubSeqProperties
    <3> QED
      BY <3>5, <3>6
  <2> DEFINE tail == Append(Bin, "/") \o after
  <2>6. tail \in Seq(Chars) /\ Append(Bin, "/") \in Seq(Chars)
    BY BinText, AppendProperties, ConcatProperties
  <2>7. BinSlash \o after = <<"/">> \o tail
    <3>1. PICK one \in Seq(Chars), bin \in Seq(Chars) :
            one = <<"/">> /\ bin = Append(Bin, "/") /\ BinSlash = one \o bin
      BY <2>6, BinText
    <3>2. (one \o bin) \o after = one \o (bin \o after)
      BY SMTT(30), ConcatAssociative
    <3> QED
      BY <3>1, <3>2
  <2>8. exe = head \o (<<"/">> \o tail)
    <3>1. SubSeq(exe, 1, k - 1) \o SubSeq(exe, k, n) = exe
      <4>1. 1 \in 1..(Len(exe) + 1) /\ k - 1 \in (1 - 1)..Len(exe) /\ n \in (k - 1)..Len(exe)
        BY <2>2, <2>3
      <4>2. SubSeq(exe, 1, k - 1) \o SubSeq(exe, k - 1 + 1, n) = SubSeq(exe, 1, n)
        BY <4>1, ConcatAdjacentSubSeq
      <4>3. k - 1 + 1 = k /\ SubSeq(exe, 1, n) = exe
        BY <2>2, <2>3, SubSeqFull
      <4> QED
        BY <4>2, <4>3
    <3>2. BinSlash \o after = SubSeq(exe, k, n)
      <4>1. k \in 1..(Len(exe) + 1) /\ k + 4 \in (k - 1)..Len(exe) /\ n \in (k + 4)..Len(exe)
        BY <2>2, <2>3
      <4>2. SubSeq(exe, k, k + 4) \o SubSeq(exe, k + 4 + 1, n) = SubSeq(exe, k, n)
        BY <4>1, ConcatAdjacentSubSeq
      <4>3. k + 4 + 1 = k + 5
        OBVIOUS
      <4> QED
        BY <2>3, <2>5, <4>2, <4>3
    <3> QED
      BY <2>5, <2>7, <3>1, <3>2
  <2>9. \A i \in 1..Len(Names(head)) : Names(head)[i] # Bin
    <3>1. CASE k = 1
      <4>1. head = <<>>
        BY <2>5, <3>1, SubSeqEmpty
      <4>2. \A i \in 1..Len(Names(<<>>)) : FALSE
        BY NamesOfNone
      <4> QED
        BY <4>1, <4>2
    <3>2. CASE k = 5
      <4>1. n >= 9 /\ exe[1] = "/" /\ \A i \in 1..n : exe[i] \in Chars
        BY <2>2, <2>3, <3>2, ElementOfSeq DEF IsPrefixed, IsAbsolute
      <4>2. PICK w \in Seq(Chars) :
              w = SubSeq(exe, 2, 4) /\ Len(w) = 3 /\ \A i \in 1..3 : w[i] = exe[i + 1]
        <5>1. \A i \in 2..4 : exe[i] \in Chars
          BY <4>1
        <5>2. /\ SubSeq(exe, 2, 4) \in Seq(Chars) /\ Len(SubSeq(exe, 2, 4)) = 3
              /\ \A i \in 1..(4 - 2 + 1) : SubSeq(exe, 2, 4)[i] = exe[2 + i - 1]
          BY <5>1, SubSeqProperties
        <5>3. PICK w : w = SubSeq(exe, 2, 4)
          OBVIOUS
        <5>4. ASSUME NEW i \in 1..3 PROVE w[i] = exe[i + 1]
          <6>1. 2 + i - 1 = i + 1 /\ i \in 1..(4 - 2 + 1)
            OBVIOUS
          <6> QED
            BY <5>2, <5>3, <6>1
        <5>5. w \in Seq(Chars) /\ Len(w) = 3
          BY <5>2, <5>3
        <5> QED
          BY <5>3, <5>4, <5>5
      <4>3. head = <<"/">> \o w
        <5>1. /\ Len(head) = 4 /\ \A i \in 1..4 : head[i] = exe[i]
          <6>1. \A i \in 1..4 : exe[i] \in Chars
            BY <4>1
          <6>2. /\ Len(SubSeq(exe, 1, 4)) = 4
                /\ \A i \in 1..(4 - 1 + 1) : SubSeq(exe, 1, 4)[i] = exe[1 + i - 1]
            BY <6>1, SubSeqProperties
          <6> QED
            BY <2>5, <3>2, <6>2
        <5>2. /\ <<"/">> \o w \in Seq(Chars) /\ Len(<<"/">> \o w) = 1 + 3
              /\ \A i \in 1..(1 + 3) : (<<"/">> \o w)[i] = IF i <= 1 THEN "/" ELSE w[i - 1]
          <6>1. Len(<<"/">>) = 1 /\ <<"/">>[1] = "/"
            OBVIOUS
          <6> QED
            BY <4>2, <6>1, BinText, ConcatProperties
        <5>3. ASSUME NEW i \in 1..4 PROVE head[i] = (<<"/">> \o w)[i]
          BY <4>1, <4>2, <5>1, <5>2
        <5>4. Len(head) = Len(<<"/">> \o w) /\ \A i \in 1..Len(head) : head[i] = (<<"/">> \o w)[i]
          BY <5>1, <5>2, <5>3
        <5> QED
          BY <5>2, <5>4, SeqEqual
      <4>4. w # Bin
        <5> SUFFICES ASSUME w = Bin PROVE FALSE
          OBVIOUS
        <5>1. SubSeq(exe, 1, 4) = BinDir
          <6>1. k - 1 = 4 /\ BinDir = <<"/">> \o Bin
            BY <3>2, BinText
          <6> QED
            BY <2>5, <4>3, <6>1
        <5>2. exe[5] = "/"
          <6>1. \A i \in 5..9 : exe[i] \in Chars
            BY <4>1
          <6>2. SubSeq(exe, 5, 9)[1] = exe[5]
            BY <6>1, SubSeqProperties
          <6>3. BinSlash[1] = "/"
            BY DEF BinSlash, BinDir
          <6> QED
            BY <2>3, <3>2, <6>2, <6>3
        <5>3. SubSeq(exe, 5, 5) = <<"/">>
          <6>1. SubSeq(exe, 5, 5) = <<exe[5]>>
            <7>1. 5 \in 1..Len(exe) /\ 5 \in 5..Len(exe)
              BY <2>2, <4>1
            <7>2. SubSeq(exe, 5, 5) = <<exe[5]>> \o SubSeq(exe, 5 + 1, 5)
              BY <7>1, SubSeqRecursiveFirst
            <7>3. SubSeq(exe, 5 + 1, 5) = <<>>
              BY SubSeqEmpty
            <7>4. <<exe[5]>> \in Seq(Chars)
              BY <4>1
            <7> QED
              BY <7>2, <7>3, <7>4, ConcatEmptySeq
          <6> QED
            BY <5>2, <6>1
        <5>4. SubSeq(exe, 1, 4) \o SubSeq(exe, 5, 5) = SubSeq(exe, 1, 5)
          <6>1. /\ 1 \in 1..(Len(exe) + 1) /\ 4 \in (1 - 1)..Len(exe) /\ 5 \in 4..Len(exe)
            BY <2>2, <4>1
          <6>2. SubSeq(exe, 1, 4) \o SubSeq(exe, 4 + 1, 5) = SubSeq(exe, 1, 5)
            BY <6>1, ConcatAdjacentSubSeq
          <6> QED
            BY <6>2
        <5>5. SubSeq(exe, 1, 1 + 4) = BinSlash
          <6>1. BinSlash = BinDir \o <<"/">>
            BY BinText, AppendIsConcat DEF BinSlash
          <6>2. 1 + 4 = 5
            OBVIOUS
          <6> QED
            BY <5>1, <5>3, <5>4, <6>1, <6>2
        <5>6. 1 \in BinMatches(exe)
          BY <2>2, <4>1, <5>5 DEF BinMatches
        <5> QED
          BY <2>3, <3>2, <5>6
      <4> QED
        BY <4>2, <4>3, <4>4, NoBinIn
    <3> QED
      BY <3>1, <3>2
  <2>10. Names(tail) = <<Bin>> \o Names(after)
    BY NamesOfBin
  <2>11. NamesFromBin(exe) = <<Bin>> \o Names(after)
    <3>1. Names(exe) = Names(head) \o (<<Bin>> \o Names(after))
      BY <2>6, <2>8, <2>10, NamesOfJoin
    <3> QED
      BY <1>2, <2>9, <3>1, FromFirstBin
  <2>12. PrefixedPath(prefix, exe) = prefix \o (<<"/">> \o tail)
    <3>1. TermuxBinPath(prefix, exe) = prefix \o BinSlash /\ AfterBin(exe) = after
      BY <1>4, <2>2, <2>4, <2>5 DEF TermuxBinPath, AfterBin
    <3>2. (prefix \o BinSlash) \o after = prefix \o (BinSlash \o after)
      <4>1. PICK bin \in Seq(Chars) : bin = BinSlash
        BY BinText
      <4> HIDE DEF tail
      <4>2. (prefix \o bin) \o after = prefix \o (bin \o after)
        BY SMTT(30), ConcatAssociative
      <4> QED
        BY <4>1, <4>2
    <3> QED
      BY <2>7, <3>1, <3>2 DEF PrefixedPath
  <2> QED
    BY <2>6, <2>10, <2>11, <2>12, NamesOfJoin
<1> QED
  BY <1>3, <1>4

-----------------------------------------------------------------------------
(* The greatest of a set of positions. *)
LEMMA GreatestPosition ==
  ASSUME NEW n \in Nat, NEW U \in SUBSET (1..n), U # {}
  PROVE  Max(U) \in U /\ \A k \in U : k <= Max(U)
<1> DEFINE N == {m \in Nat : m <= n /\ n - m \in U}
<1>1. PICK k \in U : TRUE
  OBVIOUS
<1>2. n - k \in N
  BY <1>1
<1>3. PICK m \in N : \A l \in N : m <= l
  <2>1. N \in SUBSET Nat /\ N # {}
    BY <1>2
  <2> HIDE DEF N
  <2> QED
    BY <2>1, LeastNumber
<1>4. n - m \in U /\ \A l \in U : l <= n - m
  <2>1. \A l \in U : n - l \in N
    OBVIOUS
  <2> QED
    BY <1>3, <2>1
<1>5. \E l \in U : \A j \in U : l >= j
  BY <1>4
<1> QED
  BY <1>5 DEF Max

(* What follows the last '/' of an absolute path has none. *)
LEMMA BasenameOfPath ==
  ASSUME NEW p \in Seq(Chars), IsAbsolute(p)
  PROVE  /\ Basename(p) \in Seq(Chars)
         /\ \A i \in 1..Len(Basename(p)) : Basename(p)[i] # "/"
<1>1. PICK n \in Nat : n = Len(p) /\ n >= 1 /\ DOMAIN p = 1..n
  BY LenProperties, EmptySeq DEF IsAbsolute
<1> DEFINE U == {k \in 1..n : p[k] = "/"}
<1>2. PICK l : l = Max(U)
  OBVIOUS
<1>3. l \in 1..n /\ \A k \in U : k <= l
  <2>1. 1 \in U
    BY <1>1 DEF IsAbsolute
  <2>2. U \in SUBSET (1..n)
    OBVIOUS
  <2>3. Max(U) \in U /\ \A k \in U : k <= Max(U)
    <3> HIDE DEF U
    <3> QED
      BY <2>1, <2>2, GreatestPosition
  <2> QED
    BY <1>2, <2>2, <2>3
<1>4. PICK b : b = SubSeq(p, l + 1, n)
  OBVIOUS
<1>5. Basename(p) = b
  BY <1>1, <1>2, <1>4 DEF Basename, LastSeparator
<1>6. /\ b \in Seq(Chars) /\ Len(b) = n - l
      /\ \A i \in 1..(n - l) : b[i] = p[l + 1 + i - 1]
  <2>1. \A i \in (l + 1)..n : p[i] \in Chars
    BY <1>1, <1>3, ElementOfSeq
  <2>2. l + 1 \in Int /\ n \in Int
    BY <1>3
  <2>3. /\ SubSeq(p, l + 1, n) \in Seq(Chars)
        /\ Len(SubSeq(p, l + 1, n)) = IF l + 1 <= n THEN n - (l + 1) + 1 ELSE 0
        /\ \A i \in 1..(n - (l + 1) + 1) : SubSeq(p, l + 1, n)[i] = p[l + 1 + i - 1]
    BY <2>1, <2>2, SubSeqProperties
  <2>4. n - (l + 1) + 1 = n - l /\ (l + 1 <= n \/ n - l = 0)
    BY <1>3
  <2> QED
    BY <1>4, <2>3, <2>4
<1>7. ASSUME NEW i \in 1..(n - l) PROVE b[i] # "/"
  <2>1. l + 1 + i - 1 = l + i /\ l + i \in 1..n /\ ~ l + i <= l
    BY <1>3
  <2>2. b[i] = p[l + i] /\ l + i \notin U
    BY <1>3, <1>6, <2>1
  <2> QED
    BY <2>1, <2>2
<1> QED
  BY <1>5, <1>6, <1>7

(* The legacy form of a path has no '/' too many. *)
LEMMA LegacyIsNormal ==
  ASSUME NEW p \in Seq(Chars), IsAbsolute(p)
  PROVE  /\ LegacyRoot \o Basename(p) \in Seq(Chars)
         /\ Basename(p) # <<>> => IsNormal(LegacyRoot \o Basename(p))
<1>1. PICK b \in Seq(Chars) : b = Basename(p) /\ \A i \in 1..Len(b) : b[i] # "/"
  BY BasenameOfPath
<1>2. PICK L \in Seq(Chars) :
        /\ L = LegacyRoot /\ Len(L) = 11 /\ L[1] = "/" /\ L[5] = "a" /\ L[10] = "a"
        /\ \A k \in 2..11 : L[k] = "/" => k \in {6, 11}
  <2>1. {"/", "d", "a", "t"} \subseteq Chars
    BY TermuxPathsAssumption
  <2>2. LegacyRoot \in Seq(Chars) /\ Len(LegacyRoot) = 11
    BY <2>1 DEF LegacyRoot
  <2>3. LegacyRoot[1] = "/" /\ LegacyRoot[5] = "a" /\ LegacyRoot[10] = "a"
    BY DEF LegacyRoot
  <2>4. \A k \in {2, 3, 4, 5, 7, 8, 9, 10} : LegacyRoot[k] # "/"
    BY DEF LegacyRoot
  <2>5. \A k \in 2..11 : k \in {2, 3, 4, 5, 7, 8, 9, 10} \/ k \in {6, 11}
    OBVIOUS
  <2> QED
    BY <2>2, <2>3, <2>4, <2>5
<1>3. PICK m \in Nat : m = Len(b)
  BY LenProperties
<1>4. PICK x : x = L \o b
  OBVIOUS
<1>5. /\ x \in Seq(Chars) /\ Len(x) = 11 + m
      /\ \A k \in 1..(11 + m) : x[k] = IF k <= 11 THEN L[k] ELSE b[k - 11]
  <2>1. /\ L \o b \in Seq(Chars) /\ Len(L \o b) = Len(L) + Len(b)
        /\ \A k \in 1..(Len(L) + Len(b)) :
             (L \o b)[k] = IF k <= Len(L) THEN L[k] ELSE b[k - Len(L)]
    BY ConcatProperties
  <2> QED
    BY <1>2, <1>3, <1>4, <2>1
<1>6. ASSUME b # <<>> PROVE IsNormal(x)
  <2>1. m >= 1
    BY <1>3, <1>6, EmptySeq
  <2>2. \A k \in 1..(11 + m) : x[k] = "/" => k <= 11 /\ L[k] = "/"
    <3> TAKE k \in 1..(11 + m)
    <3>1. CASE ~ k <= 11
      <4>1. k - 11 \in 1..Len(b) /\ x[k] = b[k - 11]
        BY <1>3, <1>5, <3>1
      <4> QED
        BY <1>1, <4>1
    <3> QED
      BY <1>5, <3>1
  <2>3. x[1] = "/" /\ x[5] = "a" /\ x[10] = "a"
    <3>1. 1 \in 1..(11 + m) /\ 5 \in 1..(11 + m) /\ 10 \in 1..(11 + m)
      BY <2>1
    <3> QED
      BY <1>2, <1>5, <3>1
  <2>4. ASSUME NEW k \in 2..Len(x), x[k] = "/" PROVE x[k - 1] # "/"
    <3>1. k \in 1..(11 + m) /\ k \in 2..(11 + m)
      BY <1>5
    <3>2. k \in 2..11 /\ L[k] = "/"
      BY <2>2, <2>4, <3>1
    <3>3. k - 1 \in {5, 10}
      BY <1>2, <3>2
    <3> QED
      BY <2>3, <3>3
  <2>5. x[Len(x)] # "/"
    <3>1. 11 + m \in 1..(11 + m) /\ ~ 11 + m <= 11
      BY <2>1
    <3> QED
      BY <1>5, <2>2, <3>1
  <2>6. IsAbsolute(x)
    BY <1>5, <2>1, <2>3, EmptySeq DEF IsAbsolute
  <2> QED
    BY <2>4, <2>5, <2>6 DEF IsNormal
<1> QED
  BY <1>1, <1>2, <1>4, <1>5, <1>6

-----------------------------------------------------------------------------
(* The buffer holds a path, or what is left of two.  Normalising is asked  *)
(* for what fills that disturb each other leave there too.                 *)
NormalOfMakesPaths ==
  \A p \in Seq(Chars) : NormalOf(p) \in Seq(Chars) /\ LeftOf(p) \in Seq(Chars)

TextInv == buffer \in Seq(Chars) /\ \A t \in Threads : copy[t] \in Seq(Chars)

LEMMA TextStep ==
  ASSUME NormalOfMakesPaths, TypeInv, TextInv, [Next]_vars
  PROVE  TextInv'
<1>1. <<>> \in Seq(Chars) /\ Torn \in Seq(Chars) /\ \A s \in Texts : s \in Seq(Chars)
  BY TermuxDirsAssumption DEF Texts
<1>2. ASSUME NEW t \in Threads, NEW text \in Seq(Chars), Write(t, text)
      PROVE  buffer' \in Seq(Chars)
  BY <1>1, <1>2 DEF Write
<1>3. ASSUME buffer' = buffer, copy' = copy PROVE TextInv'
  BY <1>3 DEF TextInv
<1>4. ASSUME buffer' \in Seq(Chars), copy' = copy PROVE TextInv'
  BY <1>4 DEF TextInv
<1>5. ASSUME NEW t \in Threads, NEW text \in Seq(Chars), buffer' \in Seq(Chars),
             copy' = [copy EXCEPT ![t] = text]
      PROVE  TextInv'
  BY <1>5 DEF TextInv, TypeInv
<1>6. ASSUME NEW t \in Threads, FromEnv(t) PROVE TextInv'
  <2>1. ASSUME NEW path \in EnvPaths, Write(t, path) PROVE buffer' \in Seq(Chars)
    BY <1>1, <1>2, <2>1 DEF Texts
  <2> QED
    BY <1>3, <1>4, <1>6, <2>1 DEF FromEnv
<1>7. ASSUME NEW t \in Threads, CopyDefault(t) PROVE TextInv'
  <2>1. default \in Seq(Chars)
    BY <1>1 DEF TypeInv, Texts
  <2> QED
    BY <1>2, <1>3, <1>4, <1>7, <2>1 DEF CopyDefault
<1>8. ASSUME NEW t \in Threads, Normalize(t) PROVE TextInv'
  <2>1. NormalOf(buffer) \in Seq(Chars) /\ LeftOf(buffer) \in Seq(Chars)
    BY DEF NormalOfMakesPaths, TextInv
  <2> QED
    BY <1>2, <1>4, <1>8, <2>1 DEF Normalize
<1>9. ASSUME NEW t \in Threads, Normal(t) PROVE TextInv'
  BY <1>3, <1>5, <1>9 DEF Normal, TextInv
<1>10. ASSUME NEW t \in Threads, Convert(t) PROVE TextInv'
  <2>1. PICK legacy : legacy = ConvertToLegacyPath(copy[t], MaxLen[dir])
    OBVIOUS
  <2>2. legacy # Null => legacy \in Seq(Chars)
    <3>1. legacy # Null => IsAbsolute(copy[t]) /\ legacy = LegacyRoot \o Basename(copy[t])
      BY <2>1 DEF ConvertToLegacyPath
    <3>2. copy[t] \in Seq(Chars)
      BY DEF TextInv
    <3> QED
      BY <3>1, <3>2, LegacyIsNormal
  <2>3. buffer' \in Seq(Chars)
    <3>1. CASE legacy = Null
      BY <1>10, <2>1, <3>1 DEF Convert, TextInv
    <3>2. CASE legacy # Null
      BY <1>2, <1>10, <2>1, <2>2, <3>2 DEF Convert
    <3> QED
      BY <3>1, <3>2
  <2>4. copy' = [copy EXCEPT ![t] = <<>>]
    BY <1>10 DEF Convert, Empty
  <2> QED
    BY <1>1, <1>5, <2>3, <2>4
<1>11. ASSUME NEW t \in Threads,
              \/ \E a \in Arguments \cup {Get} : Call(t, a)
              \/ Check(t) \/ Access(t) \/ Store(t) \/ ReturnPointer(t) \/ Use(t)
       PROVE  TextInv'
  BY <1>3, <1>11 DEF Call, Check, Access, Store, ReturnPointer, Use
<1>12. CASE UNCHANGED vars
  BY <1>3, <1>12 DEF vars, callVars
<1> QED
  BY <1>6, <1>7, <1>8, <1>9, <1>10, <1>11, <1>12 DEF Next

LEMMA AlwaysTextInv == ASSUME NormalOfMakesPaths PROVE Spec => []TextInv
<1>1. Init => TextInv
  BY DEF Init, TextInv, Empty
<1>2. TermuxDirsInv => TypeInv
  BY DEF TermuxDirsInv
<1>3. TypeInv /\ TextInv /\ [Next]_vars => TextInv'
  BY TextStep
<1> QED
  BY Invariance, <1>1, <1>2, <1>3, PTL DEF Spec

(* The directory a call uses has no '/' too many, unless fills disturbed   *)
(* each other or had no memory.                                            *)
LEMMA UsedIsNormal ==
  ASSUME TermuxDirsInv, CallInv, Undisturbed, ~ noMemory,
         NEW t \in Threads, pc[t] = "use"
  PROVE  IsNormal(DirOf(t))
<1>0. ASSUME arg[t].own # Null PROVE IsNormal(DirOf(t))
  BY <1>0, TermuxDirsAssumption DEF CallInv, DirOf, Get
<1> SUFFICES ASSUME arg[t].own = Null PROVE IsNormal(buffer)
  BY <1>0 DEF DirOf
<1>1. ASSUME NEW s \in sources PROVE NormalOf(s) \in Seq(Chars) /\ IsNormal(NormalOf(s))
  <2>1. s \in Texts /\ IsAbsolute(s)
    BY DEF TermuxDirsInv, TypeInv, CallInv, Usable
  <2> QED
    BY <2>1, TermuxDirsAssumption DEF Texts
<1>2. CASE ~ overlapped
  <2>1. PICK s \in sources : IsFormOf(buffer, s)
    BY <1>2 DEF TermuxDirsInv, AloneInv
  <2>2. PICK n \in Seq(Chars) : n = NormalOf(s) /\ IsNormal(n)
    BY <1>1
  <2>3. \/ buffer = n
        \/ buffer = LegacyRoot \o Basename(n) /\ Basename(n) # <<>>
    BY <2>1, <2>2 DEF IsFormOf, Made
  <2> QED
    BY <2>2, <2>3, LegacyIsNormal DEF IsNormal
<1>3. CASE overlapped
  <2>1. PICK s \in sources : sources = {s} /\ NeedsNoChange(s)
    BY <1>3 DEF Undisturbed
  <2>2. s \in Texts /\ buffer = s
    BY <2>1 DEF TermuxDirsInv, TypeInv, SameInv
  <2> QED
    BY <1>1, <2>1, <2>2 DEF NeedsNoChange
<1> QED
  BY <1>2, <1>3

(* Whatever the paths: a path with no '/' too many is said to be under the *)
(* directory if and only if it has the directory's names and one more, and *)
(* a prefixed executable has the prefix's names in place of those before   *)
(* its first "bin" (AnswersRight), if normalizePath() makes characters of  *)
(* characters.                                                             *)
THEOREM AnswersAreRight ==
  ASSUME NormalOfMakesPaths
  PROVE  Spec => []AnswersRight
<1>1. ASSUME TermuxDirsInv, CallInv, TextInv, NEW t \in Threads, pc[t] = "use",
             NEW d, d = DirOf(t), NEW r \in Results(arg[t], d)
      PROVE  /\ arg[t].op = "isPathUnder" /\ r.memory /\ arg[t].path # Null
                  /\ IsNormal(arg[t].path)
                  /\ (IsNormal(d) \/ (Undisturbed /\ ~ noMemory)) =>
                  (r.verdict = 0 <=> Under(arg[t].path, d))
             /\ arg[t].op = "prefixPath" /\ r.path # Null =>
                  IF d = Root THEN r.path = arg[t].path
                  ELSE Names(r.path) = Names(d) \o NamesFromBin(arg[t].path)
  <2>1. arg[t] \in Arguments \cup {Get} /\ d \in Seq(Chars)
    <3>1. arg[t] \in Arguments \cup {Get}
      BY <1>1 DEF CallInv
    <3>2. arg[t].own # Null => arg[t].own \in Seq(Chars)
      BY <3>1, TermuxDirsAssumption DEF Get
    <3> QED
      BY <1>1, <3>1, <3>2 DEF TextInv, DirOf
  <2>2. ASSUME arg[t].op = "isPathUnder", r.memory, arg[t].path # Null,
               IsNormal(arg[t].path), IsNormal(d) \/ (Undisturbed /\ ~ noMemory)
        PROVE  r.verdict = 0 <=> Under(arg[t].path, d)
    <3>1. PICK path \in Seq(Chars) : path = arg[t].path
      BY <2>1, <2>2, TermuxDirsAssumption DEF Get
    <3>2. IsNormal(d)
      BY <1>1, <2>2, UsedIsNormal
    <3>3. r.verdict = Verdict(path, d)
      BY <1>1, <2>2, <3>1 DEF Results, NoAnswer
    <3>4. path # Null /\ path # Empty
      BY <2>2, <3>1 DEF IsNormal, IsAbsolute, Empty
    <3>5. r.verdict = IsPathInDirPath(path, d, TRUE)
      BY <3>3, <3>4 DEF Verdict
    <3> QED
      BY <2>1, <2>2, <3>1, <3>2, <3>5, UnderByNames
  <2>3. ASSUME arg[t].op = "prefixPath", r.path # Null
        PROVE  IF d = Root THEN r.path = arg[t].path
               ELSE Names(r.path) = Names(d) \o NamesFromBin(arg[t].path)
    <3>1. PICK exe \in Seq(Chars) : exe = arg[t].path
      BY <2>1, <2>3, TermuxDirsAssumption DEF Get
    <3>2. arg[t].size \in Nat /\ Len(exe) < arg[t].size /\ IsPrefixed(exe)
      <4>1. NeedsDir(arg[t]) /\ arg[t] \in Arguments
        BY <1>1, <2>1, <2>3 DEF CallInv, Get
      <4> QED
        BY <2>3, <3>1, <4>1, TermuxDirsAssumption DEF NeedsDir
    <3>3. ~ arg[t].size <= Len(exe)
      BY <3>2, LenProperties
    <3>4. r.path = PrefixPath(d, exe, arg[t].size).path
      BY <1>1, <2>3, <3>1 DEF Results, NoAnswer
    <3>5. r.path = IF d = Root THEN exe ELSE PrefixedPath(d, exe)
      BY <2>3, <3>2, <3>3, <3>4 DEF PrefixPath
    <3> QED
      BY <2>1, <3>1, <3>2, <3>5, PrefixByNames
  <2> QED
    BY <2>2, <2>3
<1>2. TermuxDirsInv /\ CallInv /\ TextInv => AnswersRight
  BY <1>1 DEF AnswersRight
<1> QED
  BY Invariance, AlwaysCallInv, AlwaysTextInv, <1>2, PTL
=============================================================================
