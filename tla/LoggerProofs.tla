----------------------------- MODULE LoggerProofs -----------------------------
(***************************************************************************)
(* What Logger promises of tags, lines, levels and errno, for any tags,    *)
(* messages and texts of errno, and any changes of level and format while  *)
(* a message is logged.                                                    *)
(***************************************************************************)
EXTENDS Logger, TLAPS

Prefixes == [tag: Tags, dot: BOOLEAN]
Calls == [gates: Seq(Levels), sure: Nat, needs: Levels, code: Errnos,
          keeps: BOOLEAN, tag: Tags, before: Errnos]

TypeInv ==
  /\ sCurrentLogLevel \in Levels
  /\ sLogFormatMode \in Modes
  /\ sDefaultLogTag \in Tags
  /\ sLogTagPrefix \in Prefixes
  /\ errno \in Errnos
  /\ pc \in {"idle", "gates", "print", "impl", "return"}
  /\ call \in Calls
  /\ at \in Nat
  /\ printed \in Lines \cup {Null}
  /\ seen \subseteq Levels

(* What the buffers hold always fits them. *)
TagsFit ==
  /\ Length[sDefaultLogTag] < LOGGER_TAG_MAX_LENGTH
  /\ PrefixLength(sLogTagPrefix) < LOGGER_TAG_MAX_LENGTH + 1

(* Where errno, or the value it had before the call, is to be found.       *)
ErrnoInv ==
  pc # "idle" =>
    /\ call.keeps => call.code = call.before
    /\ call.code = 0 /\ ~ IsPrefixed(call.tag) =>
         call.before = IF pc = "impl" THEN printed.errnoCode ELSE errno
    /\ pc = "gates" => call.tag = Empty

(* The level documented for a function is that of one of its gates, and no *)
(* gate asks for more; behind those that decide what it returns stand only *)
(* gates that let through everything unless logging is off.                *)
Shape(gates, sure, needs) ==
  /\ gates \in Seq(Levels)
  /\ Len(gates) >= 1
  /\ sure \in 1..Len(gates)
  /\ needs \in Levels
  /\ \A i \in 1..Len(gates) : gates[i] <= needs
  /\ \E i \in 1..Len(gates) : gates[i] = needs
  /\ \A i \in 1..Len(gates) : i > sure => gates[i] = LOG_LEVEL__NORMAL

(* Every gate behind the call was open at some moment, and the one that    *)
(* stopped it was closed.                                                  *)
GateInv ==
  pc # "idle" =>
    /\ Shape(call.gates, call.sure, call.needs)
    /\ sCurrentLogLevel \in seen
    /\ at \in 1..(Len(call.gates) + 1)
    /\ \A i \in 1..Len(call.gates) : i < at => \E level \in seen : level >= call.gates[i]
    /\ pc = "gates" => at <= Len(call.gates) /\ printed = Null
    /\ pc = "print" => at = Len(call.gates) + 1 /\ printed = Null
    /\ pc = "impl" => at = Len(call.gates) + 1 /\ printed # Null
    /\ pc = "return" /\ printed # Null => at = Len(call.gates) + 1
    /\ pc = "return" /\ printed = Null =>
         /\ at <= Len(call.gates)
         /\ \E level \in seen : level < call.gates[at]

IdleInv == pc = "idle" => printed = Null

LoggerInv ==
  /\ TypeInv
  /\ TagsFit
  /\ ErrnoInv
  /\ GateInv
  /\ IdleInv
  /\ LineEndsInNewline
  /\ TagAndPrefixAgree

(* A call of any of the logging functions begins. *)
Started ==
  \E gates \in Seq(Levels), sure \in Nat, needs \in Levels, code \in Errnos,
     keeps \in BOOLEAN :
    /\ Shape(gates, sure, needs)
    /\ keeps => code = errno
    /\ Begin(gates, sure, needs, code, keeps)

-----------------------------------------------------------------------------
(* The functions have the shape GateInv speaks of.                         *)

LEMMA LevelFacts ==
  /\ Levels = 0..5
  /\ LOG_LEVEL__OFF = 0 /\ LOG_LEVEL__NORMAL = 1 /\ ErrorGate = 1
  /\ \A p \in Priorities : LevelOf(p) \in 1..5 /\ DocumentedLevel[p + 1] = LevelOf(p)
<1>1. Levels = 0..5 /\ LOG_LEVEL__OFF = 0 /\ LOG_LEVEL__NORMAL = 1 /\ ErrorGate = 1
  BY DEF Levels, MIN_LOG_LEVEL, MAX_LOG_LEVEL, LOG_LEVEL__OFF, LOG_LEVEL__NORMAL,
     ErrorGate, LevelOf, LOG_PRIORITY__ERROR, LOG_PRIORITY__INFO
<1>2. ASSUME NEW p \in Priorities
      PROVE  LevelOf(p) \in 1..5 /\ DocumentedLevel[p + 1] = LevelOf(p)
  <2>1. p \in {0, 1, 2, 3, 4, 5, 6}
    BY DEF Priorities, LOG_PRIORITY__ERROR
  <2> QED
    BY <2>1 DEF LevelOf, DocumentedLevel, LOG_LEVEL__NORMAL, LOG_PRIORITY__INFO
<1> QED
  BY <1>1, <1>2

LEMMA Shapes ==
  ASSUME NEW l \in Levels
  PROVE  /\ Shape(<<l>>, 1, l)
         /\ Shape(<<l, l>>, 2, l)
         /\ Shape(<<l, 1>>, 1, OrNormal(l))
         /\ l # 0 => Shape(<<l, l, 1>>, 2, l)
         /\ Shape(<<l, 1, 1>>, 1, OrNormal(l))
<1>1. l \in 0..5 /\ Levels = 0..5 /\ LOG_LEVEL__NORMAL = 1
  BY LevelFacts
<1>2. OrNormal(l) \in Levels /\ OrNormal(l) >= l /\ OrNormal(l) >= 1 /\ OrNormal(l) \in {l, 1}
  BY <1>1 DEF OrNormal, LOG_LEVEL__OFF
<1>3. Shape(<<l>>, 1, l)
  BY <1>1 DEF Shape
<1>4. Shape(<<l, l>>, 2, l)
  BY <1>1 DEF Shape
<1>5. Shape(<<l, 1>>, 1, OrNormal(l))
  BY <1>1, <1>2 DEF Shape
<1>6. ASSUME l # 0 PROVE Shape(<<l, l, 1>>, 2, l)
  BY <1>1, <1>6 DEF Shape
<1>7. Shape(<<l, 1, 1>>, 1, OrNormal(l))
  BY <1>1, <1>2 DEF Shape
<1> QED
  BY <1>3, <1>4, <1>5, <1>6, <1>7

LEMMA StartedIf ==
  ASSUME NEW gates, NEW sure, NEW needs, NEW code \in Errnos, NEW keeps \in BOOLEAN,
         Shape(gates, sure, needs), keeps => code = errno,
         Begin(gates, sure, needs, code, keeps)
  PROVE  Started
<1>1. gates \in Seq(Levels) /\ sure \in Nat /\ needs \in Levels
  BY DEF Shape
<1> QED
  BY <1>1 DEF Started

LEMMA StrerrorStarts ==
  ASSUME NEW l \in Levels, NEW code \in Errnos, NEW keeps \in BOOLEAN,
         keeps => code = errno, Strerror(l, code, keeps)
  PROVE  Started
<1>1. ErrorGate = 1
  BY LevelFacts
<1>2. CASE code = 0
  <2>1. Begin(<<l, 1>>, 1, OrNormal(l), code, keeps)
    BY <1>1, <1>2 DEF Strerror
  <2>2. Shape(<<l, 1>>, 1, OrNormal(l))
    BY Shapes
  <2> QED
    BY <2>1, <2>2, StartedIf
<1>3. CASE code # 0
  <2>1. Begin(<<l, 1, 1>>, 1, OrNormal(l), code, keeps)
    BY <1>1, <1>3 DEF Strerror
  <2>2. Shape(<<l, 1, 1>>, 1, OrNormal(l))
    BY Shapes
  <2> QED
    BY <2>1, <2>2, StartedIf
<1> QED
  BY <1>2, <1>3

(* The steps there are.                                                    *)
LEMMA NextCases ==
  ASSUME errno \in Errnos, Next
  PROVE  \/ \E value \in Int : SetCurrentLogLevel(value)
         \/ \E mode \in Modes : SetLogFormatMode(mode)
         \/ \E tag \in Tags : \/ SetDefaultLogTag(tag)
                              \/ SetLogTagPrefix(tag)
                              \/ SetDefaultLogTagAndPrefix(tag)
         \/ Started
         \/ PassGate \/ StopAtGate \/ Format \/ Impl \/ Return
<1>0. 0 \in Errnos /\ FALSE \in BOOLEAN /\ TRUE \in BOOLEAN
  BY LoggerAssumption
<1>1. ASSUME NEW value \in (MIN_LOG_LEVEL - 1)..(MAX_LOG_LEVEL + 1)
      PROVE  value \in Int /\ GetLogLevelFromEnv(value) \in Int
  BY <1>1 DEF MIN_LOG_LEVEL, MAX_LOG_LEVEL, LOG_LEVEL__OFF, GetLogLevelFromEnv,
     DEFAULT_LOG_LEVEL, LOG_LEVEL__NORMAL
<1>2. ASSUME NEW p \in Priorities, LogMessage(p) PROVE Started
  <2>1. LevelOf(p) \in Levels /\ DocumentedLevel[p + 1] = LevelOf(p)
    BY LevelFacts
  <2>2. Begin(<<LevelOf(p)>>, 1, LevelOf(p), 0, FALSE)
    BY <1>2, <2>1 DEF LogMessage
  <2> QED
    BY <2>1, <2>2, <1>0, Shapes, StartedIf
<1>3. ASSUME NEW p \in Priorities, Log(p) PROVE Started
  <2>1. LevelOf(p) \in Levels /\ DocumentedLevel[p + 1] = LevelOf(p)
    BY LevelFacts
  <2>2. Begin(<<LevelOf(p), LevelOf(p)>>, 2, LevelOf(p), 0, FALSE)
    BY <1>3, <2>1 DEF Log
  <2> QED
    BY <2>1, <2>2, <1>0, Shapes, StartedIf
<1>4. ASSUME NEW l \in Levels, LogErrorForLogLevel(l) PROVE Started
  <2>1. Begin(<<l, 1>>, 1, OrNormal(l), 0, FALSE)
    BY <1>4, LevelFacts DEF LogErrorForLogLevel
  <2> QED
    BY <2>1, <1>0, Shapes, StartedIf
<1>5. ASSUME NEW l \in Levels, LogErrorAt(l) PROVE Started
  <2>1. ErrorGate = 1
    BY LevelFacts
  <2>2. Begin(<<l, l, 1>>, 2, l, 0, FALSE)
    BY <1>5, <2>1 DEF LogErrorAt
  <2>3. l # 0
    BY <1>5 DEF LogErrorAt, LOG_LEVEL__DEBUG
  <2> QED
    BY <2>2, <2>3, <1>0, Shapes, StartedIf
<1>6. ASSUME NEW l \in Levels, LogStrerrorAt(l) PROVE Started
  BY <1>6, <1>0, StrerrorStarts DEF LogStrerrorAt
<1>7. LOG_LEVEL__OFF \in Levels
  BY LevelFacts
<1>8. ASSUME NEW code \in Errnos, LogStrerrorMessage(code) PROVE Started
  BY <1>8, <1>7, <1>0, StrerrorStarts DEF LogStrerrorMessage
<1>9. ASSUME LogStrerror PROVE Started
  BY <1>9, <1>7, <1>0, StrerrorStarts DEF LogStrerror
<1>10. CASE Settings
  BY <1>10, <1>1 DEF Settings
<1>11. CASE Logging
  BY <1>11, <1>2, <1>3, <1>4, <1>5, <1>6, <1>8, <1>9 DEF Logging
<1> QED
  BY <1>10, <1>11 DEF Next

-----------------------------------------------------------------------------
(* The initial state.                                                      *)

LEMMA InitInv == Init => LoggerInv
<1> SUFFICES ASSUME Init PROVE LoggerInv
  OBVIOUS
<1> USE LoggerAssumption
<1>1. call \in Calls
  <2>1. <<>> \in Seq(Levels)
    OBVIOUS
  <2> QED
    BY <2>1 DEF Init, NoCall, Calls, LOG_LEVEL__OFF, Levels, MIN_LOG_LEVEL, MAX_LOG_LEVEL
<1>2. TypeInv
  BY <1>1 DEF Init, TypeInv, Levels, MIN_LOG_LEVEL, MAX_LOG_LEVEL, DEFAULT_LOG_LEVEL,
     LOG_LEVEL__OFF, LOG_LEVEL__NORMAL, Modes, LOG_FORMAT_MODE__MESSAGE,
     LOG_FORMAT_MODE__PID_PRIORITY_TAG_AND_MESSAGE, Prefixes
<1>3. TagsFit
  BY DEF Init, TagsFit, PrefixLength, LOGGER_TAG_MAX_LENGTH
<1> QED
  BY <1>2, <1>3 DEF Init, LoggerInv, ErrnoInv, GateInv, IdleInv, LineEndsInNewline,
     TagAndPrefixAgree

-----------------------------------------------------------------------------
(* Tags.                                                                   *)

LEMMA TagsStep == TypeInv /\ TagsFit /\ [Next]_vars =>
  /\ sDefaultLogTag' \in Tags /\ sLogTagPrefix' \in Prefixes
  /\ TagsFit'
<1> SUFFICES ASSUME TypeInv, TagsFit, [Next]_vars
             PROVE  /\ sDefaultLogTag' \in Tags /\ sLogTagPrefix' \in Prefixes
                    /\ TagsFit'
  OBVIOUS
<1> USE LoggerAssumption
<1>1. CASE UNCHANGED <<sDefaultLogTag, sLogTagPrefix>>
  BY <1>1 DEF TypeInv, TagsFit, PrefixLength
<1>2. ASSUME NEW tag \in Tags, StoreDefaultTag(tag)
      PROVE  /\ sDefaultLogTag' \in Tags
             /\ Length[sDefaultLogTag'] < LOGGER_TAG_MAX_LENGTH
  BY <1>2 DEF TypeInv, TagsFit, StoreDefaultTag, DefaultTagFits
<1>3. ASSUME NEW prefix \in Prefixes, StorePrefix(prefix)
      PROVE  /\ sLogTagPrefix' \in Prefixes
             /\ PrefixLength(sLogTagPrefix') < LOGGER_TAG_MAX_LENGTH + 1
  BY <1>3 DEF TypeInv, TagsFit, StorePrefix, PrefixFits
<1>4. ASSUME NEW tag \in Tags, NEW dot \in BOOLEAN
      PROVE  [tag |-> tag, dot |-> dot] \in Prefixes
  BY DEF Prefixes
<1>5. ASSUME NEW tag \in Tags, SetDefaultLogTag(tag)
      PROVE  sDefaultLogTag' \in Tags /\ sLogTagPrefix' \in Prefixes /\ TagsFit'
  BY <1>5, <1>2 DEF SetDefaultLogTag, TypeInv, TagsFit, PrefixLength
<1>6. ASSUME NEW tag \in Tags, SetLogTagPrefix(tag)
      PROVE  sDefaultLogTag' \in Tags /\ sLogTagPrefix' \in Prefixes /\ TagsFit'
  BY <1>6, <1>3, <1>4 DEF SetLogTagPrefix, TypeInv, TagsFit, PrefixLength
<1>7. ASSUME NEW tag \in Tags, SetDefaultLogTagAndPrefix(tag)
      PROVE  sDefaultLogTag' \in Tags /\ sLogTagPrefix' \in Prefixes /\ TagsFit'
  BY <1>7, <1>2, <1>3, <1>4 DEF SetDefaultLogTagAndPrefix, TypeInv, TagsFit, PrefixLength
<1>8. Next => \/ UNCHANGED <<sDefaultLogTag, sLogTagPrefix>>
              \/ \E tag \in Tags : \/ SetDefaultLogTag(tag)
                                   \/ SetLogTagPrefix(tag)
                                   \/ SetDefaultLogTagAndPrefix(tag)
  <2> SUFFICES ASSUME Next
               PROVE  \/ UNCHANGED <<sDefaultLogTag, sLogTagPrefix>>
                      \/ \E tag \in Tags : \/ SetDefaultLogTag(tag)
                                           \/ SetLogTagPrefix(tag)
                                           \/ SetDefaultLogTagAndPrefix(tag)
    OBVIOUS
  <2>1. errno \in Errnos
    BY DEF TypeInv
  <2> QED
    BY <2>1, NextCases DEF SetCurrentLogLevel, SetLogFormatMode, Started, Begin, PassGate,
       StopAtGate, Format, Impl, Return, tagVars
<1> QED
  BY <1>1, <1>5, <1>6, <1>7, <1>8 DEF vars, tagVars

(* Both are refused or neither is: the prefix is one longer, and so is its *)
(* buffer.                                                                 *)
LEMMA AgreeStep == TypeInv /\ TagAndPrefixAgree /\ [Next]_vars => TagAndPrefixAgree'
<1> SUFFICES ASSUME TypeInv, TagAndPrefixAgree, [Next]_vars PROVE TagAndPrefixAgree'
  OBVIOUS
<1> USE LoggerAssumption
<1>1. CASE UNCHANGED tagVars
  BY <1>1 DEF TagAndPrefixAgree, tagVars
<1>2. ASSUME NEW tag \in Tags, SetDefaultLogTag(tag) \/ SetLogTagPrefix(tag)
      PROVE  TagAndPrefixAgree'
  BY <1>2 DEF SetDefaultLogTag, SetLogTagPrefix, TagAndPrefixAgree
<1>3. ASSUME NEW tag \in Tags, SetDefaultLogTagAndPrefix(tag) PROVE TagAndPrefixAgree'
  <2> DEFINE prefix == [tag |-> tag, dot |-> TRUE]
  <2>1. Length[tag] \in Nat /\ Length[tag] # 0
    BY <1>3 DEF SetDefaultLogTagAndPrefix
  <2>2. PrefixLength(prefix) = Length[tag] + 1
    BY DEF PrefixLength
  <2>3. DefaultTagFits(tag) <=> PrefixFits(prefix)
    BY <2>1, <2>2 DEF DefaultTagFits, PrefixFits, LOGGER_TAG_MAX_LENGTH
  <2>4. /\ sDefaultLogTag' = IF DefaultTagFits(tag) THEN tag ELSE sDefaultLogTag
        /\ sLogTagPrefix' = IF PrefixFits(prefix) THEN prefix ELSE sLogTagPrefix
        /\ together' = together
    BY <1>3 DEF SetDefaultLogTagAndPrefix, StoreDefaultTag, StorePrefix
  <2>5. CASE DefaultTagFits(tag)
    BY <2>3, <2>4, <2>5 DEF TagAndPrefixAgree
  <2>6. CASE ~ DefaultTagFits(tag)
    BY <2>3, <2>4, <2>6 DEF TagAndPrefixAgree
  <2> QED
    BY <2>5, <2>6
<1>4. Next => \/ UNCHANGED tagVars
              \/ \E tag \in Tags : \/ SetDefaultLogTag(tag) \/ SetLogTagPrefix(tag)
                                   \/ SetDefaultLogTagAndPrefix(tag)
  <2> SUFFICES ASSUME Next
               PROVE  \/ UNCHANGED tagVars
                      \/ \E tag \in Tags : \/ SetDefaultLogTag(tag) \/ SetLogTagPrefix(tag)
                                           \/ SetDefaultLogTagAndPrefix(tag)
    OBVIOUS
  <2>1. errno \in Errnos
    BY DEF TypeInv
  <2> QED
    BY <2>1, NextCases DEF SetCurrentLogLevel, SetLogFormatMode, Started, Begin, PassGate,
       StopAtGate, Format, Impl, Return
<1> QED
  BY <1>1, <1>2, <1>3, <1>4 DEF vars

-----------------------------------------------------------------------------
(* Lines.                                                                  *)

LEMMA CutBound ==
  ASSUME NEW n \in Nat, NEW size \in Nat \ {0}
  PROVE  Cut(n, size) \in Nat /\ Cut(n, size) <= size - 1 /\ Cut(n, size) <= n
  BY DEF Cut, Least

(* Prefix and tag are 24 and 23 at most, and the tag's buffer cuts no more *)
(* than that.                                                              *)
LEMMA FullTagBound ==
  ASSUME TypeInv, TagsFit, NEW tag \in Tags
  PROVE  /\ FullTagLength(tag) \in Nat
         /\ Length[tag] < LOGGER_TAG_MAX_LENGTH => FullTagLength(tag) <= 47
<1> DEFINE p == PrefixLength(sLogTagPrefix)
<1>1. Length[tag] \in Nat /\ Length[sDefaultLogTag] \in Nat /\ Length[sDefaultLogTag] <= 23
  BY LoggerAssumption DEF TypeInv, TagsFit, LOGGER_TAG_MAX_LENGTH
<1>2. p \in Nat /\ p <= 24
  BY LoggerAssumption DEF TypeInv, TagsFit, LOGGER_TAG_MAX_LENGTH, PrefixLength, Prefixes
<1>3. /\ Cut(p + Length[tag], LOGGER_FULL_TAG_MAX_LENGTH) \in Nat
      /\ Cut(p + Length[tag], LOGGER_FULL_TAG_MAX_LENGTH) <= p + Length[tag]
  <2>1. p + Length[tag] \in Nat /\ LOGGER_FULL_TAG_MAX_LENGTH \in Nat \ {0}
    BY <1>1, <1>2 DEF LOGGER_FULL_TAG_MAX_LENGTH
  <2> HIDE DEF p
  <2> QED
    BY <2>1, CutBound
<1> QED
  BY <1>1, <1>2, <1>3 DEF FullTagLength, LOGGER_TAG_MAX_LENGTH

LEMMA WithStrerrorType ==
  ASSUME TypeInv, NEW n \in Nat
  PROVE  WithStrerror(n) \in Nat
<1> DEFINE e == ErrorLength[call.code]
<1>1. e \in 0..255
  <2>1. call.code \in Errnos
    BY DEF TypeInv, Calls
  <2>2. ErrorLength \in [Errnos -> 0..255]
    BY LoggerAssumption
  <2> QED
    BY <2>1, <2>2
<1>2. Cut(n, LOGGER_ENTRY_MAX_PAYLOAD - e - 1) \in Nat
  <2>1. LOGGER_ENTRY_MAX_PAYLOAD - e - 1 \in Nat \ {0}
    BY <1>1 DEF LOGGER_ENTRY_MAX_PAYLOAD
  <2> HIDE DEF e
  <2> QED
    BY <2>1, CutBound
<1> QED
  BY <1>1, <1>2 DEF WithStrerror

LEMMA LineBound ==
  ASSUME NEW mode \in Modes, NEW pid \in 1..7, NEW tag \in Nat, NEW message \in Nat,
         tag <= 47
  PROVE  LineLength(mode, pid, tag, message) < LOGGER_ENTRY_MAX_PAYLOAD
<1>1. mode \in {0, 1, 2}
  BY DEF Modes, LOG_FORMAT_MODE__MESSAGE, LOG_FORMAT_MODE__PID_PRIORITY_TAG_AND_MESSAGE
<1>2. Padded(pid, 5) <= 7 /\ Padded(tag, 8) <= 47 /\ Padded(pid, 5) \in Nat /\ Padded(tag, 8) \in Nat
  BY DEF Padded
<1>3. MessageSize(mode) = IF mode = 0 THEN 4067 ELSE IF mode = 1 THEN 4016 ELSE 4008
  BY <1>1 DEF MessageSize, LOGGER_ENTRY_MAX_PAYLOAD, LOG_FORMAT_MODE__MESSAGE,
     LOG_FORMAT_MODE__TAG_AND_MESSAGE
<1>4. MessageSize(mode) \in Nat \ {0}
  BY <1>3
<1>5. Cut(message, MessageSize(mode)) \in Nat /\ Cut(message, MessageSize(mode)) <= MessageSize(mode) - 1
  BY <1>4, CutBound
<1>6. CASE mode = 0
  BY <1>3, <1>5, <1>6 DEF LineLength, LOG_FORMAT_MODE__MESSAGE,
     LOG_FORMAT_MODE__PID_PRIORITY_TAG_AND_MESSAGE, LOGGER_ENTRY_MAX_PAYLOAD
<1>7. CASE mode = 1
  BY <1>2, <1>3, <1>5, <1>7 DEF LineLength, LOG_FORMAT_MODE__MESSAGE,
     LOG_FORMAT_MODE__PID_PRIORITY_TAG_AND_MESSAGE, LOGGER_ENTRY_MAX_PAYLOAD
<1>8. CASE mode = 2
  BY <1>2, <1>3, <1>5, <1>8 DEF LineLength, LOG_FORMAT_MODE__MESSAGE,
     LOG_FORMAT_MODE__PID_PRIORITY_TAG_AND_MESSAGE, LOGGER_ENTRY_MAX_PAYLOAD
<1> QED
  BY <1>1, <1>6, <1>7, <1>8

LEMMA FormatLine ==
  ASSUME TypeInv, TagsFit, Format
  PROVE  printed' \in Lines /\ printed' # Null /\ printed'.errnoCode = errno /\ LineEndsInNewline'
<1> DEFINE Line(tag, n, pid) ==
      LineLength(sLogFormatMode, pid, FullTagLength(tag), WithStrerror(n))
<1>0. PICK tag \in Tags : tag = call.tag
  BY DEF TypeInv, Calls
<1>1. PICK n \in MessageLengths, pid \in PidLengths :
        printed' = [tag |-> tag, newline |-> Line(tag, n, pid) < LOGGER_ENTRY_MAX_PAYLOAD,
                    errnoCode |-> errno]
  BY <1>0 DEF Format
<1>2. printed' \in Lines /\ printed'.errnoCode = errno
  BY <1>1 DEF Lines, TypeInv
<1>3. printed' # Null
  BY <1>2, LoggerAssumption
<1>4. n \in Nat /\ pid \in 1..7 /\ sLogFormatMode \in Modes
  BY LoggerAssumption DEF TypeInv
<1>5. ASSUME Length[tag] < LOGGER_TAG_MAX_LENGTH
      PROVE  Line(tag, n, pid) < LOGGER_ENTRY_MAX_PAYLOAD
  BY <1>4, <1>5, FullTagBound, WithStrerrorType, LineBound
<1>6. LineEndsInNewline'
  BY <1>1, <1>5 DEF LineEndsInNewline
<1> QED
  BY <1>2, <1>3, <1>6

-----------------------------------------------------------------------------
(* Types.                                                                  *)

LEMMA TypeStep == TypeInv /\ TagsFit /\ IdleInv /\ GateInv /\ [Next]_vars => TypeInv'
<1> SUFFICES ASSUME TypeInv, TagsFit, IdleInv, GateInv, [Next]_vars PROVE TypeInv'
  OBVIOUS
<1> USE LoggerAssumption
<1>1. sDefaultLogTag' \in Tags /\ sLogTagPrefix' \in Prefixes
  BY TagsStep
<1>2. CASE UNCHANGED vars
  BY <1>2 DEF TypeInv, vars, settings, tagVars
<1>3. ASSUME NEW value \in Int, SetCurrentLogLevel(value) PROVE TypeInv'
  <2>1. sCurrentLogLevel' \in Levels
    BY <1>3 DEF SetCurrentLogLevel, IsLogLevelValid, TypeInv
  <2> QED
    BY <1>1, <1>3, <2>1 DEF SetCurrentLogLevel, TypeInv
<1>4. ASSUME NEW mode \in Modes, SetLogFormatMode(mode) PROVE TypeInv'
  BY <1>1, <1>4 DEF SetLogFormatMode, TypeInv
<1>5. ASSUME NEW tag \in Tags,
             SetDefaultLogTag(tag) \/ SetLogTagPrefix(tag) \/ SetDefaultLogTagAndPrefix(tag)
      PROVE  TypeInv'
  BY <1>1, <1>5 DEF SetDefaultLogTag, SetLogTagPrefix, SetDefaultLogTagAndPrefix, TypeInv,
     settings
<1>6. CASE Started
  <2>1. PICK gates \in Seq(Levels), sure \in Nat, needs \in Levels, code \in Errnos,
             keeps \in BOOLEAN : Begin(gates, sure, needs, code, keeps)
    BY <1>6 DEF Started
  <2>2. call' \in Calls
    BY <2>1 DEF Begin, Calls, TypeInv
  <2>3. seen' \subseteq Levels /\ at' \in Nat /\ pc' = "gates"
    BY <2>1 DEF Begin, TypeInv
  <2> QED
    BY <1>1, <2>1, <2>2, <2>3 DEF Begin, TypeInv, settings
<1>7. CASE PassGate
  <2>1. call' \in Calls
    <3>1. call' = call \/ \E tag \in Tags : call' = [call EXCEPT !.tag = tag]
      BY <1>7 DEF PassGate
    <3> QED
      BY <3>1 DEF Calls, TypeInv
  <2> QED
    BY <1>1, <1>7, <2>1 DEF PassGate, TypeInv, settings
<1>8. CASE StopAtGate
  BY <1>1, <1>8 DEF StopAtGate, TypeInv, settings
<1>9. CASE Format
  <2>1. printed' \in Lines
    BY <1>9, FormatLine
  <2> QED
    BY <1>1, <1>9, <2>1 DEF Format, TypeInv, settings
<1>10. CASE Impl
  <2>1. printed.errnoCode \in Errnos
    BY <1>10 DEF Impl, GateInv, TypeInv, Lines
  <2> QED
    BY <1>1, <1>10, <2>1 DEF Impl, TypeInv, settings
<1>11. CASE Return
  <2>1. call' \in Calls
    <3>1. <<>> \in Seq(Levels) /\ LOG_LEVEL__OFF \in Levels
      BY LevelFacts
    <3> QED
      BY <1>11, <3>1 DEF Return, NoCall, Calls
  <2>2. errno' \in Errnos
    BY <1>11 DEF Return, TypeInv, Calls
  <2> QED
    BY <1>1, <1>11, <2>1, <2>2 DEF Return, TypeInv, settings
<1>12. errno \in Errnos
  BY DEF TypeInv
<1> QED
  BY <1>2, <1>3, <1>4, <1>5, <1>6, <1>7, <1>8, <1>9, <1>10, <1>11, <1>12, NextCases

-----------------------------------------------------------------------------
(* errno.                                                                  *)

LEMMA ErrnoStep == TypeInv /\ TagsFit /\ ErrnoInv /\ GateInv /\ [Next]_vars => ErrnoInv'
<1> SUFFICES ASSUME TypeInv, TagsFit, ErrnoInv, GateInv, [Next]_vars PROVE ErrnoInv'
  OBVIOUS
<1>0. ASSUME UNCHANGED tagVars, NEW tag PROVE IsPrefixed(tag)' = IsPrefixed(tag)
  BY <1>0 DEF IsPrefixed, PrefixLength, tagVars
<1>1. CASE UNCHANGED <<errno, pc, call, printed>> /\ (pc = "idle" \/ UNCHANGED tagVars)
  <2>1. UNCHANGED tagVars => IsPrefixed(call.tag)' = IsPrefixed(call.tag)
    BY <1>1 DEF IsPrefixed, PrefixLength, tagVars
  <2> QED
    BY <1>1, <2>1 DEF ErrnoInv
<1>2. CASE Started
  BY <1>2 DEF Started, Begin, ErrnoInv
<1>3. CASE PassGate
  <2>1. pc = "gates" /\ UNCHANGED <<tagVars, printed>> /\ ~ IsPrefixed(call.tag)
    BY <1>3 DEF PassGate, ErrnoInv, IsPrefixed
  <2>2. CASE at = Len(call.gates)
    <3>1. PICK tag \in Tags : /\ pc' = "print" /\ call' = [call EXCEPT !.tag = tag]
                              /\ errno' \in IF IsPrefixed(tag) THEN Errnos ELSE {errno}
      BY <1>3, <2>2 DEF PassGate
    <3>2. /\ call'.tag = tag /\ call'.code = call.code /\ call'.keeps = call.keeps
          /\ call'.before = call.before
      BY <3>1 DEF TypeInv, Calls
    <3>3. IsPrefixed(call.tag)' = IsPrefixed(tag)
      BY <2>1, <3>2 DEF IsPrefixed, PrefixLength, tagVars
    <3> QED
      BY <2>1, <3>1, <3>2, <3>3 DEF ErrnoInv
  <2>3. CASE at # Len(call.gates)
    <3>1. UNCHANGED <<pc, call>> /\ (call.code = 0 => errno' = errno)
      BY <1>3, <2>3 DEF PassGate
    <3> QED
      BY <2>1, <3>1 DEF ErrnoInv
  <2> QED
    BY <2>2, <2>3
<1>4. CASE StopAtGate
  <2>1. pc = "gates" /\ UNCHANGED <<tagVars, errno, call>> /\ pc' = "return"
    BY <1>4 DEF StopAtGate
  <2> QED
    BY <2>1 DEF ErrnoInv, IsPrefixed, PrefixLength, tagVars
<1>5. CASE Format
  <2>1. printed'.errnoCode = errno
    BY <1>5, FormatLine
  <2>2. IsPrefixed(call.tag)' = IsPrefixed(call.tag)
    BY <1>5 DEF Format, IsPrefixed, PrefixLength, tagVars
  <2> QED
    BY <1>5, <2>1, <2>2 DEF Format, ErrnoInv
<1>6. CASE Impl
  <2>1. IsPrefixed(call.tag)' = IsPrefixed(call.tag)
    BY <1>6 DEF Impl, IsPrefixed, PrefixLength, tagVars
  <2> QED
    BY <1>6, <2>1 DEF Impl, ErrnoInv
<1>7. CASE Return
  BY <1>7 DEF Return, ErrnoInv
<1>8. errno \in Errnos
  BY DEF TypeInv
<1>9. Next => \/ /\ UNCHANGED <<errno, pc, call, printed>>
                 /\ pc = "idle" \/ UNCHANGED tagVars
              \/ Started \/ PassGate \/ StopAtGate \/ Format \/ Impl \/ Return
  BY <1>8, NextCases DEF SetCurrentLogLevel, SetLogFormatMode, SetDefaultLogTag,
     SetLogTagPrefix, SetDefaultLogTagAndPrefix
<1> QED
  BY <1>1, <1>2, <1>3, <1>4, <1>5, <1>6, <1>7, <1>9 DEF vars

-----------------------------------------------------------------------------
(* Gates.                                                                  *)

LEMMA GateStep == TypeInv /\ TagsFit /\ GateInv /\ IdleInv /\ [Next]_vars => GateInv' /\ IdleInv'
<1> SUFFICES ASSUME TypeInv, TagsFit, GateInv, IdleInv, [Next]_vars PROVE GateInv' /\ IdleInv'
  OBVIOUS
<1>1. CASE UNCHANGED <<sCurrentLogLevel, pc, call, at, printed, seen>>
  BY <1>1 DEF GateInv, IdleInv, Shape
<1>2. ASSUME NEW value \in Int, SetCurrentLogLevel(value) PROVE GateInv' /\ IdleInv'
  <2>1. CASE pc = "idle"
    BY <1>2, <2>1 DEF SetCurrentLogLevel, GateInv, IdleInv
  <2>2. CASE pc # "idle"
    <3>1. /\ seen \subseteq seen' /\ sCurrentLogLevel' \in seen'
          /\ UNCHANGED <<pc, call, at, printed>>
      BY <1>2, <2>2 DEF SetCurrentLogLevel
    <3> QED
      BY <2>2, <3>1 DEF GateInv, IdleInv
  <2> QED
    BY <2>1, <2>2
<1>3. CASE Started
  <2>1. PICK gates \in Seq(Levels), sure \in Nat, needs \in Levels, code \in Errnos,
             keeps \in BOOLEAN :
               Shape(gates, sure, needs) /\ Begin(gates, sure, needs, code, keeps)
    BY <1>3 DEF Started
  <2>2. /\ call'.gates = gates /\ call'.sure = sure /\ call'.needs = needs
        /\ pc' = "gates" /\ at' = 1 /\ printed' = Null
        /\ sCurrentLogLevel' \in seen'
    BY <2>1 DEF Begin, IdleInv, settings
  <2>3. Len(gates) \in Nat /\ Len(gates) >= 1
    BY <2>1 DEF Shape
  <2> QED
    BY <2>1, <2>2, <2>3 DEF GateInv, IdleInv
<1>4. CASE PassGate
  <2>1. /\ pc = "gates" /\ at' = at + 1 /\ seen' = seen
        /\ call'.gates = call.gates /\ call'.sure = call.sure /\ call'.needs = call.needs
        /\ sCurrentLogLevel' = sCurrentLogLevel /\ printed' = printed
        /\ pc' = IF at = Len(call.gates) THEN "print" ELSE pc
    BY <1>4 DEF PassGate, settings, TypeInv, Calls
  <2>2. Len(call.gates) \in Nat /\ at \in 1..Len(call.gates)
    BY <2>1 DEF GateInv, Shape
  <2>3. \E level \in seen : level >= call.gates[at]
    BY <1>4 DEF PassGate, GateInv
  <2>4. ASSUME NEW i \in 1..Len(call.gates), i < at + 1
        PROVE  \E level \in seen : level >= call.gates[i]
    BY <2>1, <2>2, <2>3, <2>4 DEF GateInv
  <2> QED
    BY <2>1, <2>2, <2>4 DEF GateInv, IdleInv
<1>5. CASE StopAtGate
  <2>1. \E level \in seen : level < call.gates[at]
    BY <1>5 DEF StopAtGate, GateInv
  <2> QED
    BY <1>5, <2>1 DEF StopAtGate, GateInv, IdleInv, settings
<1>6. CASE Format
  <2>1. printed' # Null
    BY <1>6, FormatLine
  <2> QED
    BY <1>6, <2>1 DEF Format, GateInv, IdleInv, settings
<1>7. CASE Impl
  BY <1>7 DEF Impl, GateInv, IdleInv, settings
<1>8. CASE Return
  BY <1>8 DEF Return, GateInv, IdleInv
<1>9. errno \in Errnos
  BY DEF TypeInv
<1>10. Next => \/ UNCHANGED <<sCurrentLogLevel, pc, call, at, printed, seen>>
               \/ \E value \in Int : SetCurrentLogLevel(value)
               \/ Started \/ PassGate \/ StopAtGate \/ Format \/ Impl \/ Return
  BY <1>9, NextCases DEF SetLogFormatMode, SetDefaultLogTag,
     SetLogTagPrefix, SetDefaultLogTagAndPrefix, settings
<1> QED
  BY <1>1, <1>2, <1>3, <1>4, <1>5, <1>6, <1>7, <1>8, <1>10 DEF vars, settings

LEMMA LineStep == TypeInv /\ TagsFit /\ LineEndsInNewline /\ [Next]_vars => LineEndsInNewline'
<1> SUFFICES ASSUME TypeInv, TagsFit, LineEndsInNewline, [Next]_vars PROVE LineEndsInNewline'
  OBVIOUS
<1>1. CASE printed' = printed \/ printed' = Null
  BY <1>1 DEF LineEndsInNewline
<1>2. CASE Format
  BY <1>2, FormatLine
<1>3. errno \in Errnos
  BY DEF TypeInv
<1>4. Next => printed' = printed \/ printed' = Null \/ Format
  BY <1>3, NextCases DEF SetCurrentLogLevel, SetLogFormatMode, SetDefaultLogTag,
     SetLogTagPrefix, SetDefaultLogTagAndPrefix, Started, Begin, PassGate, StopAtGate,
     Impl, Return
<1> QED
  BY <1>1, <1>2, <1>4 DEF vars

-----------------------------------------------------------------------------

(* The invariant of the logger holds in every run. *)
THEOREM Invariance == Spec => []LoggerInv
<1>1. LoggerInv /\ [Next]_vars => LoggerInv'
  BY TagsStep, AgreeStep, TypeStep, ErrnoStep, GateStep, LineStep DEF LoggerInv
<1> QED
  BY InitInv, <1>1, PTL DEF Spec

(* For any texts and any format, lines of tags that could be the default   *)
(* tag end in a newline (Logger.c:182-216).                                *)
THEOREM LinesEnd == Spec => []LineEndsInNewline
<1>1. LoggerInv => LineEndsInNewline
  BY DEF LoggerInv
<1> QED
  BY Invariance, <1>1, PTL

(* The default tag and the prefix set with it stay together                *)
(* (Logger.c:94-129).                                                      *)
THEOREM TagsTogether == Spec => []TagAndPrefixAgree
<1>1. LoggerInv => TagAndPrefixAgree
  BY DEF LoggerInv
<1> QED
  BY Invariance, <1>1, PTL

(* Whatever other threads do to the level, it decides (Logger.c:235-399).  *)
THEOREM LevelIsObeyed == Spec => []LevelDecides
<1>1. LoggerInv => LevelDecides
  <2> SUFFICES ASSUME LoggerInv, pc = "return"
               PROVE  /\ printed # Null => \E level \in seen : level >= call.needs
                      /\ printed = Null => \E level \in seen : level < call.needs
                      /\ printed # Null => at > call.sure
                      /\ at > call.sure => printed # Null \/ LOG_LEVEL__OFF \in seen
    BY DEF LevelDecides
  <2> DEFINE gates == call.gates
  <2>1. Shape(gates, call.sure, call.needs)
    BY DEF LoggerInv, GateInv
  <2>2. seen \subseteq 0..5 /\ LOG_LEVEL__OFF = 0 /\ LOG_LEVEL__NORMAL = 1 /\ Levels = 0..5
    BY LevelFacts DEF LoggerInv, TypeInv
  <2>3. /\ Len(gates) \in Nat /\ call.sure \in 1..Len(gates) /\ call.needs \in 0..5
        /\ \A i \in 1..Len(gates) : gates[i] \in 0..5
    BY <2>1, <2>2 DEF Shape
  <2>4. ASSUME printed # Null
        PROVE  at > call.sure /\ \E level \in seen : level >= call.needs
    <3>1. at = Len(gates) + 1
      BY <2>4 DEF LoggerInv, GateInv
    <3>2. PICK i \in 1..Len(gates) : gates[i] = call.needs
      BY <2>1 DEF Shape
    <3>3. i < at
      BY <2>3, <3>1
    <3>4. \E level \in seen : level >= gates[i]
      BY <3>3 DEF LoggerInv, GateInv
    <3> QED
      BY <2>3, <3>1, <3>2, <3>4
  <2>5. ASSUME printed = Null
        PROVE  /\ \E level \in seen : level < call.needs
               /\ at > call.sure => LOG_LEVEL__OFF \in seen
    <3>1. at \in 1..Len(gates)
      BY <2>3, <2>5 DEF LoggerInv, GateInv
    <3>2. PICK level \in seen : level < gates[at]
      BY <2>5 DEF LoggerInv, GateInv
    <3>3. level \in 0..5 /\ gates[at] \in 0..5 /\ gates[at] <= call.needs
      BY <2>1, <2>2, <2>3, <3>1 DEF Shape
    <3>4. level < call.needs
      BY <2>3, <3>2, <3>3
    <3>5. at > call.sure => gates[at] = 1
      BY <2>1, <2>2, <3>1 DEF Shape
    <3>6. gates[at] = 1 => level = 0
      BY <3>2, <3>3
    <3> QED
      BY <2>2, <3>4, <3>5, <3>6
  <2> QED
    BY <2>4, <2>5
<1> QED
  BY Invariance, <1>1, PTL

(* Logging leaves errno as it was (Logger.c:184-215, 349-399), but for the *)
(* two kinds of call that ErrnoKept names.                                 *)
THEOREM ErrnoIsKept == Spec => ErrnoKept
<1>1. LoggerInv /\ [Next]_vars =>
        [pc = "return" /\ pc' = "idle"
           /\ (call.keeps \/ (call.code = 0 /\ ~ IsPrefixed(call.tag))) =>
           errno' = call.before]_vars
  <2> SUFFICES ASSUME LoggerInv, Next, pc = "return", pc' = "idle",
                      call.keeps \/ (call.code = 0 /\ ~ IsPrefixed(call.tag))
               PROVE  errno' = call.before
    OBVIOUS
  <2>1. errno \in Errnos /\ call.keeps \in BOOLEAN
    BY DEF LoggerInv, TypeInv, Calls
  <2>2. Return
    BY <2>1, NextCases DEF SetCurrentLogLevel, SetLogFormatMode, SetDefaultLogTag,
       SetLogTagPrefix, SetDefaultLogTagAndPrefix, Started, Begin, PassGate, StopAtGate,
       Format, Impl
  <2> QED
    BY <2>2 DEF Return, LoggerInv, ErrnoInv
<1> QED
  BY Invariance, <1>1, PTL DEF Spec, ErrnoKept
=============================================================================
