-------------------------------- MODULE Logger --------------------------------
(***************************************************************************)
(* Levels, tags and lines of the logger (Logger.c, Logger.h): one thread   *)
(* that logs, others that change the level and the format at any time.     *)
(*                                                                         *)
(* Of texts only the length is kept, and of tags which one it is.  Every   *)
(* logging function is a sequence of comparisons with the current level,   *)
(* its gates, each of which reads the level anew.                          *)
(***************************************************************************)
EXTENDS Integers, Sequences, FiniteSets

CONSTANTS
  Tags, Length,        \* tags, and the length of each
  Empty, InitialTag,   \* "" or NULL, and "Logger"
  PidLengths,          \* decimal digits of getpid()
  MessageLengths,      \* of the formatted message
  Errnos, ErrorLength, \* values of errno, and the length of strerror()
  Null,
  MaxSeen              \* bound: levels in force during one call

(* A line as printMessage() makes it: its tag, whether it ends in a        *)
(* newline, and the errno to be restored after it.                         *)
Lines == [tag: Tags, newline: BOOLEAN, errnoCode: Errnos]

ASSUME LoggerAssumption ==
  /\ Length \in [Tags -> Nat]
  /\ {Empty, InitialTag} \subseteq Tags
  /\ \A t \in Tags : Length[t] = 0 <=> t = Empty
  /\ Length[InitialTag] = 6
  /\ PidLengths \subseteq 1..7           \* the kernel's pid_max is 2^22
  /\ MessageLengths \subseteq Nat
  /\ Errnos \subseteq Nat /\ 0 \in Errnos
  /\ ErrorLength \in [Errnos -> 0..255]
  /\ Null \notin Lines
  /\ MaxSeen \in Nat

VARIABLES
  sCurrentLogLevel, sLogFormatMode,
  sDefaultLogTag,
  sLogTagPrefix,   \* a tag, and whether a dot follows it
  errno,
  pc,              \* "idle", "gates", "print", "impl" or "return"
  call,            \* the call of a logging function; history: errno before
  at,              \* the gate it is at
  printed,         \* the line it prints, and printMessage()'s errnoCode
  seen,            \* history: levels in force since the call began
  together         \* history: tag and prefix have only been set together

settings == <<sCurrentLogLevel, sLogFormatMode>>
tagVars  == <<sDefaultLogTag, sLogTagPrefix, together>>
vars == <<settings, tagVars, errno, pc, call, at, printed, seen>>

LOG_LEVEL__OFF == 0
LOG_LEVEL__NORMAL == 1
LOG_LEVEL__DEBUG == 2
MIN_LOG_LEVEL == LOG_LEVEL__OFF
MAX_LOG_LEVEL == 5
DEFAULT_LOG_LEVEL == LOG_LEVEL__NORMAL
Levels == MIN_LOG_LEVEL..MAX_LOG_LEVEL

LOG_PRIORITY__ERROR == 0
LOG_PRIORITY__INFO == 2
Priorities == LOG_PRIORITY__ERROR..6

LOG_FORMAT_MODE__MESSAGE == 0
LOG_FORMAT_MODE__TAG_AND_MESSAGE == 1
LOG_FORMAT_MODE__PID_PRIORITY_TAG_AND_MESSAGE == 2

Modes == LOG_FORMAT_MODE__MESSAGE..LOG_FORMAT_MODE__PID_PRIORITY_TAG_AND_MESSAGE

LOGGER_TAG_MAX_LENGTH == 23 + 1
LOGGER_FULL_TAG_MAX_LENGTH == 50 + 1
LOGGER_ENTRY_MAX_PAYLOAD == 4068

NoCall == [gates |-> <<>>, sure |-> 0, needs |-> LOG_LEVEL__OFF, code |-> 0,
           keeps |-> FALSE, tag |-> Empty, before |-> 0]

Init ==
  /\ sCurrentLogLevel = DEFAULT_LOG_LEVEL
  /\ sLogFormatMode = LOG_FORMAT_MODE__PID_PRIORITY_TAG_AND_MESSAGE
  /\ sDefaultLogTag = InitialTag
  /\ sLogTagPrefix = [tag |-> Empty, dot |-> FALSE]
  /\ errno = 0
  /\ pc = "idle" /\ call = NoCall /\ at = 1 /\ printed = Null
  /\ seen = {}
  /\ together = TRUE

-----------------------------------------------------------------------------
(* Settings.                                                               *)

IsLogLevelValid(level) == level \in Levels
GetLogLevelFromEnv(value) == IF value < 0 THEN DEFAULT_LOG_LEVEL ELSE value

SetCurrentLogLevel(level) ==
  /\ Cardinality(seen) < MaxSeen
  /\ sCurrentLogLevel' = IF IsLogLevelValid(level) THEN level ELSE sCurrentLogLevel
  /\ seen' = IF pc = "idle" THEN seen ELSE seen \cup {sCurrentLogLevel'}
  /\ UNCHANGED <<sLogFormatMode, tagVars, errno, pc, call, at, printed>>

SetLogFormatMode(mode) ==
  /\ mode \in Modes
  /\ sLogFormatMode' = mode
  /\ UNCHANGED <<sCurrentLogLevel, tagVars, errno, pc, call, at, printed, seen>>

PrefixLength(prefix) == Length[prefix.tag] + (IF prefix.dot THEN 1 ELSE 0)

(* strcpy() into sDefaultLogTagBuffer and sLogTagPrefixBuffer, if there is *)
(* room for the NUL too.                                                   *)
DefaultTagFits(tag) == Length[tag] >= 1 /\ Length[tag] < LOGGER_TAG_MAX_LENGTH
PrefixFits_Tag(prefix) == PrefixLength(prefix) < LOGGER_TAG_MAX_LENGTH   \* mutation
PrefixFits(prefix) == PrefixLength(prefix) < LOGGER_TAG_MAX_LENGTH + 1

StoreDefaultTag(tag) ==
  sDefaultLogTag' = IF DefaultTagFits(tag) THEN tag ELSE sDefaultLogTag
StorePrefix(prefix) ==
  sLogTagPrefix' = IF PrefixFits(prefix) THEN prefix ELSE sLogTagPrefix

SetDefaultLogTag(tag) ==
  /\ pc = "idle"
  /\ StoreDefaultTag(tag)
  /\ together' = FALSE
  /\ UNCHANGED <<settings, sLogTagPrefix, errno, pc, call, at, printed, seen>>

SetLogTagPrefix(tag) ==
  /\ pc = "idle"
  /\ StorePrefix([tag |-> tag, dot |-> FALSE])
  /\ together' = FALSE
  /\ UNCHANGED <<settings, sDefaultLogTag, errno, pc, call, at, printed, seen>>

SetDefaultLogTagAndPrefix(tag) ==
  /\ pc = "idle"
  /\ tag # Empty
  /\ StoreDefaultTag(tag)
  /\ StorePrefix([tag |-> tag, dot |-> TRUE])
  /\ UNCHANGED <<settings, together, errno, pc, call, at, printed, seen>>

-----------------------------------------------------------------------------
(* Calls.  logMessage() is the last gate of each.  A function that returns *)
(* a bool returns TRUE once `sure' gates are passed.  After the first gate *)
(* logStrerrorMessage() builds the text of `code', unless that is 0; the   *)
(* functions that took it from errno put it back (`keeps').                *)

LevelOf_Off(priority) ==    \* mutation: errors, warnings and infos always
  IF priority <= LOG_PRIORITY__INFO THEN LOG_LEVEL__OFF ELSE priority - 1

LevelOf(priority) ==
  IF priority <= LOG_PRIORITY__INFO THEN LOG_LEVEL__NORMAL ELSE priority - 1

ErrorGate == LevelOf(LOG_PRIORITY__ERROR)

(* What the documentation of the functions asks for (Logger.h:71-111,      *)
(* 299-345), which is what `needs' holds.                                  *)
DocumentedLevel == <<1, 1, 1, 2, 3, 4, 5>>
OrNormal(level) == IF level = LOG_LEVEL__OFF THEN LOG_LEVEL__NORMAL ELSE level

Begin(gates, sure, needs, code, keeps) ==
  /\ pc = "idle"
  /\ pc' = "gates" /\ at' = 1
  /\ call' = [gates |-> gates, sure |-> sure, needs |-> needs, code |-> code,
              keeps |-> keeps, tag |-> Empty, before |-> errno]
  /\ seen' = {sCurrentLogLevel}
  /\ UNCHANGED <<settings, tagVars, errno, printed>>

LogMessage(p) == Begin(<<LevelOf(p)>>, 1, DocumentedLevel[p + 1], 0, FALSE)

(* logError() to logVVVerbose() *)
Log(p) == Begin(<<LevelOf(p), LevelOf(p)>>, 2, DocumentedLevel[p + 1], 0, FALSE)

LogErrorForLogLevel(level) ==
  Begin(<<level, ErrorGate>>, 1, OrNormal(level), 0, FALSE)

(* logErrorDebug() to logErrorVVVerbose(), logErrorPrivate() *)
LogErrorAt(level) ==
  /\ level >= LOG_LEVEL__DEBUG
  /\ Begin(<<level, level, ErrorGate>>, 2, level, 0, FALSE)

(* logStrerrorMessage() by itself, and in logStrerror(), has no gate in    *)
(* front; logStrerrorDebug() to logStrerrorPrivate() have one.             *)
Strerror(level, code, keeps) ==
  Begin(IF code = 0 THEN <<level, ErrorGate>> ELSE <<level, ErrorGate, ErrorGate>>,
        1, OrNormal(level), code, keeps)
LogStrerrorMessage(code) == Strerror(LOG_LEVEL__OFF, code, FALSE)
LogStrerror == Strerror(LOG_LEVEL__OFF, errno, TRUE)
LogStrerrorAt(level) == level >= LOG_LEVEL__DEBUG /\ Strerror(level, errno, TRUE)

(* getFullLogTag() puts the prefix before the tag, with snprintf(). *)
IsPrefixed(tag) == tag \notin {Empty, sDefaultLogTag} /\ PrefixLength(sLogTagPrefix) > 0

(* A gate.  What follows it may change errno: safeStrerrorR() and          *)
(* snprintf() after the first, if there is an error to be told, and        *)
(* getFullLogTag() after the last, where the tag passed is chosen as it is *)
(* first used.                                                             *)
PassGate ==
  /\ pc = "gates"
  /\ sCurrentLogLevel >= call.gates[at]
  /\ at' = at + 1
  /\ IF at = Len(call.gates)
     THEN /\ pc' = "print"
          /\ \E tag \in Tags :
               /\ call' = [call EXCEPT !.tag = tag]
               /\ errno' \in IF IsPrefixed(tag) THEN Errnos ELSE {errno}
     ELSE /\ errno' \in IF call.code # 0 /\ at = 1 THEN Errnos ELSE {errno}
          /\ UNCHANGED <<pc, call>>
  /\ UNCHANGED <<settings, tagVars, printed, seen>>

StopAtGate ==
  /\ pc = "gates"
  /\ sCurrentLogLevel < call.gates[at]
  /\ pc' = "return"
  /\ UNCHANGED <<settings, tagVars, errno, call, at, printed, seen>>

-----------------------------------------------------------------------------
(* printMessage().                                                         *)

Least(m, n) == IF m <= n THEN m ELSE n
Padded(n, width) == IF n >= width THEN n ELSE width

(* snprintf() into a buffer. *)
Cut(n, size) == Least(n, size - 1)

FullTagLength(tag) ==
  IF tag = Empty THEN Length[sDefaultLogTag]
  ELSE IF ~ IsPrefixed(tag) THEN Length[tag]
  ELSE Cut(PrefixLength(sLogTagPrefix) + Length[tag], LOGGER_FULL_TAG_MAX_LENGTH)

(* logStrerrorMessage(): the message, cut, ": " and the text of errno. *)
WithStrerror(n) ==
  LET e == ErrorLength[call.code]
  IN  IF call.code # 0 THEN Cut(n, LOGGER_ENTRY_MAX_PAYLOAD - e - 1) + 2 + e ELSE n

(* The sizes of currentMessage[]: LOGGER_FULL_TAG_MAX_LENGTH has no        *)
(* parentheses.  A mutation counts the pid's width, not what is around it. *)
MessageSize_NoBlanks(mode) ==
  IF mode = LOG_FORMAT_MODE__MESSAGE THEN LOGGER_ENTRY_MAX_PAYLOAD - 1
  ELSE IF mode = LOG_FORMAT_MODE__TAG_AND_MESSAGE
       THEN LOGGER_ENTRY_MAX_PAYLOAD - 50 + 1 - 2 - 1
       ELSE LOGGER_ENTRY_MAX_PAYLOAD - 5 - 50 + 1 - 2 - 1

MessageSize(mode) ==
  IF mode = LOG_FORMAT_MODE__MESSAGE THEN LOGGER_ENTRY_MAX_PAYLOAD - 1
  ELSE IF mode = LOG_FORMAT_MODE__TAG_AND_MESSAGE
       THEN LOGGER_ENTRY_MAX_PAYLOAD - 50 + 1 - 2 - 1
       ELSE LOGGER_ENTRY_MAX_PAYLOAD - 5 - 1 - 1 - 1 - 50 + 1 - 2 - 1

(* "%s\n", "%-8s: %s\n" or "%5d %c %-8s: %s\n" *)
LineLength(mode, pid, tag, message) ==
  (IF mode = LOG_FORMAT_MODE__PID_PRIORITY_TAG_AND_MESSAGE
   THEN Padded(pid, 5) + 3 ELSE 0)
  + (IF mode = LOG_FORMAT_MODE__MESSAGE THEN 0 ELSE Padded(tag, 8) + 2)
  + Cut(message, MessageSize(mode)) + 1

(* The line is cut to finalMessage[], and ends in its newline if it was    *)
(* not.  The message is chosen here, where it is used.                     *)
Format ==
  /\ pc = "print"
  /\ pc' = "impl"
  /\ \E n \in MessageLengths, pid \in PidLengths :
       LET line == LineLength(sLogFormatMode, pid, FullTagLength(call.tag), WithStrerror(n))
       IN  printed' = [tag |-> call.tag, newline |-> line < LOGGER_ENTRY_MAX_PAYLOAD,
                       errnoCode |-> errno]
  /\ errno' \in Errnos
  /\ UNCHANGED <<settings, tagVars, call, at, seen>>

(* sLoggerImpl->printMessage(), after which errno is what printMessage()   *)
(* found.                                                                  *)
Impl_Errno ==    \* mutation: what the implementation left
  /\ pc = "impl"
  /\ pc' = "return"
  /\ UNCHANGED <<settings, tagVars, errno, call, at, printed, seen>>

Impl ==
  /\ pc = "impl"
  /\ pc' = "return"
  /\ errno' = printed.errnoCode
  /\ UNCHANGED <<settings, tagVars, call, at, printed, seen>>

Return ==
  /\ pc = "return"
  /\ pc' = "idle"
  /\ errno' = IF call.keeps THEN call.code ELSE errno
  /\ call' = NoCall /\ at' = 1 /\ printed' = Null /\ seen' = {}
  /\ UNCHANGED <<settings, tagVars>>

-----------------------------------------------------------------------------

Settings ==
  \/ \E value \in (MIN_LOG_LEVEL - 1)..(MAX_LOG_LEVEL + 1) :
       SetCurrentLogLevel(value) \/ SetCurrentLogLevel(GetLogLevelFromEnv(value))
  \/ \E mode \in Modes : SetLogFormatMode(mode)
  \/ \E tag \in Tags :
       SetDefaultLogTag(tag) \/ SetLogTagPrefix(tag) \/ SetDefaultLogTagAndPrefix(tag)

Logging ==
  \/ \E p \in Priorities : LogMessage(p) \/ Log(p)
  \/ \E level \in Levels :
       LogErrorForLogLevel(level) \/ LogErrorAt(level) \/ LogStrerrorAt(level)
  \/ \E code \in Errnos : LogStrerrorMessage(code)
  \/ LogStrerror
  \/ PassGate \/ StopAtGate \/ Format \/ Impl \/ Return

Next == Settings \/ Logging

Spec == Init /\ [][Next]_vars

-----------------------------------------------------------------------------
(* Properties.                                                             *)

(* No combination of prefix, tag, pid, message and text of errno makes a   *)
(* line too long for printMessage()'s buffer, which would cost it its      *)
(* newline and run it into the next line, if the tag passed is one that    *)
(* could be the default tag: the buffers of the three formats are worth    *)
(* exactly the longest prefix and tag and a pid of 7 digits                *)
(* (Logger.c:182-216, Logger.h:138-157).                                   *)
LineEndsInNewline ==
  printed # Null /\ Length[printed.tag] < LOGGER_TAG_MAX_LENGTH => printed.newline

(* Though each gate reads the level again, a message is printed only if at *)
(* some moment of the call the level was what its documentation asks for,  *)
(* and left out only if at some moment it was not.  A function that says   *)
(* it has logged has, unless logging was off at some moment                *)
(* (Logger.c:235-399).                                                     *)
LevelDecides ==
  pc = "return" =>
    /\ printed # Null => \E level \in seen : level >= call.needs
    /\ printed = Null => \E level \in seen : level < call.needs
    /\ printed # Null => at > call.sure
    /\ at > call.sure => printed # Null \/ LOG_LEVEL__OFF \in seen

(* setDefaultLogTagAndPrefix() changes both or none: the default tag and   *)
(* the prefix, of which the second is one longer, are refused at the same  *)
(* length (Logger.c:94-129).                                               *)
TagAndPrefixAgree ==
  together => \/ sLogTagPrefix = [tag |-> sDefaultLogTag, dot |-> TRUE]
              \/ /\ sDefaultLogTag = InitialTag
                 /\ sLogTagPrefix = [tag |-> Empty, dot |-> FALSE]

(* errno is the same after a call as before it, whatever strerror_r(),     *)
(* stdio and the implementation have done to it (Logger.c:184-215,         *)
(* 349-399): callers read errno after they have logged.  Two kinds of call *)
(* are excepted: logStrerrorMessage() of a code called by itself, and a    *)
(* call of any but the logStrerror*() functions with a tag that            *)
(* getFullLogTag() puts the prefix before, as its snprintf() (line 271)    *)
(* runs before printMessage() saves errno (line 184).                      *)
ErrnoKept ==
  [][pc = "return" /\ pc' = "idle"
     /\ (call.keeps \/ (call.code = 0 /\ ~ IsPrefixed(call.tag))) =>
       errno' = call.before]_vars

=============================================================================
