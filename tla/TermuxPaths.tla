----------------------------- MODULE TermuxPaths -----------------------------
(***************************************************************************)
(* The functions of TermuxFile.c and UnixFileUtils.c that compare, convert *)
(* and prefix paths.  What they do is a matter of characters and lengths:  *)
(* a path is a sequence of characters, and its length is the number of     *)
(* bytes it needs, less the NUL.                                           *)
(***************************************************************************)
EXTENDS Integers, SequencesExt

CONSTANTS Chars, Null

ASSUME TermuxPathsAssumption ==
  {"/", "b", "i", "n", "u", "s", "r", "d", "a", "t"} \subseteq Chars /\ Null \notin Seq(Chars)

Root       == <<"/">>
BinDir     == <<"/", "b", "i", "n">>
UsrBinDir  == <<"/", "u", "s", "r">> \o BinDir
LegacyRoot == <<"/", "d", "a", "t", "a", "/", "d", "a", "t", "a", "/">>

IsAbsolute(p) == p # <<>> /\ p[1] = "/"
StartsWith(p, q) == p # <<>> /\ q # <<>> /\ IsPrefix(q, p)

-----------------------------------------------------------------------------
(* isPathInDirPath(): 0 when path is in dir, else 1. *)

DirSubPath_Bare(dir) == dir       \* mutation: no '/' is appended
DirSubPath(dir) == IF dir = Root THEN Root ELSE Append(dir, "/")

IsPathInDirPath(path, dir, ensureUnder) ==
  IF /\ IsAbsolute(path) /\ IsAbsolute(dir)
     /\ StartsWith(path, DirSubPath(dir))
     /\ ensureUnder => path # DirSubPath(dir)
  THEN 0 ELSE 1

-----------------------------------------------------------------------------
(* termuxApp_dataDir_convertToLegacyPath() *)

LastSeparator(p) == Max({k \in DOMAIN p : p[k] = "/"})
Basename(p) == SubSeq(p, LastSeparator(p) + 1, Len(p))

ConvertToLegacyPath(p, size) ==
  IF \/ ~ IsAbsolute(p)
     \/ LastSeparator(p) = 1 \/ Basename(p) = <<>>
     \/ size <= Len(LegacyRoot) + Len(Basename(p))
  THEN Null
  ELSE LegacyRoot \o Basename(p)

-----------------------------------------------------------------------------
(* termuxPrefixPath().  exe is prefixed when it is one of two directories  *)
(* or its first "/bin/" is at its start or after four bytes.               *)

BinSlash == Append(BinDir, "/")
BinMatches(exe) == {k \in 1..(Len(exe) - 4) : SubSeq(exe, k, k + 4) = BinSlash}
IsFirstBin(exe, k) == k \in BinMatches(exe) /\ \A j \in BinMatches(exe) : k <= j
BinMatchIndex(exe) == CHOOSE k \in BinMatches(exe) : IsFirstBin(exe, k)

IsBinDir(exe) == exe \in {BinDir, UsrBinDir}
IsPrefixed(exe) ==
  IsAbsolute(exe) /\ (IsBinDir(exe) \/ \E k \in {1, 5} : IsFirstBin(exe, k))

TermuxBinPath(prefix, exe) == prefix \o (IF IsBinDir(exe) THEN BinDir ELSE BinSlash)

\* mutation: the copy starts at the '/' after "bin"
AfterBin_Slash(exe) == IF IsBinDir(exe) THEN <<>>
                       ELSE SubSeq(exe, BinMatchIndex(exe) + 4, Len(exe))

AfterBin(exe) == IF IsBinDir(exe) THEN <<>>
                 ELSE SubSeq(exe, BinMatchIndex(exe) + 5, Len(exe))

PrefixedPath(prefix, exe) == TermuxBinPath(prefix, exe) \o AfterBin(exe)

(* What is returned, and how many bytes of the buffer have been written to *)
(* by then: termuxBinPath goes there before the length is compared.        *)
PrefixPath(prefix, exe, size) ==
  IF size <= Len(exe)
  THEN [path |-> Null, written |-> 0]
  ELSE IF ~ IsPrefixed(exe) \/ prefix = Root
  THEN [path |-> exe, written |-> Len(exe) + 1]
  ELSE IF ~ IsBinDir(exe) /\ size <= Len(PrefixedPath(prefix, exe))
  THEN [path |-> Null, written |-> Len(TermuxBinPath(prefix, exe)) + 1]
  ELSE [path |-> PrefixedPath(prefix, exe),
        written |-> Len(PrefixedPath(prefix, exe)) + 1]

-----------------------------------------------------------------------------
(* What the properties compare them with: the names of a path, and whether *)
(* the path ends in the last of them.                                      *)

OnChar(scan, c) ==
  [open  |-> c # "/",
   names |-> IF c = "/" THEN scan.names
             ELSE IF scan.open
             THEN [scan.names EXCEPT ![Len(scan.names)] = Append(@, c)]
             ELSE Append(scan.names, <<c>>)]

Scanned(p) ==
  LET upTo[k \in 0..Len(p)] == IF k = 0 THEN [open |-> FALSE, names |-> <<>>]
                               ELSE OnChar(upTo[k - 1], p[k])
  IN  upTo[Len(p)]

Names(p) == Scanned(p).names

(* An absolute path with no '/' too many. *)
IsNormal(p) ==
  /\ IsAbsolute(p)
  /\ \A k \in 2..Len(p) : p[k] = "/" => p[k - 1] # "/"
  /\ p # Root => p[Len(p)] # "/"

Under(path, dir) ==
  IsStrictPrefix(Names(dir), Names(path))

(* exe is in /bin or in /xxx/bin, or it is one of them. *)
InBinDir(exe) ==
  \E k \in {1, 2} : k <= Len(Names(exe)) /\ Names(exe)[k] = Tail(BinDir)

(* The names of exe from the first "bin" on. *)
NamesFromBin(exe) ==
  LET bins == {k \in DOMAIN Names(exe) : Names(exe)[k] = Tail(BinDir)}
  IN  SubSeq(Names(exe), Min(bins), Len(Names(exe)))

=============================================================================
