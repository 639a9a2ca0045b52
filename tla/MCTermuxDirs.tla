---------------------------- MODULE MCTermuxDirs ----------------------------
(* Bounds for TermuxDirs: short buffers, and the paths at their limits.    *)
EXTENDS TermuxDirs, TLC

MCChars == {"/", "b", "i", "n", "u", "s", "r", "d", "a", "t", "p", "f", "o", ".", "?"}

MCMaxLen == [d \in Dirs |-> IF d \in {"data", "legacy"} THEN 14 ELSE 6]

MCNormalOf(p) ==
  LET OnName(names, n) == IF n = <<".">> THEN names
                          ELSE IF n = <<".", ".">> THEN Front(names) ELSE Append(names, n)
      names == FoldLeft(OnName, <<>>, Names(p))
  IN  IF names = <<>> THEN Root ELSE FlattenSeq([k \in DOMAIN names |-> <<"/">> \o names[k]])

(* Memory is needed when there are two names and dots among them. *)
MCLeftOf(p) ==
  LET once == SelectSeq([k \in DOMAIN p |-> <<k, p[k]>>],
                        LAMBDA c : ~ (c[2] = "/" /\ c[1] > 1 /\ p[c[1] - 1] = "/"))
  IN  IF Len(Names(p)) >= 2 /\ \E k \in DOMAIN Names(p) : Names(p)[k] \in {<<".">>, <<".", ".">>}
      THEN [k \in DOMAIN once |-> once[k][2]] ELSE MCNormalOf(p)

App == <<"/", "d", "/", "p">>
MCTorn == <<"?">>
MCEnvPaths == {<<>>, Root, <<"/", ".", "/", "f", "/">>}
MCDefaultPaths == {App, LegacyRoot \o <<"p">>, <<"/", "d", "/", "p", "p", "p">>}

(* The executables have a buffer of the least size that is documented, and *)
(* one of them also a smaller one.                                         *)
BinFile == BinSlash \o <<"s">>
MCExecutables == {BinDir, BinFile, <<"/", "o", "/", "b">> \o BinFile}
MCPaths == {Null, App, App \o <<"p">>, App \o <<"/", "f">>, LegacyRoot \o <<"p", "/", "f">>}
Asked(op, path, size, own) == [op |-> op, path |-> path, size |-> size, own |-> own]
MCArguments ==
  {Asked("isPathUnder", p, 0, Null) : p \in MCPaths}
  \cup {Asked("isPathUnder", App \o <<"/", "f">>, 0, App)}
  \cup {Asked("prefixPath", e, 6 + Len(e), Null) : e \in MCExecutables}
  \cup {Asked("prefixPath", BinFile, size, App) : size \in {10, 6 + Len(BinFile)}}

MCSymmetry == Permutations(Threads)
=============================================================================
