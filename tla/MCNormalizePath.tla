-------------------------- MODULE MCNormalizePath --------------------------
(* Bounds for NormalizePath: paths of up to MaxNames names, with one or two *)
(* separators wherever there is one.                                        *)
EXTENDS NormalizePath

CONSTANTS
  MaxNames,
  RootedTilde   \* absolute paths may have '~' as their first name

MCTildeNames == {"~"}
MCPlainNames == {"a"}
MCBytes == [t \in {"/", ".", "..", "~", "a"} |-> IF t = ".." THEN 2 ELSE 1]

Separators(n) == [k \in 1..n |-> "/"]

MCPath(lead, names, gap, trail) ==
  LET body == IF names = <<>> THEN <<>>
              ELSE FoldLeft(LAMBDA p, n : p \o Separators(gap) \o <<n>>,
                            <<names[1]>>, Tail(names))
  IN  Separators(lead) \o body \o Separators(trail)

MCNameLists ==
  UNION {[1..n -> {".", "..", "~", "a"}] : n \in 0..MaxNames}

MCInput(lead, names, gap, trail) ==
  [path |-> MCPath(lead, names, gap, trail),
   rootedTilde |-> lead > 0 /\ names # <<>> /\ names[1] = "~"]

MCInputs ==
  {in.path : in \in {p \in {MCInput(lead, names, gap, trail) :
                           lead \in 0..2, gap \in 1..2, trail \in 0..2,
                           names \in MCNameLists} : p.rootedTilde => RootedTilde}}
=============================================================================
