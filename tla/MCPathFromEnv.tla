--------------------------- MODULE MCPathFromEnv ---------------------------
(* Bounds for PathFromEnv: the variable is a path of up to MaxNames names. *)
EXTENDS PathFromEnv

CONSTANTS
  MaxNames,
  RootedTilde   \* absolute paths may have '~' as their first name

MCTildeNames == {"~"}
MCPlainNames == {"a"}
MCBytes == [t \in {"/", ".", "..", "~", "a"} |-> IF t = ".." THEN 2 ELSE 1]

MCJoin(names) ==
  FoldLeft(LAMBDA p, n : IF p = <<>> THEN <<n>> ELSE p \o <<"/", n>>, <<>>, names)

MCRoot(rooted) == IF rooted THEN <<"/">> ELSE <<>>

MCNameLists == UNION {[1..n -> {".", "..", "~", "a"}] : n \in 0..MaxNames}

MCDefaults == {<<"a">>, <<"/", "a", "/", "..", "/", "/", "a", "/">>}

MCInputs ==
  {MCRoot(p[1]) \o MCJoin(p[2]) :
     p \in {q \in BOOLEAN \X MCNameLists :
              q[1] /\ q[2] # <<>> /\ q[2][1] = "~" => RootedTilde}}
  \cup MCDefaults
=============================================================================
