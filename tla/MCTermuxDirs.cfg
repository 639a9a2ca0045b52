SPECIFICATION Spec
CONSTANTS
  Threads = {t1, t2}
  EnvPaths <- MCEnvPaths
  DefaultPaths <- MCDefaultPaths
  NormalOf <- MCNormalOf
  LeftOf <- MCLeftOf
  Torn <- MCTorn
  MaxLen <- MCMaxLen
  Arguments <- MCArguments
  Chars <- MCChars
  Null = null
SYMMETRY MCSymmetry
INVARIANTS HandedPathStands NullMeansFailure AnswersRight PrefixFits
PROPERTY SettledForGood
