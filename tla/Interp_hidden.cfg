SPECIFICATION Spec
CONSTANTS
  Names <- MCNames
  NoName = "-"
  BuiltinSig <- MCBuiltins
  New <- MCNew
  Main = "main"
  Programs <- MCPrograms
  Depth = 4
INVARIANTS
  EffectsDeclared
