SPECIFICATION Spec
CONSTANTS
  p1 = p1
  p2 = p2
  c1 = c1
  c2 = c2
  m1 = m1
  m2 = m2
  s1 = s1
  s2 = s2
  a = a
  b = b
  Path <- MCOnePath
  Content <- MCContent
  Family <- MCFamily
  Settings <- MCOneSettings
  Symbol <- MCSymbol
  Symbols <- MCSymbols
  Hash <- MCHash
  Key <- MCKey
  Dim <- MCDim
  MaxRuns = 3
  Exclusive = TRUE
  NoFile = NoFile
  NoEntry = NoEntry
  Unset = Unset
INVARIANTS
  TypeOK
  ActiveComplete
  ActiveEqualsRebuild
  ManifestDescribesIndex
PROPERTIES
  SearchChangesByActivation
SYMMETRY FamilySymmetry
