SPECIFICATION Spec
CONSTANTS
  None = None
  NoEvent = NoEvent
  Free = Free
  Mirror = mirror
  Stranger = stranger
  Spaced <- MCSpaced
  Digitless = {}
  Digest <- MCDigest
  Unlabelled <- MCUnlabelled
  Unspaced <- Same
  Tidy <- Same
  Akey <- Same
  Bare <- MCBare
  Prose = {}
  FamilyOf <- MCFamilyOf
  CavpOf <- MCCavpOf
  MaxFamilies = 3
  MaxRefs = 3
  TotalTagBudget = 19
  SoftCap = 30
  CertLadder <- MCLadder
  ToeLadder <- MCLadder
  ModuleLadder <- MCLadder
  FipsLadder <- MCLadder
  RocaCve = 51
  MaxITags = 19
  ListCap = 2
  Exports <- MCExports
  Cards = {99}
  Watched <- MCWatched
  MaxContent = 60
  MaxIndexableTags = 23
INVARIANTS PlanIsWhole TagBudgetHolds ReplacedBeforeDeleted GatedIsValid LedgerIsFound
PROPERTIES VerdictsOnlySettle
CHECK_DEADLOCK FALSE
