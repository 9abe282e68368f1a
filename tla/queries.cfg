SPECIFICATION PackedSpec
CONSTANTS
  NotYet = NotYet
  Any = Any
  Unavailable = Unavailable
  en = en
  fr = fr
  de = de
  zu = zu
  dog = dog
  animal = animal
  being = being
  chien = chien
  hund = hund
  inja = inja
  Lang = {en, fr, de, zu}
  Term = {dog, animal, being, chien, hund, inja}
  Entry = {1, 2, 3, 4, 5}
  Sense = {1, 2, 3, 4, 5, 6, 7, 8}
  LanguageOf <- MCLanguageOf
  HeadOf <- MCHeadOf
  EntryOf <- MCEntryOf
  Tag <- MCTag
  Width <- MCWidth
  Spelling <- MCSpelling
  MostSenses = 3
  UnsensedSense = {7}
  Affine = {}
  Scan = 3
  FrontierScan = 3
  FrontierBudget = 2
  Prefetch = 5
  Branch = 1
  Base = {dog, chien, hund}
  Editions <- MCEditions
  MaxRows = 4
  MaxLate = 1
  Threshold = 2
  Target = 2
  Mapping <- MCMapping
  Queries <- MCQueries
  Limits <- MCLimits
INVARIANTS PacksFaithful SameAnswer AnswerTruthful BudgetsKept
CHECK_DEADLOCK FALSE
