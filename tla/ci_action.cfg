\* Two uses in one job, another job at the comments, committed evidence or none.
SPECIFICATION FairSpec
CONSTANTS
  Absent = Absent
  Torn = Torn
  MaxUses = 2
  InputSet <- SomeInputs
  Page = 2
  MaxRivals = 1
  MaxOthers = 2
INVARIANTS
  GreenIsEarned
  StagedIsOwn
  StickyCommentIsOne
PROPERTY
  EveryUseIsJudged
CHECK_DEADLOCK FALSE
