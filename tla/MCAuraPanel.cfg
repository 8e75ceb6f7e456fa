CONSTANTS
  Ask = {1, 2}
  Day = {11, 12}
  Tries = 2
  Backlog = 1
  MaxOut = 3
SPECIFICATION MCSpec
INVARIANTS OneQuestion ThinkingMeansPending PowerNeedsItsButton ButtonsHaveTheirStruct RanIsSaid
PROPERTIES EveryQuestionAnswered DayEnds
