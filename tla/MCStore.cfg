CONSTANTS
  App = {image, package}
  Deb = {package}
  Terminal = {t1}
  Backlog = 1
  MaxRestarts = 1
  MaxWaits = 0
SPECIFICATION Spec
INVARIANTS EntryMatchesTree AnswersAreTrue
PROPERTIES OldImageSurvives
