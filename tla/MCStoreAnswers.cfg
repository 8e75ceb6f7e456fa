CONSTANTS
  App = {image}
  Deb = {}
  Terminal = {t1}
  Backlog = 1
  MaxRestarts = 2
  MaxWaits = 1
SPECIFICATION Spec
INVARIANTS GreyMeansPending
PROPERTIES ServedInTurn EveryRequestEnds
