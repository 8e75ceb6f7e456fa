---------------------------- MODULE MCAuraPanel ----------------------------
(* Model values for the runs of AuraPanel, and a bound on what is asked.   *)
EXTENDS AuraPanel, FiniteSets

CONSTANT MaxOut  \* questions of the session and day workers at a time (bounds the model)

Out == {n \in Ask : text[n] # "unused"} \cup {d \in Day : conn[d] # "none"}

\* Questions are numbered in the order they are asked.
Numbered == \A m, n \in Ask : m < n /\ text[m] = "unused" => text[n] = "unused"

Bounded == Cardinality(Out) <= MaxOut /\ Numbered

MCSpec == Init /\ [][Next /\ Bounded']_vars /\ Fairness
=============================================================================
