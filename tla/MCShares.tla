------------------------------ MODULE MCShares ------------------------------
(* Values for the runs of Shares: two windows of one process and one of      *)
(* another, and two shares with one name.                                    *)
EXTENDS Shares
CONSTANTS p1, p2, w1, w2, w3, s1, s2, t1
MCProcessOf == [w \in Window |-> IF w = w3 THEN p2 ELSE p1]
MCTargetOf == [s \in Share |-> t1]
=============================================================================
