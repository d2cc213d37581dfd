---------------------------- MODULE MCMinuteCold ----------------------------
(* The module TLC runs: three trading days in two months, or two, while they *)
(* are read.                                                                 *)
EXTENDS MinuteCold

TwoDays   == [d \in {1, 2} |-> d]
ThreeDays == [d \in {1, 2, 3} |-> IF d = 3 THEN 2 ELSE 1]

VARIABLE reading   \* the behaviour has readers

MCInit == Init /\ reading \in BOOLEAN

\* With readers, only days two and three are fetched, twice in all, and one export is made.
MCNext ==
  /\ Next /\ UNCHANGED reading
  /\ IF reading THEN bucket'[1] = "none" /\ fetches' <= 2 /\ exports' <= 1
     ELSE UNCHANGED reader

MCSpec == MCInit /\ [][MCNext]_<<vars, reading>>
=============================================================================
