---------------------------- MODULE MCVortexJob ----------------------------
(***************************************************************************)
(* Small instances of VortexJob for TLC.                                   *)
(***************************************************************************)
EXTENDS DocumentedClaims

CONSTANTS j1, j2, w1, w2, b1, q1

OneQueue  == [j \in Jobs |-> q1]
Equal     == [j \in Jobs |-> 0]
FirstHigh == [j \in Jobs |-> IF j = j1 THEN 1 ELSE 0]
Two       == [j \in Jobs |-> 2]
One       == [j \in Jobs |-> 1]
OneAndTwo == [j \in Jobs |-> IF j = j1 THEN 1 ELSE 2]
ZeroAndTwo == [j \in Jobs |-> IF j = j1 THEN 0 ELSE 2]
NoBatch   == [j \in Jobs |-> None]
OneBatch  == [j \in Jobs |-> b1]

AllKinds  == {"queued", "scheduled"} \X BOOLEAN
DueNow    == {<<"queued", TRUE>>}

=============================================================================
