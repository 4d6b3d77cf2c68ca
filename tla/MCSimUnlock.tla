----------------------------- MODULE MCSimUnlock -----------------------------
(* Instances of SimUnlock for TLC, in which the surroundings commit at     *)
(* most MaxFaults faults of the kinds in Faults.                           *)
EXTENDS SimUnlock

CONSTANTS p0, p1, a0, a1, b0, Faults, MaxFaults

VARIABLE faults

MCInit == Init /\ faults = 0

MCNext ==
    \/ Regular /\ UNCHANGED faults
    \/ /\ faults < MaxFaults
       /\ crashed = "no"
       /\ \E kind \in Faults : Fault(kind)
       /\ faults' = faults + 1

MCSpec == MCInit /\ [][MCNext]_<<vars, faults>>

MCFairSpec == MCSpec /\ Fairness

CodeSymmetry == Permutations(Codes)

(* One modem, one object: the dialog in all its detail. *)
OneModem == {a0}
OnePath == {p0}
OneOrder == <<p0>>
OnePathOf == [m \in OneModem |-> p0]

(* Two modems of one object each. *)
TwoModems == {a0, b0}
TwoPathOf == [m \in TwoModems |-> IF m = b0 THEN p1 ELSE p0]

(* Two modems, with a second object for the first path. *)
ThreeModems == {a0, a1, b0}
TwoPaths == {p0, p1}
TwoOrder == <<p0, p1>>
ThreePathOf == [m \in ThreeModems |-> IF m = b0 THEN p1 ELSE p0]

=============================================================================
