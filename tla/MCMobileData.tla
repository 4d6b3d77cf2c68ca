---------------------------- MODULE MCMobileData ----------------------------
(* Instances of MobileData for TLC, in which the surroundings commit at    *)
(* most MaxFaults faults of the kinds in Faults.                           *)
EXTENDS MobileData, TLC

CONSTANTS Faults, MaxFaults

VARIABLE faults

MCInit == Init /\ faults = 0

MCNext ==
    \/ Regular /\ UNCHANGED faults
    \/ /\ faults < MaxFaults
       /\ \E kind \in Faults : Fault(kind)
       /\ faults' = faults + 1

MCSpec == MCInit /\ [][MCNext]_<<vars, faults>>

(* For liveness, ofono starts with the same Powered for every card. *)
MCFairInit == MCInit /\ \A s, t \in Sims : powered[s] = powered[t]

MCFairSpec == MCFairInit /\ [][MCNext]_<<vars, faults>> /\ Fairness

MCSymmetry == Permutations(Paths) \cup Permutations(Sims)

=============================================================================
