---------------------------- MODULE SecretCalls ----------------------------
(* What NetworkManager may rely on when it asks the secret agent: a        *)
(* GetSecrets call is answered at most once, at most one dialog is open    *)
(* for a call, and a call that was shown to the user ends without an       *)
(* answer only when NetworkManager gave it up, when a newer call took the  *)
(* dialog over, or when the agent died.  SecretAgent implements this.      *)

EXTENDS Naturals

CONSTANT Calls      \* the GetSecrets calls

VARIABLES
    asked,          \* the caller's side: idle, waiting, or withdrawn
    end,            \* the agent's side: none, open, answered or dropped
    runs            \* how often the agent was started again

scVars == <<asked, end, runs>>

Init ==
    /\ asked = [c \in Calls |-> "idle"]
    /\ end = [c \in Calls |-> "none"]
    /\ runs = 0

Ask(c) ==
    /\ asked[c] = "idle"
    /\ asked' = [asked EXCEPT ![c] = "waiting"]
    /\ UNCHANGED <<end, runs>>

(* The caller gives up: it cancels the call, or it dies with all of them. *)
Withdraw(C) ==
    /\ asked' = [c \in Calls |-> IF c \in C THEN "withdrawn" ELSE asked[c]]
    /\ \A c \in C : asked[c] # "idle"
    /\ UNCHANGED <<end, runs>>

Arrived(c) == asked[c] # "idle" /\ end[c] = "none"

(* A call that needs no user is answered when it arrives. *)
AnswerAtOnce(c) ==
    /\ Arrived(c)
    /\ end' = [end EXCEPT ![c] = "answered"]
    /\ UNCHANGED <<asked, runs>>

(* A call for the user takes the dialog, from an older call if need be. *)
Open(c) ==
    /\ Arrived(c)
    /\ end' = [d \in Calls |-> IF d = c THEN "open"
                               ELSE IF end[d] = "open" THEN "dropped"
                               ELSE end[d]]
    /\ UNCHANGED <<asked, runs>>

Answer(c) ==
    /\ end[c] = "open"
    /\ end' = [end EXCEPT ![c] = "answered"]
    /\ UNCHANGED <<asked, runs>>

Drop(c) ==
    /\ end[c] = "open" /\ asked[c] = "withdrawn"
    /\ end' = [end EXCEPT ![c] = "dropped"]
    /\ UNCHANGED <<asked, runs>>

AgentDies ==
    /\ end' = [c \in Calls |-> IF Arrived(c) \/ end[c] = "open"
                               THEN "dropped" ELSE end[c]]
    /\ runs' = runs + 1
    /\ UNCHANGED asked

Next ==
    \/ \E c \in Calls : \/ Ask(c) \/ AnswerAtOnce(c) \/ Open(c)
                        \/ Answer(c) \/ Drop(c)
    \/ \E C \in SUBSET Calls : Withdraw(C)
    \/ AgentDies

Spec == Init /\ [][Next]_scVars

=============================================================================
