----------------------------- MODULE BoundedRetry -----------------------------
(***************************************************************************)
(* What the job queue promises of each job: it is tried at most            *)
(* MaxAttempts times and, unless the process dies, settles with one        *)
(* outcome that never changes.                                             *)
(***************************************************************************)
EXTENDS Naturals

CONSTANTS Jobs, Handled, MaxAttempts

VARIABLES
    state,   \* where each job is in its life
    tries    \* how often its handler has run to an end

retryVars == <<state, tries>>

Init ==
    /\ state = [j \in Jobs |-> "absent"]
    /\ tries = [j \in Jobs |-> 0]

Submit(j) ==
    /\ state[j] = "absent"
    /\ state' = [state EXCEPT ![j] = "live"]
    /\ UNCHANGED tries

\* The last attempt settles the job whatever its result.
Attempt(j) ==
    /\ state[j] = "live" /\ j \in Handled
    /\ tries[j] < MaxAttempts
    /\ tries' = [tries EXCEPT ![j] = @ + 1]
    /\ \/ state' = [state EXCEPT ![j] = "succeeded"]
       \/ tries'[j] < MaxAttempts /\ UNCHANGED state
       \/ tries'[j] = MaxAttempts /\ state' = [state EXCEPT ![j] = "failed"]

Skip(j) ==
    /\ state[j] = "live" /\ j \notin Handled
    /\ state' = [state EXCEPT ![j] = "skipped"]
    /\ UNCHANGED tries

\* The queue lives in memory: with the process all live jobs are lost.
Lose ==
    /\ state' = [j \in Jobs |-> IF state[j] = "live" THEN "lost" ELSE state[j]]
    /\ UNCHANGED tries

Next ==
    \/ \E j \in Jobs : Submit(j) \/ Attempt(j) \/ Skip(j)
    \/ Lose

Spec == Init /\ [][Next]_retryVars

FairSpec == Spec /\ \A j \in Jobs : WF_retryVars(Attempt(j) \/ Skip(j))
=============================================================================
