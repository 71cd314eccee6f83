--------------------------- MODULE RequestLifecycle ---------------------------
(***************************************************************************)
(* What a request promises its users: the status moves by the three        *)
(* transitions of TRANSITION_RULES, and follows its submissions while it   *)
(* is not closed; being overdue is reported at most once per opening.      *)
(***************************************************************************)
VARIABLES
    status,     \* the request's status; "absent" before it is created
    reported,   \* whether being overdue was reported since the last opening
    done        \* the request has submissions and all of them are completed

lifecycleVars == <<status, reported, done>>

Init == status = "absent" /\ reported = FALSE /\ done = FALSE

Create ==
    /\ status = "absent"
    /\ status' = "draft"
    /\ UNCHANGED <<reported, done>>

Send ==
    /\ status = "draft"
    /\ status' = "sent"
    /\ UNCHANGED <<reported, done>>

Close ==
    /\ status \in {"sent", "in_progress", "completed"}
    /\ status' = "closed"
    /\ UNCHANGED <<reported, done>>

Reopen ==
    /\ status = "closed"
    /\ status' = "in_progress"
    /\ reported' = FALSE
    /\ UNCHANGED done

Open == status \notin {"absent", "closed"}

Complete ==
    /\ Open /\ status # "completed" /\ done
    /\ status' = "completed"
    /\ UNCHANGED <<reported, done>>

\* A completed request is worked on again; that it is overdue may be reported
\* by the same step.
Regress ==
    /\ status = "completed" /\ ~done
    /\ status' = "in_progress"
    /\ reported' \in {reported, TRUE}
    /\ UNCHANGED done

ReportOverdue ==
    /\ Open /\ status # "completed" /\ ~reported
    /\ reported' = TRUE
    /\ UNCHANGED <<status, done>>

\* Recipients and reviewers work on the submissions, in any status.
Work ==
    /\ status # "absent"
    /\ done' = ~done
    /\ UNCHANGED <<status, reported>>

Next ==
    \/ Create \/ Send \/ Close \/ Reopen
    \/ Complete \/ Regress \/ ReportOverdue \/ Work

Spec == Init /\ [][Next]_lifecycleVars

\* A request whose submissions are and stay completed is not left uncompleted.
FairSpec == Spec /\ WF_lifecycleVars(Complete)
=============================================================================
