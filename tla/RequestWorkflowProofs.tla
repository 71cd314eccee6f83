------------------------- MODULE RequestWorkflowProofs -------------------------
(***************************************************************************)
(* Theorems about RequestWorkflow, for any submissions and items.  Those   *)
(* of the first parts hold for any number of handlers, whatever the        *)
(* interleaving and the failures; those after the definition of Serial     *)
(* hold while the calls on the request do not overlap and do not fail.     *)
(***************************************************************************)
EXTENDS RequestWorkflow, FiniteSetTheorems, TLAPS

(* The arithmetic of recalculateSubmissionProgress *)

LEMMA DivisionBounds ==
    ASSUME NEW a \in Nat, NEW b \in Nat, b > 0
    PROVE  /\ a \div b \in Nat
           /\ b * (a \div b) <= a
           /\ a < b * (a \div b) + b
OBVIOUS

\* The rounded share of items that are done is a percentage (L1240-1245).
THEOREM ProgressIsPercentage ==
    ASSUME NEW done \in Nat, NEW total \in Nat, done <= total
    PROVE  Progress(done, total) \in 0..100
<1>1. CASE total = 0
  BY <1>1 DEF Progress
<1>2. CASE total > 0
  <2> DEFINE a == 200 * done + total
             b == 2 * total
             q == a \div b
  <2>1. a \in Nat /\ b \in Nat /\ b > 0
    BY <1>2
  <2>2. q \in Nat /\ b * q <= a
    BY <2>1, DivisionBounds
  <2>3. q <= 100
    <3>1. SUFFICES ASSUME q >= 101 PROVE FALSE
      BY <2>2
    <3>2. b * q >= b * 101
      BY <3>1, <2>1, <2>2
    <3> QED
      BY <3>2, <2>2, <1>2
  <2> QED
    BY <2>2, <2>3, <1>2 DEF Progress
<1> QED
  BY <1>1, <1>2

\* Rounded to 100 percent means that at most one item in 200 is missing, and
\* with fewer than 200 items that none is (L1240-1248).
THEOREM FullProgressMeansAllDone ==
    ASSUME NEW done \in Nat, NEW total \in Nat, done <= total,
           Progress(done, total) = 100
    PROVE  /\ total > 0 /\ 200 * (total - done) <= total
           /\ total < 200 => done = total
<1>1. total > 0
  BY DEF Progress
<1>2. (200 * done + total) \div (2 * total) = 100
  BY <1>1 DEF Progress
<1>3. (2 * total) * 100 <= 200 * done + total
  BY <1>1, <1>2, DivisionBounds
<1> QED
  BY <1>1, <1>3

----------------------------------------------------------------------------
(* Type correctness *)

LEMMA ItemSetsFinite ==
    ASSUME NEW s
    PROVE  /\ IsFiniteSet(ItemsOf(s))
           /\ IsFiniteSet(InsertedItems(s))
           /\ IsFiniteSet(AnsweredItems(s))
           /\ AnsweredItems(s) \subseteq InsertedItems(s)
           /\ InsertedItems(s) \subseteq ItemsOf(s)
<1>1. ItemsOf(s) \in SUBSET Items /\ InsertedItems(s) \in SUBSET Items
      /\ AnsweredItems(s) \in SUBSET Items
  BY DEF ItemsOf, InsertedItems, AnsweredItems
<1>2. AnsweredItems(s) \subseteq InsertedItems(s) /\ InsertedItems(s) \subseteq ItemsOf(s)
  BY DEF InsertedItems, AnsweredItems
<1> QED
  BY <1>1, <1>2, FS_Subset, RowsAreFinite

\* A submission that counts as complete still does when more of its items are done.
LEMMA CountsAsAllGrows ==
    ASSUME NEW s, NEW A, NEW B, ItemsOf(s) \cap A \subseteq B, CountsAsAll(s, A)
    PROVE  CountsAsAll(s, B)
<1>1. ItemsOf(s) \ B \subseteq ItemsOf(s) \ A
  OBVIOUS
<1>2. IsFiniteSet(ItemsOf(s) \ A) /\ IsFiniteSet(ItemsOf(s) \ B)
  BY ItemSetsFinite, FS_Difference
<1>3. /\ Cardinality(ItemsOf(s) \ B) <= Cardinality(ItemsOf(s) \ A)
      /\ Cardinality(ItemsOf(s) \ A) \in Nat /\ Cardinality(ItemsOf(s) \ B) \in Nat
      /\ Cardinality(ItemsOf(s)) \in Nat
  BY <1>1, <1>2, FS_Subset, FS_CardinalityType, ItemSetsFinite
<1> QED
  BY <1>3 DEF CountsAsAll

LEMMA CountedProgressIsPercentage ==
    ASSUME NEW s
    PROVE  Progress(Cardinality(AnsweredItems(s)), Cardinality(InsertedItems(s))) \in 0..100
<1>1. /\ Cardinality(AnsweredItems(s)) \in Nat
      /\ Cardinality(InsertedItems(s)) \in Nat
  BY ItemSetsFinite, FS_CardinalityType
<1>2. Cardinality(AnsweredItems(s)) <= Cardinality(InsertedItems(s))
  BY ItemSetsFinite, FS_Subset
<1> QED
  BY <1>1, <1>2, ProgressIsPercentage

LEMMA CountedSubsInRange ==
    Cardinality(InsertedSubs) \in 0..Cardinality(Subs)
<1>1. InsertedSubs \in SUBSET Subs
  BY DEF InsertedSubs
<1>2. IsFiniteSet(InsertedSubs) /\ Cardinality(InsertedSubs) <= Cardinality(Subs)
  BY <1>1, FS_Subset, RowsAreFinite
<1> QED
  BY <1>2, FS_CardinalityType, RowsAreFinite

LEMMA NoCallType == NoCall \in Calls
<1>1. Cardinality(Subs) \in Nat
  BY FS_CardinalityType, RowsAreFinite
<1> QED
  BY <1>1 DEF NoCall, Calls, PC, NoRequest, RequestRow, RequestStatus, SubmissionStatus,
     ItemStatus

\* Replacing fields of a call by values of their types leaves it well typed.
LEMMA UpdateType ==
    ASSUME NEW c \in Calls, NEW pc \in PC, pc # "transition"
    PROVE  /\ CallOK([c EXCEPT !.pc = pc])
           /\ \A late \in BOOLEAN : CallOK([c EXCEPT !.pc = pc, !.late = late])
           /\ \A p \in 0..100 : CallOK([c EXCEPT !.pc = pc, !.progress = p])
           /\ \A row \in RequestRow : CallOK([c EXCEPT !.pc = pc, !.row = row])
           /\ \A t \in 0..Cardinality(Subs) : CallOK([c EXCEPT !.pc = pc, !.total = t])
           /\ \A b \in BOOLEAN : CallOK([c EXCEPT !.pc = pc, !.allCompleted = b])
           /\ \A s \in Subs, T \in SUBSET Subs :
                 CallOK([c EXCEPT !.pc = pc, !.sub = s, !.todo = T])
           /\ \A I \in SUBSET Items, v \in ItemStatus :
                 CallOK([c EXCEPT !.pc = pc, !.items = I, !.verdict = v])
BY DEF CallOK, Calls

\* A step that types its rows and turns the call of one handler into a
\* well-typed one preserves TypeOK.
LEMMA StepType ==
    ASSUME TypeOK, NEW h \in Handlers, NEW c, CallOK(c), Become(h, c),
           request' \in RequestRow, submission' \in [Subs -> SubmissionRow],
           item' \in [Items -> ItemStatus], answered' \subseteq Items,
           pastDue' \in BOOLEAN, events' \in EventCounts
    PROVE  TypeOK'
<1>1. call' \in [Handlers -> Calls]
  BY DEF TypeOK, CallOK, Become
<1>2. ASSUME NEW g \in Handlers PROVE CallOK(call[g])'
  <2>1. call'[g] = IF g = h THEN c ELSE call[g]
    BY DEF TypeOK, Become
  <2> QED
    BY <2>1 DEF TypeOK, CallOK
<1> QED
  BY <1>1, <1>2 DEF TypeOK

\* Every row and every call record has its type at all times.
THEOREM TypeCorrect == Spec => []TypeOK
<1>1. Init => TypeOK
  <2> SUFFICES ASSUME Init PROVE TypeOK
    OBVIOUS
  <2>1. NoRequest \in RequestRow /\ NoSubmission \in SubmissionRow
    BY DEF NoRequest, NoSubmission, RequestRow, RequestStatus, SubmissionRow, SubmissionStatus
  <2>2. events \in EventCounts
    BY Switches DEF Init, EventCounts
  <2>3. CallOK(NoCall)
    BY NoCallType DEF CallOK, NoCall
  <2> QED
    BY <2>1, <2>2, <2>3, NoCallType DEF Init, TypeOK, ItemStatus
<1>2. TypeOK /\ [Next]_vars => TypeOK'
  <2> SUFFICES ASSUME TypeOK, [Next]_vars PROVE TypeOK'
    OBVIOUS
  <2>0. /\ request \in RequestRow /\ submission \in [Subs -> SubmissionRow]
        /\ item \in [Items -> ItemStatus] /\ answered \subseteq Items
        /\ pastDue \in BOOLEAN /\ events \in EventCounts
        /\ \A h \in Handlers : call[h] \in Calls /\ CallOK(call[h])
    BY DEF TypeOK
  <2>1. ASSUME NEW h \in Handlers, CreateRequest(h) PROVE TypeOK'
    <3>1. PICK recipients \in SUBSET Subs :
             Become(h, [NoCall EXCEPT !.pc = "insertSubmission", !.todo = recipients])
      BY <2>1 DEF CreateRequest
    <3>2. CallOK([NoCall EXCEPT !.pc = "insertSubmission", !.todo = recipients])
      BY NoCallType DEF CallOK, Calls, PC
    <3>3. request' \in RequestRow
      BY <2>1 DEF CreateRequest, NoRequest, RequestRow, RequestStatus
    <3> QED
      BY <2>0, <2>1, <3>1, <3>2, <3>3, StepType DEF CreateRequest
  <2>2. ASSUME NEW h \in Handlers, InsertSubmission(h) PROVE TypeOK'
    <3>1. PICK s \in call[h].todo :
             /\ submission' = [submission EXCEPT ![s] =
                  [status |-> "in_progress", progressPercent |-> 0, submittedAt |-> FALSE]]
             /\ Become(h, [call[h] EXCEPT !.pc = "insertItems", !.sub = s,
                                          !.todo = @ \ {s}])
      BY <2>2 DEF InsertSubmission
    <3>2. CallOK([call[h] EXCEPT !.pc = "insertItems", !.sub = s, !.todo = @ \ {s}])
      <4>1. s \in Subs /\ call[h].todo \ {s} \in SUBSET Subs
        BY <2>0 DEF Calls
      <4> QED
        BY <2>0, <4>1, UpdateType DEF PC
    <3>3. submission' \in [Subs -> SubmissionRow]
      <4>1. [status |-> "in_progress", progressPercent |-> 0, submittedAt |-> FALSE]
               \in SubmissionRow
        BY DEF SubmissionRow, SubmissionStatus
      <4> QED
        BY <2>0, <3>1, <4>1
    <3> QED
      BY <2>0, <2>2, <3>1, <3>2, <3>3, StepType DEF InsertSubmission
  <2>3. ASSUME NEW h \in Handlers, InsertItems(h) PROVE TypeOK'
    <3>1. CallOK([call[h] EXCEPT !.pc = "insertSubmission"])
      BY <2>0 DEF CallOK, Calls, PC
    <3>2. item' \in [Items -> ItemStatus]
      BY <2>0, <2>3 DEF InsertItems, ItemStatus
    <3> QED
      BY <2>0, <2>3, <3>1, <3>2, StepType DEF InsertItems, Goto
  <2>4. CallOK(NoCall)
    BY NoCallType DEF CallOK, NoCall
  <2>5. ASSUME NEW h \in Handlers, CreateDone(h) PROVE TypeOK'
    BY <2>0, <2>4, <2>5, StepType DEF CreateDone, Return, rows
  <2>6. ASSUME NEW h \in Handlers, NEW action \in Actions, StartTransition(h, action)
        PROVE TypeOK'
    <3>1. CallOK([NoCall EXCEPT !.pc = "transition", !.action = action, !.row = request,
                              !.late = pastDue])
      BY <2>0, NoCallType DEF CallOK, Calls, PC
    <3> QED
      BY <2>0, <2>6, <3>1, StepType DEF StartTransition, rows
  <2>7. ASSUME NEW h \in Handlers, WriteTransition(h) PROVE TypeOK'
    <3> DEFINE c == [NoCall EXCEPT
                       !.pc = IF call[h].action = "reopen" THEN "reopenSubmissions" ELSE "sync",
                       !.late = call[h].late]
    <3>1. CallOK(c)
      <4>1. (IF call[h].action = "reopen" THEN "reopenSubmissions" ELSE "sync")
               \in PC \ {"transition"}
        BY DEF PC
      <4>2. call[h].late \in BOOLEAN
        BY <2>0 DEF CallOK, Calls
      <4> QED
        BY <4>1, <4>2, NoCallType, UpdateType
    <3>2. call[h].row \in RequestRow /\ call[h].action \in Actions
      BY <2>0, <2>7 DEF CallOK, Calls, WriteTransition, At
    <3>3. request' \in RequestRow
      BY <2>7, <3>2 DEF WriteTransition, RequestRow, RequestStatus, NextStatus, Actions
    <3>4. events' \in EventCounts
      BY <2>0, <2>7, Switches DEF WriteTransition, EventCounts
    <3>5. Become(h, c) \/ Become(h, NoCall)
      BY <2>7 DEF WriteTransition, Return
    <3> HIDE DEF c
    <3> QED
      BY <2>0, <2>4, <2>7, <3>1, <3>3, <3>4, <3>5, StepType DEF WriteTransition
  <2>8. ASSUME NEW h \in Handlers, ReopenSubmissions(h) PROVE TypeOK'
    <3>1. CallOK([call[h] EXCEPT !.pc = "sync"])
      BY <2>0 DEF CallOK, Calls, PC
    <3>2. submission' \in [Subs -> SubmissionRow]
      BY <2>0, <2>8 DEF ReopenSubmissions, SubmissionRow, SubmissionStatus
    <3> QED
      BY <2>0, <2>8, <3>1, <3>2, StepType DEF ReopenSubmissions, Goto
  <2>9. ASSUME NEW h \in Handlers, NEW s \in Subs, NEW chosen \in SUBSET Items,
               StartAutosave(h, s, chosen)
        PROVE TypeOK'
    <3>1. CallOK([NoCall EXCEPT !.pc = "upsertAnswers", !.sub = s, !.items = chosen,
                                !.prev = submission[s].status, !.late = pastDue])
      BY <2>0, NoCallType DEF CallOK, Calls, PC, SubmissionRow
    <3> QED
      BY <2>0, <2>9, <3>1, StepType DEF StartAutosave, rows
  <2>10. ASSUME NEW h \in Handlers, UpsertAnswers(h) PROVE TypeOK'
    <3>1. CallOK([call[h] EXCEPT !.pc = "provideItems"])
      BY <2>0 DEF CallOK, Calls, PC
    <3>2. answered' \subseteq Items
      BY <2>0, <2>10 DEF UpsertAnswers, Calls
    <3> QED
      BY <2>0, <2>10, <3>1, <3>2, StepType DEF UpsertAnswers, Goto
  <2>11. ASSUME NEW h \in Handlers
         PROVE  CallOK([call[h] EXCEPT !.pc = "count", !.items = {}, !.verdict = "absent"])
    BY <2>0, UpdateType DEF PC, ItemStatus
  <2>12. ASSUME NEW h \in Handlers, ProvideItems(h) PROVE TypeOK'
    <3>1. item' \in [Items -> ItemStatus]
      BY <2>0, <2>12 DEF ProvideItems, ItemStatus
    <3> QED
      BY <2>0, <2>11, <2>12, <3>1, StepType DEF ProvideItems, GotoCount
  <2>13. ASSUME NEW h \in Handlers, NEW i \in Items, NEW verdict \in {"approved", "rejected"},
                StartReview(h, i, verdict)
         PROVE TypeOK'
    <3>1. SubOf[i] \in Subs
      BY ItemsHaveSubmissions
    <3>2. CallOK([NoCall EXCEPT !.pc = "review", !.sub = SubOf[i], !.items = {i},
                                !.verdict = verdict,
                                !.prev = submission[SubOf[i]].status, !.late = pastDue])
      BY <2>0, <3>1, NoCallType DEF CallOK, Calls, PC, SubmissionRow, ItemStatus
    <3> QED
      BY <2>0, <2>13, <3>2, StepType DEF StartReview, rows
  <2>14. ASSUME NEW h \in Handlers, WriteReview(h) PROVE TypeOK'
    <3>1. item' \in [Items -> ItemStatus]
      BY <2>0, <2>14 DEF WriteReview, Calls
    <3> QED
      BY <2>0, <2>11, <2>14, <3>1, StepType DEF WriteReview, GotoCount
  <2>15. ASSUME NEW h \in Handlers, CountItems(h) PROVE TypeOK'
    <3> DEFINE p == Progress(Cardinality(AnsweredItems(call[h].sub)),
                             Cardinality(InsertedItems(call[h].sub)))
    <3>1. p \in 0..100
      BY CountedProgressIsPercentage
    <3>2. Become(h, [call[h] EXCEPT !.pc = "writeProgress", !.progress = p])
      BY <2>15 DEF CountItems
    <3> HIDE DEF p
    <3>3. CallOK([call[h] EXCEPT !.pc = "writeProgress", !.progress = p])
      BY <2>0, <3>1, UpdateType DEF PC
    <3> QED
      BY <2>0, <2>15, <3>2, <3>3, StepType DEF CountItems, rows
  <2>16. ASSUME NEW h \in Handlers, WriteProgress(h) PROVE TypeOK'
    <3>1. CallOK([NoCall EXCEPT !.pc = "sync", !.late = call[h].late])
      BY <2>0, NoCallType DEF CallOK, Calls, PC
    <3>2. submission' \in [Subs -> SubmissionRow]
      BY <2>0, <2>16 DEF WriteProgress, SubmissionRow, SubmissionStatus, RecalculatedStatus,
         Calls
    <3> QED
      BY <2>0, <2>16, <3>1, <3>2, StepType DEF WriteProgress
  <2>17. ASSUME NEW h \in Handlers, SyncRead(h) PROVE TypeOK'
    <3> DEFINE row == [NoRequest EXCEPT !.status = request.status,
                                        !.overdueNotifiedAt = request.overdueNotifiedAt]
    <3>1. row \in RequestRow
      BY <2>0 DEF RequestRow, NoRequest
    <3>2. CallOK([call[h] EXCEPT !.pc = "countSubmissions", !.row = row])
      BY <2>0, <3>1, UpdateType DEF PC
    <3> QED
      BY <2>0, <2>17, <3>2, StepType DEF SyncRead, rows
  <2>18. ASSUME NEW h \in Handlers, CountSubmissions(h) PROVE TypeOK'
    <3>1. CallOK([call[h] EXCEPT !.pc = "countCompleted", !.total = Cardinality(InsertedSubs)])
      BY <2>0, CountedSubsInRange, UpdateType DEF PC
    <3> QED
      BY <2>0, <2>18, <3>1, StepType DEF CountSubmissions, rows
  <2>19. ASSUME NEW h \in Handlers, CountCompleted(h) PROVE TypeOK'
    <3> DEFINE all == call[h].total > 0 /\ Cardinality(CompletedSubs) = call[h].total
    <3>1. CallOK([call[h] EXCEPT !.pc = "signal", !.allCompleted = all])
      BY <2>0, UpdateType DEF PC
    <3> QED
      BY <2>0, <2>19, <3>1, StepType DEF CountCompleted, rows
  <2>20. ASSUME NEW h \in Handlers, WriteSignals(h) PROVE TypeOK'
    <3>1. CallOK([call[h] EXCEPT !.pc = "emit"])
      BY <2>0 DEF CallOK, Calls, PC
    <3>2. call[h].row \in RequestRow
      BY <2>0 DEF Calls
    <3>3. request' \in RequestRow
      BY <2>0, <2>20, <3>2 DEF WriteSignals, RequestRow, RequestStatus, SyncedStatus,
         EmitsOverdue
    <3>4. events' \in EventCounts
      BY <2>0, <2>20, Switches DEF WriteSignals, EventCounts
    <3>5. \/ Become(h, [call[h] EXCEPT !.pc = "emit"])
          \/ Become(h, NoCall)
      BY <2>20 DEF WriteSignals, Return, Goto
    <3> QED
      BY <2>0, <2>4, <2>20, <3>1, <3>3, <3>4, <3>5, StepType DEF WriteSignals
  <2>21. ASSUME NEW h \in Handlers, EmitSignals(h) PROVE TypeOK'
    <3>1. events' \in EventCounts
      BY <2>0, <2>21, Switches DEF EmitSignals, EventCounts, Count
    <3> QED
      BY <2>0, <2>4, <2>21, <3>1, StepType DEF EmitSignals, Return, rows
  <2>22. CASE DuePasses
    BY <2>0, <2>22 DEF DuePasses, rows, TypeOK, CallOK
  <2>23. ASSUME NEW h \in Handlers, Fail(h) PROVE TypeOK'
    BY <2>0, <2>4, <2>23, StepType DEF Fail, Return, rows
  <2>24. CASE UNCHANGED vars
    BY <2>24 DEF vars, TypeOK, CallOK
  <2> QED
    BY <2>1, <2>2, <2>3, <2>5, <2>6, <2>7, <2>8, <2>9, <2>10, <2>12, <2>13, <2>14, <2>15,
       <2>16, <2>17, <2>18, <2>19, <2>20, <2>21, <2>22, <2>23, <2>24
       DEF Next, Start, Continue
<1> QED
  BY <1>1, <1>2, PTL DEF Spec

----------------------------------------------------------------------------
(* Answers: no interleaving completes a submission that lacks one *)

\* Answers are never deleted, so a submission that counts as answered stays so.
LEMMA CountsAsAnsweredStays ==
    ASSUME answered \subseteq answered'
    PROVE  \A s : CountsAsAll(s, answered) => CountsAsAll(s, answered)'
<1> SUFFICES ASSUME NEW s, CountsAsAll(s, answered) PROVE CountsAsAll(s, answered)'
  OBVIOUS
<1>1. ItemsOf(s) \cap answered \subseteq answered'
  OBVIOUS
<1>2. CountsAsAll(s, answered')
  BY <1>1, CountsAsAllGrows
<1> QED
  BY <1>2 DEF CountsAsAll, ItemsOf

\* Answers are never deleted and items never disappear, so what a handler could
\* rely on it still can after a step of another handler.
LEMMA StillHoldsStable ==
    ASSUME NEW c, StillHolds(c), answered \subseteq answered',
           \A i \in Items : item[i] # "absent" => item'[i] # "absent",
           c \in Calls
    PROVE  StillHolds(c)'
BY CountsAsAnsweredStays DEF StillHolds, Calls

\* What is left to show of a step by which handler h becomes c.
LEMMA StepAnswers ==
    ASSUME TypeOK, AnswersInv, NEW h \in Handlers, NEW c, Become(h, c),
           answered \subseteq answered',
           \A i \in Items : item[i] # "absent" => item'[i] # "absent",
           StillHolds(call[h])', DecidedItemsAreAnswered', CompletedSubmissionsAreAnswered',
           ItemsComeInBatches'
    PROVE  AnswersInv'
<1>1. ASSUME NEW g \in Handlers PROVE StillHolds(call[g])'
  <2>1. call'[g] = IF g = h THEN c ELSE call[g]
    BY DEF TypeOK, Become
  <2>2. StillHolds(call[g]) /\ call[g] \in Calls
    BY DEF AnswersInv, TypeOK
  <2>3. CASE g = h
    BY <2>3
  <2>4. CASE g # h
    <3> DEFINE d == call[g]
    <3>1. StillHolds(d) /\ d \in Calls /\ call'[g] = d
      BY <2>1, <2>2, <2>4
    <3> HIDE DEF d
    <3>2. \A e : e = d => StillHolds(e)'
      BY <3>1, StillHoldsStable
    <3> QED
      BY <3>1, <3>2 DEF StillHolds
  <2> QED
    BY <2>3, <2>4
<1> QED
  BY <1>1 DEF AnswersInv

\* The case of a step that leaves the items and the answers alone and completes
\* no submission.
LEMMA QuietStepAnswers ==
    ASSUME TypeOK, AnswersInv, NEW h \in Handlers, NEW c, Become(h, c), StillHolds(c),
           UNCHANGED <<item, answered>>,
           \A s \in Subs : submission'[s].status = "completed"
                              => submission[s].status = "completed"
    PROVE  AnswersInv'
<1>1. StillHolds(call[h])'
  <2>1. call'[h] = c
    BY DEF TypeOK, Become
  <2> QED
    BY <2>1 DEF StillHolds, ItemsOf
<1>2. DecidedItemsAreAnswered' /\ ItemsComeInBatches'
  BY DEF AnswersInv, DecidedItemsAreAnswered, ItemsComeInBatches
<1>3. CompletedSubmissionsAreAnswered'
  BY DEF AnswersInv, CompletedSubmissionsAreAnswered, CompletedSubs, ItemsOf
<1> QED
  BY <1>1, <1>2, <1>3, StepAnswers

\* A count of 100 percent means that all items of the submission are done but
\* those the rounding forgives.
LEMMA FullCountIsAllDone ==
    ASSUME TypeOK, AnswersInv, NEW s \in Subs,
           Progress(Cardinality(AnsweredItems(s)), Cardinality(InsertedItems(s))) = 100
    PROVE  CountsAsAll(s, AnsweredItems(s))
<1>1. /\ Cardinality(AnsweredItems(s)) \in Nat
      /\ Cardinality(InsertedItems(s)) \in Nat
      /\ Cardinality(ItemsOf(s)) \in Nat
  BY ItemSetsFinite, FS_CardinalityType
<1>2. Cardinality(AnsweredItems(s)) <= Cardinality(InsertedItems(s))
  BY ItemSetsFinite, FS_Subset
<1>3. /\ Cardinality(InsertedItems(s)) > 0
      /\ 200 * (Cardinality(InsertedItems(s)) - Cardinality(AnsweredItems(s)))
            <= Cardinality(InsertedItems(s))
  BY <1>1, <1>2, FullProgressMeansAllDone
<1>4. InsertedItems(s) # {}
  BY <1>3, FS_EmptySet
<1>5. InsertedItems(s) = ItemsOf(s)
  BY <1>4 DEF AnswersInv, ItemsComeInBatches, InsertedItems, ItemsOf
<1>6. Cardinality(ItemsOf(s) \ AnsweredItems(s))
         = Cardinality(ItemsOf(s)) - Cardinality(AnsweredItems(s))
  <2>1. AnsweredItems(s) = ItemsOf(s) \cap AnsweredItems(s)
    BY ItemSetsFinite
  <2> QED
    BY <2>1, ItemSetsFinite, FS_Difference
<1> QED
  BY <1>1, <1>3, <1>5, <1>6 DEF CountsAsAll

LEMMA FullCountIsAnswered ==
    ASSUME TypeOK, AnswersInv, NEW s \in Subs,
           Progress(Cardinality(AnsweredItems(s)), Cardinality(InsertedItems(s))) = 100
    PROVE  CountsAsAll(s, answered)
<1>1. \A i \in AnsweredItems(s) : i \in answered
  BY DEF AnsweredItems, ItemsOf, AnswersInv, DecidedItemsAreAnswered
<1>2. CountsAsAll(s, AnsweredItems(s))
  BY FullCountIsAllDone
<1>3. ItemsOf(s) \cap AnsweredItems(s) \subseteq answered
  BY <1>1
<1> QED
  BY <1>2, <1>3, CountsAsAllGrows

LEMMA AnswersInductive == TypeOK /\ TypeOK' /\ AnswersInv /\ [Next]_vars => AnswersInv'
<1> SUFFICES ASSUME TypeOK, TypeOK', AnswersInv, [Next]_vars PROVE AnswersInv'
  OBVIOUS
<1>0. ASSUME NEW h \in Handlers
      PROVE  /\ call[h] \in Calls /\ StillHolds(call[h])
             /\ StillHolds(NoCall)
  BY DEF TypeOK, AnswersInv, StillHolds, NoCall
<1>1. ASSUME NEW h \in Handlers, CreateRequest(h) PROVE AnswersInv'
  <2>1. PICK recipients \in SUBSET Subs :
           Become(h, [NoCall EXCEPT !.pc = "insertSubmission", !.todo = recipients])
    BY <1>1 DEF CreateRequest
  <2>2. StillHolds([NoCall EXCEPT !.pc = "insertSubmission", !.todo = recipients])
    BY DEF StillHolds, NoCall
  <2> QED
    BY <1>1, <2>1, <2>2, QuietStepAnswers DEF CreateRequest
<1>2. ASSUME NEW h \in Handlers, InsertSubmission(h) PROVE AnswersInv'
  <2>1. PICK s \in call[h].todo :
           /\ submission' = [submission EXCEPT ![s] =
                [status |-> "in_progress", progressPercent |-> 0, submittedAt |-> FALSE]]
           /\ Become(h, [call[h] EXCEPT !.pc = "insertItems", !.sub = s, !.todo = @ \ {s}])
    BY <1>2 DEF InsertSubmission
  <2>2. s \in Subs
    BY <1>0 DEF Calls
  <2>3. StillHolds([call[h] EXCEPT !.pc = "insertItems", !.sub = s, !.todo = @ \ {s}])
    BY <1>0, <2>2 DEF StillHolds, Calls
  <2>4. \A t \in Subs : submission'[t].status = "completed"
                           => submission[t].status = "completed"
    BY <2>1 DEF TypeOK
  <2> QED
    BY <1>2, <2>1, <2>3, <2>4, QuietStepAnswers DEF InsertSubmission
<1>3. ASSUME NEW h \in Handlers, InsertItems(h) PROVE AnswersInv'
  <2> DEFINE c == [call[h] EXCEPT !.pc = "insertSubmission"]
  <2>1. Become(h, c)
    BY <1>3 DEF InsertItems, Goto
  <2>2. StillHolds(call[h])'
    <3>1. call'[h] = c
      BY <2>1 DEF TypeOK, Become
    <3> QED
      BY <1>0, <3>1 DEF StillHolds, Calls
  <2>3. /\ item' = [i \in Items |-> IF SubOf[i] = call[h].sub THEN "pending" ELSE item[i]]
        /\ UNCHANGED <<submission, answered>>
    BY <1>3 DEF InsertItems
  <2>4. DecidedItemsAreAnswered' /\ ItemsComeInBatches'
    BY <2>3 DEF AnswersInv, DecidedItemsAreAnswered, ItemsComeInBatches
  <2>5. CompletedSubmissionsAreAnswered'
    BY <2>3 DEF AnswersInv, CompletedSubmissionsAreAnswered, CompletedSubs, ItemsOf
  <2>6. \A i \in Items : item[i] # "absent" => item'[i] # "absent"
    BY <2>3
  <2> HIDE DEF c
  <2> QED
    BY <2>1, <2>2, <2>3, <2>4, <2>5, <2>6, StepAnswers
<1>4. ASSUME NEW h \in Handlers, CreateDone(h) PROVE AnswersInv'
  BY <1>0, <1>4, QuietStepAnswers DEF CreateDone, Return, rows
<1>5. ASSUME NEW h \in Handlers, NEW action \in Actions, StartTransition(h, action)
      PROVE AnswersInv'
  <2>1. StillHolds([NoCall EXCEPT !.pc = "transition", !.action = action, !.row = request,
                              !.late = pastDue])
    BY DEF StillHolds, NoCall
  <2> QED
    BY <1>5, <2>1, QuietStepAnswers DEF StartTransition, rows
<1>6. ASSUME NEW h \in Handlers, WriteTransition(h) PROVE AnswersInv'
  <2> DEFINE c == [NoCall EXCEPT
                     !.pc = IF call[h].action = "reopen" THEN "reopenSubmissions" ELSE "sync",
                     !.late = call[h].late]
  <2>1. StillHolds(c)
    BY DEF StillHolds, NoCall
  <2>2. Become(h, c) \/ Become(h, NoCall)
    BY <1>6 DEF WriteTransition, Return
  <2> HIDE DEF c
  <2> QED
    BY <1>0, <1>6, <2>1, <2>2, QuietStepAnswers DEF WriteTransition
<1>7. ASSUME NEW h \in Handlers, ReopenSubmissions(h) PROVE AnswersInv'
  <2>1. StillHolds([call[h] EXCEPT !.pc = "sync"])
    BY <1>0 DEF StillHolds, Calls
  <2>2. \A s \in Subs : submission'[s].status = "completed"
                           => submission[s].status = "completed"
    BY <1>7 DEF ReopenSubmissions, TypeOK, SubmissionRow
  <2> QED
    BY <1>7, <2>1, <2>2, QuietStepAnswers DEF ReopenSubmissions, Goto
<1>8. ASSUME NEW h \in Handlers, NEW s \in Subs, NEW chosen \in SUBSET Items,
             StartAutosave(h, s, chosen)
      PROVE AnswersInv'
  <2> DEFINE c == [NoCall EXCEPT !.pc = "upsertAnswers", !.sub = s, !.items = chosen,
                                 !.prev = submission[s].status, !.late = pastDue]
  <2>1. StillHolds(c)
    BY <1>8 DEF StillHolds, NoCall, StartAutosave, InsertedItems
  <2>2. Become(h, c)
    BY <1>8 DEF StartAutosave
  <2> HIDE DEF c
  <2> QED
    BY <1>8, <2>1, <2>2, QuietStepAnswers DEF StartAutosave, rows
<1>9. ASSUME NEW h \in Handlers, UpsertAnswers(h) PROVE AnswersInv'
  <2> DEFINE c == [call[h] EXCEPT !.pc = "provideItems"]
  <2>1. Become(h, c)
    BY <1>9 DEF UpsertAnswers, Goto
  <2>2. /\ answered' = answered \cup call[h].items /\ UNCHANGED <<submission, item>>
        /\ call[h].pc = "upsertAnswers"
    BY <1>9 DEF UpsertAnswers, At
  <2>3. StillHolds(call[h])'
    <3>1. call'[h] = c
      BY <2>1 DEF TypeOK, Become
    <3>2. /\ c.pc = "provideItems" /\ c.items = call[h].items /\ c.sub = call[h].sub
          /\ call[h].sub \in Subs /\ \A i \in call[h].items : item[i] # "absent"
      BY <1>0, <2>2 DEF StillHolds, Calls
    <3> HIDE DEF c
    <3> QED
      BY <2>2, <3>1, <3>2 DEF StillHolds
  <2>4. DecidedItemsAreAnswered' /\ ItemsComeInBatches'
    BY <2>2 DEF AnswersInv, DecidedItemsAreAnswered, ItemsComeInBatches
  <2>5. CompletedSubmissionsAreAnswered'
    BY <2>2, CountsAsAnsweredStays
       DEF AnswersInv, CompletedSubmissionsAreAnswered, CompletedSubs
  <2>6. answered \subseteq answered'
    BY <2>2
  <2>7. \A i \in Items : item[i] # "absent" => item'[i] # "absent"
    BY <2>2
  <2> HIDE DEF c
  <2> QED
    BY <2>1, <2>3, <2>4, <2>5, <2>6, <2>7, StepAnswers
<1>10. ASSUME NEW h \in Handlers, NEW v \in {"provided", "approved", "rejected"},
              call[h].pc \in {"provideItems", "review"}, GotoCount(h),
              item' = [i \in Items |-> IF i \in call[h].items THEN v ELSE item[i]],
              UNCHANGED <<submission, answered>>
       PROVE AnswersInv'
  <2> DEFINE c == [call[h] EXCEPT !.pc = "count", !.items = {}, !.verdict = "absent"]
  <2>1. Become(h, c)
    BY <1>10 DEF GotoCount
  <2>2. StillHolds(call[h])'
    <3>1. call'[h] = c
      BY <2>1 DEF TypeOK, Become
    <3>2. c.pc = "count" /\ c.sub = call[h].sub /\ call[h].sub \in Subs
      BY <1>0, <1>10 DEF StillHolds, Calls
    <3> HIDE DEF c
    <3> QED
      BY <3>1, <3>2 DEF StillHolds
  <2>3. /\ call[h].items \subseteq answered
        /\ \A i \in call[h].items : item[i] # "absent"
    BY <1>0, <1>10 DEF StillHolds
  <2>4. DecidedItemsAreAnswered'
    BY <1>10, <2>3 DEF AnswersInv, DecidedItemsAreAnswered
  <2>5. ItemsComeInBatches'
    BY <1>10, <2>3 DEF AnswersInv, ItemsComeInBatches
  <2>6. CompletedSubmissionsAreAnswered'
    BY <1>10 DEF AnswersInv, CompletedSubmissionsAreAnswered, CompletedSubs, ItemsOf
  <2>7. \A i \in Items : item[i] # "absent" => item'[i] # "absent"
    BY <1>10
  <2> HIDE DEF c
  <2> QED
    BY <1>10, <2>1, <2>2, <2>4, <2>5, <2>6, <2>7, StepAnswers
<1>11. ASSUME NEW h \in Handlers, ProvideItems(h) PROVE AnswersInv'
  BY <1>10, <1>11 DEF ProvideItems, At
<1>12. ASSUME NEW h \in Handlers, NEW i \in Items, NEW verdict \in {"approved", "rejected"},
              StartReview(h, i, verdict)
       PROVE AnswersInv'
  <2> DEFINE c == [NoCall EXCEPT !.pc = "review", !.sub = SubOf[i], !.items = {i},
                                 !.verdict = verdict,
                                 !.prev = submission[SubOf[i]].status, !.late = pastDue]
  <2>1. item[i] \in {"provided", "approved", "rejected"}
    BY <1>12 DEF StartReview, AllowedForReview
  <2>2. i \in answered /\ SubOf[i] \in Subs
    BY <2>1, ItemsHaveSubmissions DEF AnswersInv, DecidedItemsAreAnswered
  <2>3. StillHolds(c)
    BY <2>1, <2>2 DEF StillHolds, NoCall
  <2>4. Become(h, c)
    BY <1>12 DEF StartReview
  <2> HIDE DEF c
  <2> QED
    BY <1>12, <2>3, <2>4, QuietStepAnswers DEF StartReview, rows
<1>13. ASSUME NEW h \in Handlers, WriteReview(h) PROVE AnswersInv'
  <2>1. call[h].verdict \in {"approved", "rejected"} /\ call[h].pc = "review"
    BY <1>0, <1>13 DEF StillHolds, WriteReview, At
  <2> QED
    BY <1>10, <1>13, <2>1 DEF WriteReview
<1>14. ASSUME NEW h \in Handlers, CountItems(h) PROVE AnswersInv'
  <2> DEFINE p == Progress(Cardinality(AnsweredItems(call[h].sub)),
                           Cardinality(InsertedItems(call[h].sub)))
             c == [call[h] EXCEPT !.pc = "writeProgress", !.progress = p]
  <2>1. call[h].sub \in Subs
    BY <1>0, <1>14 DEF StillHolds, CountItems, At
  <2>2. p = 100 => CountsAsAll(call[h].sub, answered)
    BY <2>1, FullCountIsAnswered
  <2>3. Become(h, c)
    BY <1>14 DEF CountItems
  <2> HIDE DEF p
  <2>4. StillHolds(c)
    BY <1>0, <2>1, <2>2 DEF StillHolds, Calls
  <2> HIDE DEF c
  <2> QED
    BY <1>14, <2>3, <2>4, QuietStepAnswers DEF CountItems, rows
<1>15. ASSUME NEW h \in Handlers, WriteProgress(h) PROVE AnswersInv'
  <2> DEFINE c == [NoCall EXCEPT !.pc = "sync", !.late = call[h].late]
             s == call[h].sub
  <2>1. Become(h, c)
    BY <1>15 DEF WriteProgress
  <2>2. StillHolds(call[h])'
    <3>1. call'[h] = c
      BY <2>1 DEF TypeOK, Become
    <3> QED
      BY <3>1 DEF StillHolds, NoCall
  <2>3. s \in Subs /\ (call[h].progress = 100 => CountsAsAll(s, answered))
    BY <1>0, <1>15 DEF StillHolds, WriteProgress, At
  <2>4. /\ submission' = [submission EXCEPT ![s] =
              [status |-> RecalculatedStatus(call[h].progress, call[h].prev),
               progressPercent |-> call[h].progress,
               submittedAt |-> call[h].progress = 100]]
        /\ UNCHANGED <<item, answered>>
    BY <1>15 DEF WriteProgress
  <2>5. RecalculatedStatus(call[h].progress, call[h].prev) = "completed"
           => call[h].progress = 100
    BY DEF RecalculatedStatus
  <2>6. CompletedSubmissionsAreAnswered'
    <3> SUFFICES ASSUME NEW t \in Subs, submission'[t].status = "completed"
                 PROVE  CountsAsAll(t, answered)
      BY <2>4 DEF CompletedSubmissionsAreAnswered, CompletedSubs, ItemsOf
    <3>1. CASE t = s
      BY <3>1, <2>3, <2>4, <2>5 DEF TypeOK
    <3>2. CASE t # s
      BY <3>2, <2>4 DEF TypeOK, AnswersInv, CompletedSubmissionsAreAnswered, CompletedSubs
    <3> QED
      BY <3>1, <3>2
  <2>7. DecidedItemsAreAnswered' /\ ItemsComeInBatches'
    BY <2>4 DEF AnswersInv, DecidedItemsAreAnswered, ItemsComeInBatches
  <2> HIDE DEF c
  <2> QED
    BY <2>1, <2>2, <2>4, <2>6, <2>7, StepAnswers
<1>16. ASSUME NEW h \in Handlers, SyncRead(h) PROVE AnswersInv'
  <2> DEFINE row == [NoRequest EXCEPT !.status = request.status,
                                      !.overdueNotifiedAt = request.overdueNotifiedAt]
  <2>1. StillHolds([call[h] EXCEPT !.pc = "countSubmissions", !.row = row])
    BY <1>0 DEF StillHolds, Calls
  <2> QED
    BY <1>16, <2>1, QuietStepAnswers DEF SyncRead, rows
<1>17. ASSUME NEW h \in Handlers, CountSubmissions(h) PROVE AnswersInv'
  <2>1. StillHolds([call[h] EXCEPT !.pc = "countCompleted", !.total = Cardinality(InsertedSubs)])
    BY <1>0 DEF StillHolds, Calls
  <2> QED
    BY <1>17, <2>1, QuietStepAnswers DEF CountSubmissions, rows
<1>18. ASSUME NEW h \in Handlers, CountCompleted(h) PROVE AnswersInv'
  <2> DEFINE all == call[h].total > 0 /\ Cardinality(CompletedSubs) = call[h].total
  <2>1. StillHolds([call[h] EXCEPT !.pc = "signal", !.allCompleted = all])
    BY <1>0 DEF StillHolds, Calls
  <2> QED
    BY <1>18, <2>1, QuietStepAnswers DEF CountCompleted, rows
<1>19. ASSUME NEW h \in Handlers, WriteSignals(h) PROVE AnswersInv'
  <2>1. StillHolds([call[h] EXCEPT !.pc = "emit"])
    BY <1>0 DEF StillHolds, Calls
  <2>2. \/ Become(h, [call[h] EXCEPT !.pc = "emit"])
        \/ Become(h, NoCall)
    BY <1>19 DEF WriteSignals, Return, Goto
  <2> QED
    BY <1>0, <1>19, <2>1, <2>2, QuietStepAnswers DEF WriteSignals
<1>20. ASSUME NEW h \in Handlers, EmitSignals(h) \/ Fail(h) PROVE AnswersInv'
  BY <1>0, <1>20, QuietStepAnswers DEF EmitSignals, Fail, Return, rows
<1>21. ASSUME UNCHANGED <<rows, call>> PROVE AnswersInv'
  BY <1>21 DEF rows, AnswersInv, DecidedItemsAreAnswered, CompletedSubmissionsAreAnswered,
     ItemsComeInBatches, StillHolds, CompletedSubs, ItemsOf
<1>22. (UNCHANGED vars \/ DuePasses) => UNCHANGED <<rows, call>>
  BY DEF vars, rows, DuePasses
<1> QED
  BY <1>1, <1>2, <1>3, <1>4, <1>5, <1>6, <1>7, <1>8, <1>9, <1>11, <1>12, <1>13, <1>14,
     <1>15, <1>16, <1>17, <1>18, <1>19, <1>20, <1>21, <1>22 DEF Next, Start, Continue

LEMMA AnswersInvariant == Spec => []AnswersInv
<1>1. Init => AnswersInv
  BY DEF Init, AnswersInv, DecidedItemsAreAnswered, CompletedSubmissionsAreAnswered,
     CompletedSubs, ItemsComeInBatches, StillHolds, NoCall, NoSubmission
<1> QED
  BY <1>1, TypeCorrect, AnswersInductive, PTL DEF Spec

\* Whatever the handlers interleave and wherever they fail, an item that is
\* provided or decided has its answer, and a completed submission has all its
\* answers but those the rounding forgives (L911-948, L1088-1100, L1215-1274).
THEOREM AnswersCorrect == Spec => [](DecidedItemsAreAnswered /\ CompletedSubmissionsAreAnswered)
<1>1. AnswersInv => DecidedItemsAreAnswered /\ CompletedSubmissionsAreAnswered
  BY DEF AnswersInv
<1> QED
  BY <1>1, AnswersInvariant, PTL

----------------------------------------------------------------------------
(* Rows: columns written together never contradict each other *)

LEMMA RowsInductive ==
    TypeOK /\ SubmissionRowsAgree /\ ClosedRequestsHaveClosedAt /\ [Next]_vars
        => SubmissionRowsAgree' /\ ClosedRequestsHaveClosedAt'
<1> SUFFICES ASSUME TypeOK, SubmissionRowsAgree, ClosedRequestsHaveClosedAt, [Next]_vars
             PROVE  SubmissionRowsAgree' /\ ClosedRequestsHaveClosedAt'
  OBVIOUS
<1>1. ASSUME UNCHANGED submission PROVE SubmissionRowsAgree'
  BY <1>1 DEF SubmissionRowsAgree
<1>2. ASSUME UNCHANGED request PROVE ClosedRequestsHaveClosedAt'
  BY <1>2 DEF ClosedRequestsHaveClosedAt
<1>3. ASSUME NEW h \in Handlers, InsertSubmission(h) PROVE SubmissionRowsAgree'
  <2>1. PICK s : submission' = [submission EXCEPT ![s] =
                [status |-> "in_progress", progressPercent |-> 0, submittedAt |-> FALSE]]
    BY <1>3 DEF InsertSubmission
  <2> QED
    BY <2>1 DEF SubmissionRowsAgree, TypeOK
<1>4. ASSUME NEW h \in Handlers, ReopenSubmissions(h) PROVE SubmissionRowsAgree'
  <2>1. ASSUME NEW s \in Subs
        PROVE  submission'[s] \in {submission[s],
                  [submission[s] EXCEPT !.status = "reopened", !.submittedAt = FALSE]}
    BY <1>4 DEF ReopenSubmissions
  <2>2. ASSUME NEW s \in Subs
        PROVE  submission[s] \in SubmissionRow
    BY DEF TypeOK
  <2>3. ASSUME NEW s \in Subs,
               submission'[s] = [submission[s] EXCEPT !.status = "reopened", !.submittedAt = FALSE]
        PROVE  submission'[s].status = "reopened" /\ submission'[s].submittedAt = FALSE
    BY <2>2, <2>3 DEF SubmissionRow
  <2> SUFFICES ASSUME NEW s \in Subs
               PROVE  /\ submission'[s].submittedAt <=> submission'[s].status = "completed"
                      /\ submission'[s].status = "completed"
                            => submission'[s].progressPercent = 100
    BY DEF SubmissionRowsAgree
  <2>4. CASE submission'[s] = submission[s]
    BY <2>4 DEF SubmissionRowsAgree
  <2>5. CASE submission'[s] # submission[s]
    BY <2>1, <2>3, <2>5
  <2> QED
    BY <2>4, <2>5
<1>5. ASSUME NEW h \in Handlers, WriteProgress(h) PROVE SubmissionRowsAgree'
  <2>1. submission' = [submission EXCEPT ![call[h].sub] =
              [status |-> RecalculatedStatus(call[h].progress, call[h].prev),
               progressPercent |-> call[h].progress,
               submittedAt |-> call[h].progress = 100]]
    BY <1>5 DEF WriteProgress
  <2>2. RecalculatedStatus(call[h].progress, call[h].prev) = "completed"
           <=> call[h].progress = 100
    BY DEF RecalculatedStatus
  <2> QED
    BY <2>1, <2>2 DEF SubmissionRowsAgree, TypeOK
<1>6. ASSUME NEW h \in Handlers, CreateRequest(h) PROVE ClosedRequestsHaveClosedAt'
  BY <1>6 DEF CreateRequest, ClosedRequestsHaveClosedAt, NoRequest
<1>7. ASSUME NEW h \in Handlers, WriteTransition(h) PROVE ClosedRequestsHaveClosedAt'
  <2>1. call[h].action \in {"send", "close", "reopen"}
    BY <1>7 DEF WriteTransition, At, TypeOK, CallOK, Actions
  <2>2. request'.status = NextStatus[call[h].action]
    BY <1>7 DEF WriteTransition
  <2>3. CASE call[h].action = "close"
    BY <1>7, <2>3 DEF WriteTransition, ClosedRequestsHaveClosedAt
  <2>4. CASE call[h].action # "close"
    BY <2>1, <2>2, <2>4 DEF ClosedRequestsHaveClosedAt, NextStatus
  <2> QED
    BY <2>3, <2>4
<1>8. ASSUME NEW h \in Handlers, WriteSignals(h) PROVE ClosedRequestsHaveClosedAt'
  <2> DEFINE row == call[h].row
             next == SyncedStatus(row.status, call[h].allCompleted)
  <2>1. /\ request'.status = IF next # row.status THEN next ELSE request.status
        /\ request'.closedAt = request.closedAt
    BY <1>8 DEF WriteSignals, TypeOK, RequestRow
  <2>2. next = "closed" => next = row.status
    BY DEF SyncedStatus
  <2> QED
    BY <2>1, <2>2 DEF ClosedRequestsHaveClosedAt
<1> QED
  BY <1>1, <1>2, <1>3, <1>4, <1>5, <1>6, <1>7, <1>8
     DEF Next, Start, Continue, rows, vars, CreateRequest, InsertSubmission, InsertItems,
         CreateDone, StartTransition, WriteTransition, ReopenSubmissions, StartAutosave,
         UpsertAnswers, ProvideItems, StartReview, WriteReview, CountItems, WriteProgress,
         SyncRead, CountSubmissions, CountCompleted, WriteSignals, EmitSignals, DuePasses, Fail

\* However the recalculations, reopenings, transitions and syncs interleave, a
\* submission's columns agree and a closed request has its closing time.
THEOREM RowsCorrect == Spec => [](SubmissionRowsAgree /\ ClosedRequestsHaveClosedAt)
<1>1. Init => SubmissionRowsAgree /\ ClosedRequestsHaveClosedAt
  BY DEF Init, SubmissionRowsAgree, ClosedRequestsHaveClosedAt, NoSubmission, NoRequest
<1> QED
  BY <1>1, TypeCorrect, RowsInductive, PTL DEF Spec

----------------------------------------------------------------------------
(* One call at a time and no failures: the rows agree with each other *)

Serial == ~MayFail /\ \E h : Handlers = {h}

\* The progress that the items of a submission stand for.
Share(s) == Progress(Cardinality(AnsweredItems(s)), Cardinality(InsertedItems(s)))

SubMatches(s) ==
    /\ submission[s].progressPercent = Share(s)
    /\ submission[s].status = "completed" => CountsAsAll(s, AnsweredItems(s))
    /\ submission[s].status = "in_progress" => submission[s].progressPercent < 100

StatusMatches ==
    request.status \notin {"absent", "closed"} => (request.status = "completed" <=> AllCompleted)

\* Nobody has worked on the request yet.
Untouched ==
    /\ \A s \in Subs : submission[s].status \in {"absent", "in_progress"}
    /\ \A i \in Items : item[i] \in {"absent", "pending"}

\* The webhook events emitted, as far as they are counted; one may still be owed.
CompletedCounted(owed) ==
    EventBound > 0 =>
        events.completed = IF request.status = "completed" /\ ~owed THEN 1 ELSE 0
OverdueCounted(owed) ==
    EventBound > 0 =>
        events.overdue = IF request.overdueNotifiedAt /\ ~owed THEN 1 ELSE 0

Recounting == {"count", "writeProgress"}
Syncing == {"countSubmissions", "countCompleted", "signal"}

\* What the handler knows, c being its call record.
Knows(c) ==
    /\ c.pc # "idle" => request.status # "absent"
    /\ c.pc \in {"insertSubmission", "insertItems"} => Untouched
    /\ c.pc \in {"insertItems", "upsertAnswers", "provideItems", "review"} \cup Recounting
          => c.sub \in Subs /\ submission[c.sub].status # "absent"
    /\ c.pc \in {"upsertAnswers", "provideItems", "review"} => \A i \in c.items : SubOf[i] = c.sub
    /\ c.pc = "transition" =>
          c.action \in Actions /\ c.row = request /\ request.status \in TransitionRules[c.action]
    /\ c.pc = "reopenSubmissions" => request.status = "in_progress"
    /\ c.pc = "writeProgress" => c.progress = Share(c.sub)
    /\ c.pc \in Syncing => /\ c.row.status = request.status
                           /\ c.row.overdueNotifiedAt = request.overdueNotifiedAt
    /\ c.pc = "countCompleted" => c.total = Cardinality(InsertedSubs)
    /\ c.pc = "signal" => (c.allCompleted <=> AllCompleted)

\* What holds while the handler is there.
Meanwhile(c) ==
    /\ \A s \in InsertedSubs : (c.pc \in Recounting /\ c.sub = s) \/ SubMatches(s)
    /\ c.pc \notin {"reopenSubmissions", "sync"} \cup Syncing => StatusMatches
    /\ CompletedCounted(c.pc = "emit" /\ EmitsCompleted(c))
    /\ OverdueCounted(c.pc = "emit" /\ EmitsOverdue(c))
    /\ c.pc = "emit" /\ EmitsCompleted(c) => request.status = "completed"
    /\ c.pc = "emit" /\ EmitsOverdue(c) => request.overdueNotifiedAt

SerialInv ==
    /\ \A i \in Items : item[i] # "absent" => submission[SubOf[i]].status # "absent"
    /\ request.status = "absent" => request = NoRequest /\ InsertedSubs = {} /\ Untouched
    /\ \A h \in Handlers : Knows(call[h]) /\ Meanwhile(call[h])

LEMMA CallFacts ==
    ASSUME TypeOK, Serial, SerialInv, NEW h \in Handlers
    PROVE  call[h] \in Calls /\ Knows(call[h]) /\ Meanwhile(call[h])
BY DEF TypeOK, SerialInv

\* What is left to show of a step of the only handler there is.
LEMMA OnlyHandler ==
    ASSUME Serial, NEW h \in Handlers, Knows(call[h])', Meanwhile(call[h])',
           \A i \in Items : item'[i] # "absent" => submission'[SubOf[i]].status # "absent",
           (request.status = "absent" => request = NoRequest /\ InsertedSubs = {} /\ Untouched)'
    PROVE  SerialInv'
<1>1. ASSUME NEW g \in Handlers PROVE Knows(call[g])' /\ Meanwhile(call[g])'
  <2>1. g = h
    BY DEF Serial
  <2> QED
    BY <2>1
<1> QED
  BY <1>1 DEF SerialInv

\* The case of a step that reads.
LEMMA ReadingStep ==
    ASSUME TypeOK, Serial, SerialInv, NEW h \in Handlers, NEW c, Become(h, c),
           UNCHANGED <<request, submission, item, events>>, Knows(c), Meanwhile(c)
    PROVE  SerialInv'
<1>1. call'[h] = c
  BY DEF TypeOK, Become
<1>2. /\ InsertedSubs' = InsertedSubs /\ (AllCompleted' <=> AllCompleted)
      /\ (Untouched' <=> Untouched)
      /\ \A s : Share(s)' = Share(s) /\ (SubMatches(s)' <=> SubMatches(s))
  BY DEF InsertedSubs, CompletedSubs, AllCompleted, Untouched, Share, SubMatches, AnsweredItems,
         InsertedItems, ItemsOf
<1>3. Knows(call[h])'
  BY <1>1, <1>2 DEF Knows
<1>4. (StatusMatches' <=> StatusMatches)
      /\ \A b \in BOOLEAN : /\ CompletedCounted(b)' <=> CompletedCounted(b)
                            /\ OverdueCounted(b)' <=> OverdueCounted(b)
  BY <1>2 DEF StatusMatches, CompletedCounted, OverdueCounted
<1>5. /\ (EmitsCompleted(call[h])' <=> EmitsCompleted(c))
      /\ (EmitsOverdue(call[h])' <=> EmitsOverdue(c))
  BY <1>1 DEF EmitsCompleted, EmitsOverdue
<1>6. Meanwhile(call[h])'
  BY <1>1, <1>2, <1>4, <1>5 DEF Meanwhile
<1>7. /\ \A i \in Items : item'[i] # "absent" => submission'[SubOf[i]].status # "absent"
      /\ (request.status = "absent" => request = NoRequest /\ InsertedSubs = {} /\ Untouched)'
  BY <1>2 DEF SerialInv
<1> QED
  BY <1>3, <1>6, <1>7, OnlyHandler

LEMMA NoneDone ==
    ASSUME NEW s, AnsweredItems(s) = {}
    PROVE  Share(s) = 0
<1>1. Cardinality(AnsweredItems(s)) = 0 /\ Cardinality(InsertedItems(s)) \in Nat
  BY ItemSetsFinite, FS_EmptySet, FS_CardinalityType
<1>2. ASSUME NEW n \in Nat PROVE Progress(0, n) = 0
  <2>1. CASE n = 0
    BY <2>1 DEF Progress
  <2>2. CASE n > 0
    <3>1. n \div (2 * n) \in Nat /\ (2 * n) * (n \div (2 * n)) <= n
      BY <2>2, DivisionBounds
    <3>2. n \div (2 * n) = 0
      <4>1. SUFFICES ASSUME n \div (2 * n) >= 1 PROVE FALSE
        BY <3>1
      <4>2. (2 * n) * (n \div (2 * n)) >= (2 * n) * 1
        BY <3>1, <4>1
      <4> QED
        BY <2>2, <3>1, <4>2
    <3> QED
      BY <2>2, <3>2 DEF Progress
  <2> QED
    BY <2>1, <2>2
<1> QED
  BY <1>1, <1>2 DEF Share

LEMMA UntouchedShares == Untouched => \A s : Share(s) = 0
<1> SUFFICES ASSUME Untouched, NEW s PROVE Share(s) = 0
  OBVIOUS
<1>1. AnsweredItems(s) = {}
  BY DEF Untouched, AnsweredItems, ItemsOf
<1> QED
  BY <1>1, NoneDone

LEMMA UntouchedSharesNext == (Untouched => \A s : Share(s) = 0)'
BY UntouchedShares, PTL

\* Two counts that agree mean that every submission is completed.
LEMMA CountsAgree ==
    Cardinality(InsertedSubs) > 0 /\ Cardinality(CompletedSubs) = Cardinality(InsertedSubs)
        <=> AllCompleted
<1>1. CompletedSubs \subseteq InsertedSubs /\ InsertedSubs \in SUBSET Subs
  BY DEF CompletedSubs, InsertedSubs
<1>2. IsFiniteSet(InsertedSubs) /\ IsFiniteSet(CompletedSubs)
  BY <1>1, FS_Subset, RowsAreFinite
<1>3. Cardinality(InsertedSubs) \in Nat /\ (Cardinality(InsertedSubs) = 0 <=> InsertedSubs = {})
  BY <1>2, FS_CardinalityType, FS_EmptySet
<1>4. Cardinality(CompletedSubs) = Cardinality(InsertedSubs) <=> CompletedSubs = InsertedSubs
  BY <1>1, <1>2, FS_Subset
<1> QED
  BY <1>3, <1>4 DEF AllCompleted

LEMMA SerialStarts == Init => SerialInv
<1> SUFFICES ASSUME Init PROVE SerialInv
  OBVIOUS
<1>1. /\ InsertedSubs = {} /\ Untouched /\ request = NoRequest /\ request.status = "absent"
  BY DEF Init, InsertedSubs, Untouched, NoSubmission, NoRequest
<1>2. Knows(NoCall)
  BY DEF Knows, NoCall, Recounting, Syncing
<1>3. Meanwhile(NoCall)
  BY <1>1 DEF Init, Meanwhile, StatusMatches, CompletedCounted, OverdueCounted, NoCall, NoRequest
<1> QED
  BY <1>1, <1>2, <1>3 DEF Init, SerialInv

----------------------------------------------------------------------------
(* createRequest *)

LEMMA CreationKeeps ==
    ASSUME TypeOK, Serial, SerialInv, NEW h \in Handlers,
           CreateRequest(h) \/ InsertSubmission(h) \/ InsertItems(h) \/ CreateDone(h)
    PROVE  SerialInv'
<1>0. call[h] \in Calls /\ Knows(call[h]) /\ Meanwhile(call[h])
  BY CallFacts
<1>n. /\ \A i \in Items : item[i] # "absent" => submission[SubOf[i]].status # "absent"
      /\ request.status = "absent" => request = NoRequest /\ InsertedSubs = {} /\ Untouched
  BY DEF SerialInv
<1>1. CASE CreateRequest(h)
  <2>1. /\ call'[h].pc = "insertSubmission" /\ request.status = "absent" /\ call[h].pc = "idle"
    BY <1>1 DEF CreateRequest, Become, TypeOK, NoCall, Idle
  <2>2. /\ request'.status = "draft" /\ ~request'.overdueNotifiedAt
        /\ UNCHANGED <<submission, item, events>>
    BY <1>1 DEF CreateRequest, NoRequest
  <2>3. InsertedSubs' = {} /\ Untouched' /\ ~AllCompleted'
    BY <1>n, <2>1, <2>2 DEF InsertedSubs, CompletedSubs, AllCompleted, Untouched
  <2>4. Knows(call[h])'
    BY <2>1, <2>2, <2>3 DEF Knows, Recounting, Syncing
  <2>5. EventBound > 0 => events.completed = 0 /\ events.overdue = 0
    BY <1>0, <1>n, <2>1 DEF Meanwhile, CompletedCounted, OverdueCounted, NoRequest
  <2>6. Meanwhile(call[h])'
    BY <2>1, <2>2, <2>3, <2>5 DEF Meanwhile, StatusMatches, CompletedCounted, OverdueCounted
  <2> QED
    BY <1>n, <2>2, <2>3, <2>4, <2>6, OnlyHandler
<1>2. CASE InsertSubmission(h)
  <2>1. PICK s \in call[h].todo :
           /\ submission' = [submission EXCEPT ![s] =
                [status |-> "in_progress", progressPercent |-> 0, submittedAt |-> FALSE]]
           /\ Become(h, [call[h] EXCEPT !.pc = "insertItems", !.sub = s, !.todo = @ \ {s}])
    BY <1>2 DEF InsertSubmission
  <2>2. s \in Subs /\ UNCHANGED <<request, item, events>> /\ call[h].pc = "insertSubmission"
    BY <1>0, <1>2 DEF InsertSubmission, Calls, At
  <2>3. call'[h].pc = "insertItems" /\ call'[h].sub = s
    BY <1>0, <2>1 DEF Become, TypeOK, Calls
  <2>4. \A t \in Subs : submission'[t] = IF t = s
           THEN [status |-> "in_progress", progressPercent |-> 0, submittedAt |-> FALSE]
           ELSE submission[t]
    BY <2>1 DEF TypeOK
  <2>5. Untouched /\ request.status # "absent"
    BY <1>0, <2>2 DEF Knows
  <2>6. Untouched' /\ ~AllCompleted /\ ~AllCompleted'
    <3>1. CompletedSubs = {} /\ CompletedSubs' = {}
      BY <2>4, <2>5 DEF CompletedSubs, Untouched
    <3>2. Untouched'
      BY <2>2, <2>4, <2>5 DEF Untouched
    <3> QED
      BY <3>1, <3>2 DEF AllCompleted
  <2>7. Knows(call[h])'
    BY <2>2, <2>3, <2>4, <2>5, <2>6 DEF Knows, Recounting, Syncing
  <2>8. ASSUME NEW t \in InsertedSubs' PROVE SubMatches(t)'
    <3>1. t \in Subs /\ Share(t)' = 0
      BY <2>6, <2>8, UntouchedSharesNext DEF InsertedSubs
    <3>2. CASE t = s
      BY <2>4, <3>1, <3>2 DEF SubMatches
    <3>3. CASE t # s
      <4>1. SubMatches(t) /\ Share(t) = 0
        BY <1>0, <2>2, <2>4, <2>5, <2>8, <3>3, UntouchedShares DEF Meanwhile, InsertedSubs, Recounting
      <4> QED
        BY <2>4, <2>5, <3>1, <3>3, <4>1 DEF SubMatches, Untouched
    <3> QED
      BY <3>2, <3>3
  <2>9. Meanwhile(call[h])'
    BY <1>0, <2>2, <2>3, <2>6, <2>8 DEF Meanwhile, StatusMatches, CompletedCounted, OverdueCounted,
       Syncing
  <2> QED
    BY <1>n, <2>2, <2>4, <2>5, <2>7, <2>9, ItemsHaveSubmissions, OnlyHandler
<1>3. CASE InsertItems(h)
  <2> DEFINE s == call[h].sub
  <2>1. /\ item' = [i \in Items |-> IF SubOf[i] = s THEN "pending" ELSE item[i]]
        /\ UNCHANGED <<request, submission, events>> /\ call[h].pc = "insertItems"
    BY <1>3 DEF InsertItems, At
  <2>2. call'[h].pc = "insertSubmission"
    BY <1>0, <1>3 DEF InsertItems, Goto, Become, TypeOK, Calls
  <2>3. Untouched /\ s \in Subs /\ submission[s].status # "absent" /\ request.status # "absent"
    BY <1>0, <2>1 DEF Knows
  <2>4. Untouched'
    BY <2>1, <2>3 DEF Untouched
  <2>5. InsertedSubs' = InsertedSubs /\ (AllCompleted' <=> AllCompleted)
    BY <2>1 DEF InsertedSubs, CompletedSubs, AllCompleted
  <2>6. ASSUME NEW t \in InsertedSubs PROVE SubMatches(t)'
    <3>1. t \in Subs /\ Share(t) = 0
      BY <2>3, <2>6, UntouchedShares DEF InsertedSubs
    <3>2. Share(t)' = 0
      BY <2>4, UntouchedSharesNext
    <3>3. SubMatches(t)
      BY <1>0, <2>1, <2>6 DEF Meanwhile, Recounting
    <3> QED
      BY <2>1, <2>3, <3>1, <3>2, <3>3 DEF SubMatches, Untouched
  <2>7. Knows(call[h])'
    BY <2>1, <2>2, <2>3, <2>4 DEF Knows, Recounting, Syncing
  <2>8. Meanwhile(call[h])'
    BY <1>0, <2>1, <2>2, <2>5, <2>6 DEF Meanwhile, StatusMatches, CompletedCounted, OverdueCounted,
       Syncing
  <2> QED
    BY <1>n, <2>1, <2>3, <2>7, <2>8, OnlyHandler
<1>4. CASE CreateDone(h)
  <2>1. Become(h, NoCall) /\ UNCHANGED <<request, submission, item, events>>
        /\ call[h].pc = "insertSubmission"
    BY <1>4 DEF CreateDone, Return, rows, At
  <2>2. Knows(NoCall)
    BY DEF Knows, NoCall, Recounting, Syncing
  <2>3. Meanwhile(NoCall)
    BY <1>0, <2>1 DEF Meanwhile, NoCall, Recounting, Syncing, CompletedCounted, OverdueCounted
  <2> QED
    BY <2>1, <2>2, <2>3, ReadingStep
<1> QED
  BY <1>1, <1>2, <1>3, <1>4

----------------------------------------------------------------------------
(* transitionRequestStatus *)

LEMMA TransitionKeeps ==
    ASSUME TypeOK, Serial, SerialInv, NEW h \in Handlers,
           \/ \E action \in Actions : StartTransition(h, action)
           \/ WriteTransition(h) \/ ReopenSubmissions(h)
    PROVE  SerialInv'
<1>0. call[h] \in Calls /\ Knows(call[h]) /\ Meanwhile(call[h])
  BY CallFacts
<1>n. /\ \A i \in Items : item[i] # "absent" => submission[SubOf[i]].status # "absent"
      /\ request.status = "absent" => request = NoRequest /\ InsertedSubs = {} /\ Untouched
  BY DEF SerialInv
<1>1. ASSUME NEW action \in Actions, StartTransition(h, action) PROVE SerialInv'
  <2> DEFINE c == [NoCall EXCEPT !.pc = "transition", !.action = action, !.row = request,
                                 !.late = pastDue]
  <2>1. /\ Become(h, c) /\ UNCHANGED <<request, submission, item, events>>
        /\ call[h].pc = "idle" /\ request.status \in TransitionRules[action]
    BY <1>1 DEF StartTransition, rows, Idle
  <2>2. c.pc = "transition" /\ c.action = action /\ c.row = request
    BY DEF NoCall
  <2>3. request.status # "absent"
    BY <2>1 DEF TransitionRules, Actions
  <2> HIDE DEF c
  <2>4. Knows(c)
    BY <2>1, <2>2, <2>3 DEF Knows, Recounting, Syncing
  <2>5. Meanwhile(c)
    BY <1>0, <2>1, <2>2 DEF Meanwhile, Recounting, Syncing, CompletedCounted, OverdueCounted
  <2> QED
    BY <2>1, <2>4, <2>5, ReadingStep
<1>2. CASE WriteTransition(h)
  <2> DEFINE action == call[h].action
  <2>1. /\ call[h].pc = "transition" /\ action \in Actions /\ call[h].row = request
        /\ request.status \in TransitionRules[action]
    BY <1>0, <1>2 DEF Knows, WriteTransition, At
  <2>2. /\ request'.status = NextStatus[action]
        /\ request'.overdueNotifiedAt = (action # "reopen" /\ request.overdueNotifiedAt)
        /\ UNCHANGED <<submission, item>>
        /\ events' = [completed |-> 0, overdue |-> IF action = "reopen" THEN 0 ELSE events.overdue]
    BY <1>2, <2>1 DEF WriteTransition
  <2>3. call'[h].pc = IF action = "close" THEN "idle"
                      ELSE IF action = "reopen" THEN "reopenSubmissions" ELSE "sync"
    <3>1. CASE action = "close"
      <4>1. call' = [call EXCEPT ![h] = NoCall]
        BY <1>2, <3>1 DEF WriteTransition, Become, Return
      <4> QED
        BY <3>1, <4>1 DEF TypeOK, NoCall
    <3>2. CASE action # "close"
      <4> DEFINE pc == IF action = "reopen" THEN "reopenSubmissions" ELSE "sync"
                 c == [NoCall EXCEPT !.pc = pc, !.late = call[h].late]
      <4>1. call' = [call EXCEPT ![h] = c]
        BY <1>2, <3>2 DEF WriteTransition, Become
      <4>2. call'[h] = c
        BY <4>1 DEF TypeOK
      <4>3. c.pc = pc
        BY DEF NoCall
      <4> QED
        BY <3>2, <4>2, <4>3
    <3> QED
      BY <3>1, <3>2
  <2>4. /\ InsertedSubs' = InsertedSubs
        /\ \A s : Share(s)' = Share(s) /\ (SubMatches(s)' <=> SubMatches(s))
    BY <2>2 DEF InsertedSubs, Share, SubMatches, AnsweredItems, InsertedItems, ItemsOf
  <2>5. request'.status \in {"sent", "closed", "in_progress"} /\ (action = "close" <=> request'.status = "closed")
        /\ (action = "reopen" <=> request'.status = "in_progress")
    BY <2>1, <2>2 DEF NextStatus, Actions
  <2>6. Knows(call[h])'
    BY <2>3, <2>5 DEF Knows, Recounting, Syncing
  <2>7. Meanwhile(call[h])'
    <3>1. EventBound > 0 => events.overdue = IF request.overdueNotifiedAt THEN 1 ELSE 0
      BY <1>0, <2>1 DEF Meanwhile, OverdueCounted
    <3>2. \A s \in InsertedSubs : SubMatches(s)
      BY <1>0, <2>1 DEF Meanwhile, Recounting
    <3> QED
      BY <2>2, <2>3, <2>4, <2>5, <3>1, <3>2
         DEF Meanwhile, StatusMatches, CompletedCounted, OverdueCounted, Syncing
  <2> QED
    BY <1>n, <2>2, <2>5, <2>6, <2>7, OnlyHandler
<1>3. CASE ReopenSubmissions(h)
  <2>1. /\ submission' = [s \in Subs |->
              IF s \in InsertedSubs
                 THEN [submission[s] EXCEPT !.status = "reopened", !.submittedAt = FALSE]
                 ELSE submission[s]]
        /\ UNCHANGED <<request, item, events>> /\ call[h].pc = "reopenSubmissions"
    BY <1>3 DEF ReopenSubmissions, At
  <2>2. call'[h].pc = "sync"
    BY <1>0, <1>3 DEF ReopenSubmissions, Goto, Become, TypeOK, Calls
  <2>3. \A s \in Subs : submission[s] \in SubmissionRow
    BY DEF TypeOK
  <2>4. ASSUME NEW s \in Subs
        PROVE  /\ s \in InsertedSubs => /\ submission'[s].status = "reopened"
                                        /\ submission'[s].progressPercent = submission[s].progressPercent
               /\ s \notin InsertedSubs => submission'[s] = submission[s]
    BY <2>1, <2>3 DEF SubmissionRow
  <2>5. InsertedSubs' = InsertedSubs
    BY <2>4 DEF InsertedSubs
  <2>6. ASSUME NEW s \in InsertedSubs PROVE SubMatches(s)'
    <3>1. s \in Subs /\ Share(s)' = Share(s) /\ SubMatches(s)
      BY <1>0, <2>1 DEF Meanwhile, Recounting, InsertedSubs, Share, AnsweredItems, InsertedItems,
         ItemsOf
    <3> QED
      BY <2>4, <3>1 DEF SubMatches
  <2>7. request.status # "absent"
    BY <1>0, <2>1 DEF Knows
  <2>8. Knows(call[h])'
    BY <2>1, <2>2, <2>7 DEF Knows, Recounting, Syncing
  <2>9. Meanwhile(call[h])'
    BY <1>0, <2>1, <2>2, <2>5, <2>6 DEF Meanwhile, CompletedCounted, OverdueCounted
  <2>10. \A i \in Items : item'[i] # "absent" => submission'[SubOf[i]].status # "absent"
    BY <1>n, <2>1, <2>4, ItemsHaveSubmissions DEF InsertedSubs
  <2> QED
    BY <2>1, <2>7, <2>8, <2>9, <2>10, OnlyHandler
<1> QED
  BY <1>1, <1>2, <1>3

----------------------------------------------------------------------------
(* autosaveSubmissionAnswers, reviewSubmissionItem and the recalculation *)

LEMMA AnsweringKeeps ==
    ASSUME TypeOK, Serial, SerialInv, NEW h \in Handlers,
           \/ \E s \in Subs, chosen \in SUBSET Items : StartAutosave(h, s, chosen)
           \/ \E i \in Items, verdict \in {"approved", "rejected"} : StartReview(h, i, verdict)
           \/ UpsertAnswers(h) \/ ProvideItems(h) \/ WriteReview(h)
    PROVE  SerialInv'
<1>0. call[h] \in Calls /\ Knows(call[h]) /\ Meanwhile(call[h])
  BY CallFacts
<1>n. /\ \A i \in Items : item[i] # "absent" => submission[SubOf[i]].status # "absent"
      /\ request.status = "absent" => request = NoRequest /\ InsertedSubs = {} /\ Untouched
  BY DEF SerialInv
<1>1. ASSUME NEW s \in Subs, NEW chosen \in SUBSET Items, StartAutosave(h, s, chosen)
      PROVE  SerialInv'
  <2> DEFINE c == [NoCall EXCEPT !.pc = "upsertAnswers", !.sub = s, !.items = chosen,
                                 !.prev = submission[s].status, !.late = pastDue]
  <2>1. /\ Become(h, c) /\ UNCHANGED <<request, submission, item, events>>
        /\ call[h].pc = "idle" /\ submission[s].status # "absent" /\ InsertedSubs # {}
        /\ \A i \in chosen : SubOf[i] = s
    BY <1>1 DEF StartAutosave, rows, Idle, InsertedSubs, InsertedItems, ItemsOf
  <2>2. c.pc = "upsertAnswers" /\ c.sub = s /\ c.items = chosen
    BY DEF NoCall
  <2> HIDE DEF c
  <2>3. Knows(c)
    BY <1>n, <2>1, <2>2 DEF Knows, Recounting, Syncing
  <2>4. Meanwhile(c)
    BY <1>0, <2>1, <2>2 DEF Meanwhile, Recounting, Syncing, CompletedCounted, OverdueCounted
  <2> QED
    BY <2>1, <2>3, <2>4, ReadingStep
<1>2. ASSUME NEW i \in Items, NEW verdict \in {"approved", "rejected"}, StartReview(h, i, verdict)
      PROVE  SerialInv'
  <2> DEFINE c == [NoCall EXCEPT !.pc = "review", !.sub = SubOf[i], !.items = {i},
                                 !.verdict = verdict,
                                 !.prev = submission[SubOf[i]].status, !.late = pastDue]
  <2>0. item[i] \in {"provided", "approved", "rejected"}
    <3>1. item[i] \in AllowedForReview[verdict]
      BY <1>2 DEF StartReview
    <3>2. verdict = "approved" \/ verdict = "rejected"
      OBVIOUS
    <3> QED
      BY <3>1, <3>2 DEF AllowedForReview
  <2>1. /\ Become(h, c) /\ UNCHANGED <<request, submission, item, events>>
        /\ call[h].pc = "idle" /\ item[i] # "absent"
    BY <1>2, <2>0 DEF StartReview, rows, Idle
  <2>2. c.pc = "review" /\ c.sub = SubOf[i] /\ c.items = {i}
    BY DEF NoCall
  <2> HIDE DEF c
  <2>3. SubOf[i] \in Subs /\ submission[SubOf[i]].status # "absent" /\ request.status # "absent"
    BY <1>n, <2>1, ItemsHaveSubmissions DEF InsertedSubs
  <2>4. Knows(c)
    BY <2>1, <2>2, <2>3 DEF Knows, Recounting, Syncing
  <2>5. Meanwhile(c)
    BY <1>0, <2>1, <2>2 DEF Meanwhile, Recounting, Syncing, CompletedCounted, OverdueCounted
  <2> QED
    BY <2>1, <2>4, <2>5, ReadingStep
<1>3. CASE UpsertAnswers(h)
  <2> DEFINE c == [call[h] EXCEPT !.pc = "provideItems"]
  <2>1. /\ Become(h, c) /\ UNCHANGED <<request, submission, item, events>>
        /\ call[h].pc = "upsertAnswers"
    BY <1>3 DEF UpsertAnswers, Goto, At
  <2>2. c.pc = "provideItems" /\ c.sub = call[h].sub /\ c.items = call[h].items
    BY <1>0 DEF Calls
  <2> HIDE DEF c
  <2>3. Knows(c)
    BY <1>0, <2>1, <2>2 DEF Knows, Recounting, Syncing
  <2>4. Meanwhile(c)
    BY <1>0, <2>1, <2>2 DEF Meanwhile, Recounting, Syncing, CompletedCounted, OverdueCounted
  <2> QED
    BY <2>1, <2>3, <2>4, ReadingStep
<1>4. CASE ProvideItems(h) \/ WriteReview(h)
  <2> DEFINE s == call[h].sub
  <2>1. PICK v : item' = [i \in Items |-> IF i \in call[h].items THEN v ELSE item[i]]
    BY <1>4 DEF ProvideItems, WriteReview
  <2>2. /\ UNCHANGED <<request, submission, events>> /\ call[h].pc \in {"provideItems", "review"}
        /\ GotoCount(h)
    BY <1>4 DEF ProvideItems, WriteReview, At
  <2>3. call'[h].pc = "count" /\ call'[h].sub = s
    BY <1>0, <2>2 DEF GotoCount, Become, TypeOK, Calls
  <2>4. /\ s \in Subs /\ submission[s].status # "absent" /\ request.status # "absent"
        /\ \A i \in call[h].items : SubOf[i] = s
    BY <1>0, <2>2 DEF Knows
  <2>5. InsertedSubs' = InsertedSubs /\ (AllCompleted' <=> AllCompleted)
    BY <2>2 DEF InsertedSubs, CompletedSubs, AllCompleted
  <2>6. ASSUME NEW t \in InsertedSubs, t # s PROVE SubMatches(t)'
    <3>1. AnsweredItems(t)' = AnsweredItems(t) /\ InsertedItems(t)' = InsertedItems(t)
      BY <2>1, <2>4, <2>6 DEF AnsweredItems, InsertedItems, ItemsOf
    <3>2. SubMatches(t)
      BY <1>0, <2>2, <2>6 DEF Meanwhile, Recounting
    <3> QED
      BY <2>2, <3>1, <3>2 DEF SubMatches, Share, ItemsOf
  <2>7. Knows(call[h])'
    BY <2>2, <2>3, <2>4 DEF Knows, Recounting, Syncing
  <2>8. Meanwhile(call[h])'
    BY <1>0, <2>2, <2>3, <2>5, <2>6 DEF Meanwhile, StatusMatches, CompletedCounted, OverdueCounted,
       Syncing, Recounting
  <2>9. \A i \in Items : item'[i] # "absent" => submission'[SubOf[i]].status # "absent"
    BY <1>n, <2>1, <2>2, <2>4
  <2> QED
    BY <2>2, <2>4, <2>7, <2>8, <2>9, OnlyHandler
<1> QED
  BY <1>1, <1>2, <1>3, <1>4

LEMMA RecalculationKeeps ==
    ASSUME TypeOK, AnswersInv, Serial, SerialInv, NEW h \in Handlers, CountItems(h) \/ WriteProgress(h)
    PROVE  SerialInv'
<1>0. call[h] \in Calls /\ Knows(call[h]) /\ Meanwhile(call[h])
  BY CallFacts
<1>n. /\ \A i \in Items : item[i] # "absent" => submission[SubOf[i]].status # "absent"
      /\ request.status = "absent" => request = NoRequest /\ InsertedSubs = {} /\ Untouched
  BY DEF SerialInv
<1> DEFINE s == call[h].sub
<1>1. CASE CountItems(h)
  <2> DEFINE c == [call[h] EXCEPT !.pc = "writeProgress", !.progress = Share(s)]
  <2>1. /\ Become(h, c) /\ UNCHANGED <<request, submission, item, events>>
        /\ call[h].pc = "count"
    BY <1>1 DEF CountItems, At, Share, rows
  <2>2. c.pc = "writeProgress" /\ c.sub = s /\ c.progress = Share(s)
    BY <1>0 DEF Calls
  <2> HIDE DEF c
  <2>3. Knows(c)
    BY <1>0, <2>1, <2>2 DEF Knows, Recounting, Syncing
  <2>4. Meanwhile(c)
    BY <1>0, <2>1, <2>2 DEF Meanwhile, Recounting, Syncing, CompletedCounted, OverdueCounted
  <2> QED
    BY <2>1, <2>3, <2>4, ReadingStep
<1>2. CASE WriteProgress(h)
  <2> DEFINE p == call[h].progress
             status == RecalculatedStatus(p, call[h].prev)
  <2>1. /\ submission' = [submission EXCEPT ![s] =
              [status |-> status, progressPercent |-> p, submittedAt |-> p = 100]]
        /\ UNCHANGED <<request, item, events>> /\ call[h].pc = "writeProgress"
    BY <1>2 DEF WriteProgress, At
  <2>2. call'[h].pc = "sync"
    BY <1>2 DEF WriteProgress, Become, TypeOK, NoCall
  <2>3. /\ s \in Subs /\ submission[s].status # "absent" /\ request.status # "absent"
        /\ p = Share(s) /\ p \in 0..100
    BY <1>0, <2>1 DEF Knows, Recounting, Calls
  <2>4. \A t \in Subs : submission'[t] = IF t = s
           THEN [status |-> status, progressPercent |-> p, submittedAt |-> p = 100]
           ELSE submission[t]
    BY <2>1 DEF TypeOK
  <2>5. /\ status \in {"completed", "reopened", "in_progress"}
        /\ status = "completed" => p = 100
        /\ status = "in_progress" => p # 100
    BY DEF RecalculatedStatus
  <2>6. p = 100 => CountsAsAll(s, AnsweredItems(s))
    BY <2>3, FullCountIsAllDone DEF Share
  <2> HIDE DEF status, p
  <2>7. InsertedSubs' = InsertedSubs
    BY <2>3, <2>4, <2>5 DEF InsertedSubs
  <2>8. \A t : Share(t)' = Share(t) /\ AnsweredItems(t)' = AnsweredItems(t)
    BY <2>1 DEF Share, AnsweredItems, InsertedItems, ItemsOf
  <2>9. ASSUME NEW t \in InsertedSubs PROVE SubMatches(t)'
    <3>1. t \in Subs /\ (t # s => SubMatches(t))
      BY <1>0, <2>1 DEF Meanwhile, InsertedSubs
    <3>2. CASE t = s
      BY <2>3, <2>4, <2>5, <2>6, <2>8, <3>2 DEF SubMatches, ItemsOf
    <3>3. CASE t # s
      BY <2>4, <2>8, <3>1, <3>3 DEF SubMatches, ItemsOf
    <3> QED
      BY <3>2, <3>3
  <2>10. Knows(call[h])'
    BY <2>1, <2>2, <2>3 DEF Knows, Recounting, Syncing
  <2>11. Meanwhile(call[h])'
    BY <1>0, <2>1, <2>2, <2>7, <2>9 DEF Meanwhile, CompletedCounted, OverdueCounted
  <2>12. \A i \in Items : item'[i] # "absent" => submission'[SubOf[i]].status # "absent"
    BY <1>n, <2>1, <2>4, <2>5, ItemsHaveSubmissions
  <2> QED
    BY <2>1, <2>3, <2>10, <2>11, <2>12, OnlyHandler
<1> QED
  BY <1>1, <1>2

----------------------------------------------------------------------------
(* syncRequestLifecycleSignals *)

LEMMA SyncReadsKeep ==
    ASSUME TypeOK, Serial, SerialInv, NEW h \in Handlers,
           SyncRead(h) \/ CountSubmissions(h) \/ CountCompleted(h)
    PROVE  SerialInv'
<1>0. call[h] \in Calls /\ Knows(call[h]) /\ Meanwhile(call[h])
  BY CallFacts
<1>1. CASE SyncRead(h)
  <2> DEFINE row == [NoRequest EXCEPT !.status = request.status,
                                      !.overdueNotifiedAt = request.overdueNotifiedAt]
             c == [call[h] EXCEPT !.pc = "countSubmissions", !.row = row]
  <2>1. /\ Become(h, c) /\ UNCHANGED <<request, submission, item, events>> /\ call[h].pc = "sync"
    BY <1>1 DEF SyncRead, At, rows
  <2>2. c.pc = "countSubmissions" /\ c.row = row
    BY <1>0 DEF Calls
  <2>3. row.status = request.status /\ row.overdueNotifiedAt = request.overdueNotifiedAt
    BY DEF NoRequest
  <2> HIDE DEF c, row
  <2>4. Knows(c)
    BY <1>0, <2>1, <2>2, <2>3 DEF Knows, Recounting, Syncing
  <2>5. Meanwhile(c)
    BY <1>0, <2>1, <2>2 DEF Meanwhile, Recounting, Syncing, CompletedCounted, OverdueCounted
  <2> QED
    BY <2>1, <2>4, <2>5, ReadingStep
<1>2. CASE CountSubmissions(h)
  <2> DEFINE c == [call[h] EXCEPT !.pc = "countCompleted", !.total = Cardinality(InsertedSubs)]
  <2>1. /\ Become(h, c) /\ UNCHANGED <<request, submission, item, events>>
        /\ call[h].pc = "countSubmissions"
    BY <1>2 DEF CountSubmissions, At, rows
  <2>2. c.pc = "countCompleted" /\ c.row = call[h].row /\ c.total = Cardinality(InsertedSubs)
    BY <1>0 DEF Calls
  <2> HIDE DEF c
  <2>4. Knows(c)
    BY <1>0, <2>1, <2>2 DEF Knows, Recounting, Syncing
  <2>5. Meanwhile(c)
    BY <1>0, <2>1, <2>2 DEF Meanwhile, Recounting, Syncing, CompletedCounted, OverdueCounted
  <2> QED
    BY <2>1, <2>4, <2>5, ReadingStep
<1>3. CASE CountCompleted(h)
  <2> DEFINE all == call[h].total > 0 /\ Cardinality(CompletedSubs) = call[h].total
             c == [call[h] EXCEPT !.pc = "signal", !.allCompleted = all]
  <2>1. /\ Become(h, c) /\ UNCHANGED <<request, submission, item, events>>
        /\ call[h].pc = "countCompleted"
    BY <1>3 DEF CountCompleted, At, rows
  <2>2. c.pc = "signal" /\ c.row = call[h].row /\ (c.allCompleted <=> all)
    BY <1>0 DEF Calls
  <2>3. all <=> AllCompleted
    BY <1>0, <2>1, CountsAgree DEF Knows
  <2> HIDE DEF c, all
  <2>4. Knows(c)
    BY <1>0, <2>1, <2>2, <2>3 DEF Knows, Recounting, Syncing
  <2>5. Meanwhile(c)
    BY <1>0, <2>1, <2>2 DEF Meanwhile, Recounting, Syncing, CompletedCounted, OverdueCounted
  <2> QED
    BY <2>1, <2>4, <2>5, ReadingStep
<1> QED
  BY <1>1, <1>2, <1>3

\* What the UPDATE makes of the request, the call's knowledge being current.
LEMMA SignalsWritten ==
    ASSUME TypeOK, Serial, SerialInv, NEW h \in Handlers, WriteSignals(h)
    PROVE  /\ request.status # "absent" /\ call[h].pc = "signal"
           /\ UNCHANGED <<submission, item>>
           /\ request'.status = SyncedStatus(request.status, AllCompleted)
           /\ request'.overdueNotifiedAt <=> request.overdueNotifiedAt \/ EmitsOverdue(call[h])
           /\ EmitsCompleted(call[h]) <=>
                 request.status # "completed" /\ request'.status = "completed"
           /\ EmitsOverdue(call[h]) =>
                 ~request.overdueNotifiedAt /\ request'.status \notin {"completed", "closed"}
           /\ events'.overdue = events.overdue
           /\ events'.completed = IF request'.status # "completed" THEN 0 ELSE events.completed
           /\ \/ call'[h].pc = "idle" /\ ~EmitsCompleted(call[h]) /\ ~EmitsOverdue(call[h])
              \/ call'[h] = [call[h] EXCEPT !.pc = "emit"]
<1> DEFINE c == call[h]
           next == SyncedStatus(c.row.status, c.allCompleted)
<1>1. c \in Calls /\ Knows(c)
  BY CallFacts
<1>2. c.pc = "signal" /\ UNCHANGED <<submission, item>>
  BY DEF WriteSignals, At
<1>3. /\ request.status # "absent" /\ c.row.status = request.status
      /\ c.row.overdueNotifiedAt = request.overdueNotifiedAt
      /\ (c.allCompleted <=> AllCompleted)
  BY <1>1, <1>2 DEF Knows, Syncing
<1>4. /\ request'.status = IF next # c.row.status THEN next ELSE request.status
      /\ request'.overdueNotifiedAt = (request.overdueNotifiedAt \/ EmitsOverdue(c))
  BY DEF WriteSignals, TypeOK, RequestRow
<1>5. next = SyncedStatus(request.status, AllCompleted)
  BY <1>3 DEF SyncedStatus
<1>6. /\ events'.overdue = events.overdue
      /\ events'.completed = IF request'.status # "completed" THEN 0 ELSE events.completed
  BY DEF WriteSignals, TypeOK, EventCounts
<1>7. \/ call'[h].pc = "idle" /\ ~EmitsCompleted(call[h]) /\ ~EmitsOverdue(call[h])
      \/ call'[h] = [call[h] EXCEPT !.pc = "emit"]
  BY DEF WriteSignals, Goto, Return, Become, TypeOK, NoCall
<1>8. request'.status = next
  BY <1>3, <1>4
<1> QED
  BY <1>2, <1>3, <1>4, <1>5, <1>6, <1>7, <1>8 DEF EmitsCompleted, EmitsOverdue

LEMMA SignalsKeep ==
    ASSUME TypeOK, Serial, SerialInv, NEW h \in Handlers, WriteSignals(h) \/ EmitSignals(h)
    PROVE  SerialInv'
<1>0. call[h] \in Calls /\ Knows(call[h]) /\ Meanwhile(call[h])
  BY CallFacts
<1>n. \A i \in Items : item[i] # "absent" => submission[SubOf[i]].status # "absent"
  BY DEF SerialInv
<1>1. CASE WriteSignals(h)
  <2>1. /\ request.status # "absent" /\ call[h].pc = "signal"
        /\ UNCHANGED <<submission, item>>
        /\ request'.status = SyncedStatus(request.status, AllCompleted)
        /\ request'.overdueNotifiedAt <=> request.overdueNotifiedAt \/ EmitsOverdue(call[h])
        /\ EmitsCompleted(call[h]) <=>
              request.status # "completed" /\ request'.status = "completed"
        /\ EmitsOverdue(call[h]) =>
              ~request.overdueNotifiedAt /\ request'.status \notin {"completed", "closed"}
        /\ events'.overdue = events.overdue
        /\ events'.completed = IF request'.status # "completed" THEN 0 ELSE events.completed
        /\ \/ call'[h].pc = "idle" /\ ~EmitsCompleted(call[h]) /\ ~EmitsOverdue(call[h])
           \/ call'[h] = [call[h] EXCEPT !.pc = "emit"]
    BY <1>1, SignalsWritten
  <2>2. request'.status # "absent"
    BY <2>1 DEF SyncedStatus
  <2>3. /\ InsertedSubs' = InsertedSubs /\ (AllCompleted' <=> AllCompleted)
        /\ \A s : Share(s)' = Share(s) /\ (SubMatches(s)' <=> SubMatches(s))
    BY <2>1 DEF InsertedSubs, CompletedSubs, AllCompleted, Share, SubMatches, AnsweredItems,
       InsertedItems, ItemsOf
  <2>4. \A s \in InsertedSubs : SubMatches(s)
    BY <1>0, <2>1 DEF Meanwhile, Recounting
  <2>5. StatusMatches'
    BY <2>1, <2>3 DEF StatusMatches, SyncedStatus
  <2>6. EventBound > 0 =>
           /\ events.completed = IF request.status = "completed" THEN 1 ELSE 0
           /\ events.overdue = IF request.overdueNotifiedAt THEN 1 ELSE 0
    BY <1>0, <2>1 DEF Meanwhile, CompletedCounted, OverdueCounted
  <2>7. CASE call'[h].pc = "idle" /\ ~EmitsCompleted(call[h]) /\ ~EmitsOverdue(call[h])
    <3>1. Knows(call[h])'
      BY <2>7 DEF Knows, Recounting, Syncing
    <3>2. Meanwhile(call[h])'
      BY <2>1, <2>3, <2>4, <2>5, <2>6, <2>7 DEF Meanwhile, CompletedCounted, OverdueCounted
    <3> QED
      BY <1>n, <2>1, <2>2, <3>1, <3>2, OnlyHandler
  <2>8. CASE call'[h] = [call[h] EXCEPT !.pc = "emit"]
    <3>1. /\ call'[h].pc = "emit" /\ call'[h].row = call[h].row /\ call'[h].late = call[h].late
          /\ call'[h].allCompleted = call[h].allCompleted
      BY <1>0, <2>8 DEF Calls
    <3>2. /\ EmitsCompleted(call[h])' <=> EmitsCompleted(call[h])
          /\ EmitsOverdue(call[h])' <=> EmitsOverdue(call[h])
      BY <3>1 DEF EmitsCompleted, EmitsOverdue
    <3>3. Knows(call[h])'
      BY <2>2, <3>1 DEF Knows, Recounting, Syncing
    <3>4. Meanwhile(call[h])'
      BY <2>1, <2>3, <2>4, <2>5, <2>6, <3>1, <3>2 DEF Meanwhile, CompletedCounted, OverdueCounted
    <3> QED
      BY <1>n, <2>1, <2>2, <3>3, <3>4, OnlyHandler
  <2> QED
    BY <2>1, <2>7, <2>8
<1>2. CASE EmitSignals(h)
  <2> DEFINE c == call[h]
  <2>1. /\ call[h].pc = "emit" /\ UNCHANGED <<request, submission, item>>
        /\ events' = [completed |-> IF EmitsCompleted(c) THEN Count(events.completed)
                                    ELSE events.completed,
                      overdue |-> IF EmitsOverdue(c) THEN Count(events.overdue)
                                  ELSE events.overdue]
    BY <1>2 DEF EmitSignals, At, rows
  <2>2. call'[h] = NoCall /\ call'[h].pc = "idle"
    BY <1>2 DEF EmitSignals, Return, Become, TypeOK, NoCall
  <2>3. /\ InsertedSubs' = InsertedSubs /\ (AllCompleted' <=> AllCompleted)
        /\ \A s : Share(s)' = Share(s) /\ (SubMatches(s)' <=> SubMatches(s))
    BY <2>1 DEF InsertedSubs, CompletedSubs, AllCompleted, Share, SubMatches, AnsweredItems,
       InsertedItems, ItemsOf
  <2>4. /\ \A s \in InsertedSubs : SubMatches(s)
        /\ StatusMatches
    BY <1>0, <2>1 DEF Meanwhile, Recounting, Syncing
  <2>5. EventBound > 0 =>
           /\ events'.completed = IF request.status = "completed" THEN 1 ELSE 0
           /\ events'.overdue = IF request.overdueNotifiedAt THEN 1 ELSE 0
    BY <1>0, <2>1 DEF Meanwhile, CompletedCounted, OverdueCounted, Count
  <2>6. Knows(call[h])'
    BY <2>2 DEF Knows, Recounting, Syncing
  <2>7. Meanwhile(call[h])'
    BY <2>1, <2>2, <2>3, <2>4, <2>5
       DEF Meanwhile, StatusMatches, CompletedCounted, OverdueCounted
  <2>8. request.status # "absent"
    BY <1>0, <2>1 DEF Knows
  <2> QED
    BY <1>n, <2>1, <2>6, <2>7, <2>8, OnlyHandler
<1> QED
  BY <1>1, <1>2

LEMMA SerialKept == Serial /\ TypeOK /\ AnswersInv /\ SerialInv /\ [Next]_vars => SerialInv'
<1> SUFFICES ASSUME Serial, TypeOK, AnswersInv, SerialInv, [Next]_vars PROVE SerialInv'
  OBVIOUS
<1>1. ASSUME NEW h \in Handlers, Start(h) \/ Continue(h) PROVE SerialInv'
  BY <1>1, CreationKeeps, TransitionKeeps, AnsweringKeeps, RecalculationKeeps, SyncReadsKeep,
     SignalsKeep DEF Start, Continue
<1>2. ASSUME NEW h \in Handlers, Fail(h) PROVE SerialInv'
  BY <1>2 DEF Fail, Serial
<1>3. CASE UNCHANGED vars \/ DuePasses
  <2>1. UNCHANGED <<request, submission, item, events, call>>
    BY <1>3 DEF vars, DuePasses, rows
  <2>2. ASSUME NEW h \in Handlers PROVE SerialInv'
    <3>1. call[h] \in Calls /\ Knows(call[h]) /\ Meanwhile(call[h])
      BY CallFacts
    <3>2. Become(h, call[h])
      BY <2>1 DEF Become, TypeOK
    <3> QED
      BY <2>1, <3>1, <3>2, ReadingStep
  <2> QED
    BY <2>2 DEF Serial
<1> QED
  BY <1>1, <1>2, <1>3 DEF Next

LEMMA SerialInvariant == ASSUME Serial PROVE Spec => []SerialInv
<1>1. TypeOK /\ TypeOK' /\ AnswersInv /\ SerialInv /\ [Next]_vars => SerialInv'
  BY SerialKept
<1> QED
  BY <1>1, SerialStarts, TypeCorrect, AnswersInvariant, PTL DEF Spec

\* Between the calls the only handler is idle and its record promises the rows agree.
LEMMA SerialBetweenCalls ==
    ASSUME Serial, SerialInv, Quiescent
    PROVE  \E h \in Handlers : call[h].pc = "idle" /\ Meanwhile(call[h])
BY DEF Serial, SerialInv, Quiescent, Idle

\* When the calls on a request do not overlap and none of their statements
\* fails, a request that is not closed is completed exactly when all of its
\* submissions are (syncRequestLifecycleSignals).
THEOREM SerialRequestMatches == ASSUME Serial PROVE Spec => []RequestMatchesSubmissions
<1>1. SerialInv => RequestMatchesSubmissions
  BY SerialBetweenCalls DEF Meanwhile, Syncing, StatusMatches, RequestMatchesSubmissions
<1> QED
  BY <1>1, SerialInvariant, PTL

\* Under the same hypotheses the progress and the status of every submission
\* are those its items stand for (recalculateSubmissionProgress).
THEOREM SerialSubmissionsMatch == ASSUME Serial PROVE Spec => []SubmissionMatchesItems
<1>1. SerialInv => SubmissionMatchesItems
  <2> SUFFICES ASSUME SerialInv, Quiescent, NEW s \in InsertedSubs PROVE SubMatches(s)
    BY DEF SubmissionMatchesItems, SubMatches, Share
  <2> QED
    BY SerialBetweenCalls DEF Meanwhile, Recounting
<1> QED
  BY <1>1, SerialInvariant, PTL

\* Under the same hypotheses requests.completed and requests.overdue have been
\* emitted exactly when the row says so, as far as events are counted at all.
THEOREM SerialSignalsMatch ==
    ASSUME Serial, EventBound > 0
    PROVE  Spec => []SignalsMatchRequest
<1>1. SerialInv => SignalsMatchRequest
  BY SerialBetweenCalls
     DEF Meanwhile, CompletedCounted, OverdueCounted, SignalsMatchRequest
<1> QED
  BY <1>1, SerialInvariant, PTL

----------------------------------------------------------------------------
(* The request goes through its lifecycle *)

LEMMA DoneUnchanged ==
    ASSUME UNCHANGED submission
    PROVE  AllCompleted' = AllCompleted
BY DEF AllCompleted, InsertedSubs, CompletedSubs

\* The steps that write submissions.
LEMMA WorkStep ==
    ASSUME TypeOK, Serial, SerialInv, SerialInv', NEW h \in Handlers,
           InsertSubmission(h) \/ ReopenSubmissions(h) \/ WriteProgress(h)
    PROVE  Lifecycle!Work \/ UNCHANGED Lifecycle!lifecycleVars
<1>1. call[h].pc \in {"insertSubmission", "reopenSubmissions", "writeProgress"}
  BY DEF InsertSubmission, ReopenSubmissions, WriteProgress, At
<1>2. Knows(call[h]) /\ Knows(call[h])'
  BY DEF SerialInv
<1>3. request.status # "absent" /\ UNCHANGED request
  BY <1>1, <1>2 DEF Knows, InsertSubmission, ReopenSubmissions, WriteProgress
<1>4. AllCompleted \in BOOLEAN /\ AllCompleted' \in BOOLEAN
  BY DEF AllCompleted
<1> QED
  BY <1>3, <1>4 DEF Lifecycle!Work, Lifecycle!lifecycleVars

LEMMA TransitionStep ==
    ASSUME TypeOK, Serial, SerialInv, NEW h \in Handlers, WriteTransition(h)
    PROVE  Lifecycle!Send \/ Lifecycle!Close \/ Lifecycle!Reopen
<1>1. call[h] \in Calls /\ Knows(call[h]) /\ call[h].pc = "transition"
  BY CallFacts DEF WriteTransition, At
<1>2. /\ call[h].action \in Actions /\ call[h].row = request
      /\ request.status \in TransitionRules[call[h].action]
  BY <1>1 DEF Knows
<1>3. /\ request'.status = NextStatus[call[h].action]
      /\ request'.overdueNotifiedAt = (call[h].action # "reopen" /\ request.overdueNotifiedAt)
      /\ UNCHANGED submission
  BY <1>2 DEF WriteTransition
<1>4. AllCompleted' = AllCompleted
  BY <1>3, DoneUnchanged
<1>5. request.overdueNotifiedAt \in BOOLEAN
  BY DEF TypeOK, RequestRow
<1>6. CASE call[h].action = "send"
  BY <1>2, <1>3, <1>4, <1>5, <1>6 DEF TransitionRules, NextStatus, Lifecycle!Send
<1>7. CASE call[h].action = "close"
  BY <1>2, <1>3, <1>4, <1>5, <1>7 DEF TransitionRules, NextStatus, Lifecycle!Close
<1>8. CASE call[h].action = "reopen"
  <2>1. request.status = "closed" /\ request'.status = "in_progress"
    BY <1>2, <1>3, <1>8 DEF TransitionRules, NextStatus
  <2>2. request'.overdueNotifiedAt = FALSE
    BY <1>3, <1>8
  <2> QED
    BY <1>4, <2>1, <2>2 DEF Lifecycle!Reopen
<1> QED
  BY <1>2, <1>6, <1>7, <1>8 DEF Actions

LEMMA SignalStep ==
    ASSUME TypeOK, TypeOK', Serial, SerialInv, NEW h \in Handlers, WriteSignals(h)
    PROVE  \/ Lifecycle!Complete \/ Lifecycle!Regress \/ Lifecycle!ReportOverdue
           \/ UNCHANGED Lifecycle!lifecycleVars
<1>1. /\ request.status # "absent" /\ UNCHANGED submission
      /\ request'.status = SyncedStatus(request.status, AllCompleted)
      /\ request'.overdueNotifiedAt <=> request.overdueNotifiedAt \/ EmitsOverdue(call[h])
      /\ EmitsOverdue(call[h]) =>
            ~request.overdueNotifiedAt /\ request'.status \notin {"completed", "closed"}
  BY SignalsWritten
<1>2. AllCompleted' = AllCompleted
  BY <1>1, DoneUnchanged
<1>3. request.overdueNotifiedAt \in BOOLEAN /\ request'.overdueNotifiedAt \in BOOLEAN
  BY DEF TypeOK, RequestRow
<1> DEFINE same == request'.overdueNotifiedAt = request.overdueNotifiedAt
<1>4. same \/ (~request.overdueNotifiedAt /\ request'.overdueNotifiedAt = TRUE
                  /\ request'.status \notin {"completed", "closed"})
  BY <1>1, <1>3
<1>5. CASE request.status = "closed"
  <2>1. request'.status = "closed"
    BY <1>1, <1>5 DEF SyncedStatus
  <2> QED
    BY <1>2, <1>4, <1>5, <2>1 DEF Lifecycle!lifecycleVars
<1>6. CASE request.status # "closed" /\ AllCompleted
  <2>1. request'.status = "completed"
    BY <1>1, <1>6 DEF SyncedStatus
  <2> QED
    BY <1>1, <1>2, <1>4, <1>6, <2>1
       DEF Lifecycle!lifecycleVars, Lifecycle!Complete, Lifecycle!Open
<1>7. CASE request.status = "completed" /\ ~AllCompleted
  <2>1. request'.status = "in_progress"
    BY <1>1, <1>7 DEF SyncedStatus
  <2> QED
    BY <1>2, <1>3, <1>4, <1>7, <2>1 DEF Lifecycle!Regress
<1>8. CASE request.status \notin {"closed", "completed"} /\ ~AllCompleted
  <2>1. request'.status = request.status
    BY <1>1, <1>8 DEF SyncedStatus
  <2> QED
    BY <1>1, <1>2, <1>3, <1>4, <1>8, <2>1
       DEF Lifecycle!lifecycleVars, Lifecycle!ReportOverdue, Lifecycle!Open
<1> QED
  BY <1>5, <1>6, <1>7, <1>8

LEMMA LifecycleStep ==
    Serial /\ TypeOK /\ TypeOK' /\ SerialInv /\ SerialInv' /\ [Next]_vars
        => [Lifecycle!Next]_Lifecycle!lifecycleVars
<1> SUFFICES ASSUME Serial, TypeOK, TypeOK', SerialInv, SerialInv', [Next]_vars
             PROVE  Lifecycle!Next \/ UNCHANGED Lifecycle!lifecycleVars
  OBVIOUS
<1>1. ASSUME NEW h \in Handlers, CreateRequest(h) PROVE Lifecycle!Create
  <2>1. /\ request.status = "absent" /\ request' = [NoRequest EXCEPT !.status = "draft"]
        /\ UNCHANGED submission
    BY <1>1 DEF CreateRequest
  <2>2. request = NoRequest
    BY <2>1 DEF SerialInv
  <2>3. AllCompleted' = AllCompleted
    BY <2>1, DoneUnchanged
  <2> QED
    BY <2>1, <2>2, <2>3 DEF Lifecycle!Create, NoRequest
<1>2. ASSUME UNCHANGED <<request, submission>> PROVE UNCHANGED Lifecycle!lifecycleVars
  BY <1>2, DoneUnchanged DEF Lifecycle!lifecycleVars
<1>3. ASSUME NEW h \in Handlers, InsertSubmission(h) \/ ReopenSubmissions(h) \/ WriteProgress(h)
      PROVE  Lifecycle!Work \/ UNCHANGED Lifecycle!lifecycleVars
  BY <1>3, WorkStep
<1>4. ASSUME NEW h \in Handlers, WriteTransition(h)
      PROVE  Lifecycle!Send \/ Lifecycle!Close \/ Lifecycle!Reopen
  BY <1>4, TransitionStep
<1>5. ASSUME NEW h \in Handlers, WriteSignals(h)
      PROVE  \/ Lifecycle!Complete \/ Lifecycle!Regress \/ Lifecycle!ReportOverdue
             \/ UNCHANGED Lifecycle!lifecycleVars
  BY <1>5, SignalStep
<1>6. ASSUME NEW h \in Handlers,
             \/ InsertItems(h) \/ CreateDone(h)
             \/ \E action \in Actions : StartTransition(h, action)
             \/ \E s \in Subs, chosen \in SUBSET Items : StartAutosave(h, s, chosen)
             \/ \E i \in Items, verdict \in {"approved", "rejected"} : StartReview(h, i, verdict)
             \/ UpsertAnswers(h) \/ ProvideItems(h) \/ WriteReview(h) \/ CountItems(h)
             \/ SyncRead(h) \/ CountSubmissions(h) \/ CountCompleted(h) \/ EmitSignals(h)
             \/ Fail(h)
      PROVE  UNCHANGED <<request, submission>>
  BY <1>6 DEF InsertItems, CreateDone, StartTransition, StartAutosave, StartReview, UpsertAnswers,
              ProvideItems, WriteReview, CountItems, SyncRead, CountSubmissions, CountCompleted,
              EmitSignals, Fail, rows
<1>7. CASE UNCHANGED vars \/ DuePasses
  BY <1>2, <1>7 DEF vars, DuePasses, rows
<1> QED
  BY <1>1, <1>2, <1>3, <1>4, <1>5, <1>6, <1>7 DEF Next, Start, Continue, Lifecycle!Next

\* Under the same hypotheses the request's row moves as RequestLifecycle
\* promises: only along TRANSITION_RULES and with its submissions, and being
\* overdue is reported at most once per opening.
THEOREM SerialLifecycle == ASSUME Serial PROVE Spec => Lifecycle!Spec
<1>1. Init => Lifecycle!Init
  BY DEF Init, Lifecycle!Init, NoRequest, NoSubmission, AllCompleted, InsertedSubs
<1>2. TypeOK /\ TypeOK' /\ SerialInv /\ SerialInv' /\ [Next]_vars
         => [Lifecycle!Next]_Lifecycle!lifecycleVars
  BY LifecycleStep
<1> QED
  BY <1>1, <1>2, TypeCorrect, SerialInvariant, PTL DEF Spec, Lifecycle!Spec

=============================================================================
