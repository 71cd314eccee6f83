------------------------------ MODULE PortalLink ------------------------------
(***************************************************************************)
(* RequestWorkflowService.verifyPortalLink and the controller that turns a  *)
(* consumed use into a portal access token: one link, visited concurrently. *)
(* The row is read in one statement and written back in another, so that a  *)
(* visitor decides on what the row held when it was read.                   *)
(***************************************************************************)
EXTENDS Naturals

CONSTANTS
    Visitors,    \* concurrent calls of POST portal/access
    MaxUses,     \* uses the link was created with
    GrantBound   \* bounds the tokens issued in a behaviour

ASSUME UsesAssumption == MaxUses \in Nat \ {0} /\ GrantBound \in Nat

VARIABLES
    link,      \* the row of portal_links
    pastExpiry,\* the clock has reached expiresAt
    granted,   \* portal access tokens issued through the link
    overlapped,\* two visits have been in progress at once (history)
    visit      \* what each call is doing and the row it has read

vars == <<link, pastExpiry, granted, overlapped, visit>>

Statuses == {"active", "consumed", "expired"}   \* no code sets 'revoked'

NoVisit == [pc |-> "idle", consume |-> FALSE, read |-> [status |-> "active", usedCount |-> 0]]

At(v, pc) == visit[v].pc = pc
Goto(v, pc) == visit' = [visit EXCEPT ![v].pc = pc]
Leave(v) == visit' = [visit EXCEPT ![v] = NoVisit]

----------------------------------------------------------------------------
\* The SELECT and the decision on the row it returned.
ReadLink(v, consume) ==
    /\ At(v, "idle")
    /\ granted < GrantBound
    /\ link.status = "active"
    /\ LET pc == IF pastExpiry THEN "markExpired"
                 ELSE IF link.usedCount >= MaxUses THEN "markConsumed"
                 ELSE IF consume THEN "use"
                 ELSE "emit"
       IN  visit' = [visit EXCEPT ![v] = [pc |-> pc, consume |-> consume, read |-> link]]
    /\ overlapped' = (overlapped \/ \E w \in Visitors \ {v} : ~At(w, "idle"))
    /\ UNCHANGED <<link, pastExpiry, granted>>

\* The visitor is turned away and the row closed.
Refuse(v) ==
    /\ visit[v].pc \in {"markExpired", "markConsumed"}
    /\ link' = [link EXCEPT !.status =
                   IF At(v, "markExpired") THEN "expired" ELSE "consumed"]
    /\ Leave(v)
    /\ UNCHANGED <<pastExpiry, granted, overlapped>>

\* Mistake: the increment is left to the database, without a condition.
WriteIncrement(v) ==
    /\ At(v, "use")
    /\ link' = [status |-> IF link.usedCount + 1 >= MaxUses THEN "consumed" ELSE "active",
                usedCount |-> link.usedCount + 1]
    /\ Goto(v, "emit")
    /\ UNCHANGED <<pastExpiry, granted, overlapped>>

\* Mistake: the new count is not written.
WriteStatusOnly(v) ==
    /\ At(v, "use")
    /\ link' = [link EXCEPT !.status =
                   IF visit[v].read.usedCount + 1 >= MaxUses THEN "consumed" ELSE "active"]
    /\ Goto(v, "emit")
    /\ UNCHANGED <<pastExpiry, granted, overlapped>>

\* UPDATE ... SET used_count = <read + 1>, status WHERE id.
WriteUse(v) ==
    LET used == visit[v].read.usedCount + 1
    IN  /\ At(v, "use")
        /\ link' = [status |-> IF used >= MaxUses THEN "consumed" ELSE "active",
                    usedCount |-> used]
        /\ Goto(v, "emit")
        /\ UNCHANGED <<pastExpiry, granted, overlapped>>

\* The event is queued; then the controller issues the token of a consuming call.
EmitAndGrant(v) ==
    /\ At(v, "emit")
    /\ granted' = IF visit[v].consume THEN granted + 1 ELSE granted
    /\ Leave(v)
    /\ UNCHANGED <<link, pastExpiry, overlapped>>

\* Mistake: on failure the row is put back to what was read.
FailGivesUseBack(v) ==
    /\ ~At(v, "idle")
    /\ link' = visit[v].read
    /\ Leave(v)
    /\ UNCHANGED <<pastExpiry, granted, overlapped>>

\* The event insert fails or the process dies: the use is spent, no token issued.
Fail(v) ==
    /\ ~At(v, "idle")
    /\ Leave(v)
    /\ UNCHANGED <<link, pastExpiry, granted, overlapped>>

Expire ==
    /\ ~pastExpiry
    /\ pastExpiry' = TRUE
    /\ UNCHANGED <<link, granted, overlapped, visit>>

----------------------------------------------------------------------------
Init ==
    /\ link = [status |-> "active", usedCount |-> 0]
    /\ pastExpiry = FALSE
    /\ granted = 0
    /\ overlapped = FALSE
    /\ visit = [v \in Visitors |-> NoVisit]

Step(v) ==
    \/ \E consume \in BOOLEAN : ReadLink(v, consume)
    \/ Refuse(v) \/ WriteUse(v) \/ EmitAndGrant(v)
    \/ Fail(v)

Next ==
    \/ \E v \in Visitors : Step(v)
    \/ Expire

Spec == Init /\ [][Next]_vars

----------------------------------------------------------------------------
TypeOK ==
    /\ link \in [status : Statuses, usedCount : Nat]
    /\ pastExpiry \in BOOLEAN
    /\ granted \in Nat
    /\ overlapped \in BOOLEAN
    /\ visit \in [Visitors ->
          [pc : {"idle", "markExpired", "markConsumed", "use", "emit"}, consume : BOOLEAN,
           read : [status : Statuses, usedCount : Nat]]]

\* Whatever the visitors read, the row never counts more uses than the link
\* has, and a visitor that is about to use it read one that was free.
CountWithinMaxUses ==
    /\ link.usedCount <= MaxUses
    /\ \A v \in Visitors : At(v, "use") => visit[v].read.usedCount < MaxUses

\* A link whose uses are all counted is closed by the same UPDATE: "active" and
\* exhausted never meet, and the code that closes an exhausted link is never
\* reached (L715-742).
ExhaustedIsClosed == link.usedCount = MaxUses => link.status # "active"

\* As long as no two visits overlap, every token issued is a use counted in the
\* row, whatever failed in between: nobody enters for free (L726-742).
GrantsAreCounted == ~overlapped => granted <= link.usedCount

\* As long as no two visits overlap, a link that has been closed stays closed.
ClosedIsFinal ==
    [][~overlapped /\ link.status # "active" => link'.status # "active"]_vars

=============================================================================
