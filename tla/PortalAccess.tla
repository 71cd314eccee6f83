----------------------------- MODULE PortalAccess -----------------------------
(***************************************************************************)
(* What a portal access token opens: PortalController with PortalAuthGuard.*)
(* The token is not stored anywhere.  It carries what the link was bound   *)
(* to, is signed, and lapses a fixed time after it was issued; closing the *)
(* link does not end it.                                                   *)
(***************************************************************************)
EXTENDS PortalLink, ResourceTree

VARIABLES
    bound,    \* the columns request_id, submission_id and recipient_id of the link
    lapsed,   \* how many of the tokens issued have lapsed: the oldest do first
    guest     \* a call with a portal token, and what it has read

accessVars == <<bound, lapsed, guest>>
linkVars == vars

NoGuest == [pc |-> "idle", token |-> 0, late |-> FALSE, handler |-> "none",
            submission |-> None, item |-> None]

GuestAt(pc) == guest.pc = pc
GuestGoes(pc) == guest' = [guest EXCEPT !.pc = pc]
TurnedAway == guest' = NoGuest
OnlyGuest == UNCHANGED <<linkVars, bound, lapsed>>

\* createPortalLink finds the request and takes the other two as they are given.
Binding == [request : Request, submission : Submission \cup {None},
            recipient : Recipient \cup {None}]

\* The payload of every token issued through the link.
TokenPayload == bound

----------------------------------------------------------------------------
\* The oldest token that has not lapsed reaches its exp.
Lapse ==
    /\ lapsed < granted
    /\ lapsed' = lapsed + 1
    /\ UNCHANGED <<linkVars, bound, guest>>

\* Saving answers names the submission in the path, an upload may name an item.
Enter(t, handler, s, i) ==
    /\ GuestAt("idle")
    /\ t \in 1..granted
    /\ handler = "autosave" => s # None /\ i = None
    /\ handler = "upload" => s = None
    /\ guest' = [NoGuest EXCEPT !.pc = "verify", !.token = t, !.late = t <= lapsed,
                                !.handler = handler, !.submission = s, !.item = i]
    /\ OnlyGuest

\* verifyPortalAccessToken, and the handlers' test that the token names a
\* submission; an upload is for that one.
VerifyToken ==
    /\ GuestAt("verify")
    /\ IF guest.token <= lapsed \/ TokenPayload.submission = None THEN TurnedAway
       ELSE guest' = [guest EXCEPT !.pc = "assertSubmission",
              !.submission = IF guest.handler = "upload" THEN TokenPayload.submission ELSE @]
    /\ OnlyGuest

\* assertPortalSubmissionAccess
SubmissionIsOpen(s) ==
    /\ requestOf[s] = TokenPayload.request
    /\ s = TokenPayload.submission
    /\ TokenPayload.recipient # None => recipientOf[s] = TokenPayload.recipient

AssertSubmission ==
    /\ GuestAt("assertSubmission")
    /\ IF ~SubmissionIsOpen(guest.submission) THEN TurnedAway
       ELSE GuestGoes(IF guest.item = None THEN "handler" ELSE "assertItem")
    /\ OnlyGuest

\* assertPortalSubmissionItemAccess
AssertItem ==
    LET s == submissionOf[guest.item]
    IN  /\ GuestAt("assertItem")
        /\ IF s = guest.submission /\ requestOf[s] = TokenPayload.request
              THEN GuestGoes("handler") ELSE TurnedAway
        /\ OnlyGuest

AnswerGuest ==
    /\ GuestAt("handler")
    /\ TurnedAway
    /\ OnlyGuest

----------------------------------------------------------------------------
PortalInit ==
    /\ Init
    /\ bound \in Binding
    /\ lapsed = 0
    /\ guest = NoGuest

PortalNext ==
    \/ Next /\ UNCHANGED accessVars
    \/ Lapse
    \/ \E t \in 1..GrantBound, s \in Submission \cup {None}, i \in Item \cup {None} :
          Enter(t, "autosave", s, i) \/ Enter(t, "upload", s, i)
    \/ VerifyToken \/ AssertSubmission \/ AssertItem \/ AnswerGuest

----------------------------------------------------------------------------
\* A portal handler runs only with one of the tokens issued so far, which had not
\* lapsed when it came (as long as no two visits overlap, one of a counted use), and
\* for what the link was made for: a submission of its request, of its recipient if
\* it names one, and an item of that submission (portal.controller 94-197).
GuestIsEntitled ==
    GuestAt("handler") =>
        /\ guest.token \in 1..granted /\ ~guest.late
        /\ ~overlapped => guest.token <= link.usedCount
        /\ requestOf[guest.submission] = bound.request
        /\ bound.recipient # None => recipientOf[guest.submission] = bound.recipient
        /\ guest.item # None => submissionOf[guest.item] = guest.submission
=============================================================================
