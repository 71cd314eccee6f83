------------------------------- MODULE Accounts -------------------------------
(***************************************************************************)
(* AuthService and UsersService: the accounts of one organization, their   *)
(* password identities, the one-time links that are mailed to their owners *)
(* (invites, password resets, email verifications) and the sessions that   *)
(* are opened with them.                                                   *)
(*                                                                         *)
(* Every operation first reads what it decides on, then writes in one      *)
(* transaction, so that other calls may commit in between: a call keeps in *)
(* its record what it has read.  The reads that precede a write are one    *)
(* step.  All memberships of a user carry the same status and are kept as  *)
(* one; the caller of CreateUser and UpdateUser is an administrator who is *)
(* none of the users.                                                      *)
(***************************************************************************)
EXTENDS Naturals, FiniteSets

CONSTANTS
    User,        \* users, also the names of their email addresses
    Subject,     \* Google accounts
    Call,        \* calls of the API; each is made once
    None,
    SeatLimit,   \* the plan's limit of internalUsers
    Operation,   \* the operations that the calls may be, and "expire" if links expire
    Beginning    \* the situations in which an account may be at the start

Stage == {"none", "invited", "active", "disabled"}

ASSUME NamesAreDistinct ==
    /\ Call \cap User = {}
    /\ None \notin User \cup Call \cup Subject
    /\ None \notin [subject : Subject, row : Call \cup User]
    /\ SeatLimit \in Nat
ASSUME BeginningAssumption == Beginning \subseteq {"nobody", "invited", "unverified", "verified", "disabled"}

VARIABLES
    account,   \* users, workspace_memberships and auth_identities
    link,      \* password_reset_tokens and email_verification_tokens
    session,   \* the live rows of user_sessions
    call,      \* what each call does and has read
    noted      \* observed of each account; no action reads it

vars == <<account, link, session, call, noted>>

\* A link is named by the call that issues it, or by its owner if it is there
\* from the start; a password is named by the call that sets it.
LinkId == Call \cup User
Password == Call \cup {None, "initial"}
GoogleIdentity == [subject : Subject, row : LinkId]

NoLink == [user |-> None, purpose |-> "none", end |-> "unissued", expired |-> FALSE]

NoCall == [op |-> "none", pc |-> "idle", user |-> None, link |-> None, subject |-> None,
           live |-> {}, verified |-> FALSE, status |-> "none", password |-> None, row |-> None]

Become(c, r) == call' = [call EXCEPT ![c] = r]
Go(c, pc) == Become(c, [call[c] EXCEPT !.pc = pc])
End(c) == Become(c, [NoCall EXCEPT !.op = call[c].op, !.pc = "done"])
Begin(c, op) == call[c].pc = "idle" /\ op \in Operation
At(c, pc) == call[c].pc = pc
Note(u, what) == noted' = [noted EXCEPT ![u] = @ \cup {what}]
OnlyCall == UNCHANGED <<account, link, session, noted>>

----------------------------------------------------------------------------
(* What the queries of auth.service compute *)

Eligible(u) == account[u].membership \in {"invited", "active"}
ActiveMember(u) == account[u].status = "active" /\ account[u].membership = "active"

\* getUserEmailVerificationState: any identity will do, and a Google identity is
\* only ever written with a verified address.
EmailVerified(u) == account[u].verified \/ account[u].google # None

SeatsTaken == Cardinality({u \in User : ActiveMember(u)})

\* Mistake: whatever mail the user was sent before is void.
AnyTable(p) == {"invite", "reset", "verify"}

\* The purposes whose tokens share a table.
SameTable(p) == IF p = "verify" THEN {"verify"} ELSE {"invite", "reset"}

Usable(i, purposes) ==
    link[i].purpose \in purposes /\ link[i].end = "live" /\ ~link[i].expired

LiveLinks(u, purposes) ==
    {i \in LinkId : link[i].user = u /\ link[i].purpose \in purposes /\ link[i].end = "live"}

Consumed(ids, how) ==
    [i \in LinkId |-> IF i \in ids THEN [link[i] EXCEPT !.end = how] ELSE link[i]]

SessionsOf(u) == {s \in session : s.user = u}

----------------------------------------------------------------------------
(* Issuing a link: the older links of the table are consumed and a new one *)
(* is inserted in one transaction, then it is mailed.                      *)

Issues(op) == CASE op \in {"createUser", "resendInvite"} -> "invite"
                [] op = "requestPasswordReset"           -> "reset"
                [] OTHER                                 -> "verify"

\* The user row and its memberships in one transaction, which finds the email free.
CreateUser(c, u) ==
    /\ Begin(c, "createUser")
    /\ account[u].status = "none"
    /\ account' = [account EXCEPT ![u].status = "invited", ![u].membership = "invited"]
    /\ Become(c, [NoCall EXCEPT !.op = "createUser", !.pc = "readInvite", !.user = u])
    /\ UNCHANGED <<link, session, noted>>

ResendInvite(c, u) ==
    /\ Begin(c, "resendInvite")
    /\ account[u].status = "invited"
    /\ Become(c, [NoCall EXCEPT !.op = "resendInvite", !.pc = "readInvite", !.user = u])
    /\ OnlyCall

ReadInvite(c) ==
    LET u == call[c].user
    IN  /\ At(c, "readInvite")
        /\ IF account[u].status = "invited" /\ Eligible(u) THEN Go(c, "supersede") ELSE End(c)
        /\ OnlyCall

RequestPasswordReset(c, u) ==
    /\ Begin(c, "requestPasswordReset")
    /\ account[u].password # None
    /\ ActiveMember(u)
    /\ Become(c, [NoCall EXCEPT !.op = "requestPasswordReset", !.pc = "supersede", !.user = u])
    /\ OnlyCall

\* The owner of a session asks for another verification mail.
RequestVerification(c, u) ==
    /\ Begin(c, "requestVerification")
    /\ SessionsOf(u) # {}
    /\ ActiveMember(u)
    /\ Become(c, [NoCall EXCEPT !.op = "requestVerification", !.pc = "readVerification", !.user = u])
    /\ OnlyCall

ReadVerification(c) ==
    LET u == call[c].user
    IN  /\ At(c, "readVerification")
        /\ IF Eligible(u) /\ ~EmailVerified(u) /\ account[u].password # None
           THEN Go(c, "supersede")
           ELSE End(c)
        /\ OnlyCall

\* The plan's emails of the month are used up: the call is turned away.
PlanRefusesMail(c) ==
    /\ At(c, "supersede")
    /\ End(c)
    /\ Note(call[c].user, "mishap")
    /\ UNCHANGED <<account, link, session>>

\* The UPDATE of the transaction sees the links that are committed now.
Supersede(c) ==
    /\ At(c, "supersede")
    /\ Become(c, [call[c] EXCEPT !.pc = "issue",
                    !.live = LiveLinks(call[c].user, SameTable(Issues(call[c].op)))])
    /\ OnlyCall

NewLink(c) ==
    [user |-> call[c].user, purpose |-> Issues(call[c].op), end |-> "live", expired |-> FALSE]

Issue(c) ==
    /\ At(c, "issue")
    /\ link' = [Consumed({i \in call[c].live : link[i].end = "live"}, "superseded") EXCEPT
                    ![c] = NewLink(c)]
    /\ Go(c, "dispatch")
    /\ UNCHANGED <<account, session, noted>>

\* An invitee who has just set a password is signed in after the mail has left.
MailSent(c) ==
    /\ At(c, "dispatch")
    /\ IF call[c].op = "completeInvite" THEN Go(c, "signIn") ELSE End(c)
    /\ OnlyCall

\* The provider throws: the link stays live, its owner never sees it.
MailFails(c) ==
    /\ At(c, "dispatch")
    /\ End(c)
    /\ Note(call[c].user, "mishap")
    /\ UNCHANGED <<account, link, session>>

Expire(i) ==
    /\ "expire" \in Operation
    /\ link[i].end = "live" /\ ~link[i].expired
    /\ link' = [link EXCEPT ![i].expired = TRUE]
    /\ Note(link[i].user, "mishap")
    /\ UNCHANGED <<account, session, call>>

RevokeInvite(c, u) ==
    /\ Begin(c, "revokeInvite")
    /\ account[u].status = "invited" /\ Eligible(u)
    /\ Become(c, [NoCall EXCEPT !.op = "revokeInvite", !.pc = "revoke", !.user = u])
    /\ OnlyCall

Revoke(c) ==
    /\ At(c, "revoke")
    /\ link' = Consumed(LiveLinks(call[c].user, {"invite", "reset"}), "revoked")
    /\ End(c)
    /\ UNCHANGED <<account, session, noted>>

----------------------------------------------------------------------------
(* Using a link *)

\* resolveInviteToken and the checks of completeInvite.
CompleteInvite(c, i) ==
    LET u == link[i].user
    IN  /\ Begin(c, "completeInvite")
        /\ Usable(i, {"invite", "reset"})
        /\ account[u].status = "invited" /\ Eligible(u)
        /\ SeatsTaken + 1 <= SeatLimit
        /\ Become(c, [NoCall EXCEPT !.op = "completeInvite", !.pc = "readIdentity",
                                    !.user = u, !.link = i])
        /\ OnlyCall

\* The SELECT of the transaction; another one may commit before the identity is
\* written.
ReadIdentity(c) ==
    LET u == call[c].user
    IN  /\ At(c, "readIdentity")
        /\ Become(c, [call[c] EXCEPT !.pc = "complete", !.password = account[u].password,
                                     !.verified = account[u].verified])
        /\ OnlyCall

\* Mistake: the memberships keep their status.
ActivatedUserOnly(row, c, verified) ==
    [row EXCEPT !.status = "active", !.password = c, !.verified = verified]

\* Mistake: the identity is written anew even if there is one.
ActivatedAnew(row, c, verified) ==
    [row EXCEPT !.status = "active", !.membership = "active", !.password = c, !.verified = FALSE]

\* The verification is written back as the SELECT has found it; a new identity
\* has none.
Activated(row, c, verified) ==
    [row EXCEPT !.status = "active", !.membership = "active", !.password = c,
                !.verified = verified]

\* The transaction names the token and the user by id only.  An identity that it
\* inserts must still be the first.
Complete(c) ==
    LET u == call[c].user
    IN  /\ At(c, "complete")
        /\ call[c].password = None => account[u].password = None
        /\ account' = [account EXCEPT ![u] = Activated(@, c, call[c].verified)]
        /\ link' = Consumed({call[c].link}, "used")
        /\ Note(u, "invitePassword")
        /\ Go(c, "readVerification")
        /\ UNCHANGED session

\* resolvePasswordResetToken: any token of the table, of an active account.
ResetPassword(c, i) ==
    LET u == link[i].user
    IN  /\ Begin(c, "resetPassword")
        /\ Usable(i, {"invite", "reset"})
        /\ account[u].password # None /\ ActiveMember(u)
        /\ Become(c, [NoCall EXCEPT !.op = "resetPassword", !.pc = "reset", !.user = u,
                                    !.link = i, !.verified = account[u].verified])
        /\ OnlyCall

LosesVerification(c) == account[call[c].user].verified /\ ~call[c].verified

\* Mistake: the sessions stay.
SessionsKept(u) == session

SessionsAfterReset(u) == session \ SessionsOf(u)

\* The verification is written back as it was read.
Reset(c) ==
    LET u == call[c].user
    IN  /\ At(c, "reset")
        /\ account' = [account EXCEPT ![u].password = c, ![u].verified = call[c].verified]
        /\ link' = Consumed({call[c].link}, "used")
        /\ session' = SessionsAfterReset(u)
        /\ noted' = [noted EXCEPT ![u] = (@ \ {"invitePassword"}) \cup
                                         (IF LosesVerification(c) THEN {"mishap"} ELSE {})]
        /\ End(c)

VerifyEmail(c, i) ==
    LET u == link[i].user
    IN  /\ Begin(c, "verifyEmail")
        /\ Usable(i, {"verify"})
        /\ account[u].password # None /\ Eligible(u)
        /\ Become(c, [NoCall EXCEPT !.op = "verifyEmail", !.pc = "verify", !.user = u, !.link = i])
        /\ OnlyCall

Verify(c) ==
    LET u == call[c].user
    IN  /\ At(c, "verify")
        /\ account' = [account EXCEPT ![u].verified = TRUE]
        /\ link' = Consumed({call[c].link} \cup LiveLinks(u, {"verify"}), "used")
        /\ End(c)
        /\ UNCHANGED <<session, noted>>

----------------------------------------------------------------------------
(* Sessions *)

\* The caller knows the password of the moment.
SignIn(c, u) ==
    /\ Begin(c, "signIn")
    /\ account[u].password # None
    /\ ActiveMember(u) /\ EmailVerified(u)
    /\ Become(c, [NoCall EXCEPT !.op = "signIn", !.pc = "startSession", !.user = u,
                                !.password = account[u].password])
    /\ OnlyCall

\* completeInvite signs in with the password it has set, verified or not.
SignInInvitee(c) ==
    LET u == call[c].user
    IN  /\ At(c, "signIn")
        /\ IF account[u].password = c /\ ActiveMember(u)
           THEN Become(c, [call[c] EXCEPT !.pc = "startSession", !.password = c])
           ELSE End(c)
        /\ OnlyCall

StartSession(c) ==
    LET u == call[c].user
    IN  /\ At(c, "startSession")
        /\ session' = session \cup {[user |-> u, call |-> c, password |-> call[c].password,
                                     late |-> call[c].password # account[u].password]}
        /\ End(c)
        /\ UNCHANGED <<account, link, noted>>

\* Organization, workspace, user, identity, membership and session in one
\* transaction; the unique email keeps a second one out.
BootstrapOwner(c, u) ==
    /\ Begin(c, "bootstrapOwner")
    /\ account[u].status = "none"
    /\ account' = [account EXCEPT ![u].status = "active", ![u].membership = "active",
                                  ![u].password = c]
    /\ session' = session \cup {[user |-> u, call |-> c, password |-> c, late |-> FALSE]}
    /\ Become(c, [NoCall EXCEPT !.op = "bootstrapOwner", !.pc = "readVerification", !.user = u])
    /\ UNCHANGED <<link, noted>>

----------------------------------------------------------------------------
(* UsersService.updateUser *)

ManagedUserStatus == {"active", "invited", "disabled"}

MembershipFor(status) == CASE status = "active"   -> "active"
                           [] status = "disabled" -> "revoked"
                           [] OTHER               -> "invited"

UpdateUser(c, u) ==
    /\ Begin(c, "updateUser")
    /\ account[u].status # "none"
    /\ Become(c, [NoCall EXCEPT !.op = "updateUser", !.pc = "write", !.user = u,
                                !.status = account[u].status])
    /\ OnlyCall

\* The status that is not given is written back as it was read.  Memberships
\* are replaced when they are given, else they follow a status that is.
WriteUser(c, given, assigned) ==
    LET u == call[c].user
        next == IF given = "keep" THEN call[c].status ELSE given
    IN  /\ At(c, "write")
        /\ account' = [account EXCEPT
               ![u].status = next,
               ![u].membership = IF assigned \/ given # "keep" THEN MembershipFor(next) ELSE @]
        /\ noted' = [noted EXCEPT ![u] = {"mishap"} \cup
               CASE given # "keep" \/ assigned           -> @ \ {"staleStatus"}
                 [] call[c].status # account[u].status    -> @ \cup {"staleStatus"}
                 [] OTHER                                 -> @]
        /\ End(c)
        /\ UNCHANGED <<link, session>>

\* A statement fails, or two first passwords meet in the unique index: the
\* transaction leaves nothing behind and the call ends with an error.
TransactionFails(c) ==
    /\ call[c].pc \in {"issue", "revoke", "complete", "reset", "verify", "startSession", "write"}
    /\ End(c)
    /\ Note(call[c].user, "mishap")
    /\ UNCHANGED <<account, link, session>>

----------------------------------------------------------------------------

AccountAt(b) ==
    [status |-> CASE b = "nobody" -> "none" [] b = "invited" -> "invited"
                  [] b = "disabled" -> "disabled" [] OTHER -> "active",
     membership |-> CASE b = "nobody" -> "none" [] b = "invited" -> "invited"
                      [] b = "disabled" -> "revoked" [] OTHER -> "active",
     password |-> IF b \in {"nobody", "invited"} THEN None ELSE "initial",
     verified |-> b \in {"verified", "disabled"},
     google |-> None]

LinkAt(u, b) ==
    CASE b = "invited"    -> [user |-> u, purpose |-> "invite", end |-> "live", expired |-> FALSE]
      [] b = "unverified" -> [user |-> u, purpose |-> "verify", end |-> "live", expired |-> FALSE]
      [] b \in {"verified", "disabled"} ->
             [user |-> u, purpose |-> "verify", end |-> "used", expired |-> FALSE]
      [] OTHER -> NoLink

Init ==
    /\ \E b \in [User -> Beginning] :
           /\ account = [u \in User |-> AccountAt(b[u])]
           /\ link = [i \in LinkId |-> IF i \in User THEN LinkAt(i, b[i]) ELSE NoLink]
    /\ session = {}
    /\ call = [c \in Call |-> NoCall]
    /\ noted = [u \in User |-> {}]

\* What a call begins with.
Invite(c) ==
    \E u \in User : CreateUser(c, u) \/ ResendInvite(c, u) \/ RevokeInvite(c, u)
                        \/ UpdateUser(c, u)
Request(c) ==
    \E u \in User : RequestPasswordReset(c, u) \/ RequestVerification(c, u)
                        \/ SignIn(c, u) \/ BootstrapOwner(c, u)
Use(c) == \E i \in LinkId : CompleteInvite(c, i) \/ ResetPassword(c, i) \/ VerifyEmail(c, i)

Proceed(c) ==
    \/ ReadInvite(c) \/ ReadVerification(c) \/ Supersede(c) \/ Issue(c) \/ MailSent(c)
    \/ Revoke(c) \/ ReadIdentity(c) \/ Complete(c) \/ Reset(c) \/ Verify(c)
    \/ SignInInvitee(c) \/ StartSession(c)
    \/ \E given \in ManagedUserStatus \cup {"keep"}, assigned \in BOOLEAN :
           WriteUser(c, given, assigned)

Fail(c) == PlanRefusesMail(c) \/ MailFails(c) \/ TransactionFails(c)

Next ==
    \/ \E c \in Call : Invite(c) \/ Request(c) \/ Use(c) \/ Proceed(c) \/ Fail(c)
    \/ \E i \in LinkId : Expire(i)

Spec == Init /\ [][Next]_vars

----------------------------------------------------------------------------
(* Properties *)

Account == [status : Stage, membership : {"none", "invited", "active", "revoked"},
            password : Password, verified : BOOLEAN, google : GoogleIdentity \cup {None}]

Link == [user : User \cup {None}, purpose : {"none", "invite", "reset", "verify"},
         end : {"unissued", "live", "superseded", "revoked", "used"}, expired : BOOLEAN]

TypeOK ==
    /\ account \in [User -> Account]
    /\ link \in [LinkId -> Link]
    /\ session \subseteq [user : User, call : Call, password : Password \cup {"google"}, late : BOOLEAN]
    /\ \A c \in Call : call[c].user \in User \cup {None} /\ call[c].live \subseteq LinkId
    /\ noted \in [User -> SUBSET {"mishap", "staleStatus", "invitePassword", "googleProof", "unlinked"}]

\* A verification is lost in one way only: a password reset or the completion of
\* an invite had read the identity before it was verified and writes back what
\* it read.
VerificationIsLostOnlyToAStaleRead ==
    [][\A u \in User : account[u].verified /\ ~account'[u].verified =>
           \E c \in Call : /\ call[c].user = u /\ ~call[c].verified
                           /\ call[c].pc \in {"reset", "complete"}
                           /\ call'[c].pc # call[c].pc]_vars

\* Once the password was chosen by a reset, the sessions that are live were
\* opened with it, or by a sign-in that had checked the password before the
\* reset and stored its session after it.  Sessions opened with Google rest on
\* no password: a reset ends those it finds, and nothing is said of later ones.
SessionsMatchPassword ==
    \A s \in session :
        s.late \/ s.password = "google" \/ s.password = account[s.user].password \/ "invitePassword" \in noted[s.user]

\* The memberships say of a user what the user row says, except where an edit
\* has written back a status that another call had changed in between, or where
\* Google's transaction found the user row before such a change and the
\* memberships after it.
MembershipFollowsUser ==
    \A u \in User : account[u].status # "none" /\ "staleStatus" \notin noted[u] =>
        account[u].membership = MembershipFor(account[u].status)

\* The owner of an active account with a password can get in or verify the
\* address: nothing short of a mail that was refused, lost or expired, a failed
\* transaction, an administrator, a stale reset or the removal of a Google
\* account shuts the account.
NobodyIsLockedOut ==
    \A u \in User :
        /\ account[u].status = "active" /\ account[u].password # None
        /\ noted[u] \cap {"mishap", "unlinked"} = {}
        =>
            \/ EmailVerified(u)
            \/ SessionsOf(u) # {}
            \/ \E i \in LiveLinks(u, {"verify"}) : ~link[i].expired
            \/ \E c \in Call : /\ call[c].user = u
                               /\ call[c].op \in {"completeInvite", "bootstrapOwner"}
                               /\ call[c].pc # "done"
=============================================================================
