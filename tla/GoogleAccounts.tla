---------------------------- MODULE GoogleAccounts ----------------------------
(***************************************************************************)
(* GoogleAuthService: Google accounts as a second way into the accounts of *)
(* module Accounts.  A Google account is linked by its owner from a        *)
(* session, by a first sign-in under the address of an account that has no *)
(* password, or by accepting an invite, and can be unlinked again.         *)
(*                                                                         *)
(* A call covers the visit to Google: what was put into the signed state   *)
(* when it left is in its record when the callback arrives, unless the     *)
(* token has run out by then.  Signatures are left out.                    *)
(***************************************************************************)
EXTENDS Accounts

\* The address of each Google account that Google has verified, if it has.
CONSTANT Email

ASSUME EmailAssumption == Email \in [Subject -> User \cup {None}]

VARIABLES
    pending,   \* signed link tokens handed to users who have a password
    accepted   \* observed: which call has accepted which invite

googleVars == <<account, link, session, call, noted, pending, accepted>>

OnlyGoogleCall == OnlyCall /\ UNCHANGED <<pending, accepted>>

SubjectOf(u) == IF account[u].google = None THEN None ELSE account[u].google.subject
RowOf(u) == IF account[u].google = None THEN None ELSE account[u].google.row
LinkedTo(s) == {u \in User : SubjectOf(u) = s}

----------------------------------------------------------------------------
(* Leaving for Google *)

\* The signed state that travels with the user and comes back in the callback.
StateToken(op, u, i) == [NoCall EXCEPT !.op = op, !.pc = "atGoogle", !.user = u, !.link = i]

\* startGoogleAuth with an invite resolves it before the user leaves.
StartGoogleInvite(c, i) ==
    /\ Begin(c, "googleInvite")
    /\ Usable(i, {"invite", "reset"}) /\ Eligible(link[i].user)
    /\ Become(c, StateToken("googleInvite", link[i].user, i))
    /\ OnlyGoogleCall

StartGoogleSignIn(c) ==
    /\ Begin(c, "googleSignIn")
    /\ Become(c, StateToken("googleSignIn", None, None))
    /\ OnlyGoogleCall

StartGoogleSignUp(c) ==
    /\ Begin(c, "googleSignUp")
    /\ Become(c, StateToken("googleSignUp", None, None))
    /\ OnlyGoogleCall

\* linkGoogle without a token.
StartGoogleLink(c, u) ==
    /\ Begin(c, "linkGoogle")
    /\ SessionsOf(u) # {} /\ ActiveMember(u)
    /\ account[u].google = None
    /\ Become(c, StateToken("linkGoogle", u, None))
    /\ OnlyGoogleCall

\* The state has run out, or Google answers the code without a profile.
NoProfile(c) ==
    /\ At(c, "atGoogle")
    /\ End(c)
    /\ OnlyGoogleCall

----------------------------------------------------------------------------
(* linkGoogleIdentityToUser: its checks, then its transaction *)

\* Mistake: the address is not compared.
AnyEmailAlways(op) == TRUE

AnyEmail(op) == op = "googleInvite"
Activates(op) == op \in {"googleInvite", "googleSignIn"}

MayLink(u, s, op) ==
    /\ account[u].status \in {"active", "invited"}
    /\ AnyEmail(op) \/ Email[s] = u
    /\ Eligible(u)
    /\ LinkedTo(s) \subseteq {u}
    /\ SubjectOf(u) \in {None, s}

ReadyToLink(c, u, s, op) ==
    [NoCall EXCEPT !.op = op, !.pc = "link", !.user = u, !.subject = s,
                   !.link = call[c].link, !.row = RowOf(u)]

\* The callback of a link that was started from a session.
LinkCallback(c, s) ==
    LET u == call[c].user
    IN  /\ At(c, "atGoogle") /\ call[c].op = "linkGoogle"
        /\ IF MayLink(u, s, "linkGoogle")
           THEN Become(c, ReadyToLink(c, u, s, "linkGoogle"))
           ELSE End(c)
        /\ OnlyGoogleCall

\* linkGoogle with the token that a sign-in has handed out.
LinkFromPendingToken(c, p) ==
    /\ Begin(c, "linkPending")
    /\ SessionsOf(p.user) # {} /\ ActiveMember(p.user)
    /\ MayLink(p.user, p.subject, "linkPending")
    /\ Become(c, ReadyToLink(c, p.user, p.subject, "linkPending"))
    /\ OnlyGoogleCall

\* A token that has run out is refused from then on.
PendingExpires(p) ==
    /\ pending' = pending \ {p}
    /\ UNCHANGED <<account, link, session, call, noted, accepted>>

\* The callback of an invite resolves the token again.
InviteCallback(c, s) ==
    LET u == call[c].user
    IN  /\ At(c, "atGoogle") /\ call[c].op = "googleInvite"
        /\ IF Usable(call[c].link, {"invite", "reset"}) /\ MayLink(u, s, "googleInvite")
           THEN Become(c, ReadyToLink(c, u, s, "googleInvite"))
           ELSE End(c)
        /\ OnlyGoogleCall

\* The row that was found is updated by its id; it may be gone.  A new row
\* meets the unique indexes on subject and on user.
CanStore(c) ==
    \/ call[c].row # None
    \/ account[call[c].user].google = None /\ LinkedTo(call[c].subject) = {}

StoredGoogle(c) ==
    IF call[c].row # None THEN account[call[c].user].google
    ELSE [subject |-> call[c].subject, row |-> c]

\* Mistake: access is activated whatever it has become.
RaisesAny(status) == TRUE

Raises(status) == status = "invited"
Raised(status) == IF Raises(status) THEN "active" ELSE status

\* Mistake: the UPDATE names the invite's id only.
InviteById(c) == TRUE

InviteUnconsumed(c) == call[c].op = "googleInvite" => link[call[c].link].end = "live"

\* What the others see of the transaction once it commits.  The rows it has
\* written were locked: what the model lets another call do to them in between
\* has come first, and may leave it nothing but to fail.
Commit(c, status, membership, verifies) ==
    LET u == call[c].user
    IN  /\ CanStore(c) /\ InviteUnconsumed(c)
        /\ account' = [account EXCEPT
               ![u].google = StoredGoogle(c),
               ![u].verified = @ \/ verifies,
               ![u].status = status,
               ![u].membership = membership]
        /\ IF call[c].op = "googleInvite"
           THEN link' = Consumed({call[c].link}, "used") /\ accepted' = accepted \cup {<<c, call[c].link>>}
           ELSE UNCHANGED <<link, accepted>>
        /\ Go(c, IF Activates(call[c].op) THEN "readAccess" ELSE "done")
        /\ UNCHANGED <<session, pending>>

ProofOf(u, s) == IF Email[s] = u THEN {"googleProof"} ELSE {}

\* The first statements: the identity, the verification of a password identity,
\* the invite if it is still unconsumed.  Without access to raise that is all.
LinkGoogleIdentity(c) ==
    LET u == call[c].user
        verifies == account[u].password # None
    IN  /\ At(c, "link")
        /\ IF Activates(call[c].op)
           THEN /\ CanStore(c) /\ InviteUnconsumed(c)
                /\ Become(c, [call[c] EXCEPT !.pc = "raiseUser", !.verified = verifies])
                /\ OnlyGoogleCall
           ELSE /\ Commit(c, account[u].status, account[u].membership, verifies)
                /\ noted' = [noted EXCEPT ![u] = @ \cup ProofOf(u, call[c].subject)]

\* The UPDATE of the user row.  If it is still invited, it stays locked, and the
\* memberships with it, until the commit.
RaiseUser(c) ==
    LET u == call[c].user
    IN  /\ At(c, "raiseUser")
        /\ IF Raises(account[u].status)
           THEN /\ Commit(c, "active", Raised(account[u].membership), call[c].verified)
                /\ noted' = [noted EXCEPT ![u] = @ \cup ProofOf(u, call[c].subject)]
           ELSE /\ Become(c, [call[c] EXCEPT !.pc = "raiseMemberships", !.status = account[u].status])
                /\ OnlyGoogleCall

\* The UPDATE of the memberships that are invited by now, after a user row that
\* was not.
RaiseMemberships(c) ==
    LET u == call[c].user
    IN  /\ At(c, "raiseMemberships")
        /\ Commit(c, account[u].status, Raised(account[u].membership), call[c].verified)
        /\ noted' = [noted EXCEPT ![u] = @ \cup ProofOf(u, call[c].subject) \cup
               (IF call[c].status # account[u].status THEN {"staleStatus"} ELSE {})]

\* A unique index or a consumed invite rolls the transaction back, as any
\* statement may.
LinkFails(c) ==
    /\ call[c].pc \in {"link", "raiseUser", "raiseMemberships", "openSession", "signUp", "unlink"}
    /\ End(c)
    /\ OnlyGoogleCall

----------------------------------------------------------------------------
(* Signing in and up with Google *)

\* The account is known by its subject.
SignInCallback(c, s, u) ==
    /\ At(c, "atGoogle") /\ call[c].op = "googleSignIn"
    /\ u \in LinkedTo(s)
    /\ IF ActiveMember(u)
       THEN Become(c, [call[c] EXCEPT !.pc = "openSession", !.user = u, !.row = RowOf(u)])
       ELSE End(c)
    /\ OnlyGoogleCall

\* The account is known by its address only: with a password its owner has to
\* sign in with it and confirm the link, without one it is linked at once.
FirstSignInCallback(c, s, u) ==
    /\ At(c, "atGoogle") /\ call[c].op = "googleSignIn"
    /\ LinkedTo(s) = {} /\ Email[s] = u
    /\ account[u].status \in {"active", "invited"} /\ Eligible(u)
    /\ IF account[u].password # None
       THEN pending' = pending \cup {[user |-> u, subject |-> s]} /\ End(c)
       ELSE /\ UNCHANGED pending
            /\ IF MayLink(u, s, "googleSignIn")
               THEN Become(c, ReadyToLink(c, u, s, "googleSignIn"))
               ELSE End(c)
    /\ UNCHANGED <<accepted>> /\ OnlyCall

\* Nobody's address, or an account that is not open to it.
SignInRefused(c, s) ==
    /\ At(c, "atGoogle") /\ call[c].op = "googleSignIn"
    /\ LinkedTo(s) = {}
    /\ \A u \in User : Email[s] = u =>
           account[u].status \notin {"active", "invited"} \/ ~Eligible(u)
    /\ End(c)
    /\ OnlyGoogleCall

\* listActiveMemberships after the link.
ReadAccess(c) ==
    LET u == call[c].user
    IN  /\ At(c, "readAccess")
        /\ IF account[u].membership = "active" THEN Go(c, "openSession") ELSE End(c)
        /\ OnlyGoogleCall

\* createInternalSessionForIdentity updates the identity by its id, wherever
\* that has gone, and verifies a password identity whatever the address of the
\* Google account.
OpenSession(c) ==
    LET u == call[c].user
    IN  /\ At(c, "openSession")
        /\ account' = [account EXCEPT ![u].verified = @ \/ account[u].password # None]
        /\ session' = session \cup {[user |-> u, call |-> c, password |-> "google", late |-> FALSE]}
        /\ End(c)
        /\ UNCHANGED <<link, noted, pending, accepted>>

SignUpCallback(c, s) ==
    /\ At(c, "atGoogle") /\ call[c].op = "googleSignUp"
    /\ IF LinkedTo(s) = {} /\ Email[s] # None /\ account[Email[s]].status = "none"
       THEN Become(c, [call[c] EXCEPT !.pc = "signUp", !.user = Email[s], !.subject = s])
       ELSE End(c)
    /\ OnlyGoogleCall

\* createBootstrappedOwnerSession with a Google identity; unique email and subject.
SignUp(c) ==
    LET u == call[c].user
    IN  /\ At(c, "signUp")
        /\ account[u].status = "none" /\ LinkedTo(call[c].subject) = {}
        /\ account' = [account EXCEPT ![u].status = "active", ![u].membership = "active",
                           ![u].google = [subject |-> call[c].subject, row |-> c]]
        /\ session' = session \cup {[user |-> u, call |-> c, password |-> "google", late |-> FALSE]}
        /\ noted' = [noted EXCEPT ![u] = @ \cup ProofOf(u, call[c].subject)]
        /\ End(c)
        /\ UNCHANGED <<link, pending, accepted>>

----------------------------------------------------------------------------
(* unlinkGoogle *)

\* The identities are counted before one is deleted.  A password counts whether
\* its address is verified or not.
UnlinkGoogle(c, u) ==
    /\ Begin(c, "unlinkGoogle")
    /\ SessionsOf(u) # {} /\ ActiveMember(u)
    /\ account[u].google # None /\ account[u].password # None
    /\ Become(c, [NoCall EXCEPT !.op = "unlinkGoogle", !.pc = "unlink", !.user = u, !.row = RowOf(u)])
    /\ OnlyGoogleCall

Unlink(c) ==
    LET u == call[c].user
    IN  /\ At(c, "unlink")
        /\ account' = [account EXCEPT ![u].google = IF RowOf(u) = call[c].row THEN None ELSE @]
        /\ Note(u, "unlinked")
        /\ End(c)
        /\ UNCHANGED <<link, session, pending, accepted>>

----------------------------------------------------------------------------

\* Some accounts have a Google account linked from the start.
GoogleInit ==
    /\ \E b \in [User -> Beginning], g \in SUBSET User :
           /\ account = [u \in User |->
                  IF u \in g /\ b[u] = "verified"
                  THEN [AccountAt(b[u]) EXCEPT !.google =
                           [subject |-> CHOOSE s \in Subject : Email[s] = u, row |-> u]]
                  ELSE AccountAt(b[u])]
           /\ \A u \in g : b[u] = "verified" /\ \E s \in Subject : Email[s] = u
           /\ link = [i \in LinkId |-> IF i \in User THEN LinkAt(i, b[i]) ELSE NoLink]
    /\ session = {}
    /\ call = [c \in Call |-> NoCall]
    /\ noted = [u \in User |-> {}]
    /\ pending = {} /\ accepted = {}

ToGoogle(c) ==
    \/ StartGoogleSignIn(c) \/ StartGoogleSignUp(c)
    \/ \E i \in LinkId : StartGoogleInvite(c, i)
    \/ \E u \in User : StartGoogleLink(c, u) \/ UnlinkGoogle(c, u)
    \/ \E p \in pending : LinkFromPendingToken(c, p)

Callback(c) ==
    \/ NoProfile(c)
    \/ \E s \in Subject :
           \/ LinkCallback(c, s) \/ InviteCallback(c, s) \/ SignUpCallback(c, s)
           \/ SignInRefused(c, s)
           \/ \E u \in User : SignInCallback(c, s, u) \/ FirstSignInCallback(c, s, u)

Finish(c) ==
    \/ LinkGoogleIdentity(c) \/ RaiseUser(c) \/ RaiseMemberships(c)
    \/ ReadAccess(c) \/ OpenSession(c) \/ SignUp(c) \/ Unlink(c)
    \/ LinkFails(c)

GoogleNext ==
    \/ \E c \in Call : ToGoogle(c) \/ Callback(c) \/ Finish(c)
    \/ \E p \in pending : PendingExpires(p)
    \/ Next /\ UNCHANGED <<pending, accepted>>

GoogleSpec == GoogleInit /\ [][GoogleNext]_googleVars

----------------------------------------------------------------------------
(* Properties *)

GoogleTypeOK ==
    /\ TypeOK
    /\ pending \subseteq [user : User, subject : Subject]
    /\ accepted \subseteq Call \X LinkId

\* What proves that the owner of an address is there: a verification link that
\* was mailed to it and used, an invite that was mailed to it and accepted with
\* Google, or a Google account for which Google vouches for that very address.
Proved(u) ==
    \/ \E i \in LinkId : link[i].user = u /\ link[i].purpose = "verify" /\ link[i].end = "used"
    \/ \E a \in accepted : link[a[2]].user = u
    \/ "googleProof" \in noted[u]

\* A verified password identity rests on such a proof, although every sign-in
\* with a Google account verifies it, also with one of another address.
VerifiedByProof == \A u \in User : account[u].verified => Proved(u)

\* An invite is accepted with Google once, however many callbacks carry it.
AcceptedOnce == \A a, b \in accepted : a[2] = b[2] => a = b

\* An account that was disabled is opened again by an administrator, or by the
\* completion of an invite that had read the account before; never with Google.
ReopenedOnlyByAdmin ==
    [][\A u \in User : account[u].status = "disabled" /\ account'[u].status # "disabled" =>
           \E c \in Call : /\ call[c].user = u
                           /\ call[c].pc \in {"write", "complete"}
                           /\ call'[c].pc # call[c].pc]_googleVars
=============================================================================
