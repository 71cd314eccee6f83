---------------------------- MODULE AccountsProofs ----------------------------
(***************************************************************************)
(* What holds of the accounts of an organization of any size, whatever     *)
(* calls of the API, visits to Google, refused mails and failed            *)
(* transactions come between the read and the write of one another.        *)
(***************************************************************************)
EXTENDS GoogleAccounts, TLAPS

(* The inductive invariant.  A call decides on what it has read, so that    *)
(* most of it says what a call may still rely on when it comes to write.    *)

Stages == {"idle", "readInvite", "readVerification", "supersede", "issue", "dispatch", "revoke",
           "readIdentity", "complete", "reset", "verify", "signIn", "startSession", "write",
           "atGoogle", "link", "raiseUser", "raiseMemberships", "readAccess", "openSession", "signUp", "unlink", "done"}

Operations == {"none", "createUser", "resendInvite", "revokeInvite", "updateUser",
               "requestPasswordReset", "requestVerification", "signIn", "bootstrapOwner",
               "completeInvite", "resetPassword", "verifyEmail", "googleInvite", "googleSignIn",
               "googleSignUp", "linkGoogle", "linkPending", "unlinkGoogle"}

\* The stages at which a call acts for an account that exists.
ForAnAccount == Stages \ {"idle", "atGoogle", "signUp", "done"}

CallRecord == [op : Operations, pc : Stages, user : User \cup {None}, link : LinkId \cup {None},
               subject : Subject \cup {None}, live : SUBSET LinkId, verified : BOOLEAN,
               status : Stage, password : Password, row : LinkId \cup {None}]

Carries(r, purposes) ==
    r.link \in LinkId /\ link[r.link].user = r.user /\ link[r.link].purpose \in purposes

\* The pending link tokens: each was signed for a Google account with the address.
Vouched == {p \in [user : User, subject : Subject] : Email[p.subject] = p.user}

Linking == {"link", "raiseUser", "raiseMemberships"}

\* What call c may rely on when its record is r.
Knows(c, r) ==
    /\ r.pc \in ForAnAccount => r.user \in User /\ account[r.user].status # "none"
    /\ r.pc \notin {"dispatch", "signIn", "startSession", "done"} => link[c] = NoLink
    /\ r.pc = "issue" => \A i \in r.live :
           link[i].user = r.user /\ link[i].purpose \in SameTable(Issues(r.op))
    /\ r.pc \in {"readIdentity", "complete"} => r.op = "completeInvite"
    /\ r.pc \in {"readIdentity", "complete", "reset"} => Carries(r, {"invite", "reset"})
    /\ r.pc \in Linking \cup {"atGoogle"} /\ r.op = "googleInvite" => Carries(r, {"invite", "reset"})
    /\ r.pc = "verify" => Carries(r, {"verify"})
    /\ r.pc = "reset" => account[r.user].password # None
    /\ r.pc \in {"complete", "reset"} /\ r.verified => Proved(r.user)
    /\ r.pc \in {"readAccess", "openSession"} => Proved(r.user)
    /\ r.pc = "write" => r.status # "none"
    /\ r.pc = "atGoogle" /\ r.op \in {"linkGoogle", "googleInvite"} => r.user \in User
    /\ r.pc = "signUp" => r.user \in User /\ Email[r.subject] = r.user
    /\ r.pc \in Linking \cup {"signUp"} => r.subject \in Subject
    /\ r.pc \in Linking => r.op = "googleInvite" \/ Email[r.subject] = r.user
    /\ r.pc \in Linking /\ r.row # None =>
           account[r.user].google # None \/ "unlinked" \in noted[r.user]
    /\ r.pc = "raiseMemberships" => r.status # "invited"

CallsKnow == \A c \in Call : Knows(c, call[c])

LinksHaveOwners == \A i \in LinkId : link[i].purpose # "none" => link[i].user \in User

IssuedForAPurpose == \A i \in LinkId : link[i].end # "unissued" => link[i].purpose # "none"

NobodyHasNothing ==
    /\ \A u \in User : account[u].status = "none" =>
           account[u].membership = "none" /\ account[u].password = None
    /\ \A s \in session : account[s.user].status # "none"

\* Only an administrator revokes the memberships of an account that is open.
RevokedIsAMishap ==
    \A u \in User : account[u].status \in {"active", "invited"} /\ ~Eligible(u) => "mishap" \in noted[u]

GoogleIsProved == \A u \in User : account[u].google # None => Proved(u)

AcceptedIsUsed == AcceptedOnce /\ \A a \in accepted : link[a[2]].end = "used"

\* The call will issue a verification link yet.
WillMail(c, u) ==
    /\ call[c].user = u /\ call[c].op \in {"completeInvite", "bootstrapOwner"}
    /\ call[c].pc \in {"readVerification", "supersede", "issue"}

\* Sessions do not count: a password reset removes them.
WayIn(u) ==
    \/ EmailVerified(u)
    \/ \E i \in LiveLinks(u, {"verify"}) : ~link[i].expired
    \/ \E c \in Call : WillMail(c, u)

Unharmed(u) ==
    /\ account[u].status = "active" /\ account[u].password # None
    /\ noted[u] \cap {"mishap", "unlinked"} = {}

EveryoneHasAWayIn == \A u \in User : Unharmed(u) => WayIn(u)

ShapeInv == GoogleTypeOK /\ call \in [Call -> CallRecord] /\ pending \subseteq Vouched

AccountsInv ==
    /\ ShapeInv
    /\ CallsKnow
    /\ LinksHaveOwners /\ IssuedForAPurpose
    /\ NobodyHasNothing /\ RevokedIsAMishap
    /\ VerifiedByProof /\ GoogleIsProved
    /\ SessionsMatchPassword /\ MembershipFollowsUser
    /\ AcceptedIsUsed
    /\ EveryoneHasAWayIn

----------------------------------------------------------------------------
LEMMA NoCallIsARecord == NoCall \in CallRecord
<1>1. {} \in SUBSET LinkId /\ "none" \in Operations /\ "idle" \in Stages
      /\ "none" \in Stage /\ None \in Password
    BY DEF Operations, Stages, Stage, Password
<1> QED
    BY <1>1 DEF NoCall, CallRecord

LEMMA AccountsInit == GoogleInit => AccountsInv
<1> SUFFICES ASSUME GoogleInit PROVE AccountsInv
    OBVIOUS
<1>1. PICK b \in [User -> Beginning], g \in SUBSET User :
          /\ account = [u \in User |->
                 IF u \in g /\ b[u] = "verified"
                 THEN [AccountAt(b[u]) EXCEPT !.google =
                          [subject |-> CHOOSE s \in Subject : Email[s] = u, row |-> u]]
                 ELSE AccountAt(b[u])]
          /\ \A u \in g : b[u] = "verified" /\ \E s \in Subject : Email[s] = u
          /\ link = [i \in LinkId |-> IF i \in User THEN LinkAt(i, b[i]) ELSE NoLink]
    BY DEF GoogleInit
<1>2. /\ session = {} /\ pending = {} /\ accepted = {}
      /\ call = [c \in Call |-> NoCall] /\ noted = [u \in User |-> {}]
    BY DEF GoogleInit
<1>3. \A u \in User : b[u] \in {"nobody", "invited", "unverified", "verified", "disabled"}
    BY BeginningAssumption
<1>4. \A u \in User :
          /\ u \notin g => account[u].google = None
          /\ account[u].status = AccountAt(b[u]).status
          /\ account[u].membership = AccountAt(b[u]).membership
          /\ account[u].password = AccountAt(b[u]).password
          /\ account[u].verified = AccountAt(b[u]).verified
    BY <1>1 DEF AccountAt
<1>5. \A u \in User : account[u] \in Account
    <2>1. ASSUME NEW u \in User PROVE AccountAt(b[u]) \in Account
        BY <1>3 DEF AccountAt, Account, Stage, Password
    <2>2. ASSUME NEW u \in User, u \in g
          PROVE  [AccountAt(b[u]) EXCEPT !.google =
                      [subject |-> CHOOSE s \in Subject : Email[s] = u, row |-> u]] \in Account
        <3>1. (CHOOSE s \in Subject : Email[s] = u) \in Subject
            BY <1>1, <2>2
        <3> HIDE DEF AccountAt
        <3> QED
            BY <2>1, <3>1 DEF Account, GoogleIdentity, LinkId
    <2> QED
        BY <1>1, <2>1, <2>2
<1>6. /\ \A i \in Call : link[i] = NoLink
      /\ \A u \in User : link[u] = LinkAt(u, b[u])
      /\ \A i \in LinkId : link[i] \in Link
    BY <1>1, <1>3, NamesAreDistinct DEF LinkId, LinkAt, NoLink, Link
<1>7. ShapeInv
    <2>1. account \in [User -> Account] /\ link \in [LinkId -> Link]
        BY <1>1, <1>5, <1>6
    <2> QED
        BY <1>2, <2>1, NoCallIsARecord DEF ShapeInv, GoogleTypeOK, TypeOK, NoCall
<1>8. CallsKnow
    BY <1>2, <1>6 DEF CallsKnow, Knows, NoCall, ForAnAccount, Linking
<1>9. \A u \in User :
          /\ b[u] = "unverified" => link[u].user = u /\ link[u].purpose = "verify"
                                    /\ link[u].end = "live" /\ ~link[u].expired
          /\ b[u] \in {"verified", "disabled"} => link[u].user = u /\ link[u].purpose = "verify"
                                    /\ link[u].end = "used"
    <2> SUFFICES ASSUME NEW u \in User
                 PROVE  /\ b[u] = "unverified" =>
                              /\ link[u].user = u /\ link[u].purpose = "verify"
                              /\ link[u].end = "live" /\ ~link[u].expired
                        /\ b[u] \in {"verified", "disabled"} =>
                              /\ link[u].user = u /\ link[u].purpose = "verify"
                              /\ link[u].end = "used"
        OBVIOUS
    <2>1. CASE b[u] = "unverified"
        <3>1. link[u] = [user |-> u, purpose |-> "verify", end |-> "live", expired |-> FALSE]
            BY <1>6, <2>1 DEF LinkAt
        <3> QED
            BY <2>1, <3>1
    <2>2. CASE b[u] = "verified"
        <3>1. link[u] = [user |-> u, purpose |-> "verify", end |-> "used", expired |-> FALSE]
            BY <1>6, <2>2 DEF LinkAt
        <3> QED
            BY <2>2, <3>1
    <2>3. CASE b[u] = "disabled"
        <3>1. link[u] = [user |-> u, purpose |-> "verify", end |-> "used", expired |-> FALSE]
            BY <1>6, <2>3 DEF LinkAt
        <3> QED
            BY <2>3, <3>1
    <2> QED
        BY <2>1, <2>2, <2>3
<1>10. LinksHaveOwners /\ IssuedForAPurpose
    <2>1. ASSUME NEW u \in User
          PROVE  LinkAt(u, b[u]) = NoLink \/ (LinkAt(u, b[u]).user = u /\ LinkAt(u, b[u]).purpose # "none")
        BY <1>3 DEF LinkAt
    <2>2. NoLink.purpose = "none" /\ NoLink.end = "unissued"
        BY DEF NoLink
    <2> QED
        BY <1>6, <2>1, <2>2 DEF LinksHaveOwners, IssuedForAPurpose, LinkId
<1>11. NobodyHasNothing /\ RevokedIsAMishap /\ SessionsMatchPassword /\ AcceptedIsUsed
    <2>1. ASSUME NEW u \in User, account[u].status = "none"
          PROVE  account[u].membership = "none" /\ account[u].password = None
        BY <1>3, <1>4, <2>1 DEF AccountAt
    <2>2. ASSUME NEW u \in User, account[u].status \in {"active", "invited"}
          PROVE  Eligible(u)
        BY <1>3, <1>4, <2>2 DEF AccountAt, Eligible
    <2> QED
        BY <1>2, <2>1, <2>2 DEF NobodyHasNothing, RevokedIsAMishap, SessionsMatchPassword,
           AcceptedIsUsed, AcceptedOnce
<1>12. VerifiedByProof
    <2>1. ASSUME NEW u \in User, account[u].verified
          PROVE  b[u] \in {"verified", "disabled"}
        BY <1>4, <2>1 DEF AccountAt
    <2> QED
        BY <1>9, <2>1 DEF VerifiedByProof, Proved, LinkId
<1>13. MembershipFollowsUser /\ GoogleIsProved
    <2>1. \A u \in g : b[u] = "verified"
        BY <1>1
    <2> QED
        BY <1>3, <1>4, <1>9, <2>1 DEF MembershipFollowsUser, MembershipFor, AccountAt, GoogleIsProved,
           Proved, LinkId
<1>14. EveryoneHasAWayIn
    <2> SUFFICES ASSUME NEW u \in User, account[u].status = "active", account[u].password # None
                 PROVE  WayIn(u)
        BY DEF EveryoneHasAWayIn, Unharmed
    <2>1. b[u] \in {"unverified", "verified"}
        BY <1>3, <1>4 DEF AccountAt
    <2>2. CASE b[u] = "unverified"
        BY <2>2, <1>9 DEF WayIn, LiveLinks, LinkId
    <2>3. CASE b[u] = "verified"
        BY <2>3, <1>4 DEF WayIn, EmailVerified, AccountAt
    <2> QED
        BY <2>1, <2>2, <2>3
<1> QED
    BY <1>7, <1>8, <1>10, <1>11, <1>12, <1>13, <1>14 DEF AccountsInv

----------------------------------------------------------------------------
(* A step of one call.  Nothing that the other calls rely on is ever undone. *)

Lasting(c) ==
    /\ \A u \in User : account[u].status # "none" => account'[u].status # "none"
    /\ \A u \in User : account[u].password # None => account'[u].password # None
    /\ \A u \in User : "googleProof" \in noted[u] => "googleProof" \in noted'[u]
    /\ accepted \subseteq accepted'
    /\ \A u \in User : account[u].google # None \/ "unlinked" \in noted[u] =>
           account'[u].google # None \/ "unlinked" \in noted'[u]
    /\ \A i \in LinkId : link[i].purpose # "none" =>
           link'[i].user = link[i].user /\ link'[i].purpose = link[i].purpose
    /\ \A i \in LinkId : link[i].end = "used" => link'[i].end = "used"
    /\ \A d \in Call \ {c} : link[d] = NoLink => link'[d] = NoLink

OthersStand(c) == \A d \in Call \ {c} : call'[d] = call[d]

LEMMA SameTableIsATable ==
    ASSUME NEW p PROVE "none" \notin SameTable(p) /\ ("verify" \in SameTable(p) <=> p = "verify")
BY DEF SameTable

LEMMA ProvedLasts ==
    ASSUME AccountsInv, NEW c, Lasting(c), NEW u \in User, Proved(u)
    PROVE  Proved(u)'
<1>1. CASE "googleProof" \in noted[u]
    BY <1>1 DEF Lasting, Proved
<1>2. ASSUME NEW i \in LinkId, link[i].user = u, link[i].purpose = "verify", link[i].end = "used"
      PROVE  Proved(u)'
    BY <1>2 DEF Lasting, Proved
<1>3. ASSUME NEW a \in accepted, link[a[2]].user = u
      PROVE  Proved(u)'
    <2>1. a[2] \in LinkId /\ link[a[2]].purpose # "none"
        BY DEF AccountsInv, ShapeInv, GoogleTypeOK, AcceptedIsUsed, IssuedForAPurpose
    <2>2. a \in accepted' /\ link'[a[2]].user = u
        BY <1>3, <2>1 DEF Lasting
    <2> QED
        BY <2>2 DEF Proved
<1> QED
    BY <1>1, <1>2, <1>3 DEF Proved

LEMMA CallsStillKnow ==
    ASSUME AccountsInv, NEW c \in Call, Lasting(c), OthersStand(c), Knows(c, call[c])'
    PROVE  CallsKnow'
<1> SUFFICES ASSUME NEW d \in Call \ {c} PROVE Knows(d, call[d])'
    BY DEF CallsKnow
<1>1. Knows(d, call[d]) /\ call'[d] = call[d]
    BY DEF AccountsInv, CallsKnow, OthersStand
<1>2. link[d] = NoLink => link'[d] = NoLink
    BY DEF Lasting
<1>3. ASSUME NEW purposes, "none" \notin purposes, Carries(call[d], purposes)
      PROVE  Carries(call[d], purposes)'
    BY <1>1, <1>3 DEF Carries, Lasting
<1>4. Carries(call[d], {"invite", "reset"}) => Carries(call[d], {"invite", "reset"})'
    BY <1>3
<1>5. Carries(call[d], {"verify"}) => Carries(call[d], {"verify"})'
    BY <1>3
<1>6. call[d].pc \in ForAnAccount => account'[call[d].user].status # "none"
    BY <1>1 DEF Knows, Lasting
<1>7. /\ call[d].pc = "reset" => account'[call[d].user].password # None
      /\ call[d].pc \in {"complete", "reset"} /\ call[d].verified => Proved(call[d].user)'
      /\ call[d].pc \in {"readAccess", "openSession"} => Proved(call[d].user)'
    <2>1. call[d].pc \in {"complete", "reset", "readAccess", "openSession"} => call[d].user \in User
        BY <1>1 DEF Knows, ForAnAccount, Linking, Stages
    <2>2. Proved(call[d].user) /\ call[d].user \in User => Proved(call[d].user)'
        <3> SUFFICES ASSUME Proved(call[d].user), call[d].user \in User PROVE Proved(call[d].user)'
            OBVIOUS
        <3>1. PICK u \in User : u = call[d].user
            OBVIOUS
        <3>2. Proved(u)'
            BY <3>1, ProvedLasts
        <3> QED
            BY <1>1, <3>1, <3>2
    <2>3. call[d].pc \in {"complete", "reset"} /\ call[d].verified => Proved(call[d].user)
        BY <1>1 DEF Knows
    <2>4. call[d].pc \in {"readAccess", "openSession"} => Proved(call[d].user)
        BY <1>1 DEF Knows
    <2>5. call[d].pc = "reset" => account'[call[d].user].password # None
        BY <1>1, <2>1 DEF Knows, Lasting
    <2> QED
        BY <2>1, <2>2, <2>3, <2>4, <2>5
<1>9. call[d].pc \in Linking /\ call[d].row # None =>
          account'[call[d].user].google # None \/ "unlinked" \in noted'[call[d].user]
    <2>1. call[d].pc \in Linking => call[d].user \in User
        BY <1>1 DEF Knows, ForAnAccount, Linking, Stages
    <2> QED
        BY <1>1, <2>1 DEF Knows, Lasting
<1>8. call[d].pc = "issue" => \A i \in call[d].live :
          link'[i].user = call[d].user /\ link'[i].purpose \in SameTable(Issues(call[d].op))
    <2>1. call[d].live \subseteq LinkId
        BY DEF AccountsInv, ShapeInv, GoogleTypeOK, TypeOK
    <2> QED
        BY <1>1, <2>1, SameTableIsATable DEF Knows, Lasting
<1> QED
    BY <1>1, <1>2, <1>4, <1>5, <1>6, <1>7, <1>8, <1>9 DEF Knows

\* A step that moves on a call, and at most notes a mishap.
LEMMA CallMovesOn ==
    ASSUME AccountsInv, NEW c \in Call,
           call' \in [Call -> CallRecord], OthersStand(c), Knows(c, call[c])',
           UNCHANGED <<account, link, session, accepted>>,
           pending' \subseteq Vouched,
           \A u \in User : noted'[u] \in {noted[u], noted[u] \cup {"mishap"}},
           noted' \in [User -> SUBSET {"mishap", "staleStatus", "invitePassword", "googleProof", "unlinked"}],
           \A u \in User : WillMail(c, u) /\ Unharmed(u)' => WillMail(c, u)' \/ EmailVerified(u)
    PROVE  AccountsInv'
<1>1. Lasting(c)
    BY DEF Lasting
<1>2. CallsKnow'
    BY <1>1, CallsStillKnow
<1>3. ShapeInv'
    BY DEF AccountsInv, ShapeInv, GoogleTypeOK, TypeOK, CallRecord, Vouched
<1>4. /\ LinksHaveOwners' /\ IssuedForAPurpose' /\ NobodyHasNothing' /\ RevokedIsAMishap'
      /\ AcceptedIsUsed' /\ MembershipFollowsUser'
    <2>1. session \subseteq [user : User, call : Call, password : Password \cup {"google"}, late : BOOLEAN]
        BY DEF AccountsInv, ShapeInv, GoogleTypeOK, TypeOK
    <2> QED
        BY DEF AccountsInv, LinksHaveOwners, IssuedForAPurpose, NobodyHasNothing, RevokedIsAMishap,
           Eligible, AcceptedIsUsed, AcceptedOnce, MembershipFollowsUser
<1>5. VerifiedByProof' /\ GoogleIsProved'
    BY DEF AccountsInv, VerifiedByProof, GoogleIsProved, Proved
<1>6. SessionsMatchPassword'
    <2>1. \A s \in session : s.user \in User
        BY DEF AccountsInv, ShapeInv, GoogleTypeOK, TypeOK
    <2> QED
        BY <2>1 DEF AccountsInv, SessionsMatchPassword
<1>7. EveryoneHasAWayIn'
    <2> SUFFICES ASSUME NEW u \in User, Unharmed(u)'
                 PROVE  WayIn(u)'
        BY DEF EveryoneHasAWayIn
    <2>1. WayIn(u)
        BY DEF AccountsInv, EveryoneHasAWayIn, Unharmed
    <2>2. EmailVerified(u) => EmailVerified(u)'
        BY DEF EmailVerified
    <2>3. ASSUME NEW i \in LiveLinks(u, {"verify"}), ~link[i].expired
          PROVE  WayIn(u)'
        BY <2>3 DEF WayIn, LiveLinks
    <2>4. ASSUME NEW d \in Call, WillMail(d, u)
          PROVE  WayIn(u)'
        <3>1. CASE d = c
            BY <2>2, <2>4, <3>1 DEF WayIn
        <3>2. CASE d # c
            BY <2>4, <3>2 DEF WayIn, WillMail, OthersStand
        <3> QED
            BY <3>1, <3>2
    <2> QED
        BY <2>1, <2>2, <2>3, <2>4 DEF WayIn
<1> QED
    BY <1>2, <1>3, <1>4, <1>5, <1>6, <1>7 DEF AccountsInv

LEMMA Becomes ==
    ASSUME ShapeInv, NEW c \in Call, NEW STATE r, r \in CallRecord, Become(c, r)
    PROVE  call' \in [Call -> CallRecord] /\ OthersStand(c) /\ call'[c] = r
BY DEF ShapeInv, Become, OthersStand

\* A step that reads: only the record of the call changes.
LEMMA CallReads ==
    ASSUME AccountsInv, NEW c \in Call, NEW STATE r, r \in CallRecord, Become(c, r),
           Knows(c, r),
           OnlyCall, accepted' = accepted, pending' \subseteq Vouched,
           \A u \in User : WillMail(c, u) /\ Unharmed(u) =>
               \/ r.user = u /\ r.op = call[c].op /\ r.pc \in {"supersede", "issue"}
               \/ EmailVerified(u)
    PROVE  AccountsInv'
<1>1. call' \in [Call -> CallRecord] /\ OthersStand(c) /\ call'[c] = r
    BY Becomes DEF AccountsInv
<1>2. Knows(c, call[c])'
    <2>1. UNCHANGED <<account, link, noted, accepted>>
        BY DEF OnlyCall
    <2> QED
        BY <1>1, <2>1 DEF Knows, Carries, Proved
<1>3. \A u \in User : WillMail(c, u) /\ Unharmed(u)' => WillMail(c, u)' \/ EmailVerified(u)
    BY <1>1 DEF OnlyCall, WillMail, Unharmed
<1>4. /\ \A u \in User : noted'[u] \in {noted[u], noted[u] \cup {"mishap"}}
      /\ noted' \in [User -> SUBSET {"mishap", "staleStatus", "invitePassword", "googleProof", "unlinked"}]
    BY DEF OnlyCall, AccountsInv, ShapeInv, GoogleTypeOK, TypeOK
<1> QED
    BY <1>1, <1>2, <1>3, <1>4, CallMovesOn DEF OnlyCall

\* Nothing is left to rely on once a call has ended.
LEMMA EndedKnows ==
    ASSUME NEW c, NEW STATE op, NEW r, r = [NoCall EXCEPT !.op = op, !.pc = "done"]
    PROVE  Knows(c, r)
BY DEF Knows, ForAnAccount, Linking, NoCall

LEMMA CallStartsReads ==
    ASSUME AccountsInv, NEW c \in Call, call[c].pc = "idle",
           NEW STATE r, r \in CallRecord, Become(c, r), Knows(c, r),
           OnlyCall, accepted' = accepted, pending' = pending
    PROVE  AccountsInv'
<1>1. \A u \in User : ~WillMail(c, u)
    BY DEF WillMail
<1>2. pending' \subseteq Vouched
    BY DEF AccountsInv, ShapeInv, GoogleTypeOK
<1> QED
    BY <1>1, <1>2, CallReads

\* The calls of an administrator, and what a user asks for.
LEMMA AskingStep ==
    ASSUME AccountsInv, NEW c \in Call, NEW u \in User, UNCHANGED <<pending, accepted>>,
           \/ ResendInvite(c, u) \/ RevokeInvite(c, u) \/ UpdateUser(c, u)
           \/ RequestPasswordReset(c, u) \/ RequestVerification(c, u) \/ SignIn(c, u)
    PROVE  AccountsInv'
<1>1. account[u] \in Account /\ NoCall \in CallRecord
    BY NoCallIsARecord DEF AccountsInv, ShapeInv, GoogleTypeOK, TypeOK
<1>2. call[c].pc = "idle" /\ link[c] = NoLink /\ OnlyCall
    BY DEF AccountsInv, CallsKnow, Knows, ResendInvite, RevokeInvite, UpdateUser,
       RequestPasswordReset, RequestVerification, SignIn, Begin
<1>3. account[u].status # "none"
    BY DEF ResendInvite, RevokeInvite, UpdateUser, RequestPasswordReset, RequestVerification,
       SignIn, ActiveMember
<1>4. ASSUME NEW op \in Operations, NEW pc \in {"readInvite", "revoke", "supersede", "readVerification"},
             Become(c, [NoCall EXCEPT !.op = op, !.pc = pc, !.user = u])
      PROVE  AccountsInv'
    <2> DEFINE r == [NoCall EXCEPT !.op = op, !.pc = pc, !.user = u]
    <2>1. r \in CallRecord
        BY <1>1 DEF CallRecord, Stages
    <2>2. r.pc = pc /\ r.user = u /\ r.op = op
        BY DEF NoCall
    <2>3. Knows(c, r)
        BY <1>2, <1>3, <2>2 DEF Knows, ForAnAccount, Linking, Stages
    <2> QED
        BY <1>2, <1>4, <2>1, <2>3, CallStartsReads
<1>5. CASE ResendInvite(c, u)
    BY <1>4, <1>5 DEF ResendInvite, Operations
<1>6. CASE RevokeInvite(c, u)
    BY <1>4, <1>6 DEF RevokeInvite, Operations
<1>7. CASE RequestPasswordReset(c, u)
    BY <1>4, <1>7 DEF RequestPasswordReset, Operations
<1>8. CASE RequestVerification(c, u)
    BY <1>4, <1>8 DEF RequestVerification, Operations
<1>9. CASE UpdateUser(c, u)
    <2> DEFINE r == [NoCall EXCEPT !.op = "updateUser", !.pc = "write", !.user = u,
                                   !.status = account[u].status]
    <2>1. r \in CallRecord
        BY <1>1 DEF CallRecord, Stages, Operations, Account
    <2>2. r.pc = "write" /\ r.user = u /\ r.op = "updateUser" /\ r.status = account[u].status
        BY DEF NoCall
    <2>3. Knows(c, r)
        BY <1>2, <1>3, <2>2 DEF Knows, ForAnAccount, Linking, Stages
    <2> QED
        BY <1>2, <1>9, <2>1, <2>3, CallStartsReads DEF UpdateUser
<1>10. CASE SignIn(c, u)
    <2> DEFINE r == [NoCall EXCEPT !.op = "signIn", !.pc = "startSession", !.user = u,
                                   !.password = account[u].password]
    <2>1. r \in CallRecord
        BY <1>1 DEF CallRecord, Stages, Operations, Account
    <2>2. r.pc = "startSession" /\ r.user = u /\ r.op = "signIn"
        BY DEF NoCall
    <2>3. Knows(c, r)
        BY <1>2, <1>3, <2>2 DEF Knows, ForAnAccount, Linking, Stages
    <2> QED
        BY <1>2, <1>10, <2>1, <2>3, CallStartsReads DEF SignIn
<1> QED
    BY <1>5, <1>6, <1>7, <1>8, <1>9, <1>10

LEMMA CallEnds ==
    ASSUME AccountsInv, NEW c \in Call, End(c), OnlyCall, accepted' = accepted,
           pending' \subseteq Vouched,
           \A u \in User : WillMail(c, u) /\ Unharmed(u) => EmailVerified(u)
    PROVE  AccountsInv'
<1> DEFINE r == [NoCall EXCEPT !.op = call[c].op, !.pc = "done"]
<1>1. r \in CallRecord
    BY NoCallIsARecord DEF AccountsInv, ShapeInv, CallRecord, Stages
<1>2. Knows(c, r)
    BY EndedKnows
<1> QED
    BY <1>1, <1>2, CallReads DEF End

LEMMA CallGoes ==
    ASSUME AccountsInv, NEW c \in Call, NEW pc \in Stages, Go(c, pc),
           Knows(c, [call[c] EXCEPT !.pc = pc]),
           OnlyCall, accepted' = accepted, pending' = pending,
           \A u \in User : WillMail(c, u) /\ Unharmed(u) =>
               pc \in {"supersede", "issue"} \/ EmailVerified(u)
    PROVE  AccountsInv'
<1> DEFINE r == [call[c] EXCEPT !.pc = pc]
<1>1. call[c] \in CallRecord
    BY DEF AccountsInv, ShapeInv
<1>2. r \in CallRecord /\ r.user = call[c].user /\ r.op = call[c].op /\ r.pc = pc
    BY <1>1 DEF CallRecord
<1>3. \A u \in User : WillMail(c, u) /\ Unharmed(u) =>
          \/ r.user = u /\ r.op = call[c].op /\ r.pc \in {"supersede", "issue"}
          \/ EmailVerified(u)
    BY <1>2 DEF WillMail
<1>4. pending' \subseteq Vouched
    BY DEF AccountsInv, ShapeInv, GoogleTypeOK
<1> HIDE DEF r
<1> QED
    BY <1>2, <1>3, <1>4, CallReads DEF Go, r

\* What a call goes on with inside AuthService.
LEMMA GoingOnStep ==
    ASSUME AccountsInv, NEW c \in Call, UNCHANGED <<pending, accepted>>,
           \/ ReadInvite(c) \/ ReadVerification(c) \/ Supersede(c) \/ MailSent(c)
           \/ SignInInvitee(c) \/ ReadIdentity(c)
    PROVE  AccountsInv'
<1>1. /\ call[c] \in CallRecord /\ Knows(c, call[c])
      /\ OnlyCall /\ pending' \subseteq Vouched
    BY DEF AccountsInv, ShapeInv, CallsKnow, GoogleTypeOK, ReadInvite, ReadVerification,
       Supersede, MailSent, SignInInvitee, ReadIdentity
<1>2. /\ call[c].pc \in {"readInvite", "readVerification", "supersede", "dispatch", "signIn",
                        "readIdentity"}
      /\ call[c].user \in User /\ account[call[c].user].status # "none"
    BY <1>1 DEF ReadInvite, ReadVerification, Supersede, MailSent, SignInInvitee, ReadIdentity, At,
       Knows, ForAnAccount, Stages
<1>3. ASSUME NEW pc \in {"supersede", "signIn"}
      PROVE  LET r == [call[c] EXCEPT !.pc = pc]
             IN  r.user = call[c].user /\ r.op = call[c].op /\ r.pc = pc
    BY <1>1 DEF CallRecord
<1>4. CASE ReadInvite(c)
    <2>1. \A u \in User : ~WillMail(c, u)
        BY <1>4 DEF ReadInvite, At, WillMail
    <2>2. link[c] = NoLink
        BY <1>1, <1>4 DEF Knows, ReadInvite, At
    <2>3. Knows(c, [call[c] EXCEPT !.pc = "supersede"])
        BY <1>2, <1>3, <2>2 DEF Knows, ForAnAccount, Linking, Stages
    <2> QED
        BY <1>1, <1>4, <2>1, <2>3, CallEnds, CallGoes DEF ReadInvite, Stages
<1>5. CASE ReadVerification(c)
    <2>1. link[c] = NoLink
        BY <1>1, <1>5 DEF Knows, ReadVerification, At
    <2>2. Knows(c, [call[c] EXCEPT !.pc = "supersede"])
        BY <1>2, <1>3, <2>1 DEF Knows, ForAnAccount, Linking, Stages
    <2>3. ASSUME NEW u \in User, WillMail(c, u), Unharmed(u), ~EmailVerified(u)
          PROVE  Go(c, "supersede")
        <3>1. u = call[c].user
            BY <2>3 DEF WillMail
        <3>2. Eligible(u)
            BY <2>3 DEF AccountsInv, RevokedIsAMishap, Unharmed
        <3> QED
            BY <1>5, <2>3, <3>1, <3>2 DEF ReadVerification, Unharmed
    <2>4. CASE Go(c, "supersede")
        BY <1>1, <2>2, <2>4, CallGoes DEF Stages
    <2>5. CASE ~Go(c, "supersede")
        BY <1>1, <1>5, <2>3, <2>5, CallEnds DEF ReadVerification
    <2> QED
        BY <2>4, <2>5
<1>6. CASE Supersede(c)
    <2> DEFINE L == LiveLinks(call[c].user, SameTable(Issues(call[c].op)))
               r == [call[c] EXCEPT !.pc = "issue", !.live = L]
    <2>1. L \in SUBSET LinkId
        BY DEF LiveLinks
    <2>2. \A i \in L : link[i].user = call[c].user
                       /\ link[i].purpose \in SameTable(Issues(call[c].op))
        BY DEF LiveLinks
    <2>3. link[c] = NoLink
        BY <1>1, <1>6 DEF Knows, Supersede, At
    <2> HIDE DEF L
    <2>4. r \in CallRecord /\ r.pc = "issue" /\ r.live = L /\ r.user = call[c].user
          /\ r.op = call[c].op
        BY <1>1, <2>1 DEF CallRecord, Stages
    <2>5. Knows(c, r)
        BY <1>2, <2>2, <2>3, <2>4 DEF Knows, ForAnAccount, Linking, Stages
    <2>6. Become(c, r)
        BY <1>6 DEF Supersede, L
    <2>7. \A u \in User : WillMail(c, u) => r.user = u /\ r.op = call[c].op /\ r.pc = "issue"
        BY <2>4 DEF WillMail
    <2> HIDE DEF r
    <2> QED
        BY <1>1, <2>4, <2>5, <2>6, <2>7, CallReads
<1>7. CASE MailSent(c)
    <2>1. \A u \in User : ~WillMail(c, u)
        BY <1>7 DEF MailSent, At, WillMail
    <2>2. Knows(c, [call[c] EXCEPT !.pc = "signIn"])
        BY <1>2, <1>3 DEF Knows, ForAnAccount, Linking, Stages
    <2> QED
        BY <1>1, <1>7, <2>1, <2>2, CallEnds, CallGoes DEF MailSent, Stages
<1>8. CASE SignInInvitee(c)
    <2> DEFINE r == [call[c] EXCEPT !.pc = "startSession", !.password = c]
    <2>1. \A u \in User : ~WillMail(c, u)
        BY <1>8 DEF SignInInvitee, At, WillMail
    <2>2. r \in CallRecord /\ r.pc = "startSession" /\ r.user = call[c].user
        BY <1>1 DEF CallRecord, Stages, Password
    <2>3. Knows(c, r)
        BY <1>2, <2>2 DEF Knows, ForAnAccount, Linking, Stages
    <2> HIDE DEF r
    <2>4. CASE Become(c, r)
        BY <1>1, <2>1, <2>2, <2>3, <2>4, CallReads
    <2>5. CASE End(c)
        BY <1>1, <2>1, <2>5, CallEnds
    <2> QED
        BY <1>8, <2>4, <2>5 DEF SignInInvitee, r
<1>9. CASE ReadIdentity(c)
    <2>1. PICK u \in User : call[c].user = u
        BY <1>2
    <2> DEFINE r == [call[c] EXCEPT !.pc = "complete", !.password = account[u].password,
                                    !.verified = account[u].verified]
    <2>2. \A v \in User : ~WillMail(c, v)
        BY <1>9 DEF ReadIdentity, At, WillMail
    <2>3. account[u] \in Account
        BY DEF AccountsInv, ShapeInv, GoogleTypeOK, TypeOK
    <2>4. /\ r \in CallRecord /\ r.pc = "complete" /\ r.user = u /\ r.op = call[c].op
          /\ r.link = call[c].link /\ r.verified = account[u].verified
        BY <1>1, <2>1, <2>3 DEF CallRecord, Stages, Account
    <2>5. /\ call[c].op = "completeInvite" /\ Carries(call[c], {"invite", "reset"})
          /\ link[c] = NoLink
        BY <1>1, <1>9 DEF Knows, ReadIdentity, At
    <2>6. r.verified => Proved(u)
        BY <2>4 DEF AccountsInv, VerifiedByProof
    <2>7. Become(c, r)
        BY <1>9, <2>1 DEF ReadIdentity
    <2> HIDE DEF r
    <2>8. Carries(r, {"invite", "reset"})
        BY <2>1, <2>4, <2>5 DEF Carries
    <2>9. Knows(c, r)
        BY <1>2, <2>1, <2>4, <2>5, <2>6, <2>8 DEF Knows, ForAnAccount, Linking, Stages
    <2> QED
        BY <1>1, <2>2, <2>4, <2>7, <2>9, CallReads
<1> QED
    BY <1>4, <1>5, <1>6, <1>7, <1>8, <1>9

\* A link is opened: what it says of its owner is what the call writes later.
LEMMA OpeningStep ==
    ASSUME AccountsInv, NEW c \in Call, NEW i \in LinkId, UNCHANGED <<pending, accepted>>,
           \/ CompleteInvite(c, i) \/ ResetPassword(c, i) \/ VerifyEmail(c, i)
           \/ StartGoogleInvite(c, i)
    PROVE  AccountsInv'
<1> DEFINE u == link[i].user
<1>1. call[c].pc = "idle" /\ link[c] = NoLink /\ OnlyCall
    BY DEF AccountsInv, CallsKnow, Knows, CompleteInvite, ResetPassword, VerifyEmail,
       StartGoogleInvite, OnlyGoogleCall, Begin
<1>2. u \in User
    BY DEF AccountsInv, LinksHaveOwners, CompleteInvite, ResetPassword, VerifyEmail,
       StartGoogleInvite, Usable
<1>3. account[u] \in Account /\ account[u].status # "none" /\ NoCall \in CallRecord
    BY <1>2, NoCallIsARecord DEF AccountsInv, ShapeInv, GoogleTypeOK, TypeOK, NobodyHasNothing,
       CompleteInvite, ResetPassword, VerifyEmail, StartGoogleInvite, Eligible, ActiveMember
<1> HIDE DEF u
<1>4. ASSUME NEW op \in Operations, NEW pc \in {"readIdentity", "verify", "atGoogle"},
             pc = "readIdentity" => op = "completeInvite",
             pc \in {"readIdentity", "atGoogle"} => link[i].purpose \in {"invite", "reset"},
             pc = "verify" => link[i].purpose = "verify",
             Become(c, [NoCall EXCEPT !.op = op, !.pc = pc, !.user = u, !.link = i])
      PROVE  AccountsInv'
    <2> DEFINE r == [NoCall EXCEPT !.op = op, !.pc = pc, !.user = u, !.link = i]
    <2>1. r \in CallRecord
        BY <1>2, <1>3 DEF CallRecord, Stages
    <2>2. r.pc = pc /\ r.user = u /\ r.op = op /\ r.link = i
        BY DEF NoCall
    <2>3. Knows(c, r)
        BY <1>1, <1>2, <1>3, <1>4, <2>2 DEF Knows, Carries, ForAnAccount, Linking, Stages, u
    <2> HIDE DEF r
    <2> QED
        BY <1>1, <1>4, <2>1, <2>3, CallStartsReads DEF r
<1>5. CASE CompleteInvite(c, i)
    BY <1>4, <1>5 DEF CompleteInvite, Operations, Usable, u
<1>6. CASE VerifyEmail(c, i)
    BY <1>4, <1>6 DEF VerifyEmail, Operations, Usable, u
<1>7. CASE StartGoogleInvite(c, i)
    BY <1>4, <1>7 DEF StartGoogleInvite, StateToken, Operations, Usable, u
<1>8. CASE ResetPassword(c, i)
    <2> DEFINE r == [NoCall EXCEPT !.op = "resetPassword", !.pc = "reset", !.user = u,
                                   !.link = i, !.verified = account[u].verified]
    <2>1. r \in CallRecord
        BY <1>2, <1>3 DEF CallRecord, Stages, Operations, Account
    <2>2. r.pc = "reset" /\ r.user = u /\ r.op = "resetPassword" /\ r.link = i
          /\ r.verified = account[u].verified
        BY DEF NoCall
    <2>3. r.verified => Proved(u)
        BY <1>2, <2>2 DEF AccountsInv, VerifiedByProof
    <2>4. account[u].password # None /\ link[i].purpose \in {"invite", "reset"}
          /\ Become(c, r)
        BY <1>8 DEF ResetPassword, Usable, u
    <2>5. Carries(r, {"invite", "reset"})
        BY <2>2, <2>4 DEF Carries, u
    <2> HIDE DEF r
    <2>6. Knows(c, r)
        BY <1>1, <1>2, <1>3, <2>2, <2>3, <2>4, <2>5 DEF Knows, ForAnAccount, Linking, Stages
    <2> QED
        BY <1>1, <2>1, <2>4, <2>6, CallStartsReads
<1> QED
    BY <1>5, <1>6, <1>7, <1>8

\* The visits to Google, and what the callbacks read.
LEMMA VisitStep ==
    ASSUME AccountsInv, NEW c \in Call,
           \/ StartGoogleSignIn(c) \/ StartGoogleSignUp(c)
           \/ \E u \in User : StartGoogleLink(c, u) \/ UnlinkGoogle(c, u)
    PROVE  AccountsInv'
<1>1. call[c].pc = "idle" /\ link[c] = NoLink /\ OnlyGoogleCall /\ NoCall \in CallRecord
    BY NoCallIsARecord DEF AccountsInv, CallsKnow, Knows, StartGoogleSignIn, StartGoogleSignUp,
       StartGoogleLink, UnlinkGoogle, Begin
<1>2. ASSUME NEW op \in {"googleSignIn", "googleSignUp", "linkGoogle"}, NEW u \in User \cup {None},
             op = "linkGoogle" => u \in User,
             Become(c, StateToken(op, u, None))
      PROVE  AccountsInv'
    <2> DEFINE r == [NoCall EXCEPT !.op = op, !.pc = "atGoogle", !.user = u, !.link = None]
    <2>1. r \in CallRecord
        BY <1>1 DEF CallRecord, Stages, Operations
    <2>2. r.pc = "atGoogle" /\ r.user = u /\ r.op = op
        BY DEF NoCall
    <2>3. Knows(c, r)
        BY <1>1, <1>2, <2>2 DEF Knows, ForAnAccount, Linking, Stages
    <2>4. Become(c, r)
        BY <1>2 DEF StateToken
    <2> HIDE DEF r
    <2> QED
        BY <1>1, <2>1, <2>3, <2>4, CallStartsReads DEF OnlyGoogleCall
<1>3. CASE StartGoogleSignIn(c) \/ StartGoogleSignUp(c)
    BY <1>2, <1>3 DEF StartGoogleSignIn, StartGoogleSignUp
<1>4. ASSUME NEW u \in User, StartGoogleLink(c, u)
      PROVE  AccountsInv'
    BY <1>2, <1>4 DEF StartGoogleLink
<1>5. ASSUME NEW u \in User, UnlinkGoogle(c, u)
      PROVE  AccountsInv'
    <2> DEFINE r == [NoCall EXCEPT !.op = "unlinkGoogle", !.pc = "unlink", !.user = u, !.row = RowOf(u)]
    <2>1. account[u] \in Account /\ account[u].status = "active"
        BY <1>5 DEF AccountsInv, ShapeInv, GoogleTypeOK, TypeOK, UnlinkGoogle, ActiveMember
    <2>2. RowOf(u) \in LinkId \cup {None}
        BY <2>1 DEF RowOf, Account, GoogleIdentity
    <2>3. r \in CallRecord /\ r.pc = "unlink" /\ r.user = u /\ r.op = "unlinkGoogle"
        BY <1>1, <2>2 DEF CallRecord, Stages, Operations
    <2>4. Knows(c, r)
        BY <1>1, <2>1, <2>3 DEF Knows, ForAnAccount, Linking, Stages
    <2>5. Become(c, r)
        BY <1>5 DEF UnlinkGoogle
    <2> HIDE DEF r
    <2> QED
        BY <1>1, <2>3, <2>4, <2>5, CallStartsReads DEF OnlyGoogleCall
<1> QED
    BY <1>3, <1>4, <1>5

\* A call that is about to link a Google account.
LEMMA AboutToLink ==
    ASSUME AccountsInv, NEW c \in Call, NEW u \in User, NEW s \in Subject, NEW op \in Operations,
           MayLink(u, s, op), link[c] = NoLink, \A v \in User : ~WillMail(c, v),
           op = "googleInvite" => Carries(call[c], {"invite", "reset"}) /\ call[c].user = u,
           Become(c, ReadyToLink(c, u, s, op)),
           OnlyCall, accepted' = accepted, pending' = pending
    PROVE  AccountsInv'
<1> DEFINE r == ReadyToLink(c, u, s, op)
<1>1. account[u] \in Account /\ account[u].status # "none" /\ NoCall \in CallRecord
      /\ call[c] \in CallRecord /\ pending' \subseteq Vouched
    BY NoCallIsARecord DEF AccountsInv, ShapeInv, GoogleTypeOK, TypeOK, MayLink
<1>2. RowOf(u) \in LinkId \cup {None} /\ call[c].link \in LinkId \cup {None}
    BY <1>1 DEF RowOf, Account, GoogleIdentity, CallRecord
<1>3. r \in CallRecord
    BY <1>1, <1>2 DEF CallRecord, Stages, ReadyToLink
<1>4. r.pc = "link" /\ r.user = u /\ r.op = op /\ r.subject = s /\ r.link = call[c].link
    BY DEF NoCall, ReadyToLink
<1>7. op = "googleInvite" \/ Email[s] = u
    BY DEF MayLink, AnyEmail
<1>8. r.row # None => account[u].google # None
    BY DEF NoCall, ReadyToLink, RowOf
<1> HIDE DEF r
<1>5. op = "googleInvite" => Carries(r, {"invite", "reset"})
    BY <1>4 DEF Carries
<1>6. Knows(c, r)
    BY <1>1, <1>4, <1>5, <1>7, <1>8 DEF Knows, ForAnAccount, Linking, Stages
<1> QED
    BY <1>1, <1>3, <1>6, CallReads DEF r

LEMMA CallbackStep ==
    ASSUME AccountsInv, NEW c \in Call, Callback(c)
    PROVE  AccountsInv'
<1>1. /\ At(c, "atGoogle") /\ OnlyCall /\ accepted' = accepted
    BY DEF Callback, NoProfile, LinkCallback, InviteCallback, SignUpCallback, SignInRefused,
       SignInCallback, FirstSignInCallback, OnlyGoogleCall
<1>2. /\ call[c] \in CallRecord /\ Knows(c, call[c]) /\ link[c] = NoLink
      /\ \A v \in User : ~WillMail(c, v)
      /\ pending \subseteq Vouched
    BY <1>1 DEF AccountsInv, ShapeInv, GoogleTypeOK, CallsKnow, Knows, At, WillMail
<1>3. ASSUME End(c), pending' \subseteq Vouched
      PROVE  AccountsInv'
    BY <1>1, <1>2, <1>3, CallEnds
<1>4. CASE NoProfile(c)
    BY <1>2, <1>3, <1>4 DEF NoProfile, OnlyGoogleCall
<1>5. ASSUME NEW s \in Subject, LinkCallback(c, s)
      PROVE  AccountsInv'
    <2>1. call[c].op = "linkGoogle" /\ call[c].user \in User /\ pending' = pending
        BY <1>1, <1>2, <1>5 DEF LinkCallback, At, Knows, OnlyGoogleCall
    <2>2. CASE MayLink(call[c].user, s, "linkGoogle")
        BY <1>1, <1>2, <1>5, <2>1, <2>2, AboutToLink DEF LinkCallback, Operations
    <2>3. CASE ~MayLink(call[c].user, s, "linkGoogle")
        BY <1>2, <1>3, <1>5, <2>1, <2>3 DEF LinkCallback
    <2> QED
        BY <2>2, <2>3
<1>6. ASSUME NEW s \in Subject, InviteCallback(c, s)
      PROVE  AccountsInv'
    <2>1. call[c].op = "googleInvite" /\ call[c].user \in User /\ pending' = pending
          /\ Carries(call[c], {"invite", "reset"})
        BY <1>1, <1>2, <1>6 DEF InviteCallback, At, Knows, OnlyGoogleCall
    <2>2. CASE Usable(call[c].link, {"invite", "reset"}) /\ MayLink(call[c].user, s, "googleInvite")
        BY <1>1, <1>2, <1>6, <2>1, <2>2, AboutToLink DEF InviteCallback, Operations
    <2>3. CASE ~(Usable(call[c].link, {"invite", "reset"}) /\ MayLink(call[c].user, s, "googleInvite"))
        BY <1>2, <1>3, <1>6, <2>1, <2>3 DEF InviteCallback
    <2> QED
        BY <2>2, <2>3
<1>7. ASSUME NEW s \in Subject, SignUpCallback(c, s)
      PROVE  AccountsInv'
    <2> DEFINE r == [call[c] EXCEPT !.pc = "signUp", !.user = Email[s], !.subject = s]
    <2>1. CASE LinkedTo(s) = {} /\ Email[s] # None /\ account[Email[s]].status = "none"
        <3>1. Email[s] \in User
            BY <2>1, EmailAssumption
        <3>2. r \in CallRecord /\ r.pc = "signUp" /\ r.user = Email[s] /\ r.subject = s
            BY <1>2, <3>1 DEF CallRecord, Stages
        <3>3. Become(c, r)
            BY <1>7, <2>1 DEF SignUpCallback
        <3> HIDE DEF r
        <3>4. Knows(c, r)
            BY <1>2, <3>1, <3>2 DEF Knows, ForAnAccount, Linking, Stages
        <3> QED
            BY <1>1, <1>2, <1>7, <3>2, <3>3, <3>4, CallReads DEF SignUpCallback, OnlyGoogleCall
    <2>2. CASE ~(LinkedTo(s) = {} /\ Email[s] # None /\ account[Email[s]].status = "none")
        BY <1>2, <1>3, <1>7, <2>2 DEF SignUpCallback, OnlyGoogleCall
    <2> QED
        BY <2>1, <2>2
<1>8. ASSUME NEW s \in Subject, SignInRefused(c, s)
      PROVE  AccountsInv'
    BY <1>2, <1>3, <1>8 DEF SignInRefused, OnlyGoogleCall
<1>9. ASSUME NEW s \in Subject, NEW u \in User, SignInCallback(c, s, u)
      PROVE  AccountsInv'
    <2> DEFINE r == [call[c] EXCEPT !.pc = "openSession", !.user = u, !.row = RowOf(u)]
    <2>1. CASE ActiveMember(u)
        <3>1. account[u] \in Account /\ account[u].status # "none"
            BY <2>1 DEF AccountsInv, ShapeInv, GoogleTypeOK, TypeOK, ActiveMember
        <3>2. RowOf(u) \in LinkId \cup {None}
            BY <3>1 DEF RowOf, Account, GoogleIdentity
        <3>3. r \in CallRecord /\ r.pc = "openSession" /\ r.user = u
            BY <1>2, <3>2 DEF CallRecord, Stages
        <3>6. account[u].google # None
            BY <1>9, NamesAreDistinct DEF SignInCallback, LinkedTo, SubjectOf
        <3>7. Proved(u)
            BY <3>6 DEF AccountsInv, GoogleIsProved
        <3>4. Become(c, r)
            BY <1>9, <2>1 DEF SignInCallback
        <3> HIDE DEF r
        <3>5. Knows(c, r)
            BY <1>2, <3>1, <3>3, <3>7 DEF Knows, ForAnAccount, Linking, Stages
        <3> QED
            BY <1>1, <1>2, <1>9, <3>3, <3>4, <3>5, CallReads DEF SignInCallback, OnlyGoogleCall
    <2>2. CASE ~ActiveMember(u)
        BY <1>2, <1>3, <1>9, <2>2 DEF SignInCallback, OnlyGoogleCall
    <2> QED
        BY <2>1, <2>2
<1>10. ASSUME NEW s \in Subject, NEW u \in User, FirstSignInCallback(c, s, u)
      PROVE  AccountsInv'
    <2>1. CASE account[u].password # None
        <3>1. pending' = pending \cup {[user |-> u, subject |-> s]} /\ End(c) /\ Email[s] = u
            BY <1>10, <2>1 DEF FirstSignInCallback
        <3>2. [user |-> u, subject |-> s] \in Vouched
            BY <3>1 DEF Vouched
        <3> QED
            BY <1>2, <1>3, <3>1, <3>2
    <2>2. CASE account[u].password = None /\ MayLink(u, s, "googleSignIn")
        BY <1>1, <1>2, <1>10, <2>2, AboutToLink DEF FirstSignInCallback, Operations
    <2>3. CASE account[u].password = None /\ ~MayLink(u, s, "googleSignIn")
        BY <1>2, <1>3, <1>10, <2>3 DEF FirstSignInCallback
    <2> QED
        BY <2>1, <2>2, <2>3
<1> QED
    BY <1>4, <1>5, <1>6, <1>7, <1>8, <1>9, <1>10 DEF Callback

\* What else a call of GoogleAuthService reads.
LEMMA PendingLinkStep ==
    ASSUME AccountsInv, NEW c \in Call, NEW p \in pending, LinkFromPendingToken(c, p)
    PROVE  AccountsInv'
<1>1. p.user \in User /\ p.subject \in Subject
    BY DEF AccountsInv, ShapeInv, Vouched
<1>2. call[c].pc = "idle" /\ link[c] = NoLink /\ \A v \in User : ~WillMail(c, v)
    BY DEF AccountsInv, CallsKnow, Knows, LinkFromPendingToken, Begin, WillMail
<1> QED
    BY <1>1, <1>2, AboutToLink DEF LinkFromPendingToken, OnlyGoogleCall, Operations

LEMMA ReadAccessStep ==
    ASSUME AccountsInv, NEW c \in Call, ReadAccess(c) \/ LinkFails(c)
    PROVE  AccountsInv'
<1>1. /\ call[c] \in CallRecord /\ Knows(c, call[c]) /\ \A v \in User : ~WillMail(c, v)
      /\ OnlyCall /\ accepted' = accepted /\ pending' = pending
      /\ pending \subseteq Vouched
    BY DEF AccountsInv, ShapeInv, GoogleTypeOK, CallsKnow, WillMail, ReadAccess, LinkFails, At,
       OnlyGoogleCall
<1>4. call[c].pc = "readAccess" => Proved(call[c].user)
    BY <1>1 DEF Knows
<1>2. CASE End(c)
    BY <1>1, <1>2, CallEnds
<1>3. CASE ReadAccess(c) /\ Go(c, "openSession")
    <2> DEFINE r == [call[c] EXCEPT !.pc = "openSession"]
    <2>1. r.pc = "openSession" /\ r.user = call[c].user
        BY <1>1 DEF CallRecord
    <2>2. call[c].pc = "readAccess"
        BY <1>3 DEF ReadAccess, At
    <2> HIDE DEF r
    <2>3. Knows(c, r)
        BY <1>1, <1>4, <2>1, <2>2 DEF Knows, ForAnAccount, Linking, Stages
    <2> QED
        BY <1>1, <1>3, <2>3, CallGoes DEF Stages, r
<1> QED
    BY <1>2, <1>3 DEF ReadAccess, LinkFails

----------------------------------------------------------------------------
(* The steps that write. *)

LEMMA NotingTyped ==
    ASSUME ShapeInv, NEW STATE u, u \in User,
           NEW what \in {"mishap", "googleProof", "invitePassword", "unlinked"}, Note(u, what)
    PROVE  /\ noted' \in [User -> SUBSET {"mishap", "staleStatus", "invitePassword", "googleProof", "unlinked"}]
           /\ noted'[u] = noted[u] \cup {what}
           /\ \A v \in User \ {u} : noted'[v] = noted[v]
BY DEF Note, ShapeInv, GoogleTypeOK, TypeOK

LEMMA MishapStep ==
    ASSUME AccountsInv, NEW c \in Call, UNCHANGED <<pending, accepted>>, Fail(c)
    PROVE  AccountsInv'
<1>1. /\ call[c] \in CallRecord /\ Knows(c, call[c]) /\ ShapeInv
      /\ pending' \subseteq Vouched
    BY DEF AccountsInv, ShapeInv, GoogleTypeOK, CallsKnow
<1>2. /\ End(c) /\ Note(call[c].user, "mishap")
      /\ UNCHANGED <<account, link, session, accepted>> /\ call[c].user \in User
    BY <1>1 DEF Fail, PlanRefusesMail, MailFails, TransactionFails, At, Knows, ForAnAccount, Stages
<1> DEFINE r == [NoCall EXCEPT !.op = call[c].op, !.pc = "done"]
<1>3. r \in CallRecord /\ r.pc = "done"
    BY <1>1, NoCallIsARecord DEF CallRecord, Stages
<1>4. Become(c, r)
    BY <1>2 DEF End
<1> HIDE DEF r
<1>5. call' \in [Call -> CallRecord] /\ OthersStand(c) /\ call'[c].pc = "done"
    BY <1>1, <1>3, <1>4, Becomes
<1>6. Knows(c, call[c])'
    BY <1>5 DEF Knows, ForAnAccount, Linking
<1>7. /\ noted' \in [User -> SUBSET {"mishap", "staleStatus", "invitePassword", "googleProof", "unlinked"}]
      /\ noted'[call[c].user] = noted[call[c].user] \cup {"mishap"}
      /\ \A v \in User \ {call[c].user} : noted'[v] = noted[v]
    BY <1>1, <1>2, NotingTyped
<1>8. \A u \in User : noted'[u] \in {noted[u], noted[u] \cup {"mishap"}}
    BY <1>7
<1>9. \A u \in User : WillMail(c, u) => ~Unharmed(u)'
    BY <1>7 DEF WillMail, Unharmed
<1> QED
    BY <1>1, <1>2, <1>5, <1>6, <1>7, <1>8, <1>9, CallMovesOn

\* What remains to be shown of a step that writes.
LEMMA CallWrites ==
    ASSUME AccountsInv, NEW c \in Call, GoogleTypeOK', call' \in [Call -> CallRecord],
           OthersStand(c), Lasting(c), Knows(c, call[c])',
           pending' = pending,
           LinksHaveOwners', IssuedForAPurpose', NobodyHasNothing', RevokedIsAMishap',
           \A u \in User : account'[u].verified => account[u].verified \/ Proved(u)',
           \A u \in User : account'[u].google # None => account[u].google # None \/ Proved(u)',
           SessionsMatchPassword', MembershipFollowsUser', AcceptedIsUsed',
           \A u \in User : Unharmed(u)' =>
               \/ WayIn(u)'
               \/ /\ Unharmed(u) /\ ~WillMail(c, u)
                  /\ EmailVerified(u) => EmailVerified(u)'
                  /\ \A i \in LiveLinks(u, {"verify"}) : link'[i] = link[i]
    PROVE  AccountsInv'
<1>1. CallsKnow'
    BY CallsStillKnow
<1>2. VerifiedByProof'
    <2> SUFFICES ASSUME NEW u \in User, account'[u].verified PROVE Proved(u)'
        BY DEF VerifiedByProof
    <2>1. account[u].verified => Proved(u)
        BY DEF AccountsInv, VerifiedByProof
    <2> QED
        BY <2>1, ProvedLasts
<1>4. GoogleIsProved'
    <2> SUFFICES ASSUME NEW u \in User, account'[u].google # None PROVE Proved(u)'
        BY DEF GoogleIsProved
    <2>1. account[u].google # None => Proved(u)
        BY DEF AccountsInv, GoogleIsProved
    <2> QED
        BY <2>1, ProvedLasts
<1>3. EveryoneHasAWayIn'
    <2> SUFFICES ASSUME NEW u \in User, Unharmed(u)', ~WayIn(u)'
                 PROVE  FALSE
        BY DEF EveryoneHasAWayIn
    <2>1. /\ Unharmed(u) /\ ~WillMail(c, u)
          /\ EmailVerified(u) => EmailVerified(u)'
          /\ \A i \in LiveLinks(u, {"verify"}) : link'[i] = link[i]
        OBVIOUS
    <2>2. WayIn(u)
        BY <2>1 DEF AccountsInv, EveryoneHasAWayIn
    <2>3. ASSUME NEW i \in LiveLinks(u, {"verify"}), ~link[i].expired
          PROVE  FALSE
        BY <2>1, <2>3 DEF WayIn, LiveLinks
    <2>4. ASSUME NEW d \in Call, WillMail(d, u)
          PROVE  FALSE
        BY <2>1, <2>4 DEF WayIn, WillMail, OthersStand
    <2> QED
        BY <2>1, <2>2, <2>3, <2>4 DEF WayIn
<1> QED
    BY <1>1, <1>2, <1>3, <1>4 DEF AccountsInv, ShapeInv

\* A call that ends, and a call that goes on, by its record.
LEMMA EndsTyped ==
    ASSUME AccountsInv, NEW c \in Call, End(c)
    PROVE  /\ call' \in [Call -> CallRecord] /\ OthersStand(c) /\ Knows(c, call[c])'
           /\ \A d \in Call : call'[d].user \in User \cup {None} /\ call'[d].live \subseteq LinkId
<1> DEFINE r == [NoCall EXCEPT !.op = call[c].op, !.pc = "done"]
<1>1. r \in CallRecord /\ r.pc = "done" /\ ShapeInv
    BY NoCallIsARecord DEF AccountsInv, ShapeInv, CallRecord, Stages
<1>2. Become(c, r)
    BY DEF End
<1> HIDE DEF r
<1>3. call' \in [Call -> CallRecord] /\ OthersStand(c) /\ call'[c].pc = "done"
    BY <1>1, <1>2, Becomes
<1>4. Knows(c, call[c])'
    BY <1>3 DEF Knows, ForAnAccount, Linking
<1> QED
    BY <1>3, <1>4 DEF CallRecord

LEMMA GoesTyped ==
    ASSUME AccountsInv, NEW c \in Call, NEW pc \in Stages, Go(c, pc)
    PROVE  /\ call' \in [Call -> CallRecord] /\ OthersStand(c)
           /\ call'[c].pc = pc /\ call'[c].user = call[c].user /\ call'[c].op = call[c].op
           /\ \A d \in Call : call'[d].user \in User \cup {None} /\ call'[d].live \subseteq LinkId
<1> DEFINE r == [call[c] EXCEPT !.pc = pc]
<1>1. call[c] \in CallRecord /\ ShapeInv
    BY DEF AccountsInv, ShapeInv
<1>2. r \in CallRecord /\ r.pc = pc /\ r.user = call[c].user /\ r.op = call[c].op
    BY <1>1 DEF CallRecord
<1>3. Become(c, r)
    BY DEF Go
<1> HIDE DEF r
<1>4. call' \in [Call -> CallRecord] /\ OthersStand(c) /\ call'[c] = r
    BY <1>1, <1>2, <1>3, Becomes
<1> QED
    BY <1>2, <1>4 DEF CallRecord

LEMMA ConsumedLinks ==
    ASSUME ShapeInv, NEW STATE ids, ids \subseteq LinkId,
           NEW how \in {"superseded", "revoked", "used"}, NEW STATE after, after = Consumed(ids, how)
    PROVE  /\ after \in [LinkId -> Link]
           /\ \A i \in LinkId : /\ after[i].user = link[i].user
                                /\ after[i].purpose = link[i].purpose
                                /\ after[i].end = IF i \in ids THEN how ELSE link[i].end
                                /\ i \notin ids => after[i] = link[i]
<1>1. \A i \in LinkId : link[i] \in Link
    BY DEF ShapeInv, GoogleTypeOK, TypeOK
<1>2. ASSUME NEW i \in LinkId
      PROVE  LET l == [link[i] EXCEPT !.end = how]
             IN  l \in Link /\ l.user = link[i].user /\ l.purpose = link[i].purpose /\ l.end = how
    BY <1>1 DEF Link
<1> QED
    BY <1>1, <1>2 DEF Consumed

LEMMA CreateUserStep ==
    ASSUME AccountsInv, NEW c \in Call, NEW u \in User, UNCHANGED <<pending, accepted>>,
           CreateUser(c, u)
    PROVE  AccountsInv'
<1> DEFINE r == [NoCall EXCEPT !.op = "createUser", !.pc = "readInvite", !.user = u]
<1>1. /\ ShapeInv /\ GoogleTypeOK /\ TypeOK /\ account[u] \in Account
      /\ call[c].pc = "idle" /\ link[c] = NoLink /\ account[u].status = "none"
    BY DEF AccountsInv, ShapeInv, GoogleTypeOK, TypeOK, CallsKnow, Knows, CreateUser, Begin
<1>2. r \in CallRecord /\ r.pc = "readInvite" /\ r.user = u
    BY NoCallIsARecord DEF CallRecord, Stages, Operations
<1>3. Become(c, r) /\ UNCHANGED <<link, session, noted, pending, accepted>>
    BY DEF CreateUser
<1> HIDE DEF r
<1>4. call' \in [Call -> CallRecord] /\ OthersStand(c) /\ call'[c] = r
    BY <1>1, <1>2, <1>3, Becomes
<1>5. /\ account' \in [User -> Account]
      /\ account'[u].status = "invited" /\ account'[u].membership = "invited"
      /\ account'[u].password = account[u].password /\ account'[u].verified = account[u].verified
      /\ \A v \in User \ {u} : account'[v] = account[v]
    BY <1>1 DEF CreateUser, TypeOK, Account, Stage
<1>6. GoogleTypeOK'
    BY <1>1, <1>3, <1>4, <1>5 DEF GoogleTypeOK, TypeOK, CallRecord
<1>13. account'[u].google = account[u].google
    BY <1>1 DEF CreateUser, TypeOK, Account
<1>7. Lasting(c)
    BY <1>3, <1>5, <1>13 DEF Lasting
<1>8. Knows(c, call[c])'
    BY <1>1, <1>2, <1>3, <1>4, <1>5 DEF Knows, ForAnAccount, Linking, Stages
<1>9. /\ LinksHaveOwners' /\ IssuedForAPurpose' /\ RevokedIsAMishap' /\ AcceptedIsUsed'
    BY <1>3, <1>5 DEF AccountsInv, LinksHaveOwners, IssuedForAPurpose, RevokedIsAMishap, Eligible,
       AcceptedIsUsed, AcceptedOnce
<1>10. \A s \in session : s.user \in User /\ s.user # u
    BY <1>1 DEF AccountsInv, NobodyHasNothing, TypeOK
<1>11. NobodyHasNothing' /\ SessionsMatchPassword' /\ MembershipFollowsUser'
    BY <1>3, <1>5, <1>10 DEF AccountsInv, NobodyHasNothing, SessionsMatchPassword,
       MembershipFollowsUser, MembershipFor
<1>12. ASSUME NEW v \in User, Unharmed(v)'
       PROVE  Unharmed(v) /\ ~WillMail(c, v) /\ (EmailVerified(v) => EmailVerified(v)')
    BY <1>1, <1>3, <1>5, <1>12 DEF Unharmed, WillMail, EmailVerified
<1> QED
    BY <1>3, <1>4, <1>5, <1>6, <1>7, <1>8, <1>9, <1>11, <1>12, <1>13, CallWrites DEF LiveLinks

LEMMA BootstrapStep ==
    ASSUME AccountsInv, NEW c \in Call, NEW u \in User, UNCHANGED <<pending, accepted>>,
           BootstrapOwner(c, u)
    PROVE  AccountsInv'
<1> DEFINE r == [NoCall EXCEPT !.op = "bootstrapOwner", !.pc = "readVerification", !.user = u]
           s == [user |-> u, call |-> c, password |-> c, late |-> FALSE]
<1>1. /\ ShapeInv /\ GoogleTypeOK /\ TypeOK /\ account[u] \in Account
      /\ call[c].pc = "idle" /\ link[c] = NoLink /\ account[u].status = "none"
    BY DEF AccountsInv, ShapeInv, GoogleTypeOK, TypeOK, CallsKnow, Knows, BootstrapOwner, Begin
<1>2. r \in CallRecord /\ r.pc = "readVerification" /\ r.user = u /\ r.op = "bootstrapOwner"
    BY NoCallIsARecord DEF CallRecord, Stages, Operations
<1>3. Become(c, r) /\ UNCHANGED <<link, noted, pending, accepted>>
      /\ session' = session \cup {s}
    BY DEF BootstrapOwner
<1>4. s \in [user : User, call : Call, password : Password \cup {"google"}, late : BOOLEAN]
      /\ s.user = u /\ s.password = c
    BY DEF Password
<1> HIDE DEF r, s
<1>5. call' \in [Call -> CallRecord] /\ OthersStand(c) /\ call'[c] = r
    BY <1>1, <1>2, <1>3, Becomes
<1>6. /\ account' \in [User -> Account]
      /\ account'[u].status = "active" /\ account'[u].membership = "active"
      /\ account'[u].password = c /\ account'[u].verified = account[u].verified
      /\ \A v \in User \ {u} : account'[v] = account[v]
    BY <1>1 DEF BootstrapOwner, TypeOK, Account, Stage, Password
<1>7. c # None
    BY NamesAreDistinct
<1>8. GoogleTypeOK'
    BY <1>1, <1>3, <1>4, <1>5, <1>6 DEF GoogleTypeOK, TypeOK, CallRecord
<1>17. account'[u].google = account[u].google
    BY <1>1 DEF BootstrapOwner, TypeOK, Account
<1>9. Lasting(c)
    BY <1>3, <1>6, <1>7, <1>17 DEF Lasting
<1>10. Knows(c, call[c])'
    BY <1>1, <1>2, <1>3, <1>5, <1>6 DEF Knows, ForAnAccount, Linking, Stages
<1>11. /\ LinksHaveOwners' /\ IssuedForAPurpose' /\ RevokedIsAMishap' /\ AcceptedIsUsed'
    BY <1>3, <1>6 DEF AccountsInv, LinksHaveOwners, IssuedForAPurpose, RevokedIsAMishap, Eligible,
       AcceptedIsUsed, AcceptedOnce
<1>12. \A t \in session : t.user \in User /\ t.user # u
    BY <1>1 DEF AccountsInv, NobodyHasNothing, TypeOK
<1>13. NobodyHasNothing' /\ SessionsMatchPassword' /\ MembershipFollowsUser'
    BY <1>3, <1>4, <1>6, <1>12 DEF AccountsInv, NobodyHasNothing, SessionsMatchPassword,
       MembershipFollowsUser, MembershipFor
<1>14. WillMail(c, u)'
    BY <1>2, <1>5 DEF WillMail
<1>15. ASSUME NEW v \in User \ {u}, Unharmed(v)'
       PROVE  Unharmed(v) /\ ~WillMail(c, v) /\ (EmailVerified(v) => EmailVerified(v)')
    BY <1>1, <1>3, <1>6, <1>15 DEF Unharmed, WillMail, EmailVerified
<1>16. WayIn(u)'
    BY <1>14 DEF WayIn
<1> QED
    BY <1>3, <1>5, <1>6, <1>8, <1>9, <1>10, <1>11, <1>13, <1>15, <1>16, <1>17, CallWrites DEF LiveLinks

LEMMA StartSessionStep ==
    ASSUME AccountsInv, NEW c \in Call, UNCHANGED <<pending, accepted>>, StartSession(c)
    PROVE  AccountsInv'
<1> DEFINE u == call[c].user
           s == [user |-> u, call |-> c, password |-> call[c].password,
                 late |-> call[c].password # account[u].password]
<1>1. /\ ShapeInv /\ GoogleTypeOK /\ TypeOK /\ call[c] \in CallRecord /\ call[c].pc = "startSession"
      /\ u \in User /\ account[u].status # "none"
    BY DEF AccountsInv, ShapeInv, GoogleTypeOK, CallsKnow, Knows, ForAnAccount, Stages,
       StartSession, At
<1>2. UNCHANGED <<account, link, noted, pending, accepted>> /\ session' = session \cup {s} /\ End(c)
    BY DEF StartSession
<1>3. s \in [user : User, call : Call, password : Password \cup {"google"}, late : BOOLEAN]
      /\ s.user = u /\ (s.late \/ s.password = account[u].password)
    BY <1>1 DEF CallRecord
<1> HIDE DEF s
<1>4. /\ call' \in [Call -> CallRecord] /\ OthersStand(c) /\ Knows(c, call[c])'
      /\ \A d \in Call : call'[d].user \in User \cup {None} /\ call'[d].live \subseteq LinkId
    BY <1>2, EndsTyped
<1>5. GoogleTypeOK'
    BY <1>1, <1>2, <1>3, <1>4 DEF GoogleTypeOK, TypeOK
<1>6. Lasting(c)
    BY <1>2 DEF Lasting
<1>7. /\ LinksHaveOwners' /\ IssuedForAPurpose' /\ RevokedIsAMishap' /\ AcceptedIsUsed'
      /\ MembershipFollowsUser'
    BY <1>2 DEF AccountsInv, LinksHaveOwners, IssuedForAPurpose, RevokedIsAMishap, Eligible,
       AcceptedIsUsed, AcceptedOnce, MembershipFollowsUser
<1>8. NobodyHasNothing' /\ SessionsMatchPassword'
    BY <1>1, <1>2, <1>3 DEF AccountsInv, NobodyHasNothing, SessionsMatchPassword
<1>9. \A v \in User : Unharmed(v)' => Unharmed(v) /\ ~WillMail(c, v)
                                      /\ (EmailVerified(v) => EmailVerified(v)')
    BY <1>1, <1>2 DEF Unharmed, WillMail, EmailVerified
<1> QED
    BY <1>2, <1>4, <1>5, <1>6, <1>7, <1>8, <1>9, CallWrites DEF LiveLinks

LEMMA WriteUserStep ==
    ASSUME AccountsInv, NEW c \in Call, UNCHANGED <<pending, accepted>>,
           NEW given \in ManagedUserStatus \cup {"keep"}, NEW assigned \in BOOLEAN,
           WriteUser(c, given, assigned)
    PROVE  AccountsInv'
<1> DEFINE u == call[c].user
           next == IF given = "keep" THEN call[c].status ELSE given
           keeps == given = "keep" /\ ~assigned
<1>1. /\ ShapeInv /\ GoogleTypeOK /\ TypeOK /\ call[c] \in CallRecord /\ call[c].pc = "write"
      /\ u \in User /\ account[u].status # "none" /\ call[c].status # "none"
      /\ account[u] \in Account
    BY DEF AccountsInv, ShapeInv, GoogleTypeOK, TypeOK, CallsKnow, Knows, ForAnAccount, Stages,
       WriteUser, At
<1>2. UNCHANGED <<link, session, pending, accepted>> /\ End(c)
    BY DEF WriteUser
<1>3. next \in Stage \ {"none"} /\ MembershipFor(next) \in {"invited", "active", "revoked"}
    BY <1>1 DEF CallRecord, ManagedUserStatus, Stage, MembershipFor
<1>4. /\ account' \in [User -> Account]
      /\ account'[u].status = next
      /\ account'[u].membership = IF keeps THEN account[u].membership ELSE MembershipFor(next)
      /\ account'[u].password = account[u].password /\ account'[u].verified = account[u].verified
      /\ \A v \in User \ {u} : account'[v] = account[v]
    <2> HIDE DEF next
    <2> QED
        BY <1>1, <1>3 DEF WriteUser, TypeOK, Account, next
<1>5. /\ noted' \in [User -> SUBSET {"mishap", "staleStatus", "invitePassword", "googleProof", "unlinked"}]
      /\ "mishap" \in noted'[u] /\ noted[u] \ {"staleStatus"} \subseteq noted'[u]
      /\ keeps /\ "staleStatus" \notin noted'[u] =>
             call[c].status = account[u].status /\ "staleStatus" \notin noted[u]
      /\ \A v \in User \ {u} : noted'[v] = noted[v]
    <2> DEFINE more == CASE given # "keep" \/ assigned        -> noted[u] \ {"staleStatus"}
                         [] call[c].status # account[u].status -> noted[u] \cup {"staleStatus"}
                         [] OTHER                              -> noted[u]
    <2>1. noted' = [noted EXCEPT ![u] = {"mishap"} \cup more]
        BY DEF WriteUser
    <2>2. noted[u] \subseteq {"mishap", "staleStatus", "invitePassword", "googleProof", "unlinked"}
        BY <1>1 DEF TypeOK
    <2>3. /\ more \subseteq {"mishap", "staleStatus", "invitePassword", "googleProof", "unlinked"}
          /\ noted[u] \ {"staleStatus"} \subseteq more
          /\ keeps /\ "staleStatus" \notin more =>
                 call[c].status = account[u].status /\ "staleStatus" \notin noted[u]
        BY <2>2
    <2> HIDE DEF more
    <2> QED
        BY <1>1, <2>1, <2>3 DEF TypeOK
<1> HIDE DEF next
<1>6. /\ call' \in [Call -> CallRecord] /\ OthersStand(c) /\ Knows(c, call[c])'
      /\ \A d \in Call : call'[d].user \in User \cup {None} /\ call'[d].live \subseteq LinkId
    BY <1>2, EndsTyped
<1>7. GoogleTypeOK'
    BY <1>1, <1>2, <1>4, <1>5, <1>6 DEF GoogleTypeOK, TypeOK
<1>15. account'[u].google = account[u].google
    BY <1>1 DEF WriteUser, TypeOK, Account
<1>8. Lasting(c)
    BY <1>2, <1>3, <1>4, <1>5, <1>15 DEF Lasting
<1>9. LinksHaveOwners' /\ IssuedForAPurpose' /\ AcceptedIsUsed'
    BY <1>2 DEF AccountsInv, LinksHaveOwners, IssuedForAPurpose, AcceptedIsUsed, AcceptedOnce
<1>10. RevokedIsAMishap'
    BY <1>4, <1>5 DEF AccountsInv, RevokedIsAMishap, Eligible
<1>11. \A s \in session : s.user \in User
    BY <1>1 DEF TypeOK
<1>12. NobodyHasNothing' /\ SessionsMatchPassword'
    BY <1>2, <1>3, <1>4, <1>5, <1>11 DEF AccountsInv, NobodyHasNothing, SessionsMatchPassword
<1>13. MembershipFollowsUser'
    <2> SUFFICES ASSUME NEW v \in User, account'[v].status # "none", "staleStatus" \notin noted'[v]
                 PROVE  account'[v].membership = MembershipFor(account'[v].status)
        BY DEF MembershipFollowsUser, MembershipFor
    <2>1. CASE v # u
        BY <1>4, <1>5, <2>1 DEF AccountsInv, MembershipFollowsUser
    <2>2. CASE v = u /\ ~keeps
        BY <1>4, <2>2
    <2>3. CASE v = u /\ keeps
        <3>1. account[u].membership = MembershipFor(account[u].status)
            BY <1>1, <1>5, <2>3 DEF AccountsInv, MembershipFollowsUser
        <3>2. next = account[u].status
            BY <1>5, <2>3 DEF next
        <3> QED
            BY <1>4, <2>3, <3>1, <3>2
    <2> QED
        BY <2>1, <2>2, <2>3
<1>14. ASSUME NEW v \in User, Unharmed(v)'
       PROVE  Unharmed(v) /\ ~WillMail(c, v) /\ (EmailVerified(v) => EmailVerified(v)')
    <2>1. v # u
        BY <1>5, <1>14 DEF Unharmed
    <2> QED
        BY <1>1, <1>4, <1>5, <1>14, <2>1 DEF Unharmed, WillMail, EmailVerified
<1> QED
    BY <1>2, <1>4, <1>6, <1>7, <1>8, <1>9, <1>10, <1>12, <1>13, <1>14, <1>15, CallWrites DEF LiveLinks

LEMMA RevokeStep ==
    ASSUME AccountsInv, NEW c \in Call, UNCHANGED <<pending, accepted>>, Revoke(c)
    PROVE  AccountsInv'
<1> DEFINE ids == LiveLinks(call[c].user, {"invite", "reset"})
<1>1. /\ ShapeInv /\ GoogleTypeOK /\ TypeOK /\ call[c].pc = "revoke"
    BY DEF AccountsInv, ShapeInv, GoogleTypeOK, Revoke, At
<1>2. UNCHANGED <<account, session, noted, pending, accepted>> /\ End(c)
      /\ link' = Consumed(ids, "revoked")
    BY DEF Revoke
<1>3. \A i \in LinkId : i \in ids => link[i].purpose \in {"invite", "reset"} /\ link[i].end = "live"
    BY DEF LiveLinks
<1>4. ids \subseteq LinkId
    BY DEF LiveLinks
<1> HIDE DEF ids
<1>5. /\ link' \in [LinkId -> Link]
      /\ \A i \in LinkId : /\ link'[i].user = link[i].user
                           /\ link'[i].purpose = link[i].purpose
                           /\ link'[i].end = IF i \in ids THEN "revoked" ELSE link[i].end
                           /\ i \notin ids => link'[i] = link[i]
    BY <1>1, <1>2, <1>4, ConsumedLinks
<1>6. /\ call' \in [Call -> CallRecord] /\ OthersStand(c) /\ Knows(c, call[c])'
      /\ \A d \in Call : call'[d].user \in User \cup {None} /\ call'[d].live \subseteq LinkId
    BY <1>2, EndsTyped
<1>7. GoogleTypeOK'
    BY <1>1, <1>2, <1>5, <1>6 DEF GoogleTypeOK, TypeOK
<1>8. Lasting(c)
    <2>1. \A d \in Call : link[d] = NoLink => d \notin ids
        BY <1>3 DEF NoLink, LinkId
    <2> QED
        BY <1>2, <1>3, <1>5, <2>1 DEF Lasting, LinkId
<1>9. LinksHaveOwners' /\ IssuedForAPurpose' /\ AcceptedIsUsed'
    <2>1. accepted \subseteq Call \X LinkId
        BY <1>1 DEF GoogleTypeOK
    <2> QED
        BY <1>2, <1>3, <1>5, <2>1 DEF AccountsInv, LinksHaveOwners, IssuedForAPurpose, AcceptedIsUsed,
           AcceptedOnce
<1>10. NobodyHasNothing' /\ RevokedIsAMishap' /\ SessionsMatchPassword' /\ MembershipFollowsUser'
    BY <1>2 DEF AccountsInv, NobodyHasNothing, RevokedIsAMishap, Eligible, SessionsMatchPassword,
       MembershipFollowsUser
<1>11. ASSUME NEW v \in User, Unharmed(v)'
       PROVE  /\ Unharmed(v) /\ ~WillMail(c, v) /\ (EmailVerified(v) => EmailVerified(v)')
              /\ \A i \in LiveLinks(v, {"verify"}) : link'[i] = link[i]
    BY <1>1, <1>2, <1>3, <1>5, <1>11 DEF Unharmed, WillMail, EmailVerified, LiveLinks
<1> QED
    BY <1>2, <1>6, <1>7, <1>8, <1>9, <1>10, <1>11, CallWrites

LEMMA IssueStep ==
    ASSUME AccountsInv, NEW c \in Call, UNCHANGED <<pending, accepted>>, Issue(c)
    PROVE  AccountsInv'
<1>0. PICK u \in User : call[c].user = u
    BY DEF AccountsInv, CallsKnow, Knows, ForAnAccount, Stages, Issue, At
<1> DEFINE ids == {i \in call[c].live : link[i].end = "live"}
           old == Consumed(ids, "superseded")
<1>1. /\ ShapeInv /\ GoogleTypeOK /\ TypeOK /\ call[c] \in CallRecord /\ call[c].pc = "issue"
      /\ account[u].status # "none" /\ link[c] = NoLink
      /\ \A i \in call[c].live : link[i].user = u /\ link[i].purpose \in SameTable(Issues(call[c].op))
    BY <1>0 DEF AccountsInv, ShapeInv, GoogleTypeOK, CallsKnow, Knows, ForAnAccount, Stages, Issue, At
<1>2. UNCHANGED <<account, session, noted, pending, accepted>> /\ Go(c, "dispatch")
      /\ link' = [old EXCEPT ![c] = NewLink(c)]
    BY DEF Issue
<1>3. ids \subseteq LinkId /\ c \in LinkId
    BY <1>1 DEF CallRecord, LinkId
<1>4. \A i \in ids : link[i].end = "live" /\ link[i].user = u
                     /\ link[i].purpose \in SameTable(Issues(call[c].op))
    BY <1>1
<1> HIDE DEF ids
<1>5. /\ old \in [LinkId -> Link]
      /\ \A i \in LinkId : /\ old[i].user = link[i].user
                           /\ old[i].purpose = link[i].purpose
                           /\ old[i].end = IF i \in ids THEN "superseded" ELSE link[i].end
                           /\ i \notin ids => old[i] = link[i]
    BY <1>1, <1>3, ConsumedLinks
<1>6. /\ NewLink(c) \in Link /\ NewLink(c).user = u /\ NewLink(c).purpose = Issues(call[c].op)
      /\ NewLink(c).end = "live" /\ NewLink(c).expired = FALSE
      /\ Issues(call[c].op) \in {"invite", "reset", "verify"}
    BY <1>0, <1>1 DEF NewLink, Link, Issues
<1> HIDE DEF old
<1>7. link' \in [LinkId -> Link] /\ link'[c] = NewLink(c)
      /\ \A i \in LinkId \ {c} : link'[i] = old[i]
    BY <1>2, <1>3, <1>5, <1>6
<1>8. /\ call' \in [Call -> CallRecord] /\ OthersStand(c)
      /\ call'[c].pc = "dispatch" /\ call'[c].user = u
      /\ \A d \in Call : call'[d].user \in User \cup {None} /\ call'[d].live \subseteq LinkId
    BY <1>0, <1>2, GoesTyped DEF Stages
<1>9. GoogleTypeOK'
    BY <1>1, <1>2, <1>7, <1>8 DEF GoogleTypeOK, TypeOK
<1>10. Lasting(c)
    <2>1. NoLink.purpose = "none" /\ NoLink.end = "unissued"
        BY DEF NoLink
    <2>2. \A d \in Call : link[d] = NoLink => d \notin ids
        BY <1>4, <2>1
    <2> QED
        BY <1>0, <1>1, <1>2, <1>4, <1>5, <1>7, <2>1, <2>2 DEF Lasting, LinkId
<1>11. Knows(c, call[c])'
    BY <1>0, <1>1, <1>2, <1>8 DEF Knows, ForAnAccount, Linking, Stages
<1>12. LinksHaveOwners' /\ IssuedForAPurpose'
    BY <1>1, <1>4, <1>5, <1>6, <1>7 DEF AccountsInv, LinksHaveOwners, IssuedForAPurpose
<1>13. AcceptedIsUsed'
    <2>1. accepted \subseteq Call \X LinkId
        BY <1>1 DEF GoogleTypeOK
    <2>2. \A i \in LinkId : link[i].end = "used" => i # c /\ i \notin ids
        BY <1>1, <1>4 DEF NoLink
    <2> QED
        BY <1>2, <1>5, <1>7, <2>1, <2>2 DEF AccountsInv, AcceptedIsUsed, AcceptedOnce
<1>14. NobodyHasNothing' /\ RevokedIsAMishap' /\ SessionsMatchPassword' /\ MembershipFollowsUser'
    BY <1>2 DEF AccountsInv, NobodyHasNothing, RevokedIsAMishap, Eligible, SessionsMatchPassword,
       MembershipFollowsUser
<1>15. CASE Issues(call[c].op) = "verify"
    <2>1. WayIn(u)'
        BY <1>3, <1>6, <1>7, <1>15 DEF WayIn, LiveLinks
    <2>2. ASSUME NEW v \in User \ {u}, Unharmed(v)'
          PROVE  /\ Unharmed(v) /\ ~WillMail(c, v) /\ (EmailVerified(v) => EmailVerified(v)')
                 /\ \A i \in LiveLinks(v, {"verify"}) : link'[i] = link[i]
        BY <1>0, <1>1, <1>2, <1>4, <1>5, <1>7, <2>2 DEF Unharmed, WillMail, EmailVerified, LiveLinks, NoLink
    <2> QED
        BY <1>2, <1>8, <1>9, <1>10, <1>11, <1>12, <1>13, <1>14, <2>1, <2>2, CallWrites
<1>16. CASE Issues(call[c].op) # "verify"
    <2>1. "verify" \notin SameTable(Issues(call[c].op))
        BY <1>16, SameTableIsATable
    <2>2. call[c].op \notin {"completeInvite", "bootstrapOwner"}
        BY <1>16 DEF Issues
    <2>3. ASSUME NEW v \in User, Unharmed(v)'
          PROVE  /\ Unharmed(v) /\ ~WillMail(c, v) /\ (EmailVerified(v) => EmailVerified(v)')
                 /\ \A i \in LiveLinks(v, {"verify"}) : link'[i] = link[i]
        BY <1>0, <1>1, <1>2, <1>4, <1>5, <1>7, <2>1, <2>2, <2>3 DEF Unharmed, WillMail, EmailVerified,
           LiveLinks, NoLink
    <2> QED
        BY <1>2, <1>8, <1>9, <1>10, <1>11, <1>12, <1>13, <1>14, <2>3, CallWrites
<1> QED
    BY <1>15, <1>16

\* What a call that has opened a link does to it and to the other links.
LEMMA UsedLinks ==
    ASSUME AccountsInv, NEW c \in Call, NEW STATE ids, ids \subseteq LinkId,
           \A i \in ids : link[i].purpose # "none", link' = Consumed(ids, "used"),
           UNCHANGED accepted
    PROVE  /\ link' \in [LinkId -> Link]
           /\ \A i \in LinkId : /\ link'[i].user = link[i].user
                                /\ link'[i].purpose = link[i].purpose
                                /\ link[i].end = "used" => link'[i].end = "used"
                                /\ i \in ids => link'[i].end = "used"
                                /\ i \notin ids => link'[i] = link[i]
           /\ \A d \in Call : link[d] = NoLink => link'[d] = NoLink
           /\ LinksHaveOwners' /\ IssuedForAPurpose' /\ AcceptedIsUsed'
<1>1. ShapeInv /\ accepted \subseteq Call \X LinkId
    BY DEF AccountsInv, ShapeInv, GoogleTypeOK
<1>2. /\ link' \in [LinkId -> Link]
      /\ \A i \in LinkId : /\ link'[i].user = link[i].user
                           /\ link'[i].purpose = link[i].purpose
                           /\ link'[i].end = IF i \in ids THEN "used" ELSE link[i].end
                           /\ i \notin ids => link'[i] = link[i]
    BY <1>1, ConsumedLinks
<1>3. \A d \in Call : link[d] = NoLink => d \notin ids
    BY DEF NoLink
<1>4. \A d \in Call : link[d] = NoLink => link'[d] = NoLink
    BY <1>2, <1>3 DEF LinkId
<1>5. LinksHaveOwners' /\ IssuedForAPurpose'
    BY <1>2 DEF AccountsInv, LinksHaveOwners, IssuedForAPurpose
<1>6. AcceptedIsUsed'
    BY <1>1, <1>2 DEF AccountsInv, AcceptedIsUsed, AcceptedOnce
<1> QED
    BY <1>2, <1>4, <1>5, <1>6

LEMMA CompleteStep ==
    ASSUME AccountsInv, NEW c \in Call, UNCHANGED <<pending, accepted>>, Complete(c)
    PROVE  AccountsInv'
<1>1. PICK u \in User : call[c].user = u
    BY DEF AccountsInv, CallsKnow, Knows, ForAnAccount, Stages, Complete, At
<1>2. /\ ShapeInv /\ GoogleTypeOK /\ TypeOK /\ account[u] \in Account
      /\ call[c].pc = "complete" /\ call[c].op = "completeInvite"
      /\ Carries(call[c], {"invite", "reset"}) /\ account[u].status # "none" /\ link[c] = NoLink
      /\ call[c] \in CallRecord /\ (call[c].verified => Proved(u))
    BY <1>1 DEF AccountsInv, ShapeInv, GoogleTypeOK, TypeOK, CallsKnow, Knows, ForAnAccount, Stages,
       Complete, At
<1>3. /\ UNCHANGED <<session, pending, accepted>> /\ Go(c, "readVerification")
      /\ link' = Consumed({call[c].link}, "used") /\ Note(u, "invitePassword")
      /\ account' = [account EXCEPT ![u] = Activated(@, c, call[c].verified)]
    BY <1>1 DEF Complete
<1>4. /\ link' \in [LinkId -> Link]
      /\ \A i \in LinkId : /\ link'[i].user = link[i].user
                           /\ link'[i].purpose = link[i].purpose
                           /\ link[i].end = "used" => link'[i].end = "used"
                           /\ i # call[c].link => link'[i] = link[i]
      /\ \A d \in Call : link[d] = NoLink => link'[d] = NoLink
      /\ LinksHaveOwners' /\ IssuedForAPurpose' /\ AcceptedIsUsed'
    <2> DEFINE ids == {call[c].link}
    <2>1. /\ ids \subseteq LinkId /\ \A i \in ids : link[i].purpose # "none"
          /\ \A i : i \in ids <=> i = call[c].link
        BY <1>2 DEF Carries
    <2>2. link' = Consumed(ids, "used") /\ UNCHANGED accepted
        BY <1>3
    <2> HIDE DEF ids
    <2> QED
        BY <2>1, <2>2, UsedLinks
<1>5. /\ noted' \in [User -> SUBSET {"mishap", "staleStatus", "invitePassword", "googleProof", "unlinked"}]
      /\ noted'[u] = noted[u] \cup {"invitePassword"}
      /\ \A v \in User \ {u} : noted'[v] = noted[v]
    BY <1>2, <1>3, NotingTyped
<1>6. /\ account' \in [User -> Account]
      /\ account'[u].status = "active" /\ account'[u].membership = "active"
      /\ account'[u].password = c /\ account'[u].verified = call[c].verified
      /\ account'[u].google = account[u].google
      /\ \A v \in User \ {u} : account'[v] = account[v]
    <2>1. call[c].verified \in BOOLEAN /\ c \in Password
        BY <1>2 DEF CallRecord, Password
    <2> QED
        BY <1>2, <1>3, <2>1 DEF Activated, TypeOK, Account, Stage
<1>7. c # None
    BY NamesAreDistinct
<1>8. /\ call' \in [Call -> CallRecord] /\ OthersStand(c)
      /\ call'[c].pc = "readVerification" /\ call'[c].user = u /\ call'[c].op = "completeInvite"
      /\ \A d \in Call : call'[d].user \in User \cup {None} /\ call'[d].live \subseteq LinkId
    BY <1>1, <1>2, <1>3, GoesTyped DEF Stages
<1>9. GoogleTypeOK'
    BY <1>2, <1>3, <1>4, <1>5, <1>6, <1>8 DEF GoogleTypeOK, TypeOK
<1>10. Lasting(c)
    BY <1>2, <1>4, <1>5, <1>6, <1>7 DEF Lasting
<1>11. Knows(c, call[c])'
    BY <1>2, <1>4, <1>6, <1>8 DEF Knows, ForAnAccount, Linking, Stages
<1>12. \A s \in session : s.user \in User
    BY <1>2 DEF TypeOK
<1>13. NobodyHasNothing' /\ RevokedIsAMishap' /\ SessionsMatchPassword' /\ MembershipFollowsUser'
    <2>1. NobodyHasNothing' /\ SessionsMatchPassword'
        BY <1>3, <1>5, <1>6, <1>12 DEF AccountsInv, NobodyHasNothing, SessionsMatchPassword
    <2>2. RevokedIsAMishap' /\ MembershipFollowsUser'
        BY <1>5, <1>6 DEF AccountsInv, RevokedIsAMishap, Eligible, MembershipFollowsUser,
           MembershipFor
    <2> QED
        BY <2>1, <2>2
<1>16. \A v \in User : account'[v].verified => account[v].verified \/ Proved(v)'
    <2>1. Proved(u) => Proved(u)'
        BY <1>10, ProvedLasts
    <2> QED
        BY <1>2, <1>6, <2>1
<1>14. WayIn(u)'
    BY <1>8 DEF WayIn, WillMail
<1>15. ASSUME NEW v \in User \ {u}, Unharmed(v)'
       PROVE  /\ Unharmed(v) /\ ~WillMail(c, v) /\ (EmailVerified(v) => EmailVerified(v)')
              /\ \A i \in LiveLinks(v, {"verify"}) : link'[i] = link[i]
    BY <1>2, <1>4, <1>5, <1>6, <1>15 DEF Unharmed, WillMail, EmailVerified, LiveLinks, Carries
<1>17. \A v \in User : account'[v].google # None => account[v].google # None
    BY <1>6
<1> QED
    BY <1>3, <1>8, <1>9, <1>10, <1>11, <1>4, <1>13, <1>14, <1>15, <1>16, <1>17, CallWrites

\* A reset that loses no verification leaves its user the way in that there was:
\* the sessions go, a link or a mail on its way does not.
LEMMA ResetStep ==
    ASSUME AccountsInv, NEW c \in Call, UNCHANGED <<pending, accepted>>, Reset(c)
    PROVE  AccountsInv'
<1>1. PICK u \in User : call[c].user = u
    BY DEF AccountsInv, CallsKnow, Knows, ForAnAccount, Stages, Reset, At
<1>2. /\ ShapeInv /\ GoogleTypeOK /\ TypeOK /\ account[u] \in Account /\ call[c] \in CallRecord
      /\ call[c].pc = "reset" /\ Carries(call[c], {"invite", "reset"})
      /\ account[u].status # "none" /\ account[u].password # None
      /\ call[c].verified => Proved(u)
    BY <1>1 DEF AccountsInv, ShapeInv, GoogleTypeOK, TypeOK, CallsKnow, Knows, ForAnAccount, Stages,
       Reset, At
<1> DEFINE lost == IF LosesVerification(c) THEN {"mishap"} ELSE {}
<1>3. /\ UNCHANGED <<pending, accepted>> /\ End(c)
      /\ link' = Consumed({call[c].link}, "used")
      /\ account' = [account EXCEPT ![u].password = c, ![u].verified = call[c].verified]
      /\ session' = session \ SessionsOf(u)
      /\ noted' = [noted EXCEPT ![u] = (@ \ {"invitePassword"}) \cup lost]
    BY <1>1 DEF Reset, SessionsAfterReset
<1>4. /\ link' \in [LinkId -> Link]
      /\ \A i \in LinkId : /\ link'[i].user = link[i].user
                           /\ link'[i].purpose = link[i].purpose
                           /\ link[i].end = "used" => link'[i].end = "used"
                           /\ i # call[c].link => link'[i] = link[i]
      /\ \A d \in Call : link[d] = NoLink => link'[d] = NoLink
      /\ LinksHaveOwners' /\ IssuedForAPurpose' /\ AcceptedIsUsed'
    <2> DEFINE ids == {call[c].link}
    <2>1. /\ ids \subseteq LinkId /\ \A i \in ids : link[i].purpose # "none"
          /\ \A i : i \in ids <=> i = call[c].link
        BY <1>2 DEF Carries
    <2>2. link' = Consumed(ids, "used") /\ UNCHANGED accepted
        BY <1>3
    <2> HIDE DEF ids
    <2> QED
        BY <2>1, <2>2, UsedLinks
<1>5. /\ noted' \in [User -> SUBSET {"mishap", "staleStatus", "invitePassword", "googleProof", "unlinked"}]
      /\ noted[u] \ {"invitePassword"} \subseteq noted'[u]
      /\ "staleStatus" \in noted'[u] => "staleStatus" \in noted[u]
      /\ account[u].verified /\ ~call[c].verified => "mishap" \in noted'[u]
      /\ \A v \in User \ {u} : noted'[v] = noted[v]
    <2>1. noted[u] \subseteq {"mishap", "staleStatus", "invitePassword", "googleProof", "unlinked"}
        BY <1>2 DEF TypeOK
    <2>2. lost \subseteq {"mishap"} /\ (account[u].verified /\ ~call[c].verified => "mishap" \in lost)
        BY <1>1 DEF LosesVerification
    <2> HIDE DEF lost
    <2> QED
        BY <1>2, <1>3, <2>1, <2>2 DEF TypeOK
<1>6. /\ account' \in [User -> Account]
      /\ account'[u].status = account[u].status /\ account'[u].membership = account[u].membership
      /\ account'[u].password = c /\ account'[u].verified = call[c].verified
      /\ account'[u].google = account[u].google
      /\ \A v \in User \ {u} : account'[v] = account[v]
    <2>1. call[c].verified \in BOOLEAN /\ c \in Password
        BY <1>2 DEF CallRecord, Password
    <2> QED
        BY <1>2, <1>3, <2>1 DEF TypeOK, Account
<1>7. c # None
    BY NamesAreDistinct
<1>8. /\ call' \in [Call -> CallRecord] /\ OthersStand(c) /\ Knows(c, call[c])'
      /\ \A d \in Call : call'[d].user \in User \cup {None} /\ call'[d].live \subseteq LinkId
    BY <1>3, EndsTyped
<1>9. GoogleTypeOK'
    BY <1>2, <1>3, <1>4, <1>5, <1>6, <1>8 DEF GoogleTypeOK, TypeOK
<1>10. Lasting(c)
    BY <1>2, <1>4, <1>5, <1>6, <1>7 DEF Lasting
<1>11. \A s \in session : s.user \in User
    BY <1>2 DEF TypeOK
<1>12. NobodyHasNothing' /\ RevokedIsAMishap' /\ SessionsMatchPassword' /\ MembershipFollowsUser'
    <2>1. \A s \in session' : s \in session /\ s.user \in User \ {u}
        BY <1>3, <1>11 DEF SessionsOf
    <2>2. NobodyHasNothing' /\ SessionsMatchPassword'
        BY <1>2, <1>5, <1>6, <2>1 DEF AccountsInv, NobodyHasNothing, SessionsMatchPassword
    <2>3. RevokedIsAMishap' /\ MembershipFollowsUser'
        BY <1>5, <1>6 DEF AccountsInv, RevokedIsAMishap, Eligible, MembershipFollowsUser
    <2> QED
        BY <2>2, <2>3
<1>13. \A v \in User : account'[v].verified => account[v].verified \/ Proved(v)'
    <2>1. Proved(u) => Proved(u)'
        BY <1>10, ProvedLasts
    <2> QED
        BY <1>2, <1>6, <2>1
<1>14. ASSUME NEW v \in User, Unharmed(v)'
       PROVE  /\ Unharmed(v) /\ ~WillMail(c, v) /\ (EmailVerified(v) => EmailVerified(v)')
              /\ \A i \in LiveLinks(v, {"verify"}) : link'[i] = link[i]
    <2>1. ~WillMail(c, v) /\ \A i \in LiveLinks(v, {"verify"}) : link'[i] = link[i]
        BY <1>2, <1>4 DEF WillMail, LiveLinks, Carries
    <2>2. Unharmed(v)
        BY <1>2, <1>5, <1>6, <1>14 DEF Unharmed
    <2>3. EmailVerified(v) => EmailVerified(v)'
        BY <1>5, <1>6, <1>14 DEF Unharmed, EmailVerified
    <2> QED
        BY <2>1, <2>2, <2>3
<1>15. \A v \in User : account'[v].google # None => account[v].google # None
    BY <1>6
<1> QED
    BY <1>3, <1>4, <1>8, <1>9, <1>10, <1>12, <1>13, <1>14, <1>15, CallWrites

LEMMA VerifyStep ==
    ASSUME AccountsInv, NEW c \in Call, UNCHANGED <<pending, accepted>>, Verify(c)
    PROVE  AccountsInv'
<1>1. PICK u \in User : call[c].user = u
    BY DEF AccountsInv, CallsKnow, Knows, ForAnAccount, Stages, Verify, At
<1>2. /\ ShapeInv /\ GoogleTypeOK /\ TypeOK /\ account[u] \in Account
      /\ call[c].pc = "verify" /\ Carries(call[c], {"verify"}) /\ account[u].status # "none"
    BY <1>1 DEF AccountsInv, ShapeInv, GoogleTypeOK, TypeOK, CallsKnow, Knows, ForAnAccount, Stages,
       Verify, At
<1> DEFINE ids == {call[c].link} \cup LiveLinks(u, {"verify"})
<1>3. /\ UNCHANGED <<session, noted, pending, accepted>> /\ End(c)
      /\ link' = Consumed(ids, "used")
      /\ account' = [account EXCEPT ![u].verified = TRUE]
    BY <1>1 DEF Verify
<1>4. ids \subseteq LinkId /\ \A i \in ids : link[i].user = u /\ link[i].purpose = "verify"
    BY <1>1, <1>2 DEF Carries, LiveLinks
<1>5. call[c].link \in ids /\ call[c].link \in LinkId
    BY <1>2 DEF Carries
<1> HIDE DEF ids
<1>6. /\ link' \in [LinkId -> Link]
      /\ \A i \in LinkId : /\ link'[i].user = link[i].user
                           /\ link'[i].purpose = link[i].purpose
                           /\ link[i].end = "used" => link'[i].end = "used"
                           /\ i \in ids => link'[i].end = "used"
                           /\ i \notin ids => link'[i] = link[i]
      /\ \A d \in Call : link[d] = NoLink => link'[d] = NoLink
      /\ LinksHaveOwners' /\ IssuedForAPurpose' /\ AcceptedIsUsed'
    <2>1. \A i \in ids : link[i].purpose # "none"
        BY <1>4
    <2> QED
        BY <1>3, <1>4, <2>1, UsedLinks
<1>7. /\ account' \in [User -> Account]
      /\ account'[u].status = account[u].status /\ account'[u].membership = account[u].membership
      /\ account'[u].password = account[u].password /\ account'[u].verified
      /\ account'[u].google = account[u].google
      /\ \A v \in User \ {u} : account'[v] = account[v]
    BY <1>2, <1>3 DEF TypeOK, Account
<1>8. /\ call' \in [Call -> CallRecord] /\ OthersStand(c) /\ Knows(c, call[c])'
      /\ \A d \in Call : call'[d].user \in User \cup {None} /\ call'[d].live \subseteq LinkId
    BY <1>3, EndsTyped
<1>9. GoogleTypeOK'
    BY <1>2, <1>3, <1>6, <1>7, <1>8 DEF GoogleTypeOK, TypeOK
<1>10. Lasting(c)
    BY <1>2, <1>3, <1>6, <1>7 DEF Lasting
<1>11. \A s \in session : s.user \in User
    BY <1>2 DEF TypeOK
<1>12. NobodyHasNothing' /\ RevokedIsAMishap' /\ SessionsMatchPassword' /\ MembershipFollowsUser'
    <2>1. NobodyHasNothing' /\ SessionsMatchPassword'
        BY <1>2, <1>3, <1>7, <1>11 DEF AccountsInv, NobodyHasNothing, SessionsMatchPassword
    <2>2. RevokedIsAMishap' /\ MembershipFollowsUser'
        BY <1>3, <1>7 DEF AccountsInv, RevokedIsAMishap, Eligible, MembershipFollowsUser
    <2> QED
        BY <2>1, <2>2
<1>13. Proved(u)'
    BY <1>4, <1>5, <1>6 DEF Proved
<1>14. WayIn(u)'
    BY <1>7 DEF WayIn, EmailVerified
<1>15. ASSUME NEW v \in User \ {u}, Unharmed(v)'
       PROVE  /\ Unharmed(v) /\ ~WillMail(c, v) /\ (EmailVerified(v) => EmailVerified(v)')
              /\ \A i \in LiveLinks(v, {"verify"}) : link'[i] = link[i]
    BY <1>2, <1>3, <1>4, <1>6, <1>7, <1>15 DEF Unharmed, WillMail, EmailVerified, LiveLinks
<1> QED
    BY <1>3, <1>6, <1>7, <1>8, <1>9, <1>10, <1>12, <1>13, <1>14, <1>15, CallWrites

\* The commit of linkGoogleIdentityToUser, after whichever statement it comes.
\* The invite is consumed by the transaction that finds it unconsumed, so that
\* one call accepts it.
LEMMA CommitStep ==
    ASSUME AccountsInv, NEW c \in Call, call[c].pc \in Linking, NEW u \in User, call[c].user = u,
           NEW STATE status, NEW STATE membership, NEW STATE verifies, NEW STATE extra,
           Commit(c, status, membership, verifies), verifies \in BOOLEAN,
           noted' = [noted EXCEPT ![u] = @ \cup extra],
           extra \subseteq {"googleProof", "staleStatus"},
           Email[call[c].subject] = u => "googleProof" \in extra,
           status \in Stage \ {"none"}, membership \in {"none", "invited", "active", "revoked"},
           \/ "staleStatus" \in extra
           \/ account[u].membership # MembershipFor(account[u].status)
           \/ membership = MembershipFor(status),
           status \in {"active", "invited"} =>
               /\ account[u].status \in {"active", "invited"}
               /\ Eligible(u) => membership \in {"active", "invited"}
    PROVE  AccountsInv'
<1>2. /\ ShapeInv /\ GoogleTypeOK /\ TypeOK /\ account[u] \in Account /\ call[c] \in CallRecord
      /\ call[c].subject \in Subject /\ link[c] = NoLink
      /\ account[u].status # "none" /\ accepted \subseteq Call \X LinkId
      /\ call[c].op = "googleInvite" => Carries(call[c], {"invite", "reset"})
      /\ call[c].op = "googleInvite" \/ Email[call[c].subject] = u
      /\ call[c].row # None => account[u].google # None \/ "unlinked" \in noted[u]
    BY DEF AccountsInv, ShapeInv, GoogleTypeOK, TypeOK, CallsKnow, Knows, ForAnAccount, Linking, Stages
<1> DEFINE google == StoredGoogle(c)
<1>3. /\ UNCHANGED <<session, pending>> /\ InviteUnconsumed(c)
      /\ account' = [account EXCEPT ![u].google = google,
                                    ![u].verified = @ \/ verifies,
                                    ![u].status = status,
                                    ![u].membership = membership]
      /\ Go(c, IF Activates(call[c].op) THEN "readAccess" ELSE "done")
    BY DEF Commit
<1>4. /\ google \in GoogleIdentity \cup {None}
      /\ google = None => call[c].row # None /\ account[u].google = None
    <2>1. [subject |-> call[c].subject, row |-> c] \in GoogleIdentity
        BY <1>2 DEF GoogleIdentity, LinkId
    <2>2. [subject |-> call[c].subject, row |-> c] # None
        BY <2>1, NamesAreDistinct DEF GoogleIdentity, LinkId
    <2>3. account[u].google \in GoogleIdentity \cup {None}
        BY <1>2 DEF Account
    <2> QED
        BY <2>1, <2>2, <2>3 DEF StoredGoogle
<1>6. /\ account' \in [User -> Account]
      /\ account'[u].status = status /\ account'[u].membership = membership
      /\ account'[u].password = account[u].password
      /\ account'[u].verified = (account[u].verified \/ verifies)
      /\ account'[u].google = google
      /\ \A v \in User \ {u} : account'[v] = account[v]
    <2> HIDE DEF google
    <2> QED
        BY <1>2, <1>3, <1>4 DEF TypeOK, Account
<1> HIDE DEF google
<1>7. /\ noted' \in [User -> SUBSET {"mishap", "staleStatus", "invitePassword", "googleProof", "unlinked"}]
      /\ noted'[u] = noted[u] \cup extra
      /\ \A v \in User \ {u} : noted'[v] = noted[v]
    BY <1>2 DEF TypeOK
<1>8. /\ call' \in [Call -> CallRecord] /\ OthersStand(c)
      /\ call'[c].pc \in {"readAccess", "done"} /\ call'[c].user = u
      /\ \A d \in Call : call'[d].user \in User \cup {None} /\ call'[d].live \subseteq LinkId
    <2>1. CASE Activates(call[c].op)
        BY <1>3, <2>1, GoesTyped DEF Stages
    <2>2. CASE ~Activates(call[c].op)
        BY <1>3, <2>2, GoesTyped DEF Stages
    <2> QED
        BY <2>1, <2>2
<1>9. /\ link' \in [LinkId -> Link] /\ accepted' \subseteq Call \X LinkId
      /\ \A i \in LinkId : /\ link'[i].user = link[i].user
                           /\ link'[i].purpose = link[i].purpose
                           /\ link[i].end = "used" => link'[i].end = "used"
                           /\ link[i].purpose = "verify" => link'[i] = link[i]
      /\ \A d \in Call : link[d] = NoLink => link'[d] = NoLink
      /\ LinksHaveOwners' /\ IssuedForAPurpose' /\ AcceptedIsUsed'
    <2>1. CASE call[c].op = "googleInvite"
        <3> DEFINE i == call[c].link
                   ids == {i}
        <3>1. /\ ids \subseteq LinkId /\ i \in LinkId /\ i \in ids
              /\ \A j \in ids : j = i /\ link[j].purpose \in {"invite", "reset"} /\ link[j].end = "live"
            BY <1>2, <1>3, <2>1 DEF Carries, InviteUnconsumed
        <3>2. link' = Consumed(ids, "used") /\ accepted' = accepted \cup {<<c, i>>}
            BY <2>1 DEF Commit
        <3> HIDE DEF ids, i
        <3>3. /\ link' \in [LinkId -> Link]
              /\ \A j \in LinkId : /\ link'[j].user = link[j].user
                                   /\ link'[j].purpose = link[j].purpose
                                   /\ link'[j].end = IF j \in ids THEN "used" ELSE link[j].end
                                   /\ j \notin ids => link'[j] = link[j]
            BY <1>2, <3>1, <3>2, ConsumedLinks
        <3>4. \A d \in Call : link[d] = NoLink => link'[d] = NoLink
            BY <3>1, <3>3 DEF NoLink, LinkId
        <3>5. LinksHaveOwners' /\ IssuedForAPurpose'
            BY <3>1, <3>3 DEF AccountsInv, LinksHaveOwners, IssuedForAPurpose
        <3>6. AcceptedIsUsed'
            <4>1. \A a \in accepted : a[2] \in LinkId /\ link[a[2]].end = "used" /\ a[2] # i
                BY <1>2, <3>1 DEF AccountsInv, AcceptedIsUsed
            <4>2. <<c, i>>[2] = i
                OBVIOUS
            <4>3. \A a \in accepted' : link'[a[2]].end = "used"
                BY <3>1, <3>2, <3>3, <4>1, <4>2
            <4>4. AcceptedOnce'
                BY <3>2, <4>1, <4>2 DEF AccountsInv, AcceptedIsUsed, AcceptedOnce
            <4> QED
                BY <4>3, <4>4 DEF AcceptedIsUsed
        <3> QED
            BY <1>2, <3>1, <3>2, <3>3, <3>4, <3>5, <3>6
    <2>2. CASE call[c].op # "googleInvite"
        <3>1. UNCHANGED <<link, accepted>>
            BY <2>2 DEF Commit
        <3> QED
            BY <1>2, <3>1 DEF TypeOK, AccountsInv, LinksHaveOwners, IssuedForAPurpose,
               AcceptedIsUsed, AcceptedOnce
    <2> QED
        BY <2>1, <2>2
<1>10. GoogleTypeOK'
    BY <1>2, <1>3, <1>6, <1>7, <1>8, <1>9 DEF GoogleTypeOK, TypeOK
<1>18. accepted \subseteq accepted'
    BY DEF Commit
<1>11. Lasting(c)
    <2>1. account[u].google # None \/ "unlinked" \in noted[u] =>
              account'[u].google # None \/ "unlinked" \in noted'[u]
        BY <1>2, <1>4, <1>6, <1>7
    <2> QED
        BY <1>2, <1>6, <1>7, <1>9, <1>18, <2>1 DEF Lasting
<1>15. Proved(u)'
    <2>1. CASE call[c].op = "googleInvite"
        <3>1. call[c].link \in LinkId /\ link[call[c].link].user = u /\ <<c, call[c].link>> \in accepted'
            BY <1>2, <2>1 DEF Carries, Commit
        <3>2. <<c, call[c].link>>[2] = call[c].link
            OBVIOUS
        <3> QED
            BY <1>9, <3>1, <3>2 DEF Proved
    <2>2. CASE Email[call[c].subject] = u
        BY <1>7, <2>2 DEF Proved
    <2> QED
        BY <1>2, <2>1, <2>2
<1>12. Knows(c, call[c])'
    BY <1>2, <1>6, <1>8, <1>9, <1>15 DEF Knows, ForAnAccount, Linking, Stages
<1>13. \A s \in session : s.user \in User
    BY <1>2 DEF TypeOK
<1>14. NobodyHasNothing' /\ RevokedIsAMishap' /\ SessionsMatchPassword' /\ MembershipFollowsUser'
    <2>1. NobodyHasNothing'
        BY <1>3, <1>6, <1>13 DEF AccountsInv, NobodyHasNothing
    <2>2. SessionsMatchPassword'
        BY <1>3, <1>6, <1>7, <1>13 DEF AccountsInv, SessionsMatchPassword
    <2>3. RevokedIsAMishap'
        BY <1>6, <1>7 DEF AccountsInv, RevokedIsAMishap, Eligible
    <2>4. MembershipFollowsUser'
        BY <1>2, <1>6, <1>7 DEF AccountsInv, MembershipFollowsUser, MembershipFor
    <2> QED
        BY <2>1, <2>2, <2>3, <2>4
<1>16. Unharmed(u)' => WayIn(u)'
    <2> SUFFICES ASSUME Unharmed(u)' PROVE EmailVerified(u)'
        BY DEF WayIn
    <2>1. "unlinked" \notin noted[u]
        BY <1>7 DEF Unharmed
    <2>2. google # None
        BY <1>2, <1>4, <2>1
    <2> QED
        BY <1>6, <2>2 DEF EmailVerified
<1>17. ASSUME NEW v \in User \ {u}, Unharmed(v)'
       PROVE  /\ Unharmed(v) /\ ~WillMail(c, v) /\ (EmailVerified(v) => EmailVerified(v)')
              /\ \A i \in LiveLinks(v, {"verify"}) : link'[i] = link[i]
    BY <1>2, <1>6, <1>7, <1>9, <1>17 DEF Unharmed, WillMail, EmailVerified, LiveLinks
<1>19. /\ \A v \in User : account'[v].verified => account[v].verified \/ Proved(v)'
       /\ \A v \in User : account'[v].google # None => account[v].google # None \/ Proved(v)'
    BY <1>6, <1>15
<1> QED
    BY <1>3, <1>8, <1>9, <1>10, <1>11, <1>12, <1>14, <1>16, <1>17, <1>19, CallWrites

LEMMA LinkGoogleStep ==
    ASSUME AccountsInv, NEW c \in Call,
           LinkGoogleIdentity(c) \/ RaiseUser(c) \/ RaiseMemberships(c)
    PROVE  AccountsInv'
<1>1. PICK u \in User : call[c].user = u
    BY DEF AccountsInv, CallsKnow, Knows, ForAnAccount, Stages, LinkGoogleIdentity, RaiseUser,
       RaiseMemberships, At
<1>2. /\ ShapeInv /\ account[u] \in Account /\ call[c] \in CallRecord /\ Knows(c, call[c])
      /\ call[c].pc \in Linking /\ account[u].status # "none" /\ \A v \in User : ~WillMail(c, v)
      /\ pending \subseteq Vouched
    BY <1>1 DEF AccountsInv, ShapeInv, GoogleTypeOK, TypeOK, CallsKnow, Knows, ForAnAccount, Linking,
       Stages, LinkGoogleIdentity, RaiseUser, RaiseMemberships, At, WillMail
<1> DEFINE proof == ProofOf(u, call[c].subject)
<1>3. /\ proof \subseteq {"googleProof"}
      /\ Email[call[c].subject] = u => "googleProof" \in proof
    BY DEF ProofOf
<1>4. /\ account[u].status \in Stage \ {"none"}
      /\ account[u].membership \in {"none", "invited", "active", "revoked"}
    BY <1>2 DEF Account
<1>5. ASSUME NEW r, r \in CallRecord, Become(c, r), OnlyGoogleCall,
             r.pc \in Linking, r.op = call[c].op, r.user = call[c].user, r.subject = call[c].subject,
             r.link = call[c].link, r.row = call[c].row,
             r.pc = "raiseMemberships" => r.status # "invited"
      PROVE  AccountsInv'
    <2>1. Carries(call[c], {"invite", "reset"}) => Carries(r, {"invite", "reset"})
        BY <1>5 DEF Carries
    <2>2. Knows(c, r)
        BY <1>1, <1>2, <1>5, <2>1 DEF Knows, ForAnAccount, Linking, Stages
    <2> QED
        BY <1>2, <1>5, <2>2, CallReads DEF OnlyGoogleCall
<1>6. CASE LinkGoogleIdentity(c) /\ Activates(call[c].op)
    <2> DEFINE r == [call[c] EXCEPT !.pc = "raiseUser", !.verified = account[u].password # None]
    <2>1. /\ r \in CallRecord /\ r.pc \in Linking \ {"raiseMemberships"} /\ r.op = call[c].op /\ r.user = call[c].user
          /\ r.subject = call[c].subject /\ r.link = call[c].link /\ r.row = call[c].row
        BY <1>2 DEF CallRecord, Stages, Linking
    <2>2. Become(c, r) /\ OnlyGoogleCall
        BY <1>1, <1>6 DEF LinkGoogleIdentity
    <2> HIDE DEF r
    <2> QED
        BY <1>5, <2>1, <2>2
<1>7. CASE RaiseUser(c) /\ ~Raises(account[u].status)
    <2> DEFINE r == [call[c] EXCEPT !.pc = "raiseMemberships", !.status = account[u].status]
    <2>1. /\ r \in CallRecord /\ r.pc \in Linking /\ r.status # "invited" /\ r.op = call[c].op /\ r.user = call[c].user
          /\ r.subject = call[c].subject /\ r.link = call[c].link /\ r.row = call[c].row
        BY <1>2, <1>4, <1>7 DEF CallRecord, Stages, Linking, Raises
    <2>2. Become(c, r) /\ OnlyGoogleCall
        BY <1>1, <1>7 DEF RaiseUser
    <2> HIDE DEF r
    <2> QED
        BY <1>5, <2>1, <2>2
<1>8. CASE LinkGoogleIdentity(c) /\ ~Activates(call[c].op)
    <2>1. /\ Commit(c, account[u].status, account[u].membership, account[u].password # None)
          /\ noted' = [noted EXCEPT ![u] = @ \cup proof]
        BY <1>1, <1>8 DEF LinkGoogleIdentity
    <2> HIDE DEF proof
    <2> QED
        BY <1>1, <1>2, <1>3, <1>4, <2>1, CommitStep DEF Eligible
<1>9. CASE RaiseUser(c) /\ Raises(account[u].status)
    <2> DEFINE membership == Raised(account[u].membership)
    <2>1. /\ Commit(c, "active", membership, call[c].verified)
          /\ noted' = [noted EXCEPT ![u] = @ \cup proof]
        BY <1>1, <1>9 DEF RaiseUser
    <2>2. /\ membership \in {"none", "invited", "active", "revoked"}
          /\ account[u].membership # MembershipFor(account[u].status) \/ membership = MembershipFor("active")
          /\ Eligible(u) => membership \in {"active", "invited"}
          /\ account[u].status = "invited"
        BY <1>4, <1>9 DEF Raises, Raised, MembershipFor, Eligible
    <2>3. call[c].verified \in BOOLEAN /\ "active" \in Stage \ {"none"}
        BY <1>2 DEF CallRecord, Stage
    <2>4. proof \subseteq {"googleProof", "staleStatus"}
        BY <1>3
    <2>5. \/ "staleStatus" \in proof
          \/ account[u].membership # MembershipFor(account[u].status)
          \/ membership = MembershipFor("active")
        BY <2>2
    <2>6. "active" \in {"active", "invited"} =>
              /\ account[u].status \in {"active", "invited"}
              /\ Eligible(u) => membership \in {"active", "invited"}
        BY <2>2
    <2> HIDE DEF proof, membership
    <2> QED
        BY <1>1, <1>2, <1>3, <2>1, <2>2, <2>3, <2>4, <2>5, <2>6, CommitStep
<1>10. CASE RaiseMemberships(c)
    <2> DEFINE membership == Raised(account[u].membership)
               stale == IF call[c].status # account[u].status THEN {"staleStatus"} ELSE {}
               extra == proof \cup stale
    <2>1. /\ Commit(c, account[u].status, membership, call[c].verified)
          /\ noted' = [noted EXCEPT ![u] = @ \cup proof \cup stale]
        BY <1>1, <1>10 DEF RaiseMemberships
    <2>2. /\ membership \in {"none", "invited", "active", "revoked"}
          /\ Eligible(u) => membership \in {"active", "invited"}
        BY <1>4 DEF Raises, Raised, Eligible
    <2>3. call[c].verified \in BOOLEAN /\ call[c].status # "invited"
        BY <1>2, <1>10 DEF CallRecord, Knows, RaiseMemberships, At
    <2>4. \/ "staleStatus" \in stale
          \/ account[u].membership # MembershipFor(account[u].status)
          \/ membership = MembershipFor(account[u].status)
        BY <1>4, <2>3 DEF Stage, Raises, Raised, MembershipFor
    <2>5. extra \subseteq {"googleProof", "staleStatus"}
        <3>1. stale \subseteq {"staleStatus"}
            OBVIOUS
        <3> HIDE DEF proof, stale
        <3> QED
            BY <1>3, <3>1
    <2>6. noted' = [noted EXCEPT ![u] = @ \cup extra]
        <3>1. noted[u] \cup proof \cup stale = noted[u] \cup extra
            OBVIOUS
        <3> HIDE DEF extra, proof, stale
        <3> QED
            BY <2>1, <3>1
    <2>7. /\ "staleStatus" \in stale => "staleStatus" \in extra
          /\ Email[call[c].subject] = u => "googleProof" \in extra
        BY <1>3
    <2>8. \/ "staleStatus" \in extra
          \/ account[u].membership # MembershipFor(account[u].status)
          \/ membership = MembershipFor(account[u].status)
        BY <2>4, <2>7
    <2>9. account[u].status \in {"active", "invited"} =>
              /\ account[u].status \in {"active", "invited"}
              /\ Eligible(u) => membership \in {"active", "invited"}
        BY <2>2
    <2>10. Commit(c, account[u].status, membership, call[c].verified)
        BY <2>1
    <2> HIDE DEF proof, membership, stale, extra
    <2> QED
        BY <1>1, <1>2, <1>4, <2>2, <2>3, <2>5, <2>6, <2>7, <2>8, <2>9, <2>10, CommitStep
<1> QED
    BY <1>1, <1>6, <1>7, <1>8, <1>9, <1>10 DEF LinkGoogleIdentity, RaiseUser

LEMMA OpenSessionStep ==
    ASSUME AccountsInv, NEW c \in Call, OpenSession(c)
    PROVE  AccountsInv'
<1>1. PICK u \in User : call[c].user = u
    BY DEF AccountsInv, CallsKnow, Knows, ForAnAccount, Stages, OpenSession, At
<1> DEFINE s == [user |-> u, call |-> c, password |-> "google", late |-> FALSE]
<1>2. /\ ShapeInv /\ GoogleTypeOK /\ TypeOK /\ account[u] \in Account
      /\ call[c].pc = "openSession" /\ account[u].status # "none" /\ Proved(u)
    BY <1>1 DEF AccountsInv, ShapeInv, GoogleTypeOK, TypeOK, CallsKnow, Knows, ForAnAccount, Stages,
       OpenSession, At
<1>3. /\ UNCHANGED <<link, noted, pending, accepted>> /\ End(c)
      /\ account' = [account EXCEPT ![u].verified = @ \/ account[u].password # None]
      /\ session' = session \cup {s}
    BY <1>1 DEF OpenSession
<1>4. s \in [user : User, call : Call, password : Password \cup {"google"}, late : BOOLEAN]
      /\ s.user = u /\ s.password = "google"
    OBVIOUS
<1> HIDE DEF s
<1>5. /\ account' \in [User -> Account]
      /\ account'[u].status = account[u].status /\ account'[u].membership = account[u].membership
      /\ account'[u].password = account[u].password
      /\ account'[u].verified = (account[u].verified \/ account[u].password # None)
      /\ account'[u].google = account[u].google
      /\ \A v \in User \ {u} : account'[v] = account[v]
    BY <1>2, <1>3 DEF TypeOK, Account
<1>7. /\ call' \in [Call -> CallRecord] /\ OthersStand(c) /\ Knows(c, call[c])'
      /\ \A d \in Call : call'[d].user \in User \cup {None} /\ call'[d].live \subseteq LinkId
    BY <1>3, EndsTyped
<1>8. GoogleTypeOK'
    BY <1>2, <1>3, <1>4, <1>5, <1>7 DEF GoogleTypeOK, TypeOK
<1>9. Lasting(c)
    BY <1>3, <1>5 DEF Lasting
<1>10. LinksHaveOwners' /\ IssuedForAPurpose' /\ AcceptedIsUsed'
    BY <1>3 DEF AccountsInv, LinksHaveOwners, IssuedForAPurpose, AcceptedIsUsed, AcceptedOnce
<1>11. \A t \in session : t.user \in User
    BY <1>2 DEF TypeOK
<1>12. NobodyHasNothing' /\ RevokedIsAMishap' /\ SessionsMatchPassword' /\ MembershipFollowsUser'
    <2>1. NobodyHasNothing' /\ SessionsMatchPassword'
        BY <1>2, <1>3, <1>4, <1>5, <1>11 DEF AccountsInv, NobodyHasNothing, SessionsMatchPassword
    <2>2. RevokedIsAMishap' /\ MembershipFollowsUser'
        BY <1>3, <1>5 DEF AccountsInv, RevokedIsAMishap, Eligible, MembershipFollowsUser
    <2> QED
        BY <2>1, <2>2
<1>13. Proved(u)'
    BY <1>2, <1>9, ProvedLasts
<1>14. Unharmed(u)' => WayIn(u)'
    BY <1>5 DEF Unharmed, WayIn, EmailVerified
<1>15. ASSUME NEW v \in User \ {u}, Unharmed(v)'
       PROVE  /\ Unharmed(v) /\ ~WillMail(c, v) /\ (EmailVerified(v) => EmailVerified(v)')
              /\ \A i \in LiveLinks(v, {"verify"}) : link'[i] = link[i]
    BY <1>2, <1>3, <1>5, <1>15 DEF Unharmed, WillMail, EmailVerified, LiveLinks
<1> QED
    BY <1>3, <1>5, <1>7, <1>8, <1>9, <1>10, <1>12, <1>13, <1>14, <1>15, CallWrites

LEMMA SignUpStep ==
    ASSUME AccountsInv, NEW c \in Call, SignUp(c)
    PROVE  AccountsInv'
<1>1. PICK u \in User : call[c].user = u
    BY DEF AccountsInv, CallsKnow, Knows, ForAnAccount, Stages, SignUp, At
<1> DEFINE s == [user |-> u, call |-> c, password |-> "google", late |-> FALSE]
           google == [subject |-> call[c].subject, row |-> c]
<1>2. /\ ShapeInv /\ GoogleTypeOK /\ TypeOK /\ account[u] \in Account
      /\ call[c].pc = "signUp" /\ account[u].status = "none" /\ account[u].password = None
      /\ call[c].subject \in Subject /\ Email[call[c].subject] = u
    BY <1>1 DEF AccountsInv, ShapeInv, GoogleTypeOK, TypeOK, CallsKnow, Knows, Linking,
       NobodyHasNothing, SignUp, At
<1>3. /\ UNCHANGED <<link, pending, accepted>> /\ End(c)
      /\ noted' = [noted EXCEPT ![u] = @ \cup {"googleProof"}]
      /\ account' = [account EXCEPT ![u].status = "active", ![u].membership = "active",
                                    ![u].google = google]
      /\ session' = session \cup {s}
    BY <1>1, <1>2 DEF SignUp, ProofOf
<1>4. /\ s \in [user : User, call : Call, password : Password \cup {"google"}, late : BOOLEAN]
      /\ s.user = u /\ s.password = "google"
      /\ google \in GoogleIdentity
    BY <1>2 DEF GoogleIdentity, LinkId
<1>16. google # None
    BY <1>4, NamesAreDistinct DEF GoogleIdentity, LinkId
<1> HIDE DEF s, google
<1>5. /\ account' \in [User -> Account]
      /\ account'[u].status = "active" /\ account'[u].membership = "active"
      /\ account'[u].password = account[u].password
      /\ account'[u].verified = account[u].verified /\ account'[u].google = google
      /\ \A v \in User \ {u} : account'[v] = account[v]
    BY <1>2, <1>3, <1>4 DEF TypeOK, Account, Stage
<1>6. /\ noted' \in [User -> SUBSET {"mishap", "staleStatus", "invitePassword", "googleProof", "unlinked"}]
      /\ noted'[u] = noted[u] \cup {"googleProof"}
      /\ \A v \in User \ {u} : noted'[v] = noted[v]
    BY <1>2, <1>3 DEF TypeOK
<1>7. /\ call' \in [Call -> CallRecord] /\ OthersStand(c) /\ Knows(c, call[c])'
      /\ \A d \in Call : call'[d].user \in User \cup {None} /\ call'[d].live \subseteq LinkId
    BY <1>3, EndsTyped
<1>8. GoogleTypeOK'
    BY <1>2, <1>3, <1>4, <1>5, <1>6, <1>7 DEF GoogleTypeOK, TypeOK
<1>9. Lasting(c)
    BY <1>2, <1>3, <1>5, <1>6, <1>16 DEF Lasting
<1>10. LinksHaveOwners' /\ IssuedForAPurpose' /\ AcceptedIsUsed'
    BY <1>3 DEF AccountsInv, LinksHaveOwners, IssuedForAPurpose, AcceptedIsUsed, AcceptedOnce
<1>11. \A t \in session : t.user \in User /\ t.user # u
    BY <1>2 DEF AccountsInv, NobodyHasNothing, TypeOK
<1>12. NobodyHasNothing' /\ RevokedIsAMishap' /\ SessionsMatchPassword' /\ MembershipFollowsUser'
    <2>1. NobodyHasNothing' /\ SessionsMatchPassword'
        BY <1>2, <1>3, <1>4, <1>5, <1>6, <1>11 DEF AccountsInv, NobodyHasNothing, SessionsMatchPassword
    <2>2. RevokedIsAMishap' /\ MembershipFollowsUser'
        BY <1>5, <1>6 DEF AccountsInv, RevokedIsAMishap, Eligible, MembershipFollowsUser, MembershipFor
    <2> QED
        BY <2>1, <2>2
<1>15. Proved(u)'
    BY <1>6 DEF Proved
<1>13. ~Unharmed(u)'
    BY <1>2, <1>5 DEF Unharmed
<1>14. ASSUME NEW v \in User \ {u}, Unharmed(v)'
       PROVE  /\ Unharmed(v) /\ ~WillMail(c, v) /\ (EmailVerified(v) => EmailVerified(v)')
              /\ \A i \in LiveLinks(v, {"verify"}) : link'[i] = link[i]
    BY <1>2, <1>3, <1>5, <1>6, <1>14 DEF Unharmed, WillMail, EmailVerified, LiveLinks
<1> QED
    BY <1>5, <1>7, <1>8, <1>9, <1>10, <1>12, <1>3, <1>13, <1>14, <1>15, CallWrites

LEMMA UnlinkStep ==
    ASSUME AccountsInv, NEW c \in Call, Unlink(c)
    PROVE  AccountsInv'
<1>1. PICK u \in User : call[c].user = u
    BY DEF AccountsInv, CallsKnow, Knows, ForAnAccount, Stages, Unlink, At
<1>2. /\ ShapeInv /\ GoogleTypeOK /\ TypeOK /\ account[u] \in Account /\ call[c].pc = "unlink"
    BY <1>1 DEF AccountsInv, ShapeInv, GoogleTypeOK, TypeOK, Unlink, At
<1>3. /\ UNCHANGED <<link, session, pending, accepted>> /\ End(c) /\ Note(u, "unlinked")
      /\ account' = [account EXCEPT ![u].google = IF RowOf(u) = call[c].row THEN None ELSE @]
    BY <1>1 DEF Unlink
<1>4. /\ account' \in [User -> Account]
      /\ account'[u].status = account[u].status /\ account'[u].membership = account[u].membership
      /\ account'[u].password = account[u].password
      /\ account'[u].verified = account[u].verified
      /\ account'[u].google # None => account[u].google # None
      /\ \A v \in User \ {u} : account'[v] = account[v]
    BY <1>2, <1>3 DEF TypeOK, Account
<1>5. /\ noted' \in [User -> SUBSET {"mishap", "staleStatus", "invitePassword", "googleProof", "unlinked"}]
      /\ noted'[u] = noted[u] \cup {"unlinked"}
      /\ \A v \in User \ {u} : noted'[v] = noted[v]
    BY <1>2, <1>3, NotingTyped
<1>6. /\ call' \in [Call -> CallRecord] /\ OthersStand(c) /\ Knows(c, call[c])'
      /\ \A d \in Call : call'[d].user \in User \cup {None} /\ call'[d].live \subseteq LinkId
    BY <1>3, EndsTyped
<1>7. GoogleTypeOK'
    BY <1>2, <1>3, <1>4, <1>5, <1>6 DEF GoogleTypeOK, TypeOK
<1>8. Lasting(c)
    BY <1>3, <1>4, <1>5 DEF Lasting
<1>9. LinksHaveOwners' /\ IssuedForAPurpose' /\ AcceptedIsUsed'
    BY <1>3 DEF AccountsInv, LinksHaveOwners, IssuedForAPurpose, AcceptedIsUsed, AcceptedOnce
<1>10. \A t \in session : t.user \in User
    BY <1>2 DEF TypeOK
<1>11. NobodyHasNothing' /\ RevokedIsAMishap' /\ SessionsMatchPassword' /\ MembershipFollowsUser'
    <2>1. NobodyHasNothing' /\ SessionsMatchPassword'
        BY <1>3, <1>4, <1>5, <1>10 DEF AccountsInv, NobodyHasNothing, SessionsMatchPassword
    <2>2. RevokedIsAMishap' /\ MembershipFollowsUser'
        BY <1>4, <1>5 DEF AccountsInv, RevokedIsAMishap, Eligible, MembershipFollowsUser
    <2> QED
        BY <2>1, <2>2
<1>12. ~Unharmed(u)'
    BY <1>5 DEF Unharmed
<1>13. ASSUME NEW v \in User \ {u}, Unharmed(v)'
       PROVE  /\ Unharmed(v) /\ ~WillMail(c, v) /\ (EmailVerified(v) => EmailVerified(v)')
              /\ \A i \in LiveLinks(v, {"verify"}) : link'[i] = link[i]
    BY <1>2, <1>3, <1>4, <1>5, <1>13 DEF Unharmed, WillMail, EmailVerified, LiveLinks
<1> QED
    BY <1>3, <1>4, <1>6, <1>7, <1>8, <1>9, <1>11, <1>12, <1>13, CallWrites

\* A link runs out, or a signed link token does.
LEMMA ExpiryStep ==
    ASSUME AccountsInv,
           \/ \E i \in LinkId : Expire(i) /\ UNCHANGED <<pending, accepted>>
           \/ \E p \in pending : PendingExpires(p)
    PROVE  AccountsInv'
<1>1. ASSUME NEW i \in LinkId, Expire(i), UNCHANGED <<pending, accepted>>
      PROVE  AccountsInv'
    <2>1. PICK u \in User : link[i].user = u
        BY <1>1 DEF AccountsInv, LinksHaveOwners, IssuedForAPurpose, Expire
    <2>2. /\ ShapeInv /\ GoogleTypeOK /\ TypeOK /\ accepted \subseteq Call \X LinkId
          /\ \A j \in LinkId : link[j] \in Link
        BY DEF AccountsInv, ShapeInv, GoogleTypeOK, TypeOK
    <2>3. /\ UNCHANGED <<account, session, call, pending, accepted>> /\ Note(u, "mishap")
          /\ link' = [link EXCEPT ![i].expired = TRUE] /\ link[i].end = "live"
        BY <1>1, <2>1 DEF Expire
    <2>4. /\ link' \in [LinkId -> Link]
          /\ \A j \in LinkId : /\ link'[j].user = link[j].user
                               /\ link'[j].purpose = link[j].purpose
                               /\ link'[j].end = link[j].end
                               /\ j # i => link'[j] = link[j]
        BY <2>2, <2>3 DEF TypeOK, Link
    <2>5. /\ noted' \in [User -> SUBSET {"mishap", "staleStatus", "invitePassword", "googleProof", "unlinked"}]
          /\ noted'[u] = noted[u] \cup {"mishap"}
          /\ \A v \in User \ {u} : noted'[v] = noted[v]
        BY <2>2, <2>3, NotingTyped
    <2>6. ShapeInv'
        BY <2>2, <2>3, <2>4, <2>5 DEF ShapeInv, GoogleTypeOK, TypeOK
    <2>7. \A d \in Call : link[d] = NoLink => link'[d] = NoLink
        <3>1. NoLink.end = "unissued"
            BY DEF NoLink
        <3> QED
            BY <2>3, <2>4, <3>1 DEF LinkId
    <2>8. CallsKnow'
        <3> SUFFICES ASSUME NEW d \in Call PROVE Knows(d, call[d])'
            BY DEF CallsKnow
        <3>1. Knows(d, call[d]) /\ call'[d] = call[d]
            BY <2>3 DEF AccountsInv, CallsKnow
        <3>2. Lasting(d)
            BY <2>3, <2>4, <2>5, <2>7 DEF Lasting
        <3>3. ASSUME NEW purposes, Carries(call[d], purposes)
              PROVE  Carries(call[d], purposes)'
            BY <2>4, <3>1, <3>3 DEF Carries
        <3>4. \A v \in User : Proved(v) => Proved(v)'
            BY <2>3, <2>4, <2>5, <3>2, ProvedLasts
        <3>6. /\ call[d].pc \in {"complete", "reset"} /\ call[d].verified => Proved(call[d].user)'
              /\ call[d].pc \in {"readAccess", "openSession"} => Proved(call[d].user)'
            <4>1. call[d].pc \in {"complete", "reset", "readAccess", "openSession"} => call[d].user \in User
                BY <3>1 DEF Knows, ForAnAccount, Linking, Stages
            <4> QED
                BY <2>3, <3>1, <3>4, <4>1 DEF Knows
        <3>7. call[d].pc \in Linking /\ call[d].row # None =>
                  account'[call[d].user].google # None \/ "unlinked" \in noted'[call[d].user]
            <4>1. call[d].pc \in Linking => call[d].user \in User
                BY <3>1 DEF Knows, ForAnAccount, Linking, Stages
            <4> QED
                BY <2>3, <2>5, <3>1, <4>1 DEF Knows
        <3>5. \A j \in call[d].live : link'[j].user = link[j].user /\ link'[j].purpose = link[j].purpose
            BY <2>2, <2>4 DEF TypeOK
        <3> QED
            BY <2>3, <2>7, <3>1, <3>3, <3>5, <3>6, <3>7 DEF Knows
    <2>9. LinksHaveOwners' /\ IssuedForAPurpose'
        BY <2>4 DEF AccountsInv, LinksHaveOwners, IssuedForAPurpose
    <2>10. AcceptedIsUsed'
        BY <2>2, <2>3, <2>4 DEF AccountsInv, AcceptedIsUsed, AcceptedOnce
    <2>11. \A s \in session : s.user \in User
        BY <2>2 DEF TypeOK
    <2>12. NobodyHasNothing' /\ RevokedIsAMishap' /\ SessionsMatchPassword' /\ MembershipFollowsUser'
        BY <2>3, <2>5, <2>11 DEF AccountsInv, NobodyHasNothing, RevokedIsAMishap, Eligible,
           SessionsMatchPassword, MembershipFollowsUser
    <2>13. VerifiedByProof' /\ GoogleIsProved'
        <3>1. \A a \in accepted : a[2] \in LinkId
            BY <2>2
        <3>2. \A v \in User : Proved(v) => Proved(v)'
            BY <2>3, <2>4, <2>5, <3>1 DEF Proved
        <3> QED
            BY <2>3, <3>2 DEF AccountsInv, VerifiedByProof, GoogleIsProved
    <2>14. EveryoneHasAWayIn'
        <3> SUFFICES ASSUME NEW v \in User, Unharmed(v)' PROVE WayIn(v)'
            BY DEF EveryoneHasAWayIn
        <3>1. v # u /\ Unharmed(v)
            BY <2>3, <2>5 DEF Unharmed
        <3>2. WayIn(v)
            BY <3>1 DEF AccountsInv, EveryoneHasAWayIn
        <3>3. \A j \in LiveLinks(v, {"verify"}) : j # i /\ link'[j] = link[j]
            BY <2>1, <2>4, <3>1 DEF LiveLinks
        <3> QED
            BY <2>3, <3>2, <3>3 DEF WayIn, LiveLinks, EmailVerified, WillMail
    <2> QED
        BY <2>6, <2>8, <2>9, <2>10, <2>12, <2>13, <2>14 DEF AccountsInv
<1>2. ASSUME NEW p \in pending, PendingExpires(p)
      PROVE  AccountsInv'
    <2>1. UNCHANGED <<account, link, session, call, noted, accepted>> /\ pending' \subseteq pending
        BY <1>2 DEF PendingExpires
    <2>2. ShapeInv' /\ CallsKnow'
        BY <2>1 DEF AccountsInv, ShapeInv, GoogleTypeOK, TypeOK, CallsKnow, Knows, Carries, Proved
    <2>3. /\ LinksHaveOwners' /\ IssuedForAPurpose' /\ NobodyHasNothing' /\ RevokedIsAMishap'
          /\ VerifiedByProof' /\ GoogleIsProved'
          /\ SessionsMatchPassword' /\ MembershipFollowsUser' /\ AcceptedIsUsed'
        BY <2>1 DEF AccountsInv, LinksHaveOwners, IssuedForAPurpose, NobodyHasNothing,
           RevokedIsAMishap, Eligible, VerifiedByProof, GoogleIsProved, Proved,
           SessionsMatchPassword, MembershipFollowsUser, AcceptedIsUsed, AcceptedOnce
    <2>4. EveryoneHasAWayIn'
        BY <2>1 DEF AccountsInv, EveryoneHasAWayIn, Unharmed, WayIn, LiveLinks, EmailVerified, WillMail
    <2> QED
        BY <2>2, <2>3, <2>4 DEF AccountsInv
<1> QED
    BY <1>1, <1>2

LEMMA AccountsStep == AccountsInv /\ [GoogleNext]_googleVars => AccountsInv'
<1> SUFFICES ASSUME AccountsInv, [GoogleNext]_googleVars PROVE AccountsInv'
    OBVIOUS
<1>1. ASSUME NEW c \in Call, ToGoogle(c) PROVE AccountsInv'
    BY <1>1, VisitStep, OpeningStep, PendingLinkStep DEF ToGoogle, StartGoogleInvite, OnlyGoogleCall
<1>2. ASSUME NEW c \in Call, Callback(c) PROVE AccountsInv'
    BY <1>2, CallbackStep
<1>3. ASSUME NEW c \in Call, Finish(c) PROVE AccountsInv'
    BY <1>3, LinkGoogleStep, ReadAccessStep, OpenSessionStep, SignUpStep, UnlinkStep DEF Finish
<1>4. ASSUME NEW p \in pending, PendingExpires(p) PROVE AccountsInv'
    BY <1>4, ExpiryStep
<1>5. ASSUME Next, UNCHANGED <<pending, accepted>> PROVE AccountsInv'
    <2>1. ASSUME NEW c \in Call, Invite(c) \/ Request(c) PROVE AccountsInv'
        BY <1>5, <2>1, CreateUserStep, BootstrapStep, AskingStep DEF Invite, Request
    <2>2. ASSUME NEW c \in Call, Use(c) PROVE AccountsInv'
        BY <1>5, <2>2, OpeningStep DEF Use
    <2>3. ASSUME NEW c \in Call, Proceed(c) PROVE AccountsInv'
        BY <1>5, <2>3, GoingOnStep, IssueStep, RevokeStep, CompleteStep, ResetStep, VerifyStep,
           StartSessionStep, WriteUserStep DEF Proceed
    <2>4. ASSUME NEW c \in Call, Fail(c) PROVE AccountsInv'
        BY <1>5, <2>4, MishapStep
    <2>5. ASSUME NEW i \in LinkId, Expire(i) PROVE AccountsInv'
        BY <1>5, <2>5, ExpiryStep
    <2> QED
        BY <1>5, <2>1, <2>2, <2>3, <2>4, <2>5 DEF Next
<1>6. ASSUME UNCHANGED googleVars PROVE AccountsInv'
    <2>1. UNCHANGED <<account, link, session, call, noted, pending, accepted>>
        BY <1>6 DEF googleVars
    <2>2. ShapeInv' /\ CallsKnow'
        BY <2>1 DEF AccountsInv, ShapeInv, GoogleTypeOK, TypeOK, CallsKnow, Knows, Carries, Proved
    <2>3. /\ LinksHaveOwners' /\ IssuedForAPurpose' /\ NobodyHasNothing' /\ RevokedIsAMishap'
          /\ VerifiedByProof' /\ GoogleIsProved'
          /\ SessionsMatchPassword' /\ MembershipFollowsUser' /\ AcceptedIsUsed'
        BY <2>1 DEF AccountsInv, LinksHaveOwners, IssuedForAPurpose, NobodyHasNothing,
           RevokedIsAMishap, Eligible, VerifiedByProof, GoogleIsProved, Proved,
           SessionsMatchPassword, MembershipFollowsUser, AcceptedIsUsed, AcceptedOnce
    <2>4. EveryoneHasAWayIn'
        BY <2>1 DEF AccountsInv, EveryoneHasAWayIn, Unharmed, WayIn, LiveLinks, EmailVerified, WillMail
    <2> QED
        BY <2>2, <2>3, <2>4 DEF AccountsInv
<1> QED
    BY <1>1, <1>2, <1>3, <1>4, <1>5, <1>6 DEF GoogleNext

LEMMA AccountsAlways == GoogleSpec => []AccountsInv
BY AccountsInit, AccountsStep, PTL DEF GoogleSpec

----------------------------------------------------------------------------
(* The theorems. *)

\* createPasswordResetToken to verifyEmailToken, linkGoogleIdentityToUser: an
\* address counts as verified only after its owner proved it, by a verification
\* link that was used, by accepting an invite with Google or by a Google account
\* of that address, whatever calls come in between and whatever the address of
\* the Google account that signs in.
THEOREM VerificationRestsOnProof == GoogleSpec => []VerifiedByProof
BY AccountsAlways, PTL DEF AccountsInv

\* resetPassword ends every session of another password: one that outlives it
\* was opened by a sign-in that had checked the old password before.
THEOREM ResetEndsSessions == GoogleSpec => []SessionsMatchPassword
BY AccountsAlways, PTL DEF AccountsInv

\* The memberships follow the user row through every transaction but the two
\* that rely on an earlier look at the user row: the edit that writes back a
\* status it had read, and Google's that found it not invited.
THEOREM MembershipsAgree == GoogleSpec => []MembershipFollowsUser
BY AccountsAlways, PTL DEF AccountsInv

\* linkGoogleIdentityToUser consumes the invite where it is still unconsumed.
THEOREM InviteAcceptedOnce == GoogleSpec => []AcceptedOnce
BY AccountsAlways, PTL DEF AccountsInv, AcceptedIsUsed

\* Whatever calls overlap, an account that nothing untoward has befallen is
\* verified or has a verification mail that works, or will have.  Sessions are
\* not needed: this holds even of an account whose sessions a reset has ended.
THEOREM OwnersGetIn == GoogleSpec => []NobodyIsLockedOut
<1>1. AccountsInv => NobodyIsLockedOut
    <2> SUFFICES ASSUME AccountsInv, NEW u \in User, Unharmed(u)
                 PROVE  \/ EmailVerified(u)
                        \/ \E i \in LiveLinks(u, {"verify"}) : ~link[i].expired
                        \/ \E c \in Call : /\ call[c].user = u
                                           /\ call[c].op \in {"completeInvite", "bootstrapOwner"}
                                           /\ call[c].pc # "done"
        BY DEF NobodyIsLockedOut, Unharmed
    <2>1. WayIn(u)
        BY DEF AccountsInv, EveryoneHasAWayIn
    <2> QED
        BY <2>1 DEF WayIn, WillMail
<1> QED
    BY <1>1, AccountsAlways, PTL

\* The steps that write an account.
LEMMA WhoWrites ==
    ASSUME GoogleNext, account' # account
    PROVE  \E c \in Call :
               \/ \E u \in User : CreateUser(c, u) \/ BootstrapOwner(c, u)
               \/ Complete(c) \/ Reset(c) \/ Verify(c)
               \/ \E given \in ManagedUserStatus \cup {"keep"}, assigned \in BOOLEAN :
                      WriteUser(c, given, assigned)
               \/ LinkGoogleIdentity(c) \/ RaiseUser(c) \/ RaiseMemberships(c)
               \/ OpenSession(c) \/ SignUp(c) \/ Unlink(c)
<1>1. ASSUME NEW c \in Call, ToGoogle(c) \/ Callback(c)
      PROVE  FALSE
    BY <1>1 DEF ToGoogle, Callback, StartGoogleSignIn, StartGoogleSignUp, StartGoogleInvite,
       StartGoogleLink, UnlinkGoogle, LinkFromPendingToken, NoProfile, LinkCallback,
       InviteCallback, SignUpCallback, SignInRefused, SignInCallback, FirstSignInCallback,
       OnlyGoogleCall, OnlyCall
<1>2. ASSUME NEW c \in Call, ReadAccess(c) \/ LinkFails(c)
      PROVE  FALSE
    BY <1>2 DEF ReadAccess, LinkFails, OnlyGoogleCall, OnlyCall
<1>3. ASSUME NEW c \in Call, NEW u \in User,
             \/ ResendInvite(c, u) \/ RevokeInvite(c, u) \/ UpdateUser(c, u)
             \/ RequestPasswordReset(c, u) \/ RequestVerification(c, u) \/ SignIn(c, u)
      PROVE  FALSE
    BY <1>3 DEF ResendInvite, RevokeInvite, UpdateUser, RequestPasswordReset, RequestVerification,
       SignIn, OnlyCall
<1>4. ASSUME NEW c \in Call, Use(c) \/ Fail(c)
      PROVE  FALSE
    BY <1>4 DEF Use, Fail, CompleteInvite, ResetPassword, VerifyEmail, PlanRefusesMail,
       MailFails, TransactionFails, OnlyCall
<1>5. ASSUME NEW c \in Call,
             \/ ReadInvite(c) \/ ReadVerification(c) \/ Supersede(c) \/ Issue(c) \/ MailSent(c)
             \/ Revoke(c) \/ SignInInvitee(c) \/ StartSession(c) \/ ReadIdentity(c)
      PROVE  FALSE
    BY <1>5 DEF ReadIdentity, ReadInvite, ReadVerification, Supersede, Issue, MailSent, Revoke, SignInInvitee,
       StartSession, OnlyCall
<1>6. ASSUME \/ \E i \in LinkId : Expire(i)
             \/ \E p \in pending : PendingExpires(p)
      PROVE  FALSE
    BY <1>6 DEF Expire, PendingExpires
<1> QED
    BY <1>1, <1>2, <1>3, <1>4, <1>5, <1>6 DEF GoogleNext, Next, Finish, Invite, Request, Proceed

\* Google's transaction writes when it commits, and leaves a disabled account so.
LEMMA Commits ==
    ASSUME NEW c \in Call, LinkGoogleIdentity(c) \/ RaiseUser(c) \/ RaiseMemberships(c),
           account' # account
    PROVE  \E status, membership, verifies :
               /\ Commit(c, status, membership, verifies)
               /\ account[call[c].user].status = "disabled" => status = "disabled"
<1>1. CASE LinkGoogleIdentity(c)
    BY <1>1 DEF LinkGoogleIdentity, OnlyGoogleCall, OnlyCall
<1>2. CASE RaiseUser(c)
    BY <1>2 DEF RaiseUser, Raises, OnlyGoogleCall, OnlyCall
<1>3. CASE RaiseMemberships(c)
    BY <1>3 DEF RaiseMemberships
<1> QED
    BY <1>1, <1>2, <1>3

\* Only a reset or the completion of an invite writes FALSE over a verification,
\* and only one that had read it so.
THEOREM VerificationStays == GoogleSpec => VerificationIsLostOnlyToAStaleRead
<1>1. ASSUME AccountsInv, [GoogleNext]_googleVars
      PROVE  [\A u \in User : account[u].verified /\ ~account'[u].verified =>
                  \E c \in Call : /\ call[c].user = u /\ ~call[c].verified
                                  /\ call[c].pc \in {"reset", "complete"}
                                  /\ call'[c].pc # call[c].pc]_vars
    <2> SUFFICES ASSUME NEW u \in User, account[u].verified, ~account'[u].verified
                 PROVE  \E c \in Call : /\ call[c].user = u /\ ~call[c].verified
                                        /\ call[c].pc \in {"reset", "complete"}
                                        /\ call'[c].pc # call[c].pc
        OBVIOUS
    <2>1. account \in [User -> Account] /\ account[u] \in Account
        BY <1>1 DEF AccountsInv, ShapeInv, GoogleTypeOK, TypeOK
    <2>2. account' # account /\ GoogleNext
        BY <1>1 DEF googleVars
    <2>3. ASSUME NEW c \in Call, Reset(c)
          PROVE  /\ call[c].user = u /\ call[c].pc = "reset" /\ ~call[c].verified
                 /\ call'[c].pc = "done"
        <3>1. End(c) /\ call \in [Call -> CallRecord]
            BY <1>1, <2>3 DEF Reset, AccountsInv, ShapeInv
        <3>2. call'[c].pc = "done"
            BY <3>1 DEF End, Become, NoCall
        <3> QED
            BY <2>1, <2>3, <3>2 DEF Reset, At, Account
    <2>9. ASSUME NEW c \in Call, Complete(c)
          PROVE  /\ call[c].user = u /\ call[c].pc = "complete" /\ ~call[c].verified
                 /\ call'[c].pc = "readVerification"
        <3>1. call'[c].pc = "readVerification"
            BY <1>1, <2>9, GoesTyped DEF Complete, Stages
        <3> QED
            BY <2>1, <2>9, <3>1 DEF Complete, Activated, At, Account
    <2>4. ASSUME NEW c \in Call, NEW v \in User, CreateUser(c, v) \/ BootstrapOwner(c, v)
          PROVE  FALSE
        BY <2>1, <2>4 DEF CreateUser, BootstrapOwner, Account
    <2>5. ASSUME NEW c \in Call, Verify(c)
          PROVE  FALSE
        BY <2>1, <2>5 DEF Verify, Account
    <2>6. ASSUME NEW c \in Call, NEW given \in ManagedUserStatus \cup {"keep"}, NEW assigned \in BOOLEAN,
                 WriteUser(c, given, assigned)
          PROVE  FALSE
        BY <2>1, <2>6 DEF WriteUser, Account
    <2>7. ASSUME NEW c \in Call, LinkGoogleIdentity(c) \/ RaiseUser(c) \/ RaiseMemberships(c)
          PROVE  FALSE
        <3>1. PICK status, membership, verifies : Commit(c, status, membership, verifies)
            BY <2>2, <2>7, Commits
        <3> QED
            BY <2>1, <3>1 DEF Commit, Account
    <2>8. ASSUME NEW c \in Call, OpenSession(c) \/ SignUp(c) \/ Unlink(c)
          PROVE  FALSE
        BY <2>1, <2>8 DEF OpenSession, SignUp, Unlink, Account
    <2> QED
        BY <2>2, <2>3, <2>4, <2>5, <2>6, <2>7, <2>8, <2>9, WhoWrites
<1> QED
    BY <1>1, AccountsAlways, PTL DEF GoogleSpec, VerificationIsLostOnlyToAStaleRead

\* No way of signing in with Google reopens a disabled account: the transaction
\* raises an invitation only (Raised), and the other steps of Google do not
\* write the status.
THEOREM DisabledStaysDisabled == GoogleSpec => ReopenedOnlyByAdmin
<1>1. ASSUME AccountsInv, [GoogleNext]_googleVars
      PROVE  [\A u \in User : account[u].status = "disabled" /\ account'[u].status # "disabled" =>
                  \E c \in Call : /\ call[c].user = u
                                  /\ call[c].pc \in {"write", "complete"}
                                  /\ call'[c].pc # call[c].pc]_googleVars
    <2> SUFFICES ASSUME NEW u \in User, account[u].status = "disabled", account'[u].status # "disabled"
                 PROVE  \E c \in Call : /\ call[c].user = u
                                        /\ call[c].pc \in {"write", "complete"}
                                        /\ call'[c].pc # call[c].pc
        OBVIOUS
    <2>1. /\ account \in [User -> Account] /\ account[u] \in Account
          /\ \A c \in Call : call[c] \in CallRecord
        BY <1>1 DEF AccountsInv, ShapeInv, GoogleTypeOK, TypeOK
    <2>2. account' # account /\ GoogleNext
        BY <1>1 DEF googleVars
    <2>3. ASSUME NEW c \in Call, Complete(c)
          PROVE  call[c].user = u /\ call[c].pc = "complete" /\ call'[c].pc = "readVerification"
        <3>1. call'[c].pc = "readVerification"
            BY <1>1, <2>3, GoesTyped DEF Complete, Stages
        <3> QED
            BY <2>1, <2>3, <3>1 DEF Complete, At
    <2>4. ASSUME NEW c \in Call, NEW given \in ManagedUserStatus \cup {"keep"}, NEW assigned \in BOOLEAN,
                 WriteUser(c, given, assigned)
          PROVE  call[c].user = u /\ call[c].pc = "write" /\ call'[c].pc = "done"
        <3>1. End(c) /\ call \in [Call -> CallRecord]
            BY <1>1, <2>4 DEF WriteUser, AccountsInv, ShapeInv
        <3>2. call'[c].pc = "done"
            BY <3>1 DEF End, Become, NoCall
        <3> QED
            BY <2>1, <2>4, <3>2 DEF WriteUser, At
    <2>5. ASSUME NEW c \in Call, NEW v \in User, CreateUser(c, v) \/ BootstrapOwner(c, v)
          PROVE  FALSE
        BY <2>1, <2>5 DEF CreateUser, BootstrapOwner, Account
    <2>6. ASSUME NEW c \in Call, Reset(c) \/ Verify(c)
          PROVE  FALSE
        BY <2>1, <2>6 DEF Reset, Verify, Account
    <2>7. ASSUME NEW c \in Call, LinkGoogleIdentity(c) \/ RaiseUser(c) \/ RaiseMemberships(c)
          PROVE  FALSE
        <3>1. PICK status, membership, verifies :
                  /\ Commit(c, status, membership, verifies)
                  /\ account[call[c].user].status = "disabled" => status = "disabled"
            BY <2>2, <2>7, Commits
        <3> QED
            BY <2>1, <3>1 DEF Commit, Account
    <2>8. ASSUME NEW c \in Call, OpenSession(c) \/ SignUp(c) \/ Unlink(c)
          PROVE  FALSE
        BY <2>1, <2>8 DEF OpenSession, SignUp, Unlink, Account
    <2> QED
        BY <2>2, <2>3, <2>4, <2>5, <2>6, <2>7, <2>8, WhoWrites
<1> QED
    BY <1>1, AccountsAlways, PTL DEF GoogleSpec, ReopenedOnlyByAdmin

=============================================================================
