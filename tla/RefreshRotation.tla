---------------------------- MODULE RefreshRotation ----------------------------
(***************************************************************************)
(* AuthService: one user session and the family of its refresh tokens.     *)
(* Calls of refreshSession, signOut and resetPassword run concurrently on  *)
(* Postgres in READ COMMITTED: a statement sees what was committed when it *)
(* started, locks the rows it updates until its transaction ends, and when *)
(* it had to wait for a row it evaluates its WHERE again on the new        *)
(* version.  A cycle of waiting transactions is broken by aborting one.    *)
(*                                                                         *)
(* The rows below are committed; what a transaction has written and locked *)
(* is in its call record.  Expiry of tokens and sessions is left out: it   *)
(* only turns calls away.                                                  *)
(***************************************************************************)
EXTENDS FiniteSets, Naturals

CONSTANTS
    Calls,       \* concurrent calls
    Tokens,      \* rows of refresh_tokens; bounds the number of rotations
    FirstToken,  \* the token issued with the session at sign-in
    NoToken

ASSUME TokenAssumption == FirstToken \in Tokens /\ NoToken \notin Tokens

VARIABLES
    token,     \* the rows of refresh_tokens
    session,   \* the row of user_sessions
    verified,  \* the user's email is verified
    call       \* what each call is doing, has read, written and locked

vars == <<token, session, verified, call>>

NoRow == [issued |-> FALSE, consumed |-> FALSE, revoked |-> FALSE, replacedBy |-> NoToken]

NoCall == [pc |-> "idle", method |-> "none", tok |-> NoToken, new |-> NoToken,
           seen |-> {}, consumes |-> FALSE, revokes |-> {}, session |-> "none"]

At(c, pc) == call[c].pc = pc
Become(c, r) == call' = [call EXCEPT ![c] = r]
Goto(c, pc) == Become(c, [call[c] EXCEPT !.pc = pc])
Return(c) == Become(c, NoCall)
OnlyCall == UNCHANGED <<token, session, verified>>

----------------------------------------------------------------------------
(* Row locks *)

LockedTokens(c) == call[c].revokes \cup (IF call[c].consumes THEN {call[c].tok} ELSE {})
LocksSession(c) == call[c].session # "none"

TokenFree(c, t) == \A d \in Calls \ {c} : t \notin LockedTokens(d)
SessionFree(c) == \A d \in Calls \ {c} : ~LocksSession(d)

\* The calls whose locks c needs for its next step.
BlockedBy(c) ==
    IF At(c, "consume") THEN {d \in Calls \ {c} : call[c].tok \in LockedTokens(d)}
    ELSE IF call[c].pc \in {"touchSession", "revokeSession"}
         THEN {d \in Calls \ {c} : LocksSession(d)}
    ELSE IF At(c, "revokeTokens") /\ call[c].seen # {}
               /\ \A t \in call[c].seen : ~TokenFree(c, t)
         THEN {d \in Calls \ {c} : LockedTokens(d) \cap call[c].seen # {}}
    ELSE {}

\* Postgres finds a cycle of waiting transactions through c.
Deadlocked(c) ==
    \E S \in SUBSET Calls :
        /\ c \in S
        /\ \A d \in S : BlockedBy(d) \cap S # {}

----------------------------------------------------------------------------
(* refreshSession: checks on plain reads, then one transaction *)

FreshTokens == {t \in Tokens : ~token[t].issued /\ \A c \in Calls : call[c].new # t}

\* The token is presented again after its rotation or revocation.
StartReplay(c, t) ==
    /\ At(c, "idle")
    /\ token[t].issued
    /\ token[t].revoked \/ token[t].consumed
    /\ Become(c, [NoCall EXCEPT !.pc = "snapshot", !.method = "refresh", !.tok = t])
    /\ OnlyCall

\* The row of the token's successor is set aside here, which bounds the number
\* of rotations by Tokens.
StartRefresh(c, t) ==
    /\ At(c, "idle")
    /\ token[t].issued /\ ~token[t].revoked /\ ~token[t].consumed
    /\ FreshTokens # {}
    /\ Become(c, [NoCall EXCEPT !.pc = "readSession", !.method = "refresh", !.tok = t,
                                !.new = CHOOSE n \in FreshTokens : TRUE])
    /\ OnlyCall

ReadSession(c) ==
    /\ At(c, "readSession")
    /\ IF session.revoked THEN Return(c) ELSE Goto(c, "readIdentity")
    /\ OnlyCall

ReadIdentity(c) ==
    /\ At(c, "readIdentity")
    /\ Become(c, IF verified THEN [call[c] EXCEPT !.pc = "consume"]
                 ELSE [call[c] EXCEPT !.pc = "snapshot", !.new = NoToken])
    /\ OnlyCall

\* Mistake: the UPDATE names the token's id only.
ConsumeUnchecked(c) ==
    /\ At(c, "consume")
    /\ TokenFree(c, call[c].tok)
    /\ Become(c, [call[c] EXCEPT !.pc = "touchSession", !.consumes = TRUE])
    /\ OnlyCall

\* UPDATE ... WHERE id AND not revoked AND not consumed RETURNING: evaluated on
\* the version that is committed when the row lock is granted.
ConsumeToken(c) ==
    LET t == call[c].tok
    IN  /\ At(c, "consume")
        /\ TokenFree(c, t)
        /\ ~token[t].revoked /\ ~token[t].consumed
        /\ Become(c, [call[c] EXCEPT !.pc = "touchSession", !.consumes = TRUE])
        /\ OnlyCall

\* Mistake: a lost race is tried again with the same token.
RotationRetries(c) ==
    /\ At(c, "consume")
    /\ TokenFree(c, call[c].tok)
    /\ token[call[c].tok].revoked \/ token[call[c].tok].consumed
    /\ Goto(c, "readIdentity")
    /\ OnlyCall

RotationConflict(c) ==
    LET t == call[c].tok
    IN  /\ At(c, "consume")
        /\ TokenFree(c, t)
        /\ token[t].revoked \/ token[t].consumed
        /\ Become(c, [call[c] EXCEPT !.pc = "snapshot", !.new = NoToken])
        /\ OnlyCall

\* Mistake: a revoked session is left alone, but its token is replaced.
TouchLiveSession(c) ==
    /\ At(c, "touchSession")
    /\ SessionFree(c)
    /\ Become(c, [call[c] EXCEPT !.pc = "commit",
                                 !.session = IF session.revoked THEN "none" ELSE "touch"])
    /\ OnlyCall

\* The session's access token is replaced, whether or not it is revoked.
TouchSession(c) ==
    /\ At(c, "touchSession")
    /\ SessionFree(c)
    /\ Become(c, [call[c] EXCEPT !.pc = "commit", !.session = "touch"])
    /\ OnlyCall

----------------------------------------------------------------------------
(* Revoking: the tokens first and the session last in the refresh paths     *)
(* and in signOut, the session first in resetPassword.                      *)

StartSignOut(c) ==
    /\ At(c, "idle")
    /\ ~session.revoked
    /\ Become(c, [NoCall EXCEPT !.pc = "snapshot", !.method = "signOut"])
    /\ OnlyCall

StartResetPassword(c) ==
    /\ At(c, "idle")
    /\ Become(c, [NoCall EXCEPT !.pc = "revokeSession", !.method = "resetPassword"])
    /\ OnlyCall

\* The UPDATE of the tokens sees those committed by now.
Snapshot(c) ==
    /\ At(c, "snapshot")
    /\ Become(c, [call[c] EXCEPT !.pc = "revokeTokens",
          !.seen = {t \in Tokens : token[t].issued /\ ~token[t].revoked}])
    /\ OnlyCall

RevokeToken(c, t) ==
    /\ At(c, "revokeTokens")
    /\ t \in call[c].seen
    /\ TokenFree(c, t)
    /\ Become(c, [call[c] EXCEPT !.seen = @ \ {t},
          !.revokes = IF token[t].revoked THEN @ ELSE @ \cup {t}])
    /\ OnlyCall

TokensRevoked(c) ==
    /\ At(c, "revokeTokens")
    /\ call[c].seen = {}
    /\ Goto(c, IF call[c].method = "resetPassword" THEN "commit" ELSE "revokeSession")
    /\ OnlyCall

\* A session found revoked on the version read after the wait is left alone.
RevokeSession(c) ==
    /\ At(c, "revokeSession")
    /\ SessionFree(c)
    /\ Become(c, [call[c] EXCEPT
          !.pc = IF call[c].method = "resetPassword" THEN "snapshot" ELSE "commit",
          !.session = IF session.revoked THEN "none" ELSE "revoke"])
    /\ OnlyCall

----------------------------------------------------------------------------
CommittedTokens(r) ==
    [t \in Tokens |->
        IF r.consumes /\ t = r.tok
           THEN [token[t] EXCEPT !.consumed = TRUE, !.replacedBy = r.new]
        ELSE IF r.consumes /\ t = r.new THEN [NoRow EXCEPT !.issued = TRUE]
        ELSE IF t \in r.revokes THEN [token[t] EXCEPT !.revoked = TRUE]
        ELSE token[t]]

\* Mistake: the UPDATE of a rotation sets all the columns of the new session,
\* its empty revokedAt among them.
CommitClearsRevocation(c) ==
    LET r == call[c]
    IN  /\ At(c, "commit")
        /\ token' = CommittedTokens(r)
        /\ session' = IF r.session = "touch" THEN [revoked |-> FALSE, access |-> r.new]
                      ELSE [session EXCEPT !.revoked = @ \/ r.session = "revoke"]
        /\ Return(c)
        /\ UNCHANGED verified

Commit(c) ==
    LET r == call[c]
    IN  /\ At(c, "commit")
        /\ token' = CommittedTokens(r)
        /\ session' = [revoked |-> session.revoked \/ r.session = "revoke",
                       access |-> IF r.session = "touch" THEN r.new ELSE session.access]
        /\ Return(c)
        /\ UNCHANGED verified

\* The victim's transaction is rolled back and its call fails.
AbortDeadlocked(c) ==
    /\ Deadlocked(c)
    /\ Return(c)
    /\ OnlyCall

VerifyEmail ==
    /\ ~verified
    /\ verified' = TRUE
    /\ UNCHANGED <<token, session, call>>

----------------------------------------------------------------------------
Init ==
    /\ token = [t \in Tokens |->
          IF t = FirstToken THEN [NoRow EXCEPT !.issued = TRUE] ELSE NoRow]
    /\ session = [revoked |-> FALSE, access |-> FirstToken]
    /\ verified \in BOOLEAN
    /\ call = [c \in Calls |-> NoCall]

Start(c) ==
    \/ \E t \in Tokens : StartReplay(c, t) \/ StartRefresh(c, t)
    \/ StartSignOut(c)
    \/ StartResetPassword(c)

Continue(c) ==
    \/ ReadSession(c) \/ ReadIdentity(c)
    \/ ConsumeToken(c) \/ RotationConflict(c) \/ TouchSession(c)
    \/ Snapshot(c) \/ (\E t \in Tokens : RevokeToken(c, t)) \/ TokensRevoked(c)
    \/ RevokeSession(c)
    \/ Commit(c)
    \/ AbortDeadlocked(c)

Next ==
    \/ \E c \in Calls : Start(c) \/ Continue(c)
    \/ VerifyEmail

Spec == Init /\ [][Next]_vars

\* The event loop resumes every call, Postgres breaks a deadlock, and it hands a
\* released row lock to the transaction that waits for it: strong fairness, as
\* the lock may be taken and released by others while a call waits.
FairSpec == Spec /\ \A c \in Calls : SF_vars(Continue(c))

----------------------------------------------------------------------------
TokenRow == [issued : BOOLEAN, consumed : BOOLEAN, revoked : BOOLEAN,
             replacedBy : Tokens \cup {NoToken}]

CallRecord ==
    [pc : {"idle", "readSession", "readIdentity", "consume", "touchSession", "snapshot",
           "revokeTokens", "revokeSession", "commit"},
     method : {"none", "refresh", "signOut", "resetPassword"},
     tok : Tokens \cup {NoToken}, new : Tokens \cup {NoToken},
     seen : SUBSET Tokens, consumes : BOOLEAN, revokes : SUBSET Tokens,
     session : {"none", "touch", "revoke"}]

TypeOK ==
    /\ token \in [Tokens -> TokenRow]
    /\ session \in [revoked : BOOLEAN, access : Tokens]
    /\ verified \in BOOLEAN
    /\ call \in [Calls -> CallRecord]

\* However many refreshes race with the same token, at most one token of the
\* family is unconsumed, and every consumed token was replaced by exactly one
\* issued token of its own (L1026-1092).
RotationIsAChain ==
    LET issued == {t \in Tokens : token[t].issued}
    IN  /\ Cardinality({t \in issued : ~token[t].consumed}) = 1
        /\ \A t \in issued : token[t].consumed =>
              /\ token[t].replacedBy \in issued \ {t, FirstToken}
              /\ \A u \in issued \ {t} : token[u].replacedBy # token[t].replacedBy

\* The rotation implements the abstract session: whatever is read beforehand and
\* whoever is aborted, one commit replaces the access token by a fresh one and
\* spends the token it came with, both or neither, and no other token (L1026-1092).
Life == INSTANCE SessionLife WITH spent <- {t \in Tokens : token[t].consumed}
SessionImplemented == Life!SessionSpec

\* Revocation is never undone: neither the session nor a token becomes valid
\* again through a rotation that was under way (TouchSession names only the id).
RevocationIsFinal ==
    [][/\ session.revoked => session'.revoked
       /\ \A t \in Tokens : token[t].revoked => token'[t].revoked]_vars

\* Every call ends, although resetPassword locks the session before the tokens
\* and all others lock the tokens first.
EveryCallEnds == \A c \in Calls : ~At(c, "idle") ~> At(c, "idle")
=============================================================================
