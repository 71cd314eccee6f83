------------------------------ MODULE SessionLife ------------------------------
(***************************************************************************)
(* What a user session promises to those who use its access token: a       *)
(* rotation replaces the token by a fresh one and spends it, and a session *)
(* that is revoked stays so.  Access composes it with the guards, and      *)
(* RefreshRotation implements it.                                          *)
(***************************************************************************)
CONSTANTS Tokens, FirstToken

VARIABLES
    session,   \* the row of user_sessions: revoked, and the hash of its access token
    spent      \* the tokens that were replaced

lifeVars == <<session, spent>>

SessionInit ==
    /\ session = [revoked |-> FALSE, access |-> FirstToken]
    /\ spent = {}

\* The UPDATE of a rotation names the session's id only, so that it may come
\* after the revocation, which it leaves.
Rotate(t) ==
    /\ t \in Tokens \ (spent \cup {session.access})
    /\ session' = [session EXCEPT !.access = t]
    /\ spent' = spent \cup {session.access}

Revoke ==
    /\ session' = [session EXCEPT !.revoked = TRUE]
    /\ UNCHANGED spent

SessionSpec ==
    SessionInit /\ [][(\E t \in Tokens : Rotate(t)) \/ Revoke]_lifeVars
=============================================================================
