------------------------- MODULE RefreshRotationProofs -------------------------
(***************************************************************************)
(* What holds of a session and its refresh tokens for all sets of calls    *)
(* and tokens: the tokens form a chain with one live end, the session is   *)
(* the abstract one of SessionLife, and revocation is final.               *)
(***************************************************************************)
EXTENDS RefreshRotation, FiniteSetTheorems, TLAPS

Issued == {t \in Tokens : token[t].issued}

\* Every issued token but the last of the family, whose holder has the access
\* token of the session, was consumed and replaced by one of its own.
ChainInv ==
    /\ token[FirstToken].issued
    /\ token[session.access].issued /\ ~token[session.access].consumed
    /\ \A t \in Tokens : ~token[t].issued => token[t] = NoRow
    /\ \A t \in Issued : ~token[t].consumed => t = session.access /\ token[t].replacedBy = NoToken
    /\ \A t \in Issued : token[t].consumed => token[t].replacedBy \in Issued \ {t, FirstToken}
    /\ \A t, u \in Issued : t # u /\ token[t].consumed => token[u].replacedBy # token[t].replacedBy

\* What a call has set aside and locked: the row of the next token, which no other
\* call has and nobody has inserted, and rows that exist.
HoldsInv ==
    \A c \in Calls :
        /\ call[c].new \in Tokens => ~token[call[c].new].issued
        /\ call[c].pc \in {"readSession", "readIdentity", "consume"}
              => call[c].tok \in Issued /\ call[c].new \in Tokens /\ call[c].revokes = {}
        /\ call[c].seen \cup call[c].revokes \subseteq Issued
        /\ call[c].consumes =>
              /\ call[c].pc \in {"touchSession", "commit"}
              /\ call[c].tok \in Issued /\ call[c].new \in Tokens
              /\ ~token[call[c].tok].consumed
              /\ call[c].revokes = {}
        /\ call[c].pc = "touchSession" => call[c].consumes
        /\ call[c].session = "touch" <=> call[c].pc = "commit" /\ call[c].consumes

\* Two transactions neither lock the same token nor insert it.
ExclusiveInv ==
    \A c, d \in Calls : c # d =>
        /\ LockedTokens(c) \cap LockedTokens(d) = {}
        /\ call[c].new \in Tokens => call[c].new # call[d].new

RotationInv == TypeOK /\ ChainInv /\ HoldsInv /\ ExclusiveInv

LEMMA RotationInit == Init => RotationInv
<1> SUFFICES ASSUME Init PROVE RotationInv
    OBVIOUS
<1>1. TypeOK
    BY TokenAssumption DEF Init, TypeOK, TokenRow, CallRecord, NoRow, NoCall
<1>2. ChainInv
    BY TokenAssumption DEF Init, ChainInv, Issued, NoRow
<1>3. \A c \in Calls : call[c] = NoCall
    BY DEF Init
<1>4. HoldsInv /\ ExclusiveInv
    BY <1>3, TokenAssumption DEF HoldsInv, ExclusiveInv, LockedTokens, NoCall
<1> QED
    BY <1>1, <1>2, <1>4 DEF RotationInv

----------------------------------------------------------------------------
\* A step of one call that leaves the rows alone preserves the invariant if the
\* call's new record keeps to what the invariant says of it.
Keeps(r, c) ==
    /\ r \in CallRecord
    /\ r.new \in Tokens => ~token[r.new].issued /\ \A d \in Calls \ {c} : call[d].new # r.new
    /\ r.pc \in {"readSession", "readIdentity", "consume"} =>
          r.tok \in Issued /\ r.new \in Tokens /\ r.revokes = {}
    /\ r.seen \cup r.revokes \subseteq Issued
    /\ r.consumes =>
          /\ r.pc \in {"touchSession", "commit"}
          /\ r.tok \in Issued /\ r.new \in Tokens
          /\ ~token[r.tok].consumed
          /\ r.revokes = {}
    /\ r.pc = "touchSession" => r.consumes
    /\ r.session = "touch" <=> r.pc = "commit" /\ r.consumes
    /\ \A t \in r.revokes \cup (IF r.consumes THEN {r.tok} ELSE {}) : TokenFree(c, t)

LEMMA OnlyCallKeeps ==
    ASSUME RotationInv, NEW c \in Calls, NEW r, Keeps(r, c), Become(c, r), OnlyCall
    PROVE  RotationInv'
<1>1. token' = token /\ session' = session /\ verified' = verified /\ Issued' = Issued
    BY DEF OnlyCall, Issued
<1>2. call' \in [Calls -> CallRecord] /\ call'[c] = r /\ \A d \in Calls \ {c} : call'[d] = call[d]
    BY DEF Become, Keeps, RotationInv, TypeOK
<1>3. TypeOK' /\ ChainInv'
    BY <1>1, <1>2 DEF RotationInv, TypeOK, ChainInv
<1>4. HoldsInv'
    BY <1>1, <1>2 DEF RotationInv, HoldsInv, Keeps
<1>5. ExclusiveInv'
    <2>1. \A d \in Calls : LockedTokens(d)' =
              IF d = c THEN r.revokes \cup (IF r.consumes THEN {r.tok} ELSE {})
              ELSE LockedTokens(d)
        BY <1>2 DEF LockedTokens
    <2>2. \A d \in Calls \ {c}, t \in LockedTokens(c)' : t \notin LockedTokens(d)
        BY <2>1 DEF Keeps, TokenFree
    <2> QED
        BY <1>2, <2>1, <2>2 DEF RotationInv, ExclusiveInv, Keeps
<1> QED
    BY <1>3, <1>4, <1>5 DEF RotationInv

\* A call that ends holds nothing.
LEMMA NothingKeeps ==
    ASSUME RotationInv, NEW c \in Calls
    PROVE  Keeps(NoCall, c)
BY TokenAssumption DEF Keeps, NoCall, CallRecord

\* A lock that a call holds is held by no other.
LEMMA LockedIsFree ==
    ASSUME RotationInv, NEW c \in Calls, NEW t \in LockedTokens(c)
    PROVE  TokenFree(c, t)
BY DEF RotationInv, ExclusiveInv, TokenFree

LEMMA StartKeeps ==
    ASSUME RotationInv, NEW c \in Calls, Start(c)
    PROVE  RotationInv'
<1> USE DEF At
<1>1. ASSUME NEW t \in Tokens, StartReplay(c, t) PROVE RotationInv'
    <2> DEFINE r == [NoCall EXCEPT !.pc = "snapshot", !.method = "refresh", !.tok = t]
    <2>1. Keeps(r, c)
        BY TokenAssumption DEF Keeps, NoCall, CallRecord
    <2> QED
        BY <1>1, <2>1, OnlyCallKeeps DEF StartReplay
<1>2. ASSUME NEW t \in Tokens, StartRefresh(c, t) PROVE RotationInv'
    <2> DEFINE n == CHOOSE n \in FreshTokens : TRUE
               r == [NoCall EXCEPT !.pc = "readSession", !.method = "refresh", !.tok = t, !.new = n]
    <2>1. n \in FreshTokens
        BY <1>2 DEF StartRefresh
    <2>2. n \in Tokens /\ ~token[n].issued /\ \A d \in Calls : call[d].new # n
        BY <2>1 DEF FreshTokens
    <2>3. t \in Issued
        BY <1>2 DEF StartRefresh, Issued
    <2> HIDE DEF n
    <2>4. Keeps(r, c)
        BY <2>2, <2>3, TokenAssumption DEF Keeps, NoCall, CallRecord
    <2>5. Become(c, r) /\ OnlyCall
        BY <1>2 DEF StartRefresh, n
    <2> QED
        BY <2>4, <2>5, OnlyCallKeeps
<1>3. ASSUME StartSignOut(c) PROVE RotationInv'
    <2> DEFINE r == [NoCall EXCEPT !.pc = "snapshot", !.method = "signOut"]
    <2>1. Keeps(r, c)
        BY TokenAssumption DEF Keeps, NoCall, CallRecord
    <2> QED
        BY <1>3, <2>1, OnlyCallKeeps DEF StartSignOut
<1>4. ASSUME StartResetPassword(c) PROVE RotationInv'
    <2> DEFINE r == [NoCall EXCEPT !.pc = "revokeSession", !.method = "resetPassword"]
    <2>1. Keeps(r, c)
        BY TokenAssumption DEF Keeps, NoCall, CallRecord
    <2> QED
        BY <1>4, <2>1, OnlyCallKeeps DEF StartResetPassword
<1> QED
    BY <1>1, <1>2, <1>3, <1>4 DEF Start

\* The statements of a call up to its commit, which change no row.
LEMMA StatementKeeps ==
    ASSUME RotationInv, NEW c \in Calls, Continue(c), ~Commit(c)
    PROVE  RotationInv'
<1> USE DEF At, Goto, Return
<1>0. call[c] \in CallRecord /\ token \in [Tokens -> TokenRow]
    BY DEF RotationInv, TypeOK
<1>h. HoldsInv /\ ExclusiveInv
    BY DEF RotationInv
<1>n. Keeps(NoCall, c)
    BY NothingKeeps
<1>l. \A t \in LockedTokens(c) : TokenFree(c, t)
    BY LockedIsFree
<1>1. CASE ReadSession(c)
    <2> DEFINE r == [call[c] EXCEPT !.pc = "readIdentity"]
    <2>1. call[c].pc = "readSession"
        BY <1>1 DEF ReadSession
    <2>2. Keeps(r, c)
        BY <1>0, <1>h, <2>1 DEF Keeps, CallRecord, HoldsInv, ExclusiveInv
    <2>3. OnlyCall /\ (Become(c, NoCall) \/ Become(c, r))
        BY <1>1 DEF ReadSession
    <2> QED
        BY <1>n, <2>2, <2>3, OnlyCallKeeps
<1>2. CASE ReadIdentity(c)
    <2> DEFINE r == [call[c] EXCEPT !.pc = "consume"]
               q == [call[c] EXCEPT !.pc = "snapshot", !.new = NoToken]
    <2>1. call[c].pc = "readIdentity"
        BY <1>2 DEF ReadIdentity
    <2>2. Keeps(r, c) /\ Keeps(q, c)
        BY <1>0, <1>h, <2>1, TokenAssumption DEF Keeps, CallRecord, HoldsInv, ExclusiveInv
    <2>3. OnlyCall /\ (Become(c, r) \/ Become(c, q))
        BY <1>2 DEF ReadIdentity
    <2> QED
        BY <2>2, <2>3, OnlyCallKeeps
<1>3. CASE ConsumeToken(c)
    <2> DEFINE r == [call[c] EXCEPT !.pc = "touchSession", !.consumes = TRUE]
    <2>1. call[c].pc = "consume" /\ ~token[call[c].tok].consumed /\ TokenFree(c, call[c].tok)
        BY <1>3 DEF ConsumeToken
    <2>2. call[c].revokes = {}
        BY <1>h, <2>1 DEF HoldsInv
    <2>3. Keeps(r, c)
        BY <1>0, <1>h, <2>1, <2>2 DEF Keeps, CallRecord, HoldsInv, ExclusiveInv
    <2> QED
        BY <1>3, <2>3, OnlyCallKeeps DEF ConsumeToken
<1>4. CASE RotationConflict(c)
    <2> DEFINE r == [call[c] EXCEPT !.pc = "snapshot", !.new = NoToken]
    <2>1. call[c].pc = "consume"
        BY <1>4 DEF RotationConflict
    <2>2. Keeps(r, c)
        BY <1>0, <1>h, <1>l, <2>1, TokenAssumption
           DEF Keeps, CallRecord, HoldsInv, ExclusiveInv, LockedTokens
    <2> QED
        BY <1>4, <2>2, OnlyCallKeeps DEF RotationConflict
<1>5. CASE TouchSession(c)
    <2> DEFINE r == [call[c] EXCEPT !.pc = "commit", !.session = "touch"]
    <2>1. call[c].pc = "touchSession"
        BY <1>5 DEF TouchSession
    <2>2. Keeps(r, c)
        BY <1>0, <1>h, <1>l, <2>1 DEF Keeps, CallRecord, HoldsInv, ExclusiveInv, LockedTokens
    <2> QED
        BY <1>5, <2>2, OnlyCallKeeps DEF TouchSession
<1>6. CASE Snapshot(c)
    <2> DEFINE r == [call[c] EXCEPT !.pc = "revokeTokens",
                        !.seen = {t \in Tokens : token[t].issued /\ ~token[t].revoked}]
    <2>1. call[c].pc = "snapshot"
        BY <1>6 DEF Snapshot
    <2>2. Keeps(r, c)
        BY <1>0, <1>h, <1>l, <2>1
           DEF Keeps, CallRecord, HoldsInv, ExclusiveInv, LockedTokens, Issued
    <2> QED
        BY <1>6, <2>2, OnlyCallKeeps DEF Snapshot
<1>7. ASSUME NEW t \in Tokens, RevokeToken(c, t) PROVE RotationInv'
    <2> DEFINE r == [call[c] EXCEPT !.seen = @ \ {t},
                        !.revokes = IF token[t].revoked THEN @ ELSE @ \cup {t}]
    <2>1. call[c].pc = "revokeTokens" /\ t \in call[c].seen /\ TokenFree(c, t)
        BY <1>7 DEF RevokeToken
    <2>2. ~call[c].consumes /\ t \in Issued /\ r.revokes \subseteq call[c].revokes \cup {t}
        BY <1>0, <1>h, <2>1 DEF HoldsInv, CallRecord
    <2>3. r \in CallRecord /\ r.consumes = call[c].consumes /\ r.session = call[c].session
          /\ r.new = call[c].new /\ r.pc = "revokeTokens" /\ r.seen \subseteq call[c].seen
        BY <1>0, <2>1 DEF CallRecord
    <2> HIDE DEF r
    <2>4. Keeps(r, c)
        BY <1>0, <1>h, <1>l, <2>1, <2>2, <2>3 DEF Keeps, HoldsInv, ExclusiveInv, LockedTokens
    <2> QED
        BY <1>7, <2>4, OnlyCallKeeps DEF RevokeToken, r
<1>8. CASE TokensRevoked(c)
    <2> DEFINE r == [call[c] EXCEPT !.pc =
                        IF call[c].method = "resetPassword" THEN "commit" ELSE "revokeSession"]
    <2>1. call[c].pc = "revokeTokens"
        BY <1>8 DEF TokensRevoked
    <2>2. Keeps(r, c)
        BY <1>0, <1>h, <1>l, <2>1 DEF Keeps, CallRecord, HoldsInv, ExclusiveInv, LockedTokens
    <2> QED
        BY <1>8, <2>2, OnlyCallKeeps DEF TokensRevoked
<1>9. CASE RevokeSession(c)
    <2> DEFINE r == [call[c] EXCEPT
                        !.pc = IF call[c].method = "resetPassword" THEN "snapshot" ELSE "commit",
                        !.session = IF session.revoked THEN "none" ELSE "revoke"]
    <2>1. call[c].pc = "revokeSession"
        BY <1>9 DEF RevokeSession
    <2>2. Keeps(r, c)
        BY <1>0, <1>h, <1>l, <2>1 DEF Keeps, CallRecord, HoldsInv, ExclusiveInv, LockedTokens
    <2> QED
        BY <1>9, <2>2, OnlyCallKeeps DEF RevokeSession
<1>10. CASE AbortDeadlocked(c)
    BY <1>10, <1>n, OnlyCallKeeps DEF AbortDeadlocked
<1> QED
    BY <1>1, <1>2, <1>3, <1>4, <1>5, <1>6, <1>7, <1>8, <1>9, <1>10 DEF Continue

----------------------------------------------------------------------------
\* The commit of a rotation: the token with which the session can be used gives
\* way to one that nobody has, in the same step as the access token.
LEMMA RotationCommits ==
    ASSUME RotationInv, NEW c \in Calls, Commit(c), call[c].consumes
    PROVE  LET t == call[c].tok
               n == call[c].new
           IN  /\ t = session.access /\ t \in Issued /\ n \in Tokens \ Issued
               /\ session' = [revoked |-> session.revoked, access |-> n]
               /\ token'[t] = [token[t] EXCEPT !.consumed = TRUE, !.replacedBy = n]
               /\ token'[n] = [NoRow EXCEPT !.issued = TRUE]
               /\ \A u \in Tokens \ {t, n} : token'[u] = token[u]
<1> DEFINE t == call[c].tok
           n == call[c].new
<1>1. t \in Issued /\ n \in Tokens \ Issued /\ ~token[t].consumed /\ call[c].revokes = {}
    BY DEF RotationInv, HoldsInv, Issued
<1>2. t = session.access
    BY <1>1 DEF RotationInv, ChainInv
<1>3. call[c].session = "touch"
    BY DEF RotationInv, HoldsInv, Commit, At
<1>4. token' = CommittedTokens(call[c])
      /\ session' = [revoked |-> session.revoked, access |-> n]
    <2>1. session.revoked \in BOOLEAN
        BY DEF RotationInv, TypeOK
    <2> QED
        BY <1>3, <2>1 DEF Commit
<1>5. /\ token'[t] = [token[t] EXCEPT !.consumed = TRUE, !.replacedBy = n]
      /\ token'[n] = [NoRow EXCEPT !.issued = TRUE]
      /\ \A u \in Tokens \ {t, n} : token'[u] = token[u]
    BY <1>1, <1>4 DEF CommittedTokens, Issued
<1> QED
    BY <1>1, <1>2, <1>4, <1>5

\* Any other commit: tokens that were issued are revoked, and perhaps the session.
LEMMA RevocationCommits ==
    ASSUME RotationInv, NEW c \in Calls, Commit(c), ~call[c].consumes
    PROVE  /\ session'.access = session.access /\ (session.revoked => session'.revoked)
           /\ session' \in [revoked : BOOLEAN, access : Tokens]
           /\ \A t \in Tokens : token'[t] = token[t]
                 \/ (t \in Issued /\ token'[t] = [token[t] EXCEPT !.revoked = TRUE])
<1>1. call[c].session # "touch" /\ call[c].revokes \subseteq Issued
    BY DEF RotationInv, HoldsInv
<1>2. token' = CommittedTokens(call[c])
      /\ session' = [revoked |-> session.revoked \/ call[c].session = "revoke",
                     access |-> session.access]
    BY <1>1 DEF Commit
<1>3. session \in [revoked : BOOLEAN, access : Tokens]
    BY DEF RotationInv, TypeOK
<1>4. \A t \in Tokens : token'[t] =
          IF t \in call[c].revokes THEN [token[t] EXCEPT !.revoked = TRUE] ELSE token[t]
    BY <1>2 DEF CommittedTokens
<1>5. /\ session'.access = session.access
      /\ session'.revoked = (session.revoked \/ call[c].session = "revoke")
      /\ session' \in [revoked : BOOLEAN, access : Tokens]
    BY <1>2, <1>3
<1>6. session.revoked => session'.revoked
    BY <1>5, Zenon
<1>7. \A t \in Tokens : token'[t] = token[t]
          \/ (t \in Issued /\ token'[t] = [token[t] EXCEPT !.revoked = TRUE])
    <2> TAKE t \in Tokens
    <2>1. CASE t \in call[c].revokes
        <3>1. t \in Issued
            BY <1>1, <2>1
        <3>2. token'[t] = [token[t] EXCEPT !.revoked = TRUE]
            BY <1>4, <2>1
        <3> QED
            BY <3>1, <3>2
    <2>2. CASE t \notin call[c].revokes
        BY <1>4, <2>2
    <2> QED
        BY <2>1, <2>2
<1> QED
    BY <1>5, <1>6, <1>7

LEMMA CommitKeeps ==
    ASSUME RotationInv, NEW c \in Calls, Commit(c)
    PROVE  RotationInv'
<1> DEFINE t == call[c].tok
           n == call[c].new
<1>1. call'[c] = NoCall /\ (\A d \in Calls \ {c} : call'[d] = call[d])
      /\ call' \in [Calls -> CallRecord] /\ verified' \in BOOLEAN
    <2>1. NoCall \in CallRecord
        BY DEF NoCall, CallRecord
    <2> QED
        BY <2>1 DEF Commit, Return, Become, RotationInv, TypeOK
<1>2. token \in [Tokens -> TokenRow] /\ DOMAIN token' = Tokens
    BY DEF RotationInv, TypeOK, Commit, CommittedTokens
<1>3. token' = [u \in Tokens |-> token'[u]]
    BY <1>2 DEF Commit, CommittedTokens
<1>e. ExclusiveInv'
    <2>1. LockedTokens(c)' = {} /\ \A d \in Calls \ {c} : LockedTokens(d)' = LockedTokens(d)
        BY <1>1 DEF LockedTokens, NoCall
    <2> QED
        BY <1>1, <2>1, TokenAssumption DEF RotationInv, ExclusiveInv, NoCall
<1>4. CASE call[c].consumes
    <2>1. /\ t = session.access /\ t \in Issued /\ n \in Tokens \ Issued
          /\ session' = [revoked |-> session.revoked, access |-> n]
          /\ token'[t] = [token[t] EXCEPT !.consumed = TRUE, !.replacedBy = n]
          /\ token'[n] = [NoRow EXCEPT !.issued = TRUE]
          /\ \A u \in Tokens \ {t, n} : token'[u] = token[u]
        BY <1>4, RotationCommits
    <2>2. TypeOK'
        <3>1. t \in Tokens /\ n \in Tokens /\ token[t] \in TokenRow
            BY <1>2, <2>1 DEF Issued
        <3>2. token'[t] \in TokenRow
            BY <2>1, <3>1 DEF TokenRow
        <3>3. token'[n] \in TokenRow
            BY <2>1, <3>1 DEF TokenRow, NoRow
        <3>4. \A u \in Tokens : token'[u] \in TokenRow
            BY <1>2, <2>1, <3>2, <3>3
        <3>5. session' \in [revoked : BOOLEAN, access : Tokens]
            BY <2>1 DEF RotationInv, TypeOK
        <3> QED
            BY <1>1, <1>3, <3>4, <3>5 DEF TypeOK
    <2>3. /\ token'[t].issued /\ token'[t].consumed /\ token'[t].replacedBy = n
          /\ token'[n].issued /\ ~token'[n].consumed /\ token'[n].replacedBy = NoToken
          /\ Issued' = Issued \cup {n} /\ t # n
        <3>1. t \in Tokens /\ n \in Tokens /\ t # n /\ token[t].issued /\ token[t] \in TokenRow
            BY <1>2, <2>1 DEF Issued
        <3>2. token'[t].issued /\ token'[t].consumed /\ token'[t].replacedBy = n
            BY <2>1, <3>1 DEF TokenRow
        <3>3. token'[n].issued /\ ~token'[n].consumed /\ token'[n].replacedBy = NoToken
            BY <2>1, <3>1 DEF NoRow
        <3>4. \A u \in Tokens : token'[u].issued <=> token[u].issued \/ u = n
            BY <2>1, <3>1, <3>2, <3>3
        <3> QED
            BY <3>1, <3>2, <3>3, <3>4 DEF Issued
    <2>c. /\ t \in Issued /\ t \in Tokens /\ n \in Tokens /\ n \notin Issued /\ t = session.access
          /\ session'.access = n
          /\ \A u \in Tokens : u \in Issued <=> token[u].issued
          /\ \A u \in Tokens : u \in Issued' <=> token'[u].issued
          /\ Issued \subseteq Tokens
        BY <2>1 DEF Issued
    <2>d. \A u \in Tokens : u # t /\ u # n => token'[u] = token[u]
        BY <2>1
    <2>4. ChainInv'
        <3>0. ChainInv
            BY DEF RotationInv
        <3>1. token'[FirstToken].issued /\ n # FirstToken
            BY <2>c, <2>d, <2>3, <3>0, TokenAssumption DEF ChainInv
        <3>2. \A u \in Tokens : ~token'[u].issued => token'[u] = NoRow
            BY <2>c, <2>d, <2>3, <3>0 DEF ChainInv
        <3>3. \A u \in Issued' : ~token'[u].consumed => u = n /\ token'[u].replacedBy = NoToken
            BY <2>c, <2>d, <2>3, <3>0 DEF ChainInv
        <3>4. \A u \in Issued' : token'[u].consumed => token'[u].replacedBy \in Issued' \ {u, FirstToken}
            BY <2>c, <2>d, <2>3, <3>0, <3>1 DEF ChainInv
        <3>5. \A u, v \in Issued' : u # v /\ token'[u].consumed =>
                  token'[v].replacedBy # token'[u].replacedBy
            <4> SUFFICES ASSUME NEW u \in Issued', NEW v \in Issued', u # v, token'[u].consumed
                         PROVE  token'[v].replacedBy # token'[u].replacedBy
                OBVIOUS
            <4>1. \A w \in Issued \ {t} : token'[w] = token[w] /\ token[w].consumed
                                          /\ token[w].replacedBy \in Issued
                BY <2>c, <2>d, <3>0 DEF ChainInv
            <4>2. CASE u = t
                BY <2>c, <2>3, <4>1, <4>2, TokenAssumption
            <4>3. CASE v = t
                BY <2>c, <2>3, <4>1, <4>3, TokenAssumption
            <4>4. CASE u # t /\ v # t
                BY <2>c, <2>3, <3>0, <4>1, <4>4, TokenAssumption DEF ChainInv
            <4> QED
                BY <4>2, <4>3, <4>4
        <3> QED
            BY <2>c, <2>3, <3>1, <3>2, <3>3, <3>4, <3>5 DEF ChainInv
    <2>5. HoldsInv'
        <3>0. HoldsInv /\ ExclusiveInv
            BY DEF RotationInv
        <3>1. ASSUME NEW d \in Calls \ {c}
              PROVE  /\ call[d].new \in Tokens => call[d].new # n /\ ~token'[call[d].new].issued
                     /\ call[d].consumes => call[d].tok # t /\ ~token'[call[d].tok].consumed
            <4>1. call[d].new \in Tokens => call[d].new # n /\ call[d].new # t
                BY <2>1, <3>0 DEF HoldsInv, ExclusiveInv, Issued
            <4>2. call[d].consumes => call[d].tok # t
                BY <1>4, <3>0 DEF ExclusiveInv, LockedTokens
            <4>3. call[d].consumes => call[d].tok \in Issued /\ ~token[call[d].tok].consumed
                BY <3>0 DEF HoldsInv
            <4> QED
                BY <2>1, <2>3, <3>0, <4>1, <4>2, <4>3 DEF HoldsInv, Issued
        <3> QED
            BY <1>1, <2>3, <3>0, <3>1, TokenAssumption DEF HoldsInv, NoCall
    <2> QED
        BY <1>e, <2>2, <2>4, <2>5 DEF RotationInv
<1>5. CASE ~call[c].consumes
    <2>1. /\ session'.access = session.access
          /\ session' \in [revoked : BOOLEAN, access : Tokens]
          /\ \A u \in Tokens : token'[u] = token[u]
                \/ (u \in Issued /\ token'[u] = [token[u] EXCEPT !.revoked = TRUE])
        BY <1>5, RevocationCommits
    <2>2. \A u \in Tokens : /\ token'[u] \in TokenRow
                            /\ token'[u].issued = token[u].issued
                            /\ token'[u].consumed = token[u].consumed
                            /\ token'[u].replacedBy = token[u].replacedBy
                            /\ ~token[u].issued => token'[u] = token[u]
        <3> TAKE u \in Tokens
        <3>1. token[u] \in TokenRow
            BY <1>2
        <3>2. CASE token'[u] = token[u]
            BY <3>1, <3>2
        <3>3. CASE u \in Issued /\ token'[u] = [token[u] EXCEPT !.revoked = TRUE]
            BY <3>1, <3>3 DEF TokenRow, Issued
        <3> QED
            BY <2>1, <3>2, <3>3
    <2>3. Issued' = Issued
        BY <2>2 DEF Issued
    <2>4. TypeOK'
        BY <1>1, <1>3, <2>1, <2>2 DEF TypeOK
    <2>5. ChainInv'
        <3>0. ChainInv /\ session.access \in Tokens
            BY DEF RotationInv, TypeOK
        <3> QED
            BY <2>1, <2>2, <2>3, <3>0, TokenAssumption DEF ChainInv, Issued
    <2>6. HoldsInv'
        <3>0. HoldsInv
            BY DEF RotationInv
        <3> QED
            BY <1>1, <2>2, <2>3, <3>0, TokenAssumption DEF HoldsInv, NoCall, Issued
    <2> QED
        BY <1>e, <2>4, <2>5, <2>6 DEF RotationInv
<1> QED
    BY <1>4, <1>5

LEMMA RotationStep == RotationInv /\ [Next]_vars => RotationInv'
<1> SUFFICES ASSUME RotationInv, [Next]_vars PROVE RotationInv'
    OBVIOUS
<1>1. ASSUME NEW c \in Calls, Start(c) \/ Continue(c) PROVE RotationInv'
    BY <1>1, StartKeeps, StatementKeeps, CommitKeeps
<1>2. CASE VerifyEmail \/ UNCHANGED vars
    <2>1. token' = token /\ session' = session /\ call' = call /\ verified' \in BOOLEAN
          /\ Issued' = Issued
        BY <1>2 DEF VerifyEmail, vars, Issued, RotationInv, TypeOK
    <2>2. TypeOK' /\ ChainInv'
        BY <2>1 DEF RotationInv, TypeOK, ChainInv
    <2>3. HoldsInv'
        BY <2>1 DEF RotationInv, HoldsInv
    <2>4. ExclusiveInv'
        BY <2>1 DEF RotationInv, ExclusiveInv, LockedTokens
    <2> QED
        BY <2>2, <2>3, <2>4 DEF RotationInv
<1> QED
    BY <1>1, <1>2 DEF Next

LEMMA RotationInvariant == Spec => []RotationInv
BY RotationInit, RotationStep, PTL DEF Spec

----------------------------------------------------------------------------
\* For every number of calls and tokens: exactly one issued token is unconsumed
\* and each consumed one was replaced by a token of its own, as the UPDATE that
\* consumes is conditional and commits with the insertion (L1026-1092).
THEOREM RotationChain == Spec => []RotationIsAChain
<1>1. RotationInv => RotationIsAChain
    <2> SUFFICES ASSUME RotationInv PROVE RotationIsAChain
        OBVIOUS
    <2>1. ChainInv /\ session.access \in Tokens
        BY DEF RotationInv, TypeOK
    <2>2. {t \in Issued : ~token[t].consumed} = {session.access}
        BY <2>1 DEF ChainInv, Issued
    <2>3. Cardinality({t \in Issued : ~token[t].consumed}) = 1
        BY <2>2, FS_Singleton
    <2>4. \A t \in Issued : token[t].consumed =>
             /\ token[t].replacedBy \in Issued \ {t, FirstToken}
             /\ \A u \in Issued \ {t} : token[u].replacedBy # token[t].replacedBy
        BY <2>1 DEF ChainInv
    <2> QED
        BY <2>3, <2>4 DEF RotationIsAChain, Issued
<1> QED
    BY <1>1, RotationInvariant, PTL

\* A session revoked by signOut, resetPassword or a replayed token stays so, and
\* so do its tokens, whatever rotation commits afterwards: the rotation's UPDATE
\* sets other columns, and the row it inserts is a new one.
THEOREM RevocationFinal == Spec => RevocationIsFinal
<1> DEFINE Final == /\ session.revoked => session'.revoked
                    /\ \A t \in Tokens : token[t].revoked => token'[t].revoked
<1>1. RotationInv /\ [Next]_vars => [Final]_vars
    <2> SUFFICES ASSUME RotationInv, [Next]_vars PROVE Final \/ UNCHANGED vars
        OBVIOUS
    <2>1. ASSUME NEW c \in Calls, Commit(c), call[c].consumes PROVE Final
        <3> DEFINE t == call[c].tok
                   n == call[c].new
        <3>1. /\ t \in Issued /\ n \in Tokens \ Issued
              /\ session' = [revoked |-> session.revoked, access |-> n]
              /\ token'[t] = [token[t] EXCEPT !.consumed = TRUE, !.replacedBy = n]
              /\ \A u \in Tokens \ {t, n} : token'[u] = token[u]
            BY <2>1, RotationCommits
        <3>2. ~token[n].revoked
            <4>1. token[n] = NoRow
                BY <3>1 DEF RotationInv, ChainInv, Issued
            <4> QED
                BY <4>1 DEF NoRow
        <3>3. token'[t].revoked = token[t].revoked
            <4>1. token[t] \in TokenRow
                BY <3>1 DEF RotationInv, TypeOK, Issued
            <4> QED
                BY <3>1, <4>1 DEF TokenRow
        <3>4. session.revoked => session'.revoked
            BY <3>1
        <3>5. \A u \in Tokens : token[u].revoked => token'[u].revoked
            <4> TAKE u \in Tokens
            <4>1. CASE u = t
                BY <3>3, <4>1
            <4>2. CASE u = n
                BY <3>2, <4>2
            <4>3. CASE u # t /\ u # n
                BY <3>1, <4>3
            <4> QED
                BY <4>1, <4>2, <4>3
        <3> QED
            BY <3>4, <3>5
    <2>2. ASSUME NEW c \in Calls, Commit(c), ~call[c].consumes PROVE Final
        <3>1. /\ session.revoked => session'.revoked
              /\ \A t \in Tokens : token'[t] = token[t]
                   \/ (t \in Issued /\ token'[t] = [token[t] EXCEPT !.revoked = TRUE])
            BY <2>2, RevocationCommits
        <3>2. ASSUME NEW t \in Tokens, token[t].revoked PROVE token'[t].revoked
            <4>1. token[t] \in TokenRow
                BY DEF RotationInv, TypeOK
            <4> QED
                BY <3>1, <3>2, <4>1 DEF TokenRow
        <3> QED
            BY <3>1, <3>2
    <2>3. ASSUME NEW c \in Calls, Start(c) \/ Continue(c) PROVE Commit(c) \/ OnlyCall
        BY <2>3 DEF Start, Continue, StartReplay, StartRefresh, StartSignOut, StartResetPassword,
           ReadSession, ReadIdentity, ConsumeToken, RotationConflict, TouchSession, Snapshot,
           RevokeToken, TokensRevoked, RevokeSession, AbortDeadlocked
    <2>4. CASE OnlyCall \/ VerifyEmail \/ UNCHANGED vars
        BY <2>4 DEF OnlyCall, VerifyEmail, vars
    <2> QED
        BY <2>1, <2>2, <2>3, <2>4 DEF Next
<1> QED
    BY <1>1, RotationInvariant, PTL DEF Spec, RevocationIsFinal

\* Every commit is one step of the abstract session: the rotation spends the
\* access token and replaces it by one never spent, a revocation touches neither,
\* and every other step of a call leaves the session as it was.
THEOREM SessionRefined == Spec => SessionImplemented
<1> DEFINE spent == {t \in Tokens : token[t].consumed}
<1>1. Init => Life!SessionInit
    BY TokenAssumption DEF Init, Life!SessionInit, NoRow
<1>2. RotationInv /\ [Next]_vars =>
          [(\E t \in Tokens : Life!Rotate(t)) \/ Life!Revoke]_(Life!lifeVars)
    <2> SUFFICES ASSUME RotationInv, [Next]_vars
                 PROVE  (\E t \in Tokens : Life!Rotate(t)) \/ Life!Revoke
                        \/ (session' = session /\ spent' = spent)
        BY DEF Life!lifeVars
    <2>1. ASSUME NEW c \in Calls, Commit(c), call[c].consumes
          PROVE  \E t \in Tokens : Life!Rotate(t)
        <3> DEFINE t == call[c].tok
                   n == call[c].new
        <3>1. /\ t = session.access /\ t \in Issued /\ n \in Tokens \ Issued
              /\ session' = [revoked |-> session.revoked, access |-> n]
              /\ token'[t] = [token[t] EXCEPT !.consumed = TRUE, !.replacedBy = n]
              /\ token'[n] = [NoRow EXCEPT !.issued = TRUE]
              /\ \A u \in Tokens \ {t, n} : token'[u] = token[u]
            BY <2>1, RotationCommits
        <3>2. token'[t].consumed /\ ~token'[n].consumed /\ ~token[n].consumed
            <4>1. token[t] \in TokenRow
                BY <3>1 DEF RotationInv, TypeOK, Issued
            <4>2. token[n] = NoRow
                BY <3>1 DEF RotationInv, ChainInv, Issued
            <4>3. token'[t].consumed
                BY <3>1, <4>1 DEF TokenRow
            <4> QED
                BY <3>1, <4>2, <4>3 DEF NoRow
        <3>3. t \in Tokens /\ n \in Tokens /\ n # t
            BY <3>1 DEF Issued
        <3>4. \A u \in Tokens : token'[u].consumed <=> token[u].consumed \/ u = t
            <4> TAKE u \in Tokens
            <4>1. CASE u = t
                BY <3>2, <4>1
            <4>2. CASE u = n
                BY <3>2, <3>3, <4>2
            <4>3. CASE u # t /\ u # n
                BY <3>1, <4>3
            <4> QED
                BY <4>1, <4>2, <4>3
        <3>5. spent' = spent \cup {session.access}
            BY <3>1, <3>3, <3>4
        <3>6. session' = [session EXCEPT !.access = n]
            BY <3>1 DEF RotationInv, TypeOK
        <3>7. n \in Tokens \ (spent \cup {session.access})
            BY <3>1, <3>2, <3>3
        <3> QED
            BY <3>5, <3>6, <3>7 DEF Life!Rotate
    <2>2. ASSUME NEW c \in Calls, Commit(c), ~call[c].consumes
          PROVE  Life!Revoke \/ (session' = session /\ spent' = spent)
        <3>1. /\ session'.access = session.access /\ (session.revoked => session'.revoked)
              /\ session' \in [revoked : BOOLEAN, access : Tokens]
              /\ \A t \in Tokens : token'[t] = token[t]
                   \/ (t \in Issued /\ token'[t] = [token[t] EXCEPT !.revoked = TRUE])
            BY <2>2, RevocationCommits
        <3>2. \A t \in Tokens : token'[t].consumed = token[t].consumed
            <4> TAKE t \in Tokens
            <4>1. token[t] \in TokenRow
                BY DEF RotationInv, TypeOK
            <4> QED
                BY <3>1, <4>1 DEF TokenRow
        <3>3. spent' = spent
            BY <3>2
        <3>4. session' = session \/ session' = [session EXCEPT !.revoked = TRUE]
            BY <3>1 DEF RotationInv, TypeOK
        <3> QED
            BY <3>3, <3>4 DEF Life!Revoke
    <2>3. ASSUME NEW c \in Calls, Start(c) \/ Continue(c) PROVE Commit(c) \/ OnlyCall
        BY <2>3 DEF Start, Continue, StartReplay, StartRefresh, StartSignOut, StartResetPassword,
           ReadSession, ReadIdentity, ConsumeToken, RotationConflict, TouchSession, Snapshot,
           RevokeToken, TokensRevoked, RevokeSession, AbortDeadlocked
    <2>4. CASE OnlyCall \/ VerifyEmail \/ UNCHANGED vars
        BY <2>4 DEF OnlyCall, VerifyEmail, vars
    <2> QED
        BY <2>1, <2>2, <2>3, <2>4 DEF Next
<1> QED
    BY <1>1, <1>2, RotationInvariant, PTL DEF Spec, SessionImplemented, Life!SessionSpec
=============================================================================
