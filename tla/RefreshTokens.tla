----------------------------- MODULE RefreshTokens -----------------------------
(***************************************************************************)
(* Logins and the rotation of their refresh tokens: AuthService            *)
(* (backend/internal/app/auth.go) over the refresh_tokens table            *)
(* (backend/internal/adapter/postgres/token_store.go).                     *)
(*                                                                         *)
(* One browser with several tabs and one cookie.  A tab sends a request    *)
(* with the cookie of that moment; the statements of the requests          *)
(* interleave, and answers come in any order or not at all.  A row of the  *)
(* table is a token that was issued; its family is the login it goes back  *)
(* to.                                                                     *)
(***************************************************************************)
EXTENDS Integers, FiniteSets

CONSTANTS
    Tabs,
    MaxTokens,  \* bound on the tokens issued
    MaxLogins,  \* bound on the logins completed
    None        \* no token, no family

ASSUME ConstantsAssumption ==
    /\ MaxTokens \in Nat /\ MaxLogins \in Nat
    /\ None \notin Nat

VARIABLES
    rows,     \* refresh_tokens: what is known of each token that has a row
    issued,   \* tokens issued so far
    logins,   \* logins completed so far
    state,    \* the OAuth state of the login in progress is in the cache
    code,     \* GitHub has not yet exchanged its code
    request,  \* what each tab's request is about to do
    cookie,   \* the token in the browser's jar
    revoked,  \* families RevokeFamily was called for
    calm      \* requests never overlapped, failed or lost their answer

vars == <<rows, issued, logins, state, code, request, cookie, revoked, calm>>

Tokens   == 1..MaxTokens
Families == 1..MaxLogins
Row      == [family: Families, used: BOOLEAN, expired: BOOLEAN]

Rest == [step |-> "rest", token |-> None, family |-> None]
Busy == {t \in Tabs : request[t].step # "rest"}

Found(t)  == request[t].token \in DOMAIN rows
Stored(t) == rows[request[t].token]

\* RefreshToken.Usable; what was used is reported so even when it has expired too.
Reused(row) == row.used
Usable(row) == ~row.used /\ ~row.expired

Without(S) == [k \in DOMAIN rows \ S |-> rows[k]]
FamilyRows(f) == {k \in DOMAIN rows : rows[k].family = f}

Goto(t, step) == request' = [request EXCEPT ![t].step = step]
Finish(t, token) ==
    request' = [request EXCEPT ![t] = [step |-> "answer", token |-> token, family |-> None]]

-----------------------------------------------------------------------------
(***************************************************************************)
(* The login.                                                              *)
(***************************************************************************)
BeginLogin ==
    /\ Busy = {}
    /\ ~state
    /\ state' = TRUE /\ code' = TRUE
    /\ UNCHANGED <<rows, issued, logins, request, cookie, revoked, calm>>

\* The callback comes once, or again when the page is reloaded.  consumeState reads
\* the state first ...
Callback(t) ==
    /\ request[t] = Rest
    /\ state
    /\ Goto(t, "state")
    /\ calm' = (calm /\ Busy = {})
    /\ UNCHANGED <<rows, issued, logins, state, code, cookie, revoked>>

\* ... and removes it.
ConsumeState(t) ==
    /\ request[t].step = "state"
    /\ state' = FALSE
    /\ Goto(t, "exchange")
    /\ UNCHANGED <<rows, issued, logins, code, cookie, revoked, calm>>

\* GitHub exchanges the code once; the user is upserted and the session gets a new
\* family.
CompleteLogin(t) ==
    /\ request[t].step = "exchange"
    /\ code /\ logins < MaxLogins
    /\ code' = FALSE
    /\ logins' = logins + 1
    /\ request' = [request EXCEPT ![t] = [step |-> "issue", token |-> None,
                                         family |-> logins + 1]]
    /\ UNCHANGED <<rows, issued, state, cookie, revoked, calm>>

\* The state has expired, or the user does not come back from GitHub.
StateExpires ==
    /\ state
    /\ state' = FALSE
    /\ UNCHANGED <<rows, issued, logins, code, request, cookie, revoked, calm>>

-----------------------------------------------------------------------------
(***************************************************************************)
(* Refresh.                                                                *)
(***************************************************************************)
\* A tab sends the cookie.
Present(t, step) ==
    /\ request[t] = Rest
    /\ cookie # None
    /\ request' = [request EXCEPT ![t] = [step |-> step, token |-> cookie, family |-> None]]
    /\ calm' = (calm /\ Busy = {})
    /\ UNCHANGED <<rows, issued, logins, state, code, cookie, revoked>>

\* The row is read, and what it says decides.
Look(t) ==
    /\ request[t].step = "refresh"
    /\ \/ /\ Found(t) /\ Usable(Stored(t))
          /\ request' = [request EXCEPT ![t].step = "mark", ![t].family = Stored(t).family]
       \/ /\ Found(t) /\ Reused(Stored(t))
          /\ request' = [request EXCEPT ![t].step = "revoke", ![t].family = Stored(t).family]
       \/ /\ ~(Found(t) /\ (Usable(Stored(t)) \/ Reused(Stored(t))))
          /\ Finish(t, None)
    /\ UNCHANGED <<rows, issued, logins, state, code, cookie, revoked, calm>>

\* Faulty: the UPDATE that changed no row is taken for a success.
MarkUsedUnchecked(t) ==
    /\ request[t].step = "mark"
    /\ rows' = [k \in DOMAIN rows |-> IF k = request[t].token
                                      THEN [rows[k] EXCEPT !.used = TRUE] ELSE rows[k]]
    /\ Goto(t, "issue")
    /\ UNCHANGED <<issued, logins, state, code, cookie, revoked, calm>>

\* MarkUsed is one UPDATE that only an unused row survives: whoever loses a race, or
\* finds the row deleted, treats it as a reuse.
MarkUsed(t) ==
    /\ request[t].step = "mark"
    /\ \/ /\ Found(t) /\ ~Stored(t).used
          /\ rows' = [rows EXCEPT ![request[t].token].used = TRUE]
          /\ Goto(t, "issue")
       \/ /\ ~(Found(t) /\ ~Stored(t).used)
          /\ Goto(t, "revoke")
          /\ UNCHANGED rows
    /\ UNCHANGED <<issued, logins, state, code, cookie, revoked, calm>>

\* Faulty: the replacement starts a family of its own, here that of the last login.
IssueInLastFamily(t) ==
    /\ request[t].step = "issue"
    /\ issued < MaxTokens
    /\ issued' = issued + 1
    /\ rows' = [k \in DOMAIN rows \cup {issued'} |->
                    IF k = issued'
                    THEN [family |-> logins, used |-> FALSE, expired |-> FALSE]
                    ELSE rows[k]]
    /\ Finish(t, issued')
    /\ UNCHANGED <<logins, state, code, cookie, revoked, calm>>

\* issueSession: the replacement, or the first token, of the family.
IssueSession(t) ==
    /\ request[t].step = "issue"
    /\ issued < MaxTokens
    /\ issued' = issued + 1
    /\ rows' = [k \in DOMAIN rows \cup {issued'} |->
                    IF k = issued'
                    THEN [family |-> request[t].family, used |-> FALSE, expired |-> FALSE]
                    ELSE rows[k]]
    /\ Finish(t, issued')
    /\ UNCHANGED <<logins, state, code, cookie, revoked, calm>>

-----------------------------------------------------------------------------
(***************************************************************************)
(* Logout, and what both need.                                             *)
(***************************************************************************)
\* A token without a row has nothing to revoke, and one whose row cannot be read is
\* taken for such (Refuse).
LookForLogout(t) ==
    /\ request[t].step = "logout"
    /\ \/ /\ Found(t)
          /\ request' = [request EXCEPT ![t].step = "end", ![t].family = Stored(t).family]
       \/ /\ ~Found(t)
          /\ Finish(t, None)
    /\ UNCHANGED <<rows, issued, logins, state, code, cookie, revoked, calm>>

\* Faulty: only the token that was presented goes.
RevokeToken(t) ==
    /\ request[t].step \in {"revoke", "end"}
    /\ rows' = Without({request[t].token})
    /\ revoked' = revoked \cup {request[t].family}
    /\ Finish(t, None)
    /\ UNCHANGED <<issued, logins, state, code, cookie, calm>>

\* RevokeFamily deletes the lineage; the answer clears the cookie.
RevokeFamily(t) ==
    /\ request[t].step \in {"revoke", "end"}
    /\ rows' = Without(FamilyRows(request[t].family))
    /\ revoked' = revoked \cup {request[t].family}
    /\ Finish(t, None)
    /\ UNCHANGED <<issued, logins, state, code, cookie, calm>>

\* The browser stores the cookie of the answer, or clears it.
Answer(t) ==
    /\ request[t].step = "answer"
    /\ cookie' = request[t].token
    /\ request' = [request EXCEPT ![t] = Rest]
    /\ UNCHANGED <<rows, issued, logins, state, code, revoked, calm>>

\* The request fails on the database, its instance dies, or the answer is lost.
Fail(t) ==
    /\ request[t].step # "rest"
    /\ request' = [request EXCEPT ![t] = Rest]
    /\ calm' = FALSE
    /\ UNCHANGED <<rows, issued, logins, state, code, cookie, revoked>>

\* A statement of a refresh fails, or the look of a logout does: both are answered,
\* the logout with success, and the answer clears the cookie.
Refuse(t) ==
    /\ request[t].step \in {"refresh", "mark", "issue", "revoke", "logout"}
    /\ request[t].token # None
    /\ Finish(t, None)
    /\ calm' = FALSE
    /\ UNCHANGED <<rows, issued, logins, state, code, cookie, revoked>>

TokenExpires(k) ==
    /\ k \in DOMAIN rows /\ ~rows[k].expired
    /\ rows' = [rows EXCEPT ![k].expired = TRUE]
    /\ UNCHANGED <<issued, logins, state, code, request, cookie, revoked, calm>>

\* The maintenance job.
DeleteExpired ==
    LET gone == {k \in DOMAIN rows : rows[k].expired}
    IN  /\ gone # {}
        /\ rows' = Without(gone)
        /\ UNCHANGED <<issued, logins, state, code, request, cookie, revoked, calm>>

-----------------------------------------------------------------------------
Init ==
    /\ rows = [k \in {} |-> [family |-> None, used |-> FALSE, expired |-> FALSE]]
    /\ issued = 0
    /\ logins = 0
    /\ state = FALSE
    /\ code = FALSE
    /\ request = [t \in Tabs |-> Rest]
    /\ cookie = None
    /\ revoked = {}
    /\ calm = TRUE

Login(t)   == Callback(t) \/ ConsumeState(t) \/ CompleteLogin(t)
Refresh(t) == Present(t, "refresh") \/ Look(t) \/ MarkUsed(t) \/ IssueSession(t)
Logout(t)  == Present(t, "logout") \/ LookForLogout(t) \/ RevokeFamily(t)

Next ==
    \/ BeginLogin \/ StateExpires
    \/ \E t \in Tabs : Login(t) \/ Refresh(t) \/ Logout(t) \/ Answer(t) \/ Fail(t) \/ Refuse(t)
    \/ \E k \in Tokens : TokenExpires(k)
    \/ DeleteExpired

Spec == Init /\ [][Next]_vars

-----------------------------------------------------------------------------
(***************************************************************************)
(* Properties.                                                             *)
(***************************************************************************)
\* Type invariant.
TypeOK ==
    /\ DOMAIN rows \subseteq 1..issued
    /\ \A k \in DOMAIN rows : rows[k] \in Row
    /\ issued \in 0..MaxTokens
    /\ logins \in 0..MaxLogins
    /\ state \in BOOLEAN
    /\ code \in BOOLEAN
    /\ request \in [Tabs -> [step: {"rest", "state", "exchange", "refresh", "mark",
                                    "issue", "logout", "revoke", "end", "answer"},
                             token: Tokens \cup {None},
                             family: Families \cup {None}]]
    /\ cookie \in (1..issued) \cup {None}
    /\ revoked \subseteq Families
    /\ calm \in BOOLEAN

Fresh(f)   == {k \in FamilyRows(f) : ~rows[k].used}
Issuing(f) == {t \in Tabs : request[t].step = "issue" /\ request[t].family = f}

\* The lineage never forks: a login has at most one token that can still be exchanged,
\* counting the one a request has earned by using the last up.
LineageIsLinear ==
    \A f \in Families : Cardinality(Fresh(f)) + Cardinality(Issuing(f)) <= 1

\* Nothing refers to a token that was not issued or a login that was not completed.
Known ==
    /\ \A t \in Tabs : request[t].token \in (1..issued) \cup {None}
    /\ \A t \in Tabs : request[t].step \in {"mark", "issue", "revoke", "end"}
                       => request[t].family \in 1..logins
    /\ \A k \in DOMAIN rows : rows[k].family \in 1..logins
    /\ revoked \subseteq 1..logins

\* A request that acts on a token knows its family; all tokens of a
\* family but the youngest are used, and that one too while a request owes the next.
Lineage ==
    /\ \A t \in Tabs : request[t].step \in {"mark", "revoke", "end"} /\ Found(t)
                       => Stored(t).family = request[t].family
    /\ \A j, k \in DOMAIN rows :
          rows[j].family = rows[k].family /\ j < k => rows[j].used
    /\ \A t \in Tabs : request[t].step = "issue" =>
          /\ \A k \in FamilyRows(request[t].family) : rows[k].used
          /\ \A u \in Issuing(request[t].family) : u = t

\* The login is over: revoked, and no request has used a token up and owes a new one.
Over(f) == f \in revoked /\ FamilyRows(f) = {} /\ Issuing(f) = {}

\* A login that is over stays over, whatever requests of it are still on their way.
RevokedStaysRevoked == [][\A f \in Families : Over(f) => Over(f)']_vars

\* As long as the tabs take turns and every answer arrives, the cookie is the token
\* that can be exchanged next, or has run out, so that no refresh ends its own session;
\* and a logout leaves nothing that could be.
TurnsAreClean ==
    calm => /\ Busy = {} /\ cookie \in DOMAIN rows => ~rows[cookie].used
            /\ \A f \in revoked : FamilyRows(f) = {}

\* While they do, one request is on its way at a time, what it presents or brings back
\* is not used, and a family that was revoked is owed nothing.
InTurn ==
    calm => /\ \A t, u \in Busy : t = u
            /\ \A t \in Tabs : request[t].step \in {"refresh", "answer"} /\ Found(t)
                              => ~Stored(t).used
            /\ \A f \in revoked : Issuing(f) = {}

IInv == TypeOK /\ LineageIsLinear /\ Known /\ Lineage /\ InTurn

(***************************************************************************)
(* What the documentation says and the code does not do.                   *)
(***************************************************************************)
\* auth.go:176 "Delete immediately so a concurrent replay of the same callback fails.":
\* not if both have read the state; that GitHub exchanges the code once is what stops
\* the second.
ReplayFails ==
    \A t, u \in Tabs :
        request[t].step = "exchange" /\ request[u].step = "exchange" => t = u

\* auth.go:299 "Revokes the family rather than the single token so logging out ... does
\* not leave a rotation lineage alive that could still be refreshed.": not if a refresh
\* of another tab is between MarkUsed and Create, nor if the token cannot be read.
RevokedIsGone == \A f \in revoked : FamilyRows(f) = {}

=============================================================================
