-------------------------- MODULE RefreshTokensProofs --------------------------
(***************************************************************************)
(* Proofs about RefreshTokens, for any number of tabs, logins and tokens.  *)
(***************************************************************************)
EXTENDS RefreshTokens, FiniteSetTheorems, TLAPS

Steps == {"rest", "state", "exchange", "refresh", "mark", "issue", "logout", "revoke",
          "end", "answer"}
Requests == [step: Steps, token: Tokens \cup {None}, family: Families \cup {None}]

\* What the steps preserve; that lineages are linear follows.
Inductive == TypeOK /\ Known /\ Lineage /\ TurnsAreClean /\ InTurn

\* An empty table agrees with itself.
LEMMA Initially == Init => Inductive
<1> SUFFICES ASSUME Init PROVE Inductive
  OBVIOUS
<1>1. DOMAIN rows = {}
  BY DEF Init
<1>2. TypeOK
  <2>1. request \in [Tabs -> Requests]
    BY DEF Init, Rest, Steps, Requests
  <2>2. issued \in 0..MaxTokens /\ logins \in 0..MaxLogins
    BY ConstantsAssumption DEF Init
  <2>3. DOMAIN rows \subseteq 1..issued /\ \A k \in DOMAIN rows : rows[k] \in Row
    BY <1>1
  <2> QED
    BY <2>1, <2>2, <2>3 DEF Init, TypeOK, Steps, Requests
<1>3. Known /\ Lineage
  BY <1>1 DEF Init, Known, Lineage, Rest, FamilyRows, Issuing, Found, Stored
<1>4. TurnsAreClean /\ InTurn
  BY <1>1 DEF Init, TurnsAreClean, InTurn, Busy, Rest, Issuing, Found, Stored
<1> QED
  BY <1>2, <1>3, <1>4 DEF Inductive

\* A request that goes on to its next step keeps its token and its family, and no other
\* request moves.
LEMMA Moved ==
    ASSUME TypeOK, NEW t \in Tabs, NEW step \in Steps, Goto(t, step)
    PROVE  /\ request' \in [Tabs -> Requests]
           /\ request'[t].step = step
           /\ request'[t].token = request[t].token
           /\ request'[t].family = request[t].family
           /\ \A u \in Tabs \ {t} : request'[u] = request[u]
BY DEF TypeOK, Goto, Steps, Requests

\* A request that is about to be answered brings back one token, or none.
LEMMA Finished ==
    ASSUME TypeOK, NEW t \in Tabs, NEW token \in Tokens \cup {None}, Finish(t, token)
    PROVE  /\ request' \in [Tabs -> Requests]
           /\ request'[t].step = "answer"
           /\ request'[t].token = token
           /\ request'[t].family = None
           /\ \A u \in Tabs \ {t} : request'[u] = request[u]
BY DEF TypeOK, Finish, Steps, Requests

\* No step leaves the types.
LEMMA TypeStep == TypeOK /\ Known /\ [Next]_vars => TypeOK'
<1> SUFFICES ASSUME TypeOK, Known, [Next]_vars PROVE TypeOK'
  OBVIOUS
<1> USE ConstantsAssumption DEF TypeOK, Steps, Requests, Tokens, Families, Row
<1>1. CASE BeginLogin \/ StateExpires
  BY <1>1 DEF BeginLogin, StateExpires
<1>2. ASSUME NEW t \in Tabs, Callback(t) PROVE TypeOK'
  BY <1>2, Moved DEF Callback
<1>3. ASSUME NEW t \in Tabs, ConsumeState(t) PROVE TypeOK'
  BY <1>3, Moved DEF ConsumeState
<1>4. ASSUME NEW t \in Tabs, CompleteLogin(t) PROVE TypeOK'
  <2>1. logins + 1 \in 1..MaxLogins /\ logins' \in 0..MaxLogins
    BY <1>4 DEF CompleteLogin
  <2>2. request' \in [Tabs -> Requests]
    BY <1>4, <2>1 DEF CompleteLogin
  <2> QED
    BY <1>4, <2>1, <2>2 DEF CompleteLogin
<1>5. ASSUME NEW t \in Tabs, Present(t, "refresh") \/ Present(t, "logout") PROVE TypeOK'
  <2>1. cookie \in Tokens
    BY <1>5 DEF Present
  <2>2. request' \in [Tabs -> Requests]
    BY <1>5, <2>1 DEF Present
  <2> QED
    BY <1>5, <2>2 DEF Present
<1>6. ASSUME NEW t \in Tabs, Look(t) PROVE TypeOK'
  BY <1>6 DEF Look, Finish, Found, Stored
<1>7. ASSUME NEW t \in Tabs, MarkUsed(t) PROVE TypeOK'
  <2>1. request' \in [Tabs -> Requests]
    BY <1>7, Moved DEF MarkUsed
  <2>2. DOMAIN rows' = DOMAIN rows /\ \A k \in DOMAIN rows : rows'[k] \in Row
    BY <1>7 DEF MarkUsed, Found, Stored
  <2> QED
    BY <1>7, <2>1, <2>2 DEF MarkUsed
<1>8. ASSUME NEW t \in Tabs, IssueSession(t) PROVE TypeOK'
  <2>1. issued' = issued + 1 /\ issued' \in 1..MaxTokens
    BY <1>8 DEF IssueSession
  <2>2. request' \in [Tabs -> Requests]
    BY <1>8, <2>1, Finished DEF IssueSession
  <2>3. request[t].family \in Families
    BY <1>8 DEF IssueSession, Known
  <2>4. DOMAIN rows' = DOMAIN rows \cup {issued'}
    BY <1>8 DEF IssueSession
  <2>5. ASSUME NEW k \in DOMAIN rows' PROVE rows'[k] \in Row
    BY <1>8, <2>3, <2>4, <2>5 DEF IssueSession
  <2>6. DOMAIN rows' \subseteq 1..issued'
    BY <2>1, <2>4
  <2>7. cookie' \in (1..issued') \cup {None}
    BY <1>8, <2>1 DEF IssueSession
  <2>8. UNCHANGED <<logins, state, code, revoked, calm>>
    BY <1>8 DEF IssueSession
  <2> QED
    BY <2>1, <2>2, <2>5, <2>6, <2>7, <2>8
<1>9. ASSUME NEW t \in Tabs, LookForLogout(t) PROVE TypeOK'
  BY <1>9 DEF LookForLogout, Finish, Found, Stored
<1>10. ASSUME NEW t \in Tabs, RevokeFamily(t) PROVE TypeOK'
  <2>1. request' \in [Tabs -> Requests]
    BY <1>10, Finished DEF RevokeFamily
  <2>2. DOMAIN rows' \subseteq DOMAIN rows /\ \A k \in DOMAIN rows' : rows'[k] = rows[k]
    BY <1>10 DEF RevokeFamily, Without
  <2>3. revoked' \subseteq Families
    <3>1. request[t].family \in Families
      BY <1>10 DEF RevokeFamily, Known
    <3> QED
      BY <1>10, <3>1 DEF RevokeFamily
  <2> QED
    BY <1>10, <2>1, <2>2, <2>3 DEF RevokeFamily
<1>11. ASSUME NEW t \in Tabs, Answer(t) PROVE TypeOK'
  BY <1>11 DEF Answer, Rest, Known
<1>12. ASSUME NEW t \in Tabs, Fail(t) PROVE TypeOK'
  BY <1>12 DEF Fail, Rest
<1>13. ASSUME NEW t \in Tabs, Refuse(t) PROVE TypeOK'
  BY <1>13, Finished DEF Refuse
<1>14. ASSUME NEW k \in Tokens, TokenExpires(k) PROVE TypeOK'
  BY <1>14 DEF TokenExpires
<1>15. CASE DeleteExpired
  BY <1>15 DEF DeleteExpired, Without
<1>16. CASE UNCHANGED vars
  BY <1>16 DEF vars
<1> QED
  BY <1>1, <1>2, <1>3, <1>4, <1>5, <1>6, <1>7, <1>8, <1>9, <1>10, <1>11, <1>12, <1>13,
     <1>14, <1>15, <1>16 DEF Next, Login, Refresh, Logout

\* No row changes but for its expiry, and none is added.
Kept ==
    /\ DOMAIN rows' \subseteq DOMAIN rows
    /\ \A k \in DOMAIN rows' :
          rows'[k].family = rows[k].family /\ rows'[k].used = rows[k].used

\* Of the requests that act on a family none is new.
NoneBegins ==
    \A u \in Tabs : request'[u].step \in {"mark", "issue", "revoke", "end"}
                    => request'[u] = request[u]

\* Most steps do neither.
LEMMA QuietSteps ==
    ASSUME TypeOK,
           \/ BeginLogin \/ StateExpires \/ DeleteExpired \/ UNCHANGED vars
           \/ \E k \in Tokens : TokenExpires(k)
           \/ \E t \in Tabs : \/ Callback(t) \/ ConsumeState(t)
                              \/ Present(t, "refresh") \/ Present(t, "logout")
                              \/ RevokeFamily(t) \/ Answer(t) \/ Fail(t) \/ Refuse(t)
    PROVE  Kept /\ NoneBegins
<1> USE DEF Kept, NoneBegins
<1>1. CASE BeginLogin \/ StateExpires \/ UNCHANGED vars
  BY <1>1 DEF BeginLogin, StateExpires, vars
<1>2. CASE DeleteExpired
  BY <1>2 DEF DeleteExpired, Without
<1>3. ASSUME NEW k \in Tokens, TokenExpires(k) PROVE Kept /\ NoneBegins
  BY <1>3 DEF TokenExpires, TypeOK, Row
<1>4. ASSUME NEW t \in Tabs, Callback(t) \/ ConsumeState(t) PROVE Kept /\ NoneBegins
  BY <1>4, Moved DEF Callback, ConsumeState, Steps
<1>5. ASSUME NEW t \in Tabs, Present(t, "refresh") \/ Present(t, "logout")
      PROVE  Kept /\ NoneBegins
  BY <1>5 DEF Present, TypeOK
<1>6. ASSUME NEW t \in Tabs, RevokeFamily(t) PROVE Kept /\ NoneBegins
  <2>1. Kept
    BY <1>6 DEF RevokeFamily, Without
  <2>2. NoneBegins
    BY <1>6 DEF RevokeFamily, Finish, TypeOK
  <2> QED
    BY <2>1, <2>2
<1>7. ASSUME NEW t \in Tabs, Answer(t) \/ Fail(t) \/ Refuse(t) PROVE Kept /\ NoneBegins
  BY <1>7 DEF Answer, Fail, Refuse, Rest, Finish, TypeOK
<1> QED
  BY <1>1, <1>2, <1>3, <1>4, <1>5, <1>6, <1>7

\* What is known stays known.
LEMMA KnownStep == Inductive /\ TypeOK' /\ [Next]_vars => Known'
<1> SUFFICES ASSUME TypeOK, TypeOK', Known, [Next]_vars PROVE Known'
  BY DEF Inductive
<1> USE ConstantsAssumption DEF Known
<1>1. CASE BeginLogin \/ StateExpires \/ UNCHANGED vars
  BY <1>1 DEF BeginLogin, StateExpires, vars
<1>2. ASSUME NEW t \in Tabs, Callback(t) \/ ConsumeState(t) PROVE Known'
  BY <1>2, Moved DEF Callback, ConsumeState, Steps
<1>3. ASSUME NEW t \in Tabs, CompleteLogin(t) PROVE Known'
  <2>1. 1..logins \subseteq 1..logins' /\ logins + 1 \in 1..logins'
    BY <1>3 DEF CompleteLogin, TypeOK
  <2>2. \A u \in Tabs : request'[u] = request[u]
                        \/ /\ request'[u].token = None
                           /\ request'[u].family = logins + 1
    <3>1. request'[t].token = None /\ request'[t].family = logins + 1
      BY <1>3 DEF CompleteLogin, TypeOK
    <3>2. \A u \in Tabs \ {t} : request'[u] = request[u]
      BY <1>3 DEF CompleteLogin, TypeOK
    <3> QED
      BY <3>1, <3>2
  <2>3. UNCHANGED <<rows, issued, revoked>>
    BY <1>3 DEF CompleteLogin
  <2> QED
    BY <2>1, <2>2, <2>3
<1>4. ASSUME NEW t \in Tabs, Present(t, "refresh") \/ Present(t, "logout") PROVE Known'
  BY <1>4 DEF Present, TypeOK
<1>5. ASSUME NEW t \in Tabs, Look(t) \/ LookForLogout(t) PROVE Known'
  BY <1>5 DEF Look, LookForLogout, Finish, Found, Stored, TypeOK
<1>6. ASSUME NEW t \in Tabs, MarkUsed(t) PROVE Known'
  <2>1. \A u \in Tabs : /\ request'[u].token = request[u].token
                        /\ request'[u].family = request[u].family
                        /\ u # t => request'[u].step = request[u].step
    BY <1>6, Moved DEF MarkUsed, Steps
  <2>2. DOMAIN rows' = DOMAIN rows
        /\ \A k \in DOMAIN rows : rows'[k].family = rows[k].family
    BY <1>6 DEF MarkUsed, TypeOK, Row
  <2>3. request[t].family \in 1..logins /\ UNCHANGED <<issued, logins, revoked>>
    BY <1>6 DEF MarkUsed
  <2>4. ASSUME NEW u \in Tabs, request'[u].step \in {"mark", "issue", "revoke", "end"}
        PROVE  request'[u].family \in 1..logins
    <3>1. CASE u = t
      BY <2>1, <2>3, <3>1
    <3>2. CASE u # t
      BY <2>1, <2>4, <3>2
    <3> QED
      BY <3>1, <3>2
  <2> QED
    BY <2>1, <2>2, <2>3, <2>4
<1>7. ASSUME NEW t \in Tabs, IssueSession(t) PROVE Known'
  <2>1. issued' = issued + 1 /\ issued' \in Tokens
    BY <1>7 DEF IssueSession, TypeOK, Tokens
  <2>2. \A u \in Tabs : request'[u] = request[u]
                        \/ /\ request'[u].token = issued'
                           /\ request'[u].step = "answer"
    <3>1. Finish(t, issued')
      BY <1>7 DEF IssueSession
    <3> QED
      BY <2>1, <3>1, Finished
  <2>3. DOMAIN rows' = DOMAIN rows \cup {issued'}
        /\ \A k \in DOMAIN rows' : rows'[k].family = IF k = issued' THEN request[t].family
                                                    ELSE rows[k].family
    BY <1>7 DEF IssueSession
  <2>4. 1..issued \subseteq 1..issued' /\ issued' \in 1..issued'
    BY <2>1 DEF TypeOK
  <2>5. request[t].family \in 1..logins /\ UNCHANGED <<logins, revoked>>
    BY <1>7 DEF IssueSession
  <2> QED
    BY <2>2, <2>3, <2>4, <2>5
<1>8. ASSUME NEW t \in Tabs, RevokeFamily(t) PROVE Known'
  <2>1. Kept /\ NoneBegins
    BY <1>8, QuietSteps
  <2>2. \A u \in Tabs : request'[u] = request[u] \/ request'[u].token = None
    <3>1. Finish(t, None)
      BY <1>8 DEF RevokeFamily
    <3> QED
      BY <3>1, Finished
  <2>3. request[t].family \in 1..logins
    BY <1>8 DEF RevokeFamily
  <2> QED
    BY <1>8, <2>1, <2>2, <2>3 DEF RevokeFamily, Kept, NoneBegins
<1>9. ASSUME NEW t \in Tabs, Answer(t) \/ Fail(t) \/ Refuse(t) PROVE Known'
  BY <1>9 DEF Answer, Fail, Refuse, Rest, Finish, TypeOK
<1>10. CASE DeleteExpired \/ \E k \in Tokens : TokenExpires(k)
  <2>1. Kept
    BY <1>10, QuietSteps
  <2>2. UNCHANGED <<request, issued, logins, revoked>>
    BY <1>10 DEF DeleteExpired, TokenExpires
  <2> QED
    BY <2>1, <2>2 DEF Kept
<1> QED
  BY <1>1, <1>2, <1>3, <1>4, <1>5, <1>6, <1>7, <1>8, <1>9, <1>10
     DEF Next, Login, Refresh, Logout

\* A request that only forgets, and rows that only disappear or run out, leave every
\* lineage as it is.
LEMMA QuietLineage ==
    ASSUME TypeOK, TypeOK', Lineage, Kept, NoneBegins
    PROVE  Lineage'
<1>1. ASSUME NEW t \in Tabs, request'[t].step \in {"mark", "revoke", "end"}, Found(t)'
      PROVE  Stored(t)'.family = request'[t].family
  BY <1>1 DEF Lineage, Kept, NoneBegins, Found, Stored
<1>2. ASSUME NEW j \in DOMAIN rows', NEW k \in DOMAIN rows',
             rows'[j].family = rows'[k].family, j < k
      PROVE  rows'[j].used
  BY <1>2 DEF Lineage, Kept
<1>3. ASSUME NEW t \in Tabs, request'[t].step = "issue"
      PROVE  /\ \A k \in FamilyRows(request[t].family)' : rows'[k].used
             /\ \A u \in Issuing(request[t].family)' : u = t
  BY <1>3 DEF Lineage, Kept, NoneBegins, FamilyRows, Issuing
<1> QED
  BY <1>1, <1>2, <1>3 DEF Lineage

\* The lineages through the steps that are not quiet.
LEMMA LineageStep == Inductive /\ TypeOK' /\ [Next]_vars => Lineage'
<1> SUFFICES ASSUME TypeOK, TypeOK', Known, Lineage, [Next]_vars PROVE Lineage'
  BY DEF Inductive
<1>1. ASSUME NEW t \in Tabs, CompleteLogin(t) PROVE Lineage'
  <2>1. /\ request'[t].step = "issue" /\ request'[t].family = logins + 1
        /\ \A u \in Tabs \ {t} : request'[u] = request[u]
        /\ UNCHANGED rows
    BY <1>1 DEF CompleteLogin, TypeOK
  <2>2. logins \in Nat /\ logins + 1 \notin 1..logins
    BY ConstantsAssumption DEF TypeOK
  <2>3. \A k \in DOMAIN rows : rows[k].family # logins + 1
    BY <2>2 DEF Known
  <2>4. \A u \in Tabs : request[u].step = "issue" => request[u].family # logins + 1
    BY <2>2 DEF Known
  <2>5. ASSUME NEW u \in Tabs, request'[u].step \in {"mark", "revoke", "end"}, Found(u)'
        PROVE  Stored(u)'.family = request'[u].family
    BY <2>1, <2>5 DEF Lineage, Found, Stored
  <2>6. ASSUME NEW u \in Tabs, request'[u].step = "issue"
        PROVE  /\ \A k \in FamilyRows(request[u].family)' : rows'[k].used
               /\ \A v \in Issuing(request[u].family)' : v = u
    BY <2>1, <2>3, <2>4, <2>6 DEF Lineage, FamilyRows, Issuing
  <2> QED
    BY <2>1, <2>5, <2>6 DEF Lineage
<1>2. ASSUME NEW t \in Tabs, Look(t) \/ LookForLogout(t) PROVE Lineage'
  <2>1. /\ UNCHANGED rows
        /\ \A u \in Tabs \ {t} : request'[u] = request[u]
        /\ request'[t].step # "issue"
        /\ request'[t].step \in {"mark", "revoke", "end"} /\ Found(t)'
           => request'[t].family = Stored(t).family /\ request'[t].token = request[t].token
    BY <1>2 DEF Look, LookForLogout, Finish, TypeOK
  <2>2. ASSUME NEW u \in Tabs, request'[u].step \in {"mark", "revoke", "end"}, Found(u)'
        PROVE  Stored(u)'.family = request'[u].family
    BY <2>1, <2>2 DEF Lineage, Found, Stored
  <2>3. ASSUME NEW u \in Tabs, request'[u].step = "issue"
        PROVE  /\ \A k \in FamilyRows(request[u].family)' : rows'[k].used
               /\ \A v \in Issuing(request[u].family)' : v = u
    BY <2>1, <2>3 DEF Lineage, FamilyRows, Issuing
  <2> QED
    BY <2>1, <2>2, <2>3 DEF Lineage
<1>3. ASSUME NEW t \in Tabs, MarkUsed(t) PROVE Lineage'
  <2> DEFINE won == Found(t) /\ ~Stored(t).used
  <2>1. request[t].step = "mark" /\ request[t].family \in 1..logins
    BY <1>3 DEF MarkUsed, Known
  <2>2. /\ \A u \in Tabs : /\ request'[u].token = request[u].token
                           /\ request'[u].family = request[u].family
        /\ \A u \in Tabs \ {t} : request'[u].step = request[u].step
        /\ request'[t].step = IF won THEN "issue" ELSE "revoke"
    BY <1>3, Moved DEF MarkUsed, Steps
  <2>3. /\ DOMAIN rows' = DOMAIN rows
        /\ \A k \in DOMAIN rows :
              /\ rows'[k].family = rows[k].family
              /\ rows[k].used => rows'[k].used
              /\ won /\ k = request[t].token => rows'[k].used
    BY <1>3 DEF MarkUsed, TypeOK, Row, Found, Stored
  <2>4. ASSUME NEW u \in Tabs, request'[u].step \in {"mark", "revoke", "end"}, Found(u)'
        PROVE  Stored(u)'.family = request'[u].family
    BY <2>1, <2>2, <2>3, <2>4 DEF Lineage, Found, Stored
  <2>5. ASSUME NEW j \in DOMAIN rows', NEW k \in DOMAIN rows',
               rows'[j].family = rows'[k].family, j < k
        PROVE  rows'[j].used
    BY <2>3, <2>5 DEF Lineage
  <2>6. ASSUME won
        PROVE  /\ request[t].token \in FamilyRows(request[t].family)
               /\ \A u \in Tabs : request[u].step = "issue"
                                  => request[u].family # request[t].family
    BY <2>1, <2>6 DEF Lineage, FamilyRows, Found, Stored
  <2>7. ASSUME won, NEW k \in FamilyRows(request[t].family)' PROVE rows'[k].used
    <3>1. k \in DOMAIN rows /\ rows[k].family = request[t].family
      BY <2>2, <2>3, <2>7 DEF FamilyRows
    <3>2. k \in Int /\ request[t].token \in Int
      BY <3>1, <2>7 DEF TypeOK, Found
    <3>3. CASE k # request[t].token
      BY <2>3, <2>6, <2>7, <3>1, <3>2, <3>3 DEF Lineage, FamilyRows, Found, Stored
    <3> QED
      BY <2>3, <2>7, <3>1, <3>3
  <2>8. ASSUME NEW u \in Tabs, request'[u].step = "issue"
        PROVE  /\ \A k \in FamilyRows(request[u].family)' : rows'[k].used
               /\ \A v \in Issuing(request[u].family)' : v = u
    <3>1. CASE u = t
      BY <2>2, <2>6, <2>7, <2>8, <3>1 DEF Issuing
    <3>2. CASE u # t
      <4>1. \A k \in FamilyRows(request[u].family)' : rows'[k].used
        BY <2>2, <2>3, <2>8, <3>2 DEF Lineage, FamilyRows
      <4>2. \A v \in Issuing(request[u].family)' : v = u
        BY <2>2, <2>6, <2>8, <3>2 DEF Lineage, Issuing
      <4> QED
        BY <4>1, <4>2
    <3> QED
      BY <3>1, <3>2
  <2> QED
    BY <2>4, <2>5, <2>8 DEF Lineage
<1>4. ASSUME NEW t \in Tabs, IssueSession(t) PROVE Lineage'
  <2>1. /\ request[t].step = "issue"
        /\ issued' = issued + 1 /\ issued \in Nat /\ issued' \in Tokens
        /\ DOMAIN rows \subseteq 1..issued
    BY <1>4, ConstantsAssumption DEF IssueSession, TypeOK, Tokens
  <2>2. /\ \A u \in Tabs \ {t} : request'[u] = request[u]
        /\ request'[t].step = "answer"
    <3>1. Finish(t, issued')
      BY <1>4 DEF IssueSession
    <3> QED
      BY <2>1, <3>1, Finished
  <2>3. /\ DOMAIN rows' = DOMAIN rows \cup {issued'}
        /\ \A k \in DOMAIN rows : rows'[k] = rows[k]
        /\ rows'[issued'].family = request[t].family
    BY <1>4, <2>1 DEF IssueSession
  <2>4. ASSUME NEW u \in Tabs, request'[u].step \in {"mark", "revoke", "end"}, Found(u)'
        PROVE  Stored(u)'.family = request'[u].family
    <3>1. u # t /\ request'[u] = request[u]
      BY <2>2, <2>4
    <3>2. request[u].token # issued'
      BY <2>1, ConstantsAssumption DEF Known
    <3> QED
      BY <2>3, <2>4, <3>1, <3>2 DEF Lineage, Found, Stored
  <2>5. ASSUME NEW j \in DOMAIN rows', NEW k \in DOMAIN rows',
               rows'[j].family = rows'[k].family, j < k
        PROVE  rows'[j].used
    <3>1. j \in DOMAIN rows
      BY <2>1, <2>3, <2>5
    <3>2. CASE k = issued'
      BY <2>1, <2>3, <2>5, <3>1, <3>2 DEF Lineage, FamilyRows
    <3>3. CASE k # issued'
      BY <2>3, <2>5, <3>1, <3>3 DEF Lineage
    <3> QED
      BY <3>2, <3>3
  <2>6. ASSUME NEW u \in Tabs, request'[u].step = "issue"
        PROVE  /\ \A k \in FamilyRows(request[u].family)' : rows'[k].used
               /\ \A v \in Issuing(request[u].family)' : v = u
    <3>1. u # t /\ request'[u] = request[u] /\ request[u].family # request[t].family
      BY <2>1, <2>2, <2>6 DEF Lineage, Issuing
    <3> QED
      BY <2>2, <2>3, <2>6, <3>1 DEF Lineage, FamilyRows, Issuing
  <2> QED
    BY <2>4, <2>5, <2>6 DEF Lineage
<1> QED
  BY <1>1, <1>2, <1>3, <1>4, QuietSteps, QuietLineage DEF Next, Login, Refresh, Logout

\* The rows that disappear or run out matter to no turn.
LEMMA QuietTurn ==
    ASSUME TurnsAreClean, InTurn, Kept, UNCHANGED <<request, cookie, revoked, calm>>
    PROVE  TurnsAreClean' /\ InTurn'
<1>1. TurnsAreClean'
  BY DEF TurnsAreClean, Kept, Busy, FamilyRows
<1>2. InTurn'
  BY DEF InTurn, Kept, Busy, Issuing, Found, Stored
<1> QED
  BY <1>1, <1>2

\* A tab whose request is on its way has the turn.
LEMMA Turn ==
    ASSUME calm, InTurn, NEW t \in Tabs, request[t].step # "rest" \/ Busy = {}
    PROVE  \A u \in Tabs \ {t} : request[u].step = "rest"
BY DEF InTurn, Busy

\* It keeps the turn if what it brings back is not used and what it acts on not revoked.
LEMMA KeepsTurn ==
    ASSUME NEW t \in Tabs,
           calm' => /\ \A u \in Tabs \ {t} : request'[u].step = "rest"
                    /\ request'[t].step # "rest"
                    /\ request'[t].step \in {"refresh", "answer"} /\ Found(t)'
                       => ~Stored(t)'.used
                    /\ request'[t].step = "issue" => request'[t].family \notin revoked'
                    /\ \A f \in revoked' : FamilyRows(f)' = {}
    PROVE  TurnsAreClean' /\ InTurn'
<1>1. calm' => t \in Busy'
  BY DEF Busy
<1>2. TurnsAreClean'
  BY <1>1 DEF TurnsAreClean
<1>3. InTurn'
  BY DEF InTurn, Busy, Issuing
<1> QED
  BY <1>2, <1>3

\* The turns through every step.
LEMMA TurnStep ==
    Inductive /\ TypeOK' /\ [Next]_vars => TurnsAreClean' /\ InTurn'
<1> SUFFICES ASSUME TypeOK, TypeOK', Known, Lineage, TurnsAreClean, InTurn, [Next]_vars
             PROVE  TurnsAreClean' /\ InTurn'
  BY DEF Inductive
<1> DEFINE Clean == TurnsAreClean' /\ InTurn'
<1>1. CASE BeginLogin \/ StateExpires \/ DeleteExpired \/ UNCHANGED vars
           \/ \E k \in Tokens : TokenExpires(k)
  <2>1. Kept
    BY <1>1, QuietSteps
  <2>2. UNCHANGED <<request, cookie, revoked, calm>>
    BY <1>1 DEF BeginLogin, StateExpires, DeleteExpired, TokenExpires, vars
  <2> QED
    BY <2>1, <2>2, QuietTurn
<1>2. ASSUME NEW t \in Tabs, Callback(t) PROVE Clean
  <2>1. /\ request'[t].step = "state"
        /\ \A u \in Tabs \ {t} : request'[u] = request[u]
        /\ calm' => calm /\ Busy = {}
        /\ UNCHANGED <<rows, revoked>>
    BY <1>2, Moved DEF Callback, Steps
  <2> QED
    BY <2>1, Turn, KeepsTurn DEF TurnsAreClean, FamilyRows
<1>3. ASSUME NEW t \in Tabs, ConsumeState(t) PROVE Clean
  BY <1>3, Moved, Turn, KeepsTurn DEF ConsumeState, Steps, TurnsAreClean, FamilyRows
<1>4. ASSUME NEW t \in Tabs, CompleteLogin(t) PROVE Clean
  <2>1. /\ request[t].step = "exchange"
        /\ request'[t].step = "issue" /\ request'[t].family = logins + 1
        /\ \A u \in Tabs \ {t} : request'[u] = request[u]
        /\ UNCHANGED <<rows, revoked, calm>>
    BY <1>4 DEF CompleteLogin, TypeOK
  <2>2. logins + 1 \notin revoked
    BY ConstantsAssumption DEF TypeOK, Known
  <2> QED
    BY <2>1, <2>2, Turn, KeepsTurn DEF TurnsAreClean, FamilyRows
<1>5. ASSUME NEW t \in Tabs, NEW step \in {"refresh", "logout"}, Present(t, step)
      PROVE  Clean
  <2>1. /\ request'[t].step = step /\ request'[t].token = cookie
        /\ \A u \in Tabs \ {t} : request'[u] = request[u]
        /\ calm' => calm /\ Busy = {}
        /\ UNCHANGED <<rows, revoked>>
    BY <1>5 DEF Present, TypeOK
  <2> QED
    BY <2>1, Turn, KeepsTurn DEF TurnsAreClean, FamilyRows, Found, Stored
<1>6. ASSUME NEW t \in Tabs, Look(t) \/ LookForLogout(t) PROVE Clean
  <2>1. /\ request[t].step # "rest"
        /\ request'[t].step \in {"mark", "revoke", "end", "answer"}
        /\ request'[t].step = "answer" => request'[t].token = None
        /\ \A u \in Tabs \ {t} : request'[u] = request[u]
        /\ UNCHANGED <<rows, revoked, calm>>
    BY <1>6 DEF Look, LookForLogout, Finish, TypeOK
  <2>2. None \notin DOMAIN rows
    BY ConstantsAssumption DEF TypeOK
  <2> QED
    BY <2>1, <2>2, Turn, KeepsTurn DEF TurnsAreClean, FamilyRows, Found
<1>7. ASSUME NEW t \in Tabs, MarkUsed(t) PROVE Clean
  <2>1. /\ request[t].step = "mark" /\ request'[t].step \in {"issue", "revoke"}
        /\ request'[t].family = request[t].family
        /\ \A u \in Tabs \ {t} : request'[u] = request[u]
        /\ UNCHANGED <<revoked, calm>>
    BY <1>7, Moved DEF MarkUsed, Steps
  <2>2. /\ DOMAIN rows' = DOMAIN rows
        /\ \A k \in DOMAIN rows : rows'[k].family = rows[k].family
    BY <1>7 DEF MarkUsed, TypeOK, Row
  <2>3. request'[t].step = "issue" => request[t].token \in FamilyRows(request[t].family)
    BY <1>7, Moved DEF MarkUsed, Steps, Lineage, Found, Stored, FamilyRows
  <2> QED
    BY <2>1, <2>2, <2>3, Turn, KeepsTurn DEF TurnsAreClean, FamilyRows
<1>8. ASSUME NEW t \in Tabs, IssueSession(t) PROVE Clean
  <2>1. /\ request[t].step = "issue" /\ issued' \in Tokens
        /\ Finish(t, issued')
        /\ UNCHANGED <<revoked, calm>>
    BY <1>8 DEF IssueSession, TypeOK, Tokens
  <2>2. /\ request'[t].step = "answer" /\ request'[t].token = issued'
        /\ \A u \in Tabs \ {t} : request'[u] = request[u]
    BY <2>1, Finished
  <2>3. /\ DOMAIN rows' = DOMAIN rows \cup {issued'}
        /\ ~rows'[issued'].used /\ rows'[issued'].family = request[t].family
        /\ \A k \in DOMAIN rows : rows'[k].family \in {rows[k].family, request[t].family}
    BY <1>8 DEF IssueSession
  <2>4. calm => request[t].family \notin revoked
    BY <2>1 DEF InTurn, Issuing
  <2> QED
    BY <2>1, <2>2, <2>3, <2>4, Turn, KeepsTurn DEF TurnsAreClean, FamilyRows, Found, Stored
<1>9. ASSUME NEW t \in Tabs, RevokeFamily(t) PROVE Clean
  <2>1. request[t].step # "rest" /\ Finish(t, None) /\ UNCHANGED calm
    BY <1>9 DEF RevokeFamily
  <2>2. /\ request'[t].step = "answer" /\ request'[t].token = None
        /\ \A u \in Tabs \ {t} : request'[u] = request[u]
    BY <2>1, Finished
  <2>3. /\ Kept /\ \A k \in DOMAIN rows' : rows'[k].family # request[t].family
        /\ revoked' = revoked \cup {request[t].family}
    <3>1. Kept
      BY <1>9, QuietSteps
    <3> QED
      BY <1>9, <3>1 DEF RevokeFamily, Without, FamilyRows
  <2>4. None \notin DOMAIN rows'
    BY ConstantsAssumption DEF TypeOK
  <2> QED
    BY <2>1, <2>2, <2>3, <2>4, Turn, KeepsTurn DEF TurnsAreClean, FamilyRows, Found, Kept
<1>10. ASSUME NEW t \in Tabs, Answer(t) PROVE Clean
  <2>1. /\ request[t].step = "answer" /\ request'[t].step = "rest"
        /\ cookie' = request[t].token
        /\ \A u \in Tabs \ {t} : request'[u] = request[u]
        /\ UNCHANGED <<rows, revoked, calm>>
    BY <1>10 DEF Answer, Rest, TypeOK
  <2>2. calm' => \A u \in Tabs : request'[u].step = "rest"
    BY <2>1, Turn
  <2>3. TurnsAreClean'
    BY <2>1, <2>2 DEF TurnsAreClean, InTurn, FamilyRows, Found, Stored
  <2>4. InTurn'
    BY <2>2 DEF InTurn, Busy, Issuing
  <2> QED
    BY <2>3, <2>4
<1>11. ASSUME NEW t \in Tabs, Fail(t) \/ Refuse(t) PROVE Clean
  <2>1. ~calm'
    BY <1>11 DEF Fail, Refuse
  <2> QED
    BY <2>1 DEF TurnsAreClean, InTurn
<1> QED
  BY <1>1, <1>2, <1>3, <1>4, <1>5, <1>6, <1>7, <1>8, <1>9, <1>10, <1>11
     DEF Next, Login, Refresh, Logout

\* No step breaks the invariant.
LEMMA Step == Inductive /\ [Next]_vars => Inductive'
BY TypeStep, KnownStep, LineageStep, TurnStep DEF Inductive

\* Whoever owes the next token of a family owes the only one that could be exchanged.
LEMMA LinearLineage == TypeOK /\ Lineage => LineageIsLinear
<1> SUFFICES ASSUME TypeOK, Lineage, NEW f \in Families
             PROVE  Cardinality(Fresh(f)) + Cardinality(Issuing(f)) <= 1
  BY DEF LineageIsLinear
<1>1. \A j, k \in Fresh(f) : j = k
  BY DEF TypeOK, Lineage, Fresh, FamilyRows
<1>2. \A t, u \in Issuing(f) : t = u
  BY DEF Lineage, Issuing
<1>3. Issuing(f) # {} => Fresh(f) = {}
  BY DEF Lineage, Issuing, Fresh, FamilyRows
<1>4. Fresh(f) = {} \/ \E k : Fresh(f) = {k}
  BY <1>1
<1>5. Issuing(f) = {} \/ \E t : Issuing(f) = {t}
  BY <1>2
<1>6. Cardinality({}) = 0 /\ \A k : Cardinality({k}) = 1
  BY FS_EmptySet, FS_Singleton
<1>7. CASE Fresh(f) = {}
  <2>1. Cardinality(Fresh(f)) = 0
    BY <1>6, <1>7
  <2>2. Cardinality(Issuing(f)) \in {0, 1}
    BY <1>5, <1>6
  <2> QED
    BY <2>1, <2>2
<1>8. CASE Fresh(f) # {}
  <2>1. Issuing(f) = {} /\ \E k : Fresh(f) = {k}
    BY <1>3, <1>4, <1>8
  <2>2. Cardinality(Fresh(f)) = 1 /\ Cardinality(Issuing(f)) = 0
    BY <2>1, <1>6
  <2> QED
    BY <2>2
<1> QED
  BY <1>7, <1>8

\* The invariant of the refresh_tokens run: however the statements of the requests
\* interleave, a login has at most one token that can be exchanged or is owed.
THEOREM LoginsAreLinear == Spec => []IInv
<1>1. Spec => []Inductive
  BY Initially, Step, PTL DEF Spec
<1>2. Inductive => IInv
  BY LinearLineage DEF Inductive, IInv
<1> QED
  BY <1>1, <1>2, PTL

\* A login that is over stays over: no step issues a token of a family that is owed none.
THEOREM RevokedStays == Spec => RevokedStaysRevoked
<1> DEFINE Stays == \A f \in Families : Over(f) => Over(f)'
<1>1. Inductive /\ [Next]_vars => [Stays]_vars
  <2> SUFFICES ASSUME TypeOK, Known, Lineage, Next, NEW f \in Families, Over(f)
               PROVE  Over(f)'
    BY DEF Inductive
  <2> USE DEF Over, FamilyRows, Issuing
  <2>1. CASE Kept /\ NoneBegins /\ revoked \subseteq revoked'
    BY <2>1 DEF Kept, NoneBegins
  <2>2. ASSUME NEW t \in Tabs, CompleteLogin(t) PROVE Over(f)'
    <3>1. /\ request'[t].family = logins + 1
          /\ \A u \in Tabs \ {t} : request'[u] = request[u]
          /\ UNCHANGED <<rows, revoked>>
      BY <2>2 DEF CompleteLogin, TypeOK
    <3>2. f # logins + 1
      BY ConstantsAssumption DEF TypeOK, Known
    <3> QED
      BY <3>1, <3>2
  <2>3. ASSUME NEW t \in Tabs, Look(t) \/ LookForLogout(t) PROVE Over(f)'
    BY <2>3 DEF Look, LookForLogout, Finish, TypeOK
  <2>4. ASSUME NEW t \in Tabs, MarkUsed(t) PROVE Over(f)'
    <3>1. /\ \A u \in Tabs \ {t} : request'[u] = request[u]
          /\ request'[t].family = request[t].family
          /\ UNCHANGED revoked
      BY <2>4, Moved DEF MarkUsed, Steps
    <3>2. /\ DOMAIN rows' = DOMAIN rows
          /\ \A k \in DOMAIN rows : rows'[k].family = rows[k].family
      BY <2>4 DEF MarkUsed, TypeOK, Row
    <3>3. request'[t].step = "issue" => request[t].family # f
      BY <2>4, Moved DEF MarkUsed, Steps, Lineage, Found, Stored
    <3> QED
      BY <3>1, <3>2, <3>3
  <2>5. ASSUME NEW t \in Tabs, IssueSession(t) PROVE Over(f)'
    <3>1. request[t].family # f /\ UNCHANGED revoked
      BY <2>5 DEF IssueSession
    <3>2. \A u \in Tabs : request'[u].step = "issue" => request'[u] = request[u]
      BY <2>5 DEF IssueSession, Finish, TypeOK
    <3>3. \A k \in DOMAIN rows' :
             \/ k \in DOMAIN rows /\ rows'[k].family = rows[k].family
             \/ rows'[k].family = request[t].family
      BY <2>5 DEF IssueSession
    <3> QED
      BY <3>1, <3>2, <3>3
  <2>6. revoked \subseteq revoked'
    BY DEF Next, Login, Refresh, Logout, BeginLogin, StateExpires, Callback, ConsumeState,
           CompleteLogin, Present, Look, MarkUsed, IssueSession, LookForLogout,
           RevokeFamily, Answer, Fail, Refuse, TokenExpires, DeleteExpired
  <2> QED
    BY <2>1, <2>2, <2>3, <2>4, <2>5, <2>6, QuietSteps DEF Next, Login, Refresh, Logout
<1>2. Spec => []Inductive
  BY Initially, Step, PTL DEF Spec
<1>3. Spec => [][Stays]_vars
  BY <1>1, <1>2, PTL DEF Spec
<1> QED
  BY <1>3 DEF RevokedStaysRevoked

\* The reuse detection never hits a browser whose requests take turns.
THEOREM TurnsStayClean == Spec => []TurnsAreClean
<1>1. Spec => []Inductive
  BY Initially, Step, PTL DEF Spec
<1>2. Inductive => TurnsAreClean
  BY DEF Inductive
<1> QED
  BY <1>1, <1>2, PTL

=============================================================================
