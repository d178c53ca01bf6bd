-------------------------- MODULE BackendSessionProofs --------------------------
(***************************************************************************)
(* Proofs about BackendSession, for any number of sessions and handlers.   *)
(***************************************************************************)
EXTENDS BackendSession, TLAPS

\* Applying a state to a row, as ApplyState does, keeps the columns consistent and
\* never reopens the row.
LEMMA AppliedRow ==
    ASSUME NEW r \in Row, Consistent(r), NEW next \in States, Applicable(r, next)
    PROVE  /\ Applied(r, next) \in Row
           /\ Consistent(Applied(r, next))
           /\ Applied(r, next).state = next
           /\ r.ended => Applied(r, next).ended
<1>1. next # "idle"
  BY DEF Applicable, Consistent, Transitions, Row, States, Terminal
<1>2. next \in Terminal => Applied(r, next).ended
  BY DEF Applied, Row, Consistent
<1>3. r.ended => Applied(r, next).ended
  BY DEF Applied, Row
<1>4. r.exited = Applied(r, next).exited /\ Applied(r, next).state = next
  BY DEF Applied, Row
<1>5. Applied(r, next) \in Row
  <2> DEFINE e == r.ended \/ (next # r.state /\ next \in Terminal)
  <2>1. e \in BOOLEAN
    OBVIOUS
  <2>2. Applied(r, next) = [r EXCEPT !.state = next, !.ended = e]
    BY Zenon DEF Applied
  <2> HIDE DEF e
  <2> QED
    BY <2>1, <2>2 DEF Row
<1>6. r.exited => Applied(r, next).ended
  BY <1>3 DEF Consistent
<1> QED
  BY <1>1, <1>2, <1>3, <1>4, <1>5, <1>6 DEF Consistent

\* Closing a row, as End does.
LEMMA EndedRow ==
    ASSUME NEW r \in Row, Consistent(r)
    PROVE  Ended(r) \in Row /\ Consistent(Ended(r)) /\ Ended(r).ended
BY DEF Ended, Row, Consistent

\* A row that is not None is one of the program's; a row of the program is not None.
LEMMA Rows ==
    ASSUME TypeOK, NEW s \in Sessions
    PROVE  /\ row[s] # None => row[s] \in Row
           /\ Active(s) => row[s] \in Row
BY DEF TypeOK, None, Active

LEMMA RowIsNotNone == ASSUME NEW r \in Row PROVE r # None
BY DEF Row, None, States

\* No state leads back to idle or is left without a way to crash.
LEMMA CrashIsLegal ==
    ASSUME NEW r \in Row, Consistent(r), ~r.ended
    PROVE  Applicable(r, "crashed")
<1>1. r.state \in {"starting", "running", "waiting_input", "stopping"}
  BY DEF Row, Consistent, States, Terminal
<1> QED
  BY <1>1 DEF Applicable, Transitions, States

-----------------------------------------------------------------------------
\* The rows a handler computes from what it reads are consistent rows.
LEMMA TaskOK ==
    ASSUME IInv, NEW w \in Workers, NEW op \in {"insert", "update"},
           NEW s \in Sessions, NEW r \in Row, Consistent(r),
           Write(w, op, s, r), UNCHANGED <<row, silent>>
    PROVE  IInv'
<1>1. task' \in [Workers -> {Idle} \cup [op: {"insert", "update"}, id: Sessions, row: Row]]
  BY DEF IInv, TypeOK, Write
<1>2. ASSUME NEW v \in Workers, ~IsIdle(v)'
      PROVE  Consistent(task'[v].row)
  <2>1. CASE v = w
    BY <2>1 DEF Write, IInv, TypeOK
  <2>2. CASE v # w
    BY <1>2, <2>2 DEF Write, IInv, TypeOK, IsIdle
  <2> QED
    BY <2>1, <2>2
<1> QED
  BY <1>1, <1>2 DEF IInv, TypeOK

\* Initially every row and every handler is as the invariant says.
LEMMA InitInv == Init => IInv
<1> SUFFICES ASSUME Init
             PROVE  IInv
  OBVIOUS
<1>1. TypeOK
  BY DEF Init, TypeOK
<1>2. Consistent(None)
  BY DEF None, Consistent, Terminal
<1>3. \A w \in Workers : IsIdle(w)
  BY DEF Init, IsIdle, Idle
<1> QED
  BY <1>1, <1>2, <1>3 DEF Init, IInv

\* Every step of the sessions keeps the columns of every row consistent.
LEMMA NextInv == IInv /\ [Next]_vars => IInv'
<1> SUFFICES ASSUME IInv, [Next]_vars
             PROVE  IInv'
  OBVIOUS
<1>1. ASSUME NEW w \in Workers, NEW s \in Sessions, Start(w, s)
      PROVE  IInv'
  <2>1. Started \in Row /\ Consistent(Started)
    BY DEF Started, Row, States, Consistent, Terminal
  <2> QED
    BY <1>1, <2>1, TaskOK DEF Start
<1>2. ASSUME NEW w \in Workers, NEW s \in Sessions, NEW next \in States,
             row[s] \in Row, Applicable(row[s], next),
             Write(w, "update", s, Applied(row[s], next)),
             UNCHANGED <<row, silent>>
      PROVE  IInv'
  <2>1. Consistent(row[s])
    BY DEF IInv
  <2>2. Applied(row[s], next) \in Row /\ Consistent(Applied(row[s], next))
    BY <1>2, <2>1, AppliedRow
  <2> QED
    BY <1>2, <2>2, TaskOK
<1>3. ASSUME NEW w \in Workers, NEW s \in Sessions, Stop(w, s)
      PROVE  IInv'
  BY <1>2, <1>3, Rows DEF Stop, States, IInv
<1>4. ASSUME NEW w \in Workers, NEW s \in Sessions, NEW next \in States,
             ApplyStatus(w, s, next)
      PROVE  IInv'
  BY <1>2, <1>4, Rows DEF ApplyStatus, IInv
<1>5. ASSUME NEW w \in Workers, NEW s \in Sessions, Complete(w, s)
      PROVE  IInv'
  <2>1. row[s] \in Row /\ Consistent(row[s])
    BY <1>5, Rows DEF Complete, IInv
  <2>2. Ended(row[s]) \in Row /\ Consistent(Ended(row[s]))
    BY <2>1, EndedRow
  <2> QED
    BY <1>5, <2>2, TaskOK DEF Complete
<1>6. ASSUME NEW w \in Workers, Done(w), UNCHANGED silent,
             row' \in [Sessions -> Row \cup {None}],
             \A s \in Sessions : Consistent(row'[s])
      PROVE  IInv'
  BY <1>6 DEF Done, IInv, TypeOK, IsIdle, Idle
<1>7. ASSUME NEW w \in Workers, Store(w)
      PROVE  IInv'
  <2>1. /\ task[w].id \in Sessions
        /\ task[w].row \in Row
        /\ Consistent(task[w].row)
    BY <1>7 DEF Store, IInv, TypeOK, IsIdle, Idle
  <2>2. row' = [row EXCEPT ![task[w].id] = task[w].row]
    BY <1>7 DEF Store
  <2> QED
    BY <1>6, <1>7, <2>1, <2>2 DEF Store, IInv, TypeOK
<1>8. ASSUME NEW w \in Workers, StoreFails(w)
      PROVE  IInv'
  BY <1>6, <1>8 DEF StoreFails, IInv, TypeOK
<1>9. CASE EndStaleSessions
  <2>1. ASSUME NEW s \in Sessions
        PROVE  row'[s] \in Row \cup {None} /\ Consistent(row'[s])
    <3>1. CASE Active(s)
      <4>1. row'[s] = [row[s] EXCEPT !.state = "crashed", !.ended = TRUE]
        BY <1>9, <3>1 DEF EndStaleSessions
      <4>2. row[s] \in Row
        BY <3>1, Rows DEF IInv
      <4> QED
        BY <4>1, <4>2 DEF Row, States, Consistent
    <3>2. CASE ~Active(s)
      BY <1>9, <3>2 DEF EndStaleSessions, IInv, TypeOK
    <3> QED
      BY <3>1, <3>2
  <2> QED
    BY <1>9, <2>1 DEF EndStaleSessions, IInv, TypeOK, IsIdle
<1>10. CASE LastSeen
  BY <1>10 DEF LastSeen, IInv, TypeOK, IsIdle
<1>11. CASE UNCHANGED vars
  BY <1>11 DEF vars, IInv, TypeOK, IsIdle
<1> QED
  BY <1>1, <1>3, <1>4, <1>5, <1>7, <1>8, <1>9, <1>10, <1>11 DEF Next

\* The columns of every row agree in every reachable state, in the table and in
\* the hands of every handler.
THEOREM RowsAreConsistent == Spec => []IInv
BY InitInv, NextInv, PTL DEF Spec

\* Type correctness of the sessions of a device.
THEOREM SessionsTyped == Spec => []TypeOK
<1>1. IInv => TypeOK
  BY DEF IInv
<1> QED
  BY <1>1, RowsAreConsistent, PTL

-----------------------------------------------------------------------------
\* A device has at most one active session in every reachable state: the index
\* covers stale rows that handlers write back, not only INSERTs.
THEOREM OneActiveSession == Spec => []OneActive
<1>1. Init => OneActive
  BY DEF Init, OneActive, Active, None
<1>2. IInv /\ OneActive /\ [Next]_vars => OneActive'
  <2> SUFFICES ASSUME IInv, OneActive, [Next]_vars
               PROVE  OneActive'
    OBVIOUS
  <2>1. CASE UNCHANGED row
    BY <2>1 DEF OneActive, Active
  <2>2. ASSUME NEW w \in Workers, Store(w)
        PROVE  OneActive'
    <3>1. row' = [row EXCEPT ![task[w].id] = task[w].row]
      BY <2>2 DEF Store
    <3>2. task[w].row.ended \/ \A t \in Sessions \ {task[w].id} : ~Active(t)
      BY <2>2 DEF Store, Fits
    <3>3. row \in [Sessions -> Row \cup {None}]
      BY DEF IInv, TypeOK
    <3> QED
      BY <3>1, <3>2, <3>3 DEF OneActive, Active
  <2>3. CASE EndStaleSessions
    <3>1. ASSUME NEW s \in Sessions PROVE ~Active(s)'
      <4>1. CASE Active(s)
        BY <2>3, <4>1, Rows DEF EndStaleSessions, Active, Row, IInv
      <4>2. CASE ~Active(s)
        BY <2>3, <4>2 DEF EndStaleSessions, Active
      <4> QED
        BY <4>1, <4>2
    <3> QED
      BY <3>1 DEF OneActive
  <2>4. Next => \/ UNCHANGED row
                \/ \E w \in Workers : Store(w)
                \/ EndStaleSessions
    BY DEF Next, Start, Stop, Complete, ApplyStatus, StoreFails, LastSeen
  <2> QED
    BY <2>1, <2>2, <2>3, <2>4 DEF vars
<1> QED
  BY <1>1, <1>2, RowsAreConsistent, PTL DEF Spec

\* Once a session has ended and no handler holds it as open, it stays ended.
THEOREM EndIsFinal == Spec => EndedIsFinal
<1> DEFINE Closed(s) == row[s] # None /\ row[s].ended /\ ~HeldOpen(s)
           Keeps == \A s \in Sessions : Closed(s) => Closed(s)'
<1>1. IInv /\ [Next]_vars => Keeps
  <2> SUFFICES ASSUME IInv, [Next]_vars, NEW s \in Sessions, Closed(s)
               PROVE  Closed(s)'
    OBVIOUS
  <2>1. row[s] \in Row /\ Consistent(row[s]) /\ row[s].ended
    BY Rows DEF IInv
  <2>2. ASSUME NEW w \in Workers, NEW op, NEW t \in Sessions, NEW r,
               t = s => r.ended,
               Write(w, op, t, r), UNCHANGED row
        PROVE  Closed(s)'
    <3>1. ASSUME NEW v \in Workers, ~IsIdle(v)', task'[v].id = s
          PROVE  task'[v].row.ended
      <4>1. CASE v = w
        BY <2>2, <3>1, <4>1 DEF Write, IInv, TypeOK
      <4>2. CASE v # w
        BY <2>2, <3>1, <4>2 DEF Write, HeldOpen, IsIdle, IInv, TypeOK
      <4> QED
        BY <4>1, <4>2
    <3> QED
      BY <2>2, <3>1 DEF HeldOpen
  <2>3. ASSUME NEW w \in Workers, NEW t \in Sessions, Start(w, t)
        PROVE  Closed(s)'
    BY <2>2, <2>3 DEF Start
  <2>4. ASSUME NEW w \in Workers, NEW t \in Sessions, Stop(w, t)
        PROVE  Closed(s)'
    BY <2>1, <2>2, <2>4 DEF Stop, Active
  <2>5. ASSUME NEW w \in Workers, NEW t \in Sessions, NEW next \in States,
               ApplyStatus(w, t, next)
        PROVE  Closed(s)'
    <3>1. t = s => Applied(row[t], next).ended
      BY <2>1, <2>5, AppliedRow DEF ApplyStatus
    <3> QED
      BY <2>2, <2>5, <3>1 DEF ApplyStatus
  <2>6. ASSUME NEW w \in Workers, NEW t \in Sessions, Complete(w, t)
        PROVE  Closed(s)'
    <3>1. t = s => Ended(row[t]).ended
      BY <2>1, EndedRow
    <3> QED
      BY <2>2, <2>6, <3>1 DEF Complete
  <2>7. ASSUME NEW w \in Workers, Done(w),
               row'[s] # None, row'[s].ended
        PROVE  Closed(s)'
    BY <2>7 DEF Done, HeldOpen, IsIdle, Idle, IInv, TypeOK
  <2>8. ASSUME NEW w \in Workers, Store(w)
        PROVE  Closed(s)'
    <3>1. row' = [row EXCEPT ![task[w].id] = task[w].row] /\ task[w].row \in Row
      BY <2>8 DEF Store, IInv, TypeOK, IsIdle, Idle
    <3>2. task[w].id = s => task[w].row.ended
      BY <2>8 DEF Store, HeldOpen
    <3>3. row'[s] # None /\ row'[s].ended
      BY <2>1, <3>1, <3>2, RowIsNotNone DEF IInv, TypeOK
    <3> QED
      BY <2>7, <2>8, <3>3 DEF Store
  <2>9. ASSUME NEW w \in Workers, StoreFails(w)
        PROVE  Closed(s)'
    BY <2>7, <2>9 DEF StoreFails
  <2>10. CASE EndStaleSessions
    BY <2>1, <2>10 DEF EndStaleSessions, Active, HeldOpen, IsIdle
  <2>11. CASE LastSeen \/ UNCHANGED vars
    BY <2>11 DEF LastSeen, vars, HeldOpen, IsIdle
  <2> QED
    BY <2>3, <2>4, <2>5, <2>6, <2>8, <2>9, <2>10, <2>11 DEF Next
<1>2. Keeps <=> (\A s \in Sessions : row[s] # None /\ row[s].ended /\ ~HeldOpen(s)
                   => row'[s] # None /\ row'[s].ended /\ ~HeldOpen(s)')
  OBVIOUS
<1> QED
  BY <1>1, <1>2, RowsAreConsistent, PTL DEF Spec, EndedIsFinal

-----------------------------------------------------------------------------
\* The state of a session moves along the declared transitions unless a handler
\* holds a row computed from another state.
THEOREM TransitionsAreLegal == Spec => LegalTransitions
<1> DEFINE Legal == \A s \in Sessions : row[s] # None /\ ~HeldStale(s)
                        => Applicable(row[s], row'[s].state)
<1>1. IInv /\ [Next]_vars => Legal
  <2> SUFFICES ASSUME IInv, [Next]_vars, NEW s \in Sessions,
                      row[s] # None, ~HeldStale(s)
               PROVE  Applicable(row[s], row'[s].state)
    OBVIOUS
  <2>1. CASE UNCHANGED row
    BY <2>1 DEF Applicable
  <2>2. ASSUME NEW w \in Workers, Store(w)
        PROVE  Applicable(row[s], row'[s].state)
    <3>1. row' = [row EXCEPT ![task[w].id] = task[w].row]
      BY <2>2 DEF Store
    <3>2. CASE task[w].id = s
      BY <2>2, <3>1, <3>2 DEF Store, HeldStale, IInv, TypeOK
    <3>3. CASE task[w].id # s
      BY <3>1, <3>3 DEF Applicable
    <3> QED
      BY <3>2, <3>3
  <2>3. CASE EndStaleSessions
    <3>1. CASE Active(s)
      <4>1. row[s] \in Row /\ Consistent(row[s]) /\ ~row[s].ended
        BY <3>1, Rows DEF IInv, Active
      <4>2. row'[s].state = "crashed"
        BY <2>3, <3>1, <4>1 DEF EndStaleSessions, Row
      <4> QED
        BY <4>1, <4>2, CrashIsLegal
    <3>2. CASE ~Active(s)
      BY <2>3, <3>2 DEF EndStaleSessions, Applicable
    <3> QED
      BY <3>1, <3>2
  <2>4. Next => \/ UNCHANGED row
                \/ \E w \in Workers : Store(w)
                \/ EndStaleSessions
    BY DEF Next, Start, Stop, Complete, ApplyStatus, StoreFails, LastSeen
  <2> QED
    BY <2>1, <2>2, <2>3, <2>4 DEF vars
<1>2. Legal <=> (\A s \in Sessions : row[s] # None /\ ~HeldStale(s)
                    => Applicable(row[s], row'[s].state))
  OBVIOUS
<1> QED
  BY <1>1, <1>2, RowsAreConsistent, PTL DEF Spec, LegalTransitions

=============================================================================
