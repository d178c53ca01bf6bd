----------------------------- MODULE BackendSession -----------------------------
(***************************************************************************)
(* The sessions of one device in the backend: SessionService               *)
(* (backend/internal/app/session.go) over the sessions table.              *)
(*                                                                         *)
(* Users start and stop sessions over HTTP, the read loops of the device's *)
(* connections apply its STATUS and TASK_COMPLETE frames, and the          *)
(* maintenance job ends the sessions of a device that fell silent.  Every  *)
(* handler reads a row, computes a new one and writes it back whole; two   *)
(* handlers interleave between those two statements.  Frames come in any   *)
(* order: the agent re-queues a frame whose write failed behind the later  *)
(* ones.  As the protocol has it, a frame names the session it is about.   *)
(***************************************************************************)
CONSTANTS
    Sessions,   \* session IDs of one device
    Workers     \* HTTP requests and read loops in progress

VARIABLES
    row,        \* the sessions table, restricted to the device
    task,       \* what each worker is about to write
    silent      \* devices.last_seen_at is older than the sweep tolerates

vars == <<row, task, silent>>

States   == {"idle", "starting", "running", "waiting_input", "stopping",
             "stopped", "crashed"}
Terminal == {"stopped", "crashed"}

\* shared/protocol/state.go: the declared state machine.
Transitions ==
    [s \in States |->
        CASE s = "idle"          -> {"starting"}
          [] s = "starting"      -> {"running", "crashed", "stopped"}
          [] s = "running"       -> {"waiting_input", "stopping", "stopped", "crashed"}
          [] s = "waiting_input" -> {"running", "stopping", "stopped", "crashed"}
          [] s = "stopping"      -> {"stopped", "crashed"}
          [] OTHER               -> {"starting"}]

\* A row: its state, whether ended_at is set, whether exit_code is set.
Row  == [state: States, ended: BOOLEAN, exited: BOOLEAN]
None == [state |-> "none", ended |-> TRUE, exited |-> FALSE]
Started == [state |-> "starting", ended |-> FALSE, exited |-> FALSE]

\* Derived from ended_at, not from the state.
Active(s) == ~row[s].ended

Idle == [op |-> "idle"]
IsIdle(w) == task[w].op = "idle"
Write(w, op, s, r) ==
    task' = [task EXCEPT ![w] = [op |-> op, id |-> s, row |-> r]]
Done(w) == task' = [task EXCEPT ![w] = Idle]

-----------------------------------------------------------------------------
(***************************************************************************)
(* The domain: Session.ApplyState and Session.End.                         *)
(***************************************************************************)
\* A repeated state is not an error.
Applicable(r, next) == next = r.state \/ next \in Transitions[r.state]

\* Faulty: the terminal state does not close the session.
AppliedOpen(r, next) == [r EXCEPT !.state = next]

\* Faulty: the end is derived from the state.
AppliedFromState(r, next) == [r EXCEPT !.state = next, !.ended = next \in Terminal]

\* A terminal state closes the session; no state reopens it.
Applied(r, next) ==
    [r EXCEPT !.state = next, !.ended = @ \/ (next # r.state /\ next \in Terminal)]

Ended(r) == [r EXCEPT !.ended = TRUE, !.exited = TRUE]

-----------------------------------------------------------------------------
(***************************************************************************)
(* Handlers up to their read.                                              *)
(***************************************************************************)
\* No session of the device is active, as far as Start can see.
Start(w, s) ==
    /\ IsIdle(w)
    /\ row[s] = None
    /\ \A t \in Sessions : ~Active(t)
    /\ \A v \in Workers : ~IsIdle(v) => task[v].id # s
    /\ Write(w, "insert", s, Started)
    /\ UNCHANGED <<row, silent>>

\* The stop request is handed to the device's connection, then the transition is
\* checked: a session that is starting gets the request and the user an error.
Stop(w, s) ==
    /\ IsIdle(w)
    /\ Active(s)
    /\ Applicable(row[s], "stopping")
    /\ Write(w, "update", s, Applied(row[s], "stopping"))
    /\ UNCHANGED <<row, silent>>

\* Faulty: the transition table is not consulted.
ApplyStatusUnchecked(w, s, next) ==
    /\ IsIdle(w)
    /\ row[s] # None
    /\ Write(w, "update", s, Applied(row[s], next))
    /\ UNCHANGED <<row, silent>>

\* A frame that reports an illegal transition is dropped.
ApplyStatus(w, s, next) ==
    /\ IsIdle(w)
    /\ row[s] # None
    /\ Applicable(row[s], next)
    /\ Write(w, "update", s, Applied(row[s], next))
    /\ UNCHANGED <<row, silent>>

\* TASK_COMPLETE with an exit code; the state is left to a STATUS frame.
Complete(w, s) ==
    /\ IsIdle(w)
    /\ row[s] # None
    /\ Write(w, "update", s, Ended(row[s]))
    /\ UNCHANGED <<row, silent>>

-----------------------------------------------------------------------------
(***************************************************************************)
(* Statements.                                                             *)
(***************************************************************************)
\* Faulty: without the index, only Start's own look at the table.
FitsAlways(s, r) == TRUE

\* The unique index on the device of rows that have not ended.
Fits(s, r) == r.ended \/ \A t \in Sessions \ {s} : ~Active(t)

\* INSERT, or UPDATE ... WHERE id = $1 of every column.
Store(w) ==
    LET s == task[w].id
        r == task[w].row
    IN  /\ ~IsIdle(w)
        /\ Fits(s, r)
        /\ row' = [row EXCEPT ![s] = r]
        /\ Done(w)
        /\ UNCHANGED silent

\* The index refuses the row, or the statement fails.
StoreFails(w) ==
    /\ ~IsIdle(w)
    /\ Done(w)
    /\ UNCHANGED <<row, silent>>

\* Faulty: only sessions that were running.
EndStaleRunning ==
    /\ silent
    /\ \E s \in Sessions : Active(s) /\ row[s].state = "running"
    /\ row' = [s \in Sessions |->
           IF Active(s) /\ row[s].state = "running"
           THEN [row[s] EXCEPT !.state = "crashed", !.ended = TRUE]
           ELSE row[s]]
    /\ UNCHANGED <<task, silent>>

\* One statement ends every session of a silent device.
EndStaleSessions ==
    /\ silent
    /\ \E s \in Sessions : Active(s)
    /\ row' = [s \in Sessions |->
           IF Active(s) THEN [row[s] EXCEPT !.state = "crashed", !.ended = TRUE]
           ELSE row[s]]
    /\ UNCHANGED <<task, silent>>

\* The device stops reporting for longer than the sweep tolerates, or is back.
LastSeen ==
    /\ silent' = ~silent
    /\ UNCHANGED <<row, task>>

-----------------------------------------------------------------------------
Init ==
    /\ row = [s \in Sessions |-> None]
    /\ task = [w \in Workers |-> Idle]
    /\ silent = FALSE

Next ==
    \/ \E w \in Workers, s \in Sessions :
          \/ Start(w, s) \/ Stop(w, s) \/ Complete(w, s)
          \/ \E next \in States : ApplyStatus(w, s, next)
    \/ \E w \in Workers : Store(w) \/ StoreFails(w)
    \/ EndStaleSessions
    \/ LastSeen

Spec == Init /\ [][Next]_vars

(***************************************************************************)
(* Statements end one way or the other.  Nothing is promised of users, the *)
(* device and the maintenance: a tick is skipped while another instance    *)
(* has the lock or Redis does not answer (main.go:355), and the sweep may  *)
(* fail (main.go:363).                                                     *)
(***************************************************************************)
FairSpec ==
    /\ Spec
    /\ \A w \in Workers : WF_vars(Store(w) \/ StoreFails(w))

\* An assumption on Redis and the database: not every tick of every instance is
\* skipped or fails.
MaintenanceRuns == WF_vars(EndStaleSessions)

-----------------------------------------------------------------------------
(***************************************************************************)
(* Properties.                                                             *)
(***************************************************************************)
\* Type invariant.
TypeOK ==
    /\ row \in [Sessions -> Row \cup {None}]
    /\ task \in [Workers -> {Idle} \cup
                            [op: {"insert", "update"}, id: Sessions, row: Row]]
    /\ silent \in BOOLEAN

\* What the columns of a row say together: a terminal state or an exit code only
\* with an end time; and no transition leads to "idle".
Consistent(r) ==
    /\ r.state \in Terminal \/ r.exited => r.ended
    /\ r.state # "idle"

\* The columns of every row agree, in the table and in the hands of a handler:
\* whichever handlers overwrite each other, no session is left in a terminal state
\* and still blocking the device.
IInv ==
    /\ TypeOK
    /\ \A s \in Sessions : Consistent(row[s])
    /\ \A w \in Workers : ~IsIdle(w) => Consistent(task[w].row)

\* A device has at most one active session, although Start looks first and inserts
\* later, and a handler may write back a row that had not ended when it was read.
OneActive == \A s, t \in Sessions : Active(s) /\ Active(t) => s = t

\* Some handler will write a row of s that has not ended.
HeldOpen(s) == \E w \in Workers : ~IsIdle(w) /\ task[w].id = s /\ ~task[w].row.ended

\* An ended session that no handler holds as open never becomes active again, not
\* even when a late STATUS frame says that it is starting.
EndedIsFinal ==
    [][\A s \in Sessions : row[s] # None /\ row[s].ended /\ ~HeldOpen(s)
                           => row'[s] # None /\ row'[s].ended /\ ~HeldOpen(s)']_vars

\* Some handler has computed its row from a state the table no longer has.
HeldStale(s) ==
    \E w \in Workers :
        ~IsIdle(w) /\ task[w].id = s /\ ~Applicable(row[s], task[w].row.state)

\* The state of a session moves along the declared transitions, and the sweep and
\* a stop request do too, unless two handlers of the same session interleave.
LegalTransitions ==
    [][\A s \in Sessions : row[s] # None /\ ~HeldStale(s)
                           => Applicable(row[s], row'[s].state)]_vars

\* A device that stays silent does not keep its session, if the maintenance is not
\* skipped for ever: the user can start another one.
AbandonedIsEnded ==
    MaintenanceRuns /\ <>[]silent => \A s \in Sessions : Active(s) ~> ~Active(s)

(***************************************************************************)
(* What the documentation says and the code does not do.                   *)
(***************************************************************************)
\* domain/session.go:86 "no path can leave a crashed session looking active forever."
CrashedStaysEnded ==
    \A s \in Sessions : [](row[s].state = "crashed" => <>(row[s].ended /\ [](row[s].ended)))

=============================================================================
