------------------------------ MODULE PromptQueue ------------------------------
(***************************************************************************)
(* The prompt queue of the backend (backend/internal/app/prompt.go over    *)
(* backend/internal/adapter/postgres/queue_store.go), for one device.      *)
(*                                                                         *)
(* PostgreSQL executes each statement atomically, but every handler of     *)
(* PromptService reads a row, does something slow (writes a frame to the   *)
(* agent) and then writes back the row it computed from what it read.      *)
(* Between the two, every other handler, on this instance and on the       *)
(* others, runs freely.  The module therefore has one action per database  *)
(* statement and per frame written, and a task record per goroutine for    *)
(* what that goroutine has read and still holds.                           *)
(*                                                                         *)
(* A connection is identified with the goroutine that serves it            *)
(* (Gateway.serve), so hub[i] and socket hold workers.                     *)
(***************************************************************************)
EXTENDS Integers, Sequences, FiniteSets

CONSTANTS
    NumPrompts,           \* prompts users send; their numbers order enqueued_at
    MaxDeliveryAttempts,  \* domain.MaxDeliveryAttempts, 5 in the code
    FlushLimit,           \* LIMIT of DeliverPending and DeliverByID, 50
    SweepLimit,           \* LIMIT of ReconcilePending, 20
    AckLimit,             \* LIMIT of Acknowledge, 100
    SendQueueSize,        \* capacity of Conn.send
    OutboxSize,           \* capacity of the agent's outbound queue
    MaxLate,              \* bound on the frames of a prompt in late
    MaxFaults,            \* bound on the faults of one behaviour
    Instances,            \* backend instances
    Workers,              \* goroutines of all instances
    InstanceOf,           \* the instance a goroutine belongs to
    NoConn                \* no connection

Prompts == 1..NumPrompts

ASSUME ConstantsAssumption ==
    /\ NumPrompts \in Nat
    /\ MaxDeliveryAttempts \in Nat \ {0}
    /\ FlushLimit \in Nat
    /\ SweepLimit \in Nat
    /\ AckLimit \in Nat
    /\ SendQueueSize \in Nat \ {0}
    /\ OutboxSize \in Nat \ {0}
    /\ MaxLate \in Nat
    /\ MaxFaults \in Nat
    /\ InstanceOf \in [Workers -> Instances]
    /\ NoConn \notin Workers

VARIABLES
    status,    \* prompt_queue.status, "none" before the INSERT
    attempts,  \* prompt_queue.attempts
    task,      \* what each goroutine is doing and the rows it has read
    hub,       \* Hub.byDevice of each instance, for the device
    socket,    \* the connection the agent itself is on
    closing,   \* "yes" once its Conn is closed, the agent not yet told;
               \* "last" when the frame its read loop waited for was handled
    wire,      \* PROMPT frames queued on or travelling through the socket
    late,      \* frames of each prompt that the agent's read loops of lost
               \* connections have received and not yet handled
    outbox,    \* the agent's ACK frames, queued or travelling
    signals,   \* dispatch signals Redis still has to hand to an instance
    taken,     \* times the agent accepted the prompt: 0, 1, 2 = more than once
    writes,    \* frames written for the prompt, up to MaxDeliveryAttempts + 1
    faults     \* faults so far

rowVars  == <<status, attempts>>
linkVars == <<hub, socket, closing, wire, late, outbox>>
vars == <<status, attempts, task, hub, socket, closing, wire, late, outbox,
          signals, taken, writes, faults>>

Open     == {"pending", "dispatched"}
Terminal == {"delivered", "failed", "cancelled"}
Status   == Open \cup Terminal

\* A row as a goroutine holds it after reading it.
Snapshot == [id: Prompts, status: Open, attempts: 0..MaxDeliveryAttempts]

Row(p) == [id |-> p, status |-> status[p], attempts |-> attempts[p]]

Exhausted(s) == s.attempts >= MaxDeliveryAttempts

(***************************************************************************)
(* Goroutines.  "send" and "cancel" are HTTP requests, "signal" is the     *)
(* dispatch subscriber, "sweep" the maintenance job; "flush", "accept",    *)
(* "reject" and "listen" are the phases of a connection's serve goroutine. *)
(***************************************************************************)
Delivering == {"send", "flush", "signal", "sweep"}
Serving    == {"flush", "accept", "reject", "listen"}
Ops        == Delivering \cup Serving \cup {"cancel", "idle"}

Idle      == [op |-> "idle",   step |-> "rest", todo |-> {}]
Listening == [op |-> "listen", step |-> "rest", todo |-> {}]

IsIdle(w)       == task[w].op = "idle"
AtStep(w, step) == task[w].step = step
Start(w, op, step, todo) ==
    task' = [task EXCEPT ![w] = [op |-> op, step |-> step, todo |-> todo]]

\* The rows a query returned are handled oldest first.
Oldest(S) == {s \in S : \A t \in S : s.id <= t.id}
Current(w) == Oldest(task[w].todo)

\* What a goroutine does once its function returns.
Rest(op) == IF op \in Serving THEN Listening ELSE Idle

\* The task after its current row, with the rows in todo left to deliver.
Continue(w, todo) ==
    task' = [task EXCEPT ![w] =
        IF todo = {} THEN Rest(task[w].op)
        ELSE [op |-> task[w].op, step |-> "write", todo |-> todo]]

Proceed(w, step) == task' = [task EXCEPT ![w].step = step]

Fault == faults < MaxFaults /\ faults' = faults + 1

-----------------------------------------------------------------------------
(***************************************************************************)
(* The store.                                                              *)
(***************************************************************************)
\* Faulty: the partial index on status alone, without the attempts filter.
InQueueWithoutLimit(p) == status[p] \in Open

\* Faulty: cancelled prompts are not filtered out.
InQueueWithCancelled(p) ==
    status[p] \in Open \cup {"cancelled"} /\ attempts[p] < MaxDeliveryAttempts

\* Faulty: a dispatched prompt counts as delivered.
InQueueOnlyPending(p) == status[p] = "pending" /\ attempts[p] < MaxDeliveryAttempts

InQueue(p) == status[p] \in Open /\ attempts[p] < MaxDeliveryAttempts

PendingForDevice(limit) ==
    {Row(p) : p \in {q \in Prompts :
        /\ InQueue(q)
        /\ Cardinality({r \in Prompts : r < q /\ InQueue(r)}) < limit}}

\* The two loops mark a row failed instead of delivering it once its attempts
\* are used up; Deliver itself never looks.
GivesUp(op, s) == op \in {"flush", "sweep"} /\ Exhausted(s)

\* Faulty: the accepted flag of an ACK is ignored.
NewStatusOfAnyAck(op, s) ==
    CASE op \in Delivering -> IF GivesUp(op, s) THEN "failed" ELSE "dispatched"
      [] op \in {"accept", "reject"} -> "delivered"
      [] OTHER -> "cancelled"

\* The row a handler writes back, computed from the row it read.
NewStatus(op, s) ==
    CASE op \in Delivering -> IF GivesUp(op, s) THEN "failed" ELSE "dispatched"
      [] op = "accept"     -> "delivered"
      [] op = "reject"     -> IF Exhausted(s) THEN "failed" ELSE "pending"
      [] OTHER             -> "cancelled"

\* Faulty: a rejection counts as another attempt.
NewAttemptsOnReject(op, s) ==
    IF op \in Delivering \cup {"reject"} /\ ~GivesUp(op, s)
    THEN s.attempts + 1 ELSE s.attempts

NewAttempts(op, s) ==
    IF op \in Delivering /\ ~GivesUp(op, s) THEN s.attempts + 1 ELSE s.attempts

\* UPDATE prompt_queue ... WHERE id = $1: whatever the row holds by now.
Update(w) ==
    /\ AtStep(w, "update")
    /\ \E s \in Current(w) :
          /\ status' = [status EXCEPT ![s.id] = NewStatus(task[w].op, s)]
          /\ attempts' = [attempts EXCEPT ![s.id] = NewAttempts(task[w].op, s)]
          /\ Continue(w, task[w].todo \ {s})
    /\ UNCHANGED <<linkVars, signals, taken, writes, faults>>

\* The statement fails.  Deliver logs it, the other handlers return the error;
\* either way the row keeps what it has and the handler goes on or ends.
UpdateFails(w) ==
    /\ AtStep(w, "update")
    /\ Fault
    /\ Continue(w, task[w].todo \ Current(w))
    /\ UNCHANGED <<rowVars, linkVars, signals, taken, writes>>

-----------------------------------------------------------------------------
(***************************************************************************)
(* Handlers up to their first database read.                               *)
(***************************************************************************)
\* Send: the INSERT commits, then tryDeliver starts from the row as inserted.
Send(w, p) ==
    /\ IsIdle(w)
    /\ status[p] = "none"
    /\ status' = [status EXCEPT ![p] = "pending"]
    /\ Start(w, "send", "write",
             {[id |-> p, status |-> "pending", attempts |-> 0]})
    /\ UNCHANGED <<attempts, linkVars, signals, taken, writes, faults>>

\* Cancel: ByIDForUser, then the domain refuses a terminal prompt.
Cancel(w, p) ==
    /\ IsIdle(w)
    /\ status[p] \in Open
    /\ Start(w, "cancel", "update", {Row(p)})
    /\ UNCHANGED <<rowVars, linkVars, signals, taken, writes, faults>>

\* The subscriber's callback: DeliverByID when the device is connected here.
ReceiveSignal(w, p) ==
    LET i == InstanceOf[w]
        found == {s \in PendingForDevice(FlushLimit) : s.id = p}
    IN  /\ IsIdle(w)
        /\ <<i, p>> \in signals
        /\ \A v \in Workers : InstanceOf[v] = i => task[v].op # "signal"
        /\ signals' = signals \ {<<i, p>>}
        /\ IF hub[i] = NoConn \/ found = {}
           THEN UNCHANGED task
           ELSE Start(w, "signal", "write", found)
        /\ UNCHANGED <<rowVars, linkVars, taken, writes, faults>>

\* ReconcilePending: one maintenance goroutine per instance.  Another instance
\* sweeping at the same time means that the lock expired under it or that Redis
\* is down and the lock fails open.  Rows enqueued after the cutoff are skipped.
Sweep(w) ==
    LET i == InstanceOf[w]
        sweeping == {v \in Workers : task[v].op = "sweep"}
    IN  /\ IsIdle(w)
        /\ hub[i] # NoConn
        /\ i \notin {InstanceOf[v] : v \in sweeping}
        /\ IF sweeping = {} THEN UNCHANGED faults ELSE Fault
        /\ \E cutoff \in Prompts :
              LET stalled == {s \in PendingForDevice(SweepLimit) : s.id <= cutoff}
              IN  /\ stalled # {}
                  /\ Start(w, "sweep", "write", stalled)
        /\ UNCHANGED <<rowVars, linkVars, signals, taken, writes>>

-----------------------------------------------------------------------------
(***************************************************************************)
(* Deliver: a frame to the agent, then the attempt on the row.             *)
(***************************************************************************)
\* A connection that is not the agent's any more, or was closed, still takes
\* frames while its queue has room: Conn.Send selects among the ready cases.
\* Such a frame is lost, or, while the agent is still on the closed connection,
\* written before the close frame: writePump selects in the same way.
Stale(c) == c # socket \/ closing # "no"

Saturate(n, max) == IF n < max THEN n + 1 ELSE max

WriteFrame(w) ==
    LET c == hub[InstanceOf[w]]
    IN  /\ AtStep(w, "write")
        /\ \E s \in Current(w) :
              IF GivesUp(task[w].op, s)
              THEN UNCHANGED <<wire, writes>>
              ELSE /\ c # NoConn
                   /\ \/ /\ c = socket
                         /\ Len(wire) < SendQueueSize
                         /\ wire' = Append(wire, s.id)
                      \/ /\ Stale(c)
                         /\ UNCHANGED wire
                   /\ writes' = [writes EXCEPT
                          ![s.id] = Saturate(@, MaxDeliveryAttempts + 1)]
        /\ Proceed(w, "update")
        /\ UNCHANGED <<rowVars, hub, socket, closing, late, outbox, signals,
                       taken, faults>>

\* SendToDevice returns false: no connection here, a closed one, or a full
\* queue, which closes it.  Send publishes a signal, which reaches the instances
\* subscribed at that moment; a flush stops; a sweep goes on with the next row.
DeliveryFails(w) ==
    LET c == hub[InstanceOf[w]]
        full == c # NoConn /\ ~Stale(c) /\ Len(wire) >= SendQueueSize
    IN  /\ AtStep(w, "write")
        /\ \E s \in Current(w) :
              /\ ~GivesUp(task[w].op, s)
              /\ IF task[w].op = "send"
                 THEN \E reached \in SUBSET Instances :
                          signals' = signals \cup (reached \X {s.id})
                 ELSE UNCHANGED signals
        /\ c = NoConn \/ Stale(c) \/ full
        /\ closing' = IF full THEN "yes" ELSE closing
        /\ Continue(w, IF task[w].op = "sweep" THEN task[w].todo \ Current(w)
                       ELSE {})
        /\ UNCHANGED <<rowVars, hub, socket, wire, late, outbox, taken, writes,
                       faults>>

-----------------------------------------------------------------------------
(***************************************************************************)
(* The connection: Gateway.serve on the backend, Client.connect on the     *)
(* agent, and the agent's answer to a PROMPT frame.                        *)
(***************************************************************************)
\* The handshake succeeds and Hub.Register replaces the device's connection.
Connect(w) ==
    /\ IsIdle(w)
    /\ socket = NoConn
    /\ hub' = [hub EXCEPT ![InstanceOf[w]] = w]
    /\ socket' = w
    /\ closing' = "no"
    /\ Start(w, "flush", "read", {})
    /\ UNCHANGED <<rowVars, wire, late, outbox, signals, taken, writes, faults>>

\* DeliverPending, called by onDeviceConnected before the first frame is read.
Flush(w) ==
    LET pending == PendingForDevice(FlushLimit)
    IN  /\ task[w].op = "flush" /\ AtStep(w, "read")
        /\ Continue(w, pending)
        /\ UNCHANGED <<rowVars, linkVars, signals, taken, writes, faults>>

\* A read loop of the agent, of its connection or of one it has lost, handles a
\* PROMPT frame: it takes the prompt (into the coding agent or its own persisted
\* queue) and queues the ACK, dropping the oldest frame of a full outbox.  Every
\* delivery has a new envelope ID, so the transport's duplicate filter never stops
\* a redelivered prompt.
Reply(p, accepted) ==
    LET room == IF Len(outbox) < OutboxSize THEN outbox ELSE Tail(outbox)
    IN  /\ \/ /\ wire # <<>>
              /\ p = Head(wire)
              /\ wire' = Tail(wire)
              /\ UNCHANGED late
           \/ /\ late[p] > 0
              /\ late' = [late EXCEPT ![p] = @ - 1]
              /\ UNCHANGED wire
        /\ outbox' = Append(room, [id |-> p, accepted |-> accepted])

AgentAccepts(p) ==
    /\ Reply(p, TRUE)
    /\ taken' = [taken EXCEPT ![p] = Saturate(@, 2)]
    /\ UNCHANGED <<rowVars, task, hub, socket, closing, signals, writes, faults>>

\* The prompt could be neither injected nor stored.
AgentRejects(p) ==
    /\ Reply(p, FALSE)
    /\ Fault
    /\ UNCHANGED <<rowVars, task, hub, socket, closing, signals, taken, writes>>

\* handleAck, then Acknowledge up to its read: an ACK for a row that is not
\* among the first AckLimit open ones is ignored.
Acknowledge(w) ==
    LET ack == Head(outbox)
        found == {s \in PendingForDevice(AckLimit) : s.id = ack.id}
    IN  /\ task[w] = Listening
        /\ socket = w
        /\ closing # "last"
        /\ closing' = IF closing = "yes" THEN "last" ELSE closing
        /\ outbox # <<>>
        /\ outbox' = Tail(outbox)
        /\ IF found = {} THEN UNCHANGED task
           ELSE Start(w, IF ack.accepted THEN "accept" ELSE "reject", "update",
                      found)
        /\ UNCHANGED <<rowVars, hub, socket, wire, late, signals, taken, writes,
                       faults>>

\* Faulty: the device's entry is removed whoever it belongs to.
UnregisterBlindly(w) ==
    /\ task[w] = Listening
    /\ socket # w \/ closing # "no"
    /\ hub' = [hub EXCEPT ![InstanceOf[w]] = NoConn]
    /\ task' = [task EXCEPT ![w] = Idle]
    /\ UNCHANGED <<rowVars, socket, closing, wire, late, outbox, signals,
                   taken, writes, faults>>

\* The read loop of a connection that the agent has left or that was closed
\* ends; Hub.Unregister removes the device's entry only if it is still this one.
Unregister(w) ==
    LET i == InstanceOf[w]
    IN  /\ task[w] = Listening
        /\ socket # w \/ closing # "no"
        /\ hub' = [hub EXCEPT ![i] = IF @ = w THEN NoConn ELSE @]
        /\ task' = [task EXCEPT ![w] = Idle]
        /\ UNCHANGED <<rowVars, socket, closing, wire, late, outbox, signals,
                       taken, writes, faults>>

\* The agent loses its connection.  It had received some of the PROMPT frames on
\* it: connect returns without waiting for the read loop, which never looks at
\* its context and still handles them.  The rest is gone.  Of the ACKs,
\* those already handed to the socket may be gone, the others wait for the next
\* connection; one whose write failed goes to the back of the queue.
Lose ==
    /\ socket' = NoConn
    /\ closing' = "no"
    /\ wire' = <<>>
    /\ \E received \in 0..Len(wire) :
          late' = [p \in Prompts |->
              late[p] + Cardinality({k \in 1..received : wire[k] = p})]
    /\ late' \in [Prompts -> 0..MaxLate]
    /\ \E gone \in 0..Len(outbox) :
          LET kept == SubSeq(outbox, gone + 1, Len(outbox))
          IN  \/ outbox' = kept
              \/ kept # <<>> /\ outbox' = Append(Tail(kept), Head(kept))

Disconnect ==
    /\ socket # NoConn
    /\ IF closing # "no" THEN UNCHANGED faults ELSE Fault
    /\ Lose
    /\ UNCHANGED <<rowVars, task, hub, signals, taken, writes>>

\* An instance stops: its goroutines, its hub and its subscription are gone.
Crash(i) ==
    /\ Fault
    /\ task' = [w \in Workers |-> IF InstanceOf[w] = i THEN Idle ELSE task[w]]
    /\ hub' = [hub EXCEPT ![i] = NoConn]
    /\ signals' = {s \in signals : s[1] # i}
    /\ IF socket # NoConn /\ InstanceOf[socket] = i
       THEN Lose
       ELSE UNCHANGED <<socket, closing, wire, late, outbox>>
    /\ UNCHANGED <<rowVars, taken, writes>>

-----------------------------------------------------------------------------
Init ==
    /\ status = [p \in Prompts |-> "none"]
    /\ attempts = [p \in Prompts |-> 0]
    /\ task = [w \in Workers |-> Idle]
    /\ hub = [i \in Instances |-> NoConn]
    /\ socket = NoConn
    /\ closing = "no"
    /\ wire = <<>>
    /\ late = [p \in Prompts |-> 0]
    /\ outbox = <<>>
    /\ signals = {}
    /\ taken = [p \in Prompts |-> 0]
    /\ writes = [p \in Prompts |-> 0]
    /\ faults = 0

Goroutine(w) ==
    \/ Update(w) \/ UpdateFails(w)
    \/ Sweep(w)
    \/ WriteFrame(w) \/ DeliveryFails(w)
    \/ Connect(w) \/ Flush(w) \/ Acknowledge(w) \/ Unregister(w)

Next ==
    \/ \E w \in Workers : Goroutine(w)
    \/ \E w \in Workers, p \in Prompts :
          Send(w, p) \/ Cancel(w, p) \/ ReceiveSignal(w, p)
    \/ \E p \in Prompts : AgentAccepts(p) \/ AgentRejects(p)
    \/ Disconnect
    \/ \E i \in Instances : Crash(i)

Spec == Init /\ [][Next]_vars

(***************************************************************************)
(* What the code's scheduling guarantees: a goroutine that can run does,   *)
(* the agent reconnects forever and reads its socket.  Nothing is promised *)
(* of users, and no sweep: a tick is skipped when another instance has the *)
(* lock or Redis does not answer (main.go:355).                            *)
(***************************************************************************)
Progress(w) ==
    \/ Update(w) \/ WriteFrame(w) \/ DeliveryFails(w)
    \/ Flush(w) \/ Acknowledge(w) \/ Unregister(w)

FairSpec ==
    /\ Spec
    /\ \A w \in Workers : WF_vars(Progress(w))
    /\ WF_vars(\E w \in Workers : Connect(w))
    /\ WF_vars(\E p \in Prompts : AgentAccepts(p))
    /\ WF_vars(closing # "no" /\ Disconnect)

\* An assumption on Redis and the other instances: the ticks of an instance are
\* not all skipped.
MaintenanceRuns ==
    \A i \in Instances : WF_vars(\E w \in Workers : InstanceOf[w] = i /\ Sweep(w))

-----------------------------------------------------------------------------
(***************************************************************************)
(* Properties.                                                             *)
(***************************************************************************)
\* Type invariant.
TypeOK ==
    /\ status \in [Prompts -> Status \cup {"none"}]
    /\ attempts \in [Prompts -> 0..MaxDeliveryAttempts]
    /\ task \in [Workers -> [op: Ops, step: {"rest", "read", "write", "update"},
                             todo: SUBSET Snapshot]]
    /\ hub \in [Instances -> Workers \cup {NoConn}]
    /\ socket \in Workers \cup {NoConn}
    /\ closing \in {"no", "yes", "last"}
    /\ wire \in Seq(Prompts) /\ Len(wire) <= SendQueueSize
    /\ late \in [Prompts -> 0..MaxLate]
    /\ outbox \in Seq([id: Prompts, accepted: BOOLEAN]) /\ Len(outbox) <= OutboxSize
    /\ signals \subseteq Instances \X Prompts
    /\ taken \in [Prompts -> 0..2]
    /\ writes \in [Prompts -> 0..(MaxDeliveryAttempts + 1)]
    /\ faults \in 0..MaxFaults

\* A row says "delivered" only for a prompt the agent really took: whatever
\* handlers overwrite each other's rows, no confirmation is made up.
DeliveredWasTaken == \A p \in Prompts : status[p] = "delivered" => taken[p] > 0

\* The attempts counted on a row were all written to a connection, even when a
\* handler stores a count it computed from an old row.
AttemptsWereWritten == \A p \in Prompts : attempts[p] <= writes[p]

\* No prompt is ever marked failed, though the code means to (SpentIsMarked).
\* PendingForDevice hides the row whose last attempt is used up from the only
\* three handlers that would mark it (DeliverPending, ReconcilePending,
\* Acknowledge).
NeverFailed == \A p \in Prompts : status[p] # "failed"

\* The connection the agent is on is the one its instance's hub writes to, even
\* when the connection it replaced is unregistered afterwards (hub.go:129).
LiveConnectionRegistered ==
    socket # NoConn /\ closing = "no" => hub[InstanceOf[socket]] = socket

\* Some goroutine has read the row of p and has not written it back.
Held(p) == \E w \in Workers : \E s \in task[w].todo : s.id = p

\* A final status is final once no handler holds an earlier copy of the row: no
\* late ACK, signal, flush or sweep changes it.
SettledIsFinal ==
    [][\A p \in Prompts : status[p] \in Terminal /\ ~Held(p)
                          => status'[p] = status[p] /\ ~Held(p)']_vars

OnWire(p) == \E k \in 1..Len(wire) : wire[k] = p
Withdrawn(p) == status[p] = "cancelled" /\ ~Held(p) /\ ~OnWire(p) /\ late[p] = 0

\* A cancelled prompt that no handler holds, no frame carries and no read loop
\* of a lost connection is about to handle never reaches the agent again.
WithdrawnNeverTaken ==
    [][\A p \in Prompts : Withdrawn(p) => Withdrawn(p)' /\ taken'[p] = taken[p]]_vars

\* Once faults stop, every prompt a user sent is settled or has used up its
\* attempts, if the maintenance is not skipped for ever: a dispatch signal, an
\* ACK, a connection or an instance may be lost on the way and the flush and the
\* sweep make up for it.
EventuallySettledOrSpent ==
    MaintenanceRuns =>
        \A p \in Prompts : (status[p] \in Open) ~>
            (status[p] \in Terminal \/ attempts[p] = MaxDeliveryAttempts)

(***************************************************************************)
(* The inductive invariant behind them.                                    *)
(***************************************************************************)
\* The rows a goroutine holds: of prompts that exist, one copy each, counting
\* attempts that were written; none is exhausted except in Cancel; an accepting
\* one answers an agent that took the prompt; a delivering one about to count
\* its attempt has written one more frame than the row it holds says.
HeldBy(w) ==
    \A s \in task[w].todo :
        /\ status[s.id] # "none"
        /\ s.attempts <= writes[s.id]
        /\ \A t \in task[w].todo : s.id = t.id => s = t
        /\ task[w].op # "cancel" => ~Exhausted(s)
        /\ task[w].op = "accept" => taken[s.id] > 0
        /\ task[w].op \in Delivering /\ AtStep(w, "update") /\ s \in Current(w)
              => s.attempts < writes[s.id]

\* Frames carry prompts that exist; a positive ACK is of a prompt taken.
InTransit ==
    /\ \A k \in 1..Len(wire) : status[wire[k]] # "none"
    /\ \A p \in Prompts : late[p] > 0 => status[p] # "none"
    /\ \A k \in 1..Len(outbox) : outbox[k].accepted => taken[outbox[k].id] > 0

\* The goroutine of the agent's connection serves it and its hub knows it.
ConnectionServed ==
    socket # NoConn /\ closing = "no" =>
        task[socket].op \in Serving /\ hub[InstanceOf[socket]] = socket

\* Every conjunct is needed to prove that a step preserves the others.
IInv ==
    /\ TypeOK
    /\ \A w \in Workers : HeldBy(w)
    /\ InTransit
    /\ ConnectionServed
    /\ DeliveredWasTaken
    /\ AttemptsWereWritten
    /\ NeverFailed

(***************************************************************************)
(* What the documentation says and the code does not do.                   *)
(***************************************************************************)
\* domain/prompt.go:24 "Terminal reports whether the status is final."
TerminalIsFinal ==
    [][\A p \in Prompts : status[p] \in Terminal => status'[p] = status[p]]_vars

\* domain/prompt.go:35 "MaxDeliveryAttempts bounds redelivery before a prompt is
\* marked failed": one whose attempts are used up does not stay open, whatever
\* goes on being swept.
SpentIsMarked ==
    MaintenanceRuns =>
        \A p \in Prompts :
            (attempts[p] = MaxDeliveryAttempts) ~> (status[p] \in Terminal)

(***************************************************************************)
(* The promise of the queue, free of instances, rows and connections.      *)
(***************************************************************************)
Promise == INSTANCE PromptDelivery WITH
    accepted  <- {p \in Prompts : status[p] # "none"},
    taken     <- {p \in Prompts : taken[p] > 0},
    confirmed <- {p \in Prompts : status[p] = "delivered"}

\* Every step of the queue is a step of PromptDelivery or leaves it alone.
PromiseSpec == Promise!Spec

=============================================================================
