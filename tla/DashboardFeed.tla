------------------------------ MODULE DashboardFeed ------------------------------
(***************************************************************************)
(* What a user's dashboard is told about a device: the STATUS and          *)
(* TASK_WAITING frames of the agent, on their way through the gateway that *)
(* holds its connection (adapter/ws/dispatch.go), the agent_status row and *)
(* the notifications of PostgreSQL (app/device.go, app/notification.go),   *)
(* the events channel of Redis and the hub of the instance that holds the  *)
(* dashboard's connection.                                                 *)
(*                                                                         *)
(* A STATUS frame is the version of the agent's state it reports and the   *)
(* time of its envelope, the reported_at of the row.  The two are not the  *)
(* same order: sendStatus reads the state under the manager's lock, stamps *)
(* the frame after it and sends it without a lock, in the ticker's         *)
(* goroutine and in those of the other callers, so an old state may carry  *)
(* a young time.  The clock of the device does not go back; frames of one  *)
(* tick carry one time, as they may in the code.                           *)
(*                                                                         *)
(* Frames name no session or one that has a row.  A frame is with the      *)
(* gateway once it is stamped: what the outbox does with it is the matter  *)
(* of AgentTransport, and a frame that it loses is one that SaveFails      *)
(* loses here.  The channel of a subscription, and the send queue of the   *)
(* dashboard's connection behind it, are one queue here.  A dashboard is a *)
(* client outside the repository: what it shows is the last frame it was   *)
(* sent.                                                                   *)
(***************************************************************************)
EXTENDS Naturals, Sequences, FiniteSets

CONSTANTS
    Conns,       \* connections of the device, each to some instance
    Senders,     \* goroutines of the agent that send STATUS
    Ticker,      \* the one of statusLoop
    MaxVersion,  \* states the agent goes through
    MaxTime,     \* ticks of the device's clock
    MaxQuestions,
    MaxEvents,   \* changes, ticks and questions in all, a question counting twice
    Capacity,    \* of a dashboard's queue
    NoConn

ASSUME ConstantsAssumption ==
    /\ IsFiniteSet(Conns) /\ NoConn \notin Conns
    /\ Ticker \in Senders
    /\ MaxVersion \in Nat \ {0}
    /\ MaxTime \in Nat \ {0}
    /\ MaxQuestions \in Nat
    /\ MaxEvents \in Nat
    /\ Capacity \in Nat \ {0}

VARIABLES
    version,   \* the agent's state
    now,       \* the device's clock
    reading,   \* for each sender the state it has read and not yet sent, or 0
    questions, \* TASK_WAITING frames so far
    conn,      \* the agent's connection
    handler,   \* for each connection the frame that its gateway handles
    status,    \* the agent_status row: the version it holds and its reported_at, 0 before
    settings,  \* notify_on_waiting
    notes,     \* the notifications rows: unread or read
    muted,     \* notifications that Notify suppressed
    failed,    \* notifications whose INSERT failed
    open,      \* the dashboard is connected
    queue,     \* what waits for it
    live,      \* the status it was last sent
    alerts     \* the notifications it was sent

agent     == <<version, now, reading, questions, conn>>
rows      == <<status, settings, notes, muted, failed>>
dashboard == <<open, queue, live, alerts>>
vars == <<version, now, reading, questions, conn, handler, status, settings, notes, muted,
          failed, open, queue, live, alerts>>

Versions  == 1..MaxVersion
Times     == 1..MaxTime
Questions == 1..MaxQuestions

Statuses == [type: {"STATUS"}, of: Versions, at: Times]
Waits    == [type: {"TASK_WAITING"}, of: Questions]
Notices  == [type: {"NOTIFICATION"}, of: Questions]
Nothing  == [of |-> 0, at |-> 0]
Rest     == [step |-> "rest", frame |-> [type |-> "none", of |-> 0]]

At(c, step)   == handler[c].step = step
Goto(c, step) == handler' = [handler EXCEPT ![c].step = step]
Done(c)       == handler' = [handler EXCEPT ![c] = Rest]
Frame(c)      == handler[c].frame

-----------------------------------------------------------------------------
(***************************************************************************)
(* The agent and its connections.                                          *)
(***************************************************************************)
Receive(frame, step) ==
    /\ conn # NoConn
    /\ At(conn, "rest")
    /\ handler' = [handler EXCEPT ![conn] = [step |-> step, frame |-> frame]]

\* A bound of the model, on top of those of the single counters.
Leaves(room) == (version - 1) + (now - 1) + 2 * questions + room <= MaxEvents

\* Start, Stop, the output and the end of the coding agent, and the idle detection.
Change ==
    /\ version < MaxVersion /\ Leaves(1)
    /\ version' = version + 1
    /\ UNCHANGED <<now, reading, questions, conn, handler, rows, dashboard>>

Tick ==
    /\ now < MaxTime /\ Leaves(1)
    /\ now' = now + 1
    /\ UNCHANGED <<version, reading, questions, conn, handler, rows, dashboard>>

\* Under the manager's lock.
ReadState(g) ==
    /\ reading[g] = 0
    /\ reading' = [reading EXCEPT ![g] = version]
    /\ UNCHANGED <<version, now, questions, conn, handler, rows, dashboard>>

\* Under no lock.
SendStatus(g) ==
    /\ reading[g] # 0
    /\ Receive([type |-> "STATUS", of |-> reading[g], at |-> now], "save")
    /\ reading' = [reading EXCEPT ![g] = 0]
    /\ UNCHANGED <<version, now, questions, conn, rows, dashboard>>

Report(g) == ReadState(g) \/ SendStatus(g)

Ask ==
    /\ questions < MaxQuestions /\ Leaves(2)
    /\ questions' = questions + 1
    /\ Receive([type |-> "TASK_WAITING", of |-> questions'], "settings")
    /\ UNCHANGED <<version, now, reading, conn, rows, dashboard>>

\* The frame that the old connection's reader handles is handled to its end.
Connect(c) ==
    /\ conn = NoConn /\ At(c, "rest")
    /\ conn' = c
    /\ UNCHANGED <<version, now, reading, questions, handler, rows, dashboard>>

Disconnect ==
    /\ conn # NoConn
    /\ conn' = NoConn
    /\ UNCHANGED <<version, now, reading, questions, handler, rows, dashboard>>

-----------------------------------------------------------------------------
(***************************************************************************)
(* handleStatus.                                                           *)
(***************************************************************************)
Reported(frame) == [of |-> frame.of, at |-> frame.at]

\* Faulty: the row is replaced.
SaveAnyStatus(c) ==
    /\ At(c, "save")
    /\ status' = Reported(Frame(c))
    /\ Goto(c, "forward")
    /\ UNCHANGED <<agent, settings, notes, muted, failed, dashboard>>

\* Faulty: a frame that tells the row nothing new is not relayed.
SaveNews(c) ==
    /\ At(c, "save")
    /\ status' = IF status.at <= Frame(c).at THEN Reported(Frame(c)) ELSE status
    /\ IF status.of # Frame(c).of THEN Goto(c, "forward") ELSE Done(c)
    /\ UNCHANGED <<agent, settings, notes, muted, failed, dashboard>>

\* The upsert keeps a row that was reported later; the frame goes on in either case.
SaveStatus(c) ==
    /\ At(c, "save")
    /\ status' = IF status.at <= Frame(c).at THEN Reported(Frame(c)) ELSE status
    /\ Goto(c, "forward")
    /\ UNCHANGED <<agent, settings, notes, muted, failed, dashboard>>

\* An ERROR frame for the agent, and nothing for the dashboard.
SaveFails(c) ==
    /\ At(c, "save")
    /\ Done(c)
    /\ UNCHANGED <<agent, rows, dashboard>>

-----------------------------------------------------------------------------
(***************************************************************************)
(* handleTaskWaiting and Notify.                                           *)
(***************************************************************************)
\* The settings decide; when they cannot be read the defaults do, which want it.
ConsultSettings(c) ==
    /\ At(c, "settings")
    /\ \/ Goto(c, "deliver") /\ UNCHANGED muted
       \/ /\ ~settings
          /\ muted' = muted \cup {Frame(c).of}
          /\ Goto(c, "forward")
    /\ UNCHANGED <<agent, status, settings, notes, failed, dashboard>>

\* DashboardChannel.Deliver comes before the row.  When it fails, or nobody listens, the
\* row is inserted all the same.
Unheard == UNCHANGED dashboard

\* PublishToUser, the subscription, SendToUser: a full queue closes the connection.
Hear(event) ==
    /\ open
    /\ IF Len(queue) < Capacity
       THEN queue' = Append(queue, event) /\ UNCHANGED open
       ELSE open' = FALSE /\ queue' = <<>>
    /\ UNCHANGED <<live, alerts>>

Deliver(c) ==
    /\ At(c, "deliver")
    /\ Hear([type |-> "NOTIFICATION", of |-> Frame(c).of]) \/ Unheard
    /\ Goto(c, "create")
    /\ UNCHANGED <<agent, rows>>

\* Faulty: the settings are asked again.
CreateIfWanted(c) ==
    /\ At(c, "create")
    /\ notes' = IF settings THEN notes \cup {[of |-> Frame(c).of, read |-> FALSE]} ELSE notes
    /\ Goto(c, "forward")
    /\ UNCHANGED <<agent, status, settings, muted, failed, dashboard>>

Create(c) ==
    /\ At(c, "create")
    /\ notes' = notes \cup {[of |-> Frame(c).of, read |-> FALSE]}
    /\ Goto(c, "forward")
    /\ UNCHANGED <<agent, status, settings, muted, failed, dashboard>>

\* Only logged.
CreateFails(c) ==
    /\ At(c, "create")
    /\ failed' = failed \cup {Frame(c).of}
    /\ Goto(c, "forward")
    /\ UNCHANGED <<agent, status, settings, notes, muted, dashboard>>

\* forwardToDashboards.
Forward(c) ==
    /\ At(c, "forward")
    /\ Hear(Frame(c))
    /\ Done(c)
    /\ UNCHANGED <<agent, rows>>

\* Redis is down, its subscriber reconnects, or no dashboard is there.
ForwardLost(c) ==
    /\ At(c, "forward")
    /\ Done(c)
    /\ UNCHANGED <<agent, rows, dashboard>>

-----------------------------------------------------------------------------
(***************************************************************************)
(* The dashboard and its user.                                             *)
(***************************************************************************)
\* The write pump.
Show ==
    /\ queue # <<>>
    /\ LET event == Head(queue)
       IN  /\ live' = IF event.type = "STATUS" THEN Reported(event) ELSE live
           /\ alerts' = IF event.type = "NOTIFICATION" THEN alerts \cup {event.of} ELSE alerts
    /\ queue' = Tail(queue)
    /\ UNCHANGED <<agent, handler, rows, open>>

Open ==
    /\ ~open
    /\ open' = TRUE
    /\ UNCHANGED <<agent, handler, rows, queue, live, alerts>>

Close ==
    /\ open
    /\ open' = FALSE
    /\ queue' = <<>>
    /\ UNCHANGED <<agent, handler, rows, live, alerts>>

\* SaveSettings writes every column; whichever value a PATCH had read or was given.
SaveSettings ==
    /\ settings' = ~settings
    /\ UNCHANGED <<agent, handler, status, notes, muted, failed, dashboard>>

MarkRead(n) ==
    /\ n \in notes /\ ~n.read
    /\ notes' = (notes \ {n}) \cup {[n EXCEPT !.read = TRUE]}
    /\ UNCHANGED <<agent, handler, status, settings, muted, failed, dashboard>>

MarkAllRead ==
    /\ \E n \in notes : ~n.read
    /\ notes' = {[n EXCEPT !.read = TRUE] : n \in notes}
    /\ UNCHANGED <<agent, handler, status, settings, muted, failed, dashboard>>

-----------------------------------------------------------------------------
Init ==
    /\ version = 1
    /\ now = 1
    /\ reading = [g \in Senders |-> 0]
    /\ questions = 0
    /\ conn = NoConn
    /\ handler = [c \in Conns |-> Rest]
    /\ status = Nothing
    /\ settings = TRUE
    /\ notes = {}
    /\ muted = {}
    /\ failed = {}
    /\ open = FALSE
    /\ queue = <<>>
    /\ live = Nothing
    /\ alerts = {}

HandleStatus(c) == SaveStatus(c) \/ SaveFails(c)
Notify(c)  == ConsultSettings(c) \/ Deliver(c) \/ Create(c) \/ CreateFails(c)
Handle(c)  == HandleStatus(c) \/ Notify(c) \/ Forward(c) \/ ForwardLost(c)

Next ==
    \/ Change \/ Tick \/ Ask \/ Disconnect
    \/ \E g \in Senders : Report(g)
    \/ \E c \in Conns : Connect(c) \/ Handle(c)
    \/ Show \/ Open \/ Close
    \/ SaveSettings \/ MarkAllRead \/ \E n \in notes : MarkRead(n)

Spec == Init /\ [][Next]_vars

(***************************************************************************)
(* The agent reconnects and its ticker ticks, the goroutines of the        *)
(* gateway run, and neither PostgreSQL nor Redis fails for every frame.    *)
(* Nothing is assumed of the other senders of STATUS.                      *)
(***************************************************************************)
FairSpec ==
    /\ Spec
    /\ WF_vars(\E c \in Conns : Connect(c))
    /\ WF_vars(ReadState(Ticker)) /\ SF_vars(SendStatus(Ticker))
    /\ \A d \in Conns : WF_vars(Handle(d))
    /\ SF_vars(\E c \in Conns : SaveStatus(c))
    /\ SF_vars(\E c \in Conns : Forward(c))
    /\ WF_vars(Show)

-----------------------------------------------------------------------------
(***************************************************************************)
(* Properties.                                                             *)
(***************************************************************************)
\* Type invariant.
TypeOK ==
    /\ version \in Versions
    /\ now \in Times
    /\ reading \in [Senders -> 0..MaxVersion]
    /\ questions \in 0..MaxQuestions
    /\ conn \in Conns \cup {NoConn}
    /\ handler \in [Conns ->
           [step: {"save", "forward"}, frame: Statuses]
           \cup [step: {"settings", "deliver", "create", "forward"}, frame: Waits]
           \cup {Rest}]
    /\ status \in [of: Versions, at: Times] \cup {Nothing}
    /\ settings \in BOOLEAN
    /\ notes \subseteq [of: Questions, read: BOOLEAN]
    /\ muted \subseteq Questions
    /\ failed \subseteq Questions
    /\ open \in BOOLEAN
    /\ queue \in Seq(Statuses \cup Waits \cup Notices) /\ Len(queue) <= Capacity
    /\ live \in [of: Versions, at: Times] \cup {Nothing}
    /\ alerts \subseteq Questions

Stored    == {n.of : n \in notes}
Alerted   == alerts \cup {queue[k].of : k \in {j \in DOMAIN queue : queue[j].type = "NOTIFICATION"}}
Notifying == {Frame(c).of : c \in {d \in Conns : At(d, "create")}}

\* What is raised is raised once and whole, however often the settings change under way:
\* a notification the dashboard was sent is on the notifications page, is about to be, or
\* its INSERT failed; one that the settings suppressed is in neither place.
RaisedWhole ==
    /\ Alerted \subseteq Stored \cup failed \cup Notifying
    /\ muted \cap (Alerted \cup Stored \cup failed) = {}
    /\ \A m, n \in notes : m.of = n.of => m = n

\* Until its row is inserted one reader has a question in its hands, and nothing else is
\* known of it but what the dashboard was told.
InHand(c) == handler[c].step \in {"settings", "deliver", "create"}
InOneHand ==
    /\ \A c \in Conns : InHand(c) =>
          /\ Frame(c).of \in (1..questions) \ (muted \cup Stored \cup failed)
          /\ ~At(c, "create") => Frame(c).of \notin Alerted
          /\ \A d \in Conns : InHand(d) /\ Frame(d).of = Frame(c).of => d = c
    /\ muted \cup Stored \cup failed \subseteq 1..questions

IInv == TypeOK /\ RaisedWhole /\ InOneHand

\* The row carries the latest report of all that were relayed: no reload takes the user
\* back behind the time of what the live updates showed, whichever connections and
\* goroutines brought them and in whatever order.  It is the time that is compared: the
\* state of the latest report may still be the older one.
PageNotBehind ==
    /\ live.at <= status.at
    /\ \A k \in DOMAIN queue : queue[k].type = "STATUS" => queue[k].at <= status.at
    /\ \A c \in Conns : At(c, "forward") /\ Frame(c) \in Statuses => Frame(c).at <= status.at

\* Lost and late updates are repaired: whatever went missing, and whatever old state was
\* stamped late, the device list comes to show the state the agent is in, and so does a
\* dashboard that stays connected.
DashboardConverges ==
    /\ <>[](status.of = version)
    /\ <>[]open => <>[](live.of = version)

(***************************************************************************)
(* What the documentation says and the code does not do.                   *)
(***************************************************************************)
\* device_store.go:188 "without this the dashboard would flicker backwards": no update
\* takes the dashboard back to an earlier report.
LiveNeverFlickers == [][live'.at >= live.at]_vars

=============================================================================
