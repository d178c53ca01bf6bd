------------------------------ MODULE AgentPrompts ------------------------------
(***************************************************************************)
(* What the agent does with prompts: Manager.handlePrompt, queuePrompt and *)
(* drainPendingPrompts (agent/internal/session/handler.go) over the        *)
(* encrypted state file (agent/internal/store/store.go).                   *)
(*                                                                         *)
(* A prompt is written to the coding agent's input or, when that is        *)
(* impossible, appended to a queue kept in memory and on disk; in both     *)
(* cases the backend is told that the agent has it.  The queue is drained  *)
(* by OnConnected, before the read loop of the new connection starts.  The *)
(* read loop of an old connection may still be busy with its last frame,   *)
(* so several read loops and the drain interleave.                         *)
(***************************************************************************)
EXTENDS Integers, Sequences, FiniteSets

CONSTANTS
    Prompts,            \* prompt IDs
    Readers,            \* read loops of successive connections
    MaxOfflinePrompts,  \* capacity of the queue
    MaxDeliveries,      \* PROMPT frames the backend sends for each prompt
    MaxFaults,          \* bound on failed writes and restarts
    NoPrompt,
    NoReader

ASSUME PromptsAssumption ==
    /\ IsFiniteSet(Prompts) /\ NoPrompt \notin Prompts
    /\ IsFiniteSet(Readers) /\ NoReader \notin Readers
    /\ MaxOfflinePrompts \in Nat \ {0}
    /\ MaxDeliveries \in [Prompts -> Nat]
    /\ MaxFaults \in Nat

VARIABLES
    memory,      \* PendingPrompts as the process sees them
    disk,        \* PendingPrompts in the state file
    session,     \* the coding session: "none" and "stopped" are a nil adapter
    link,        \* "down", "draining" while OnConnected runs, "up"; "refused"
                 \* after the backend rejected the device's credentials
    reader,      \* the read loop of the latest connection
    handling,    \* the frame each read loop is handling
    drain,       \* drainPendingPrompts: snapshot left and prompts injected
    acked,       \* prompts the agent told the backend it has
    dropped,     \* prompts dropped to make room or with rejected credentials
    drops,       \* how often one was
    injected,    \* times each prompt was written to the coding agent
    deliveries,  \* PROMPT frames received for each prompt
    faults

history == <<acked, dropped, drops, injected, deliveries>>
promptVars == <<memory, disk, session, link, reader, handling, drain, history, faults>>

Free     == [step |-> "free", prompt |-> NoPrompt]
NotDraining == [step |-> "no", todo |-> <<>>, injected |-> 0]

HasAdapter == session \in {"starting", "running", "exited"}

Elements(q) == {q[k] : k \in 1..Len(q)}

Fault == faults < MaxFaults /\ faults' = faults + 1

\* Store.Update: memory changes first, then the file is replaced; a write that
\* fails leaves the old file and the new memory.
Persisted(queue) == memory' = queue /\ disk' = queue /\ UNCHANGED faults
NotPersisted(queue) == memory' = queue /\ UNCHANGED disk /\ Fault

\* Prompts the queue gives up, each with a warning in the log.
Drop(prompts) == dropped' = dropped \cup prompts /\ drops' = drops + Cardinality(prompts)

-----------------------------------------------------------------------------
(***************************************************************************)
(* The coding session.                                                     *)
(***************************************************************************)
\* StartSession, called once, by the auto-start goroutine.
SessionStarts ==
    /\ session = "none"
    /\ session' = "starting"

\* The first line of output.
FirstOutput ==
    /\ session = "starting"
    /\ session' = "running"

\* The process ends, by itself or because StopSession terminates it; its adapter
\* stays in place.
ProcessExits ==
    /\ session \in {"starting", "running"}
    /\ session' = "exited"

\* StopSession forgets the adapter.
SessionStops ==
    /\ HasAdapter
    /\ session' = "stopped"

Session ==
    /\ SessionStarts \/ FirstOutput \/ ProcessExits \/ SessionStops
    /\ UNCHANGED <<memory, disk, link, reader, handling, drain, history, faults>>

-----------------------------------------------------------------------------
(***************************************************************************)
(* handlePrompt.                                                           *)
(***************************************************************************)
\* A PROMPT frame, of a new envelope, so never filtered as a duplicate.  The
\* adapter pointer is read once.
Receive(p) ==
    /\ link = "up"
    /\ handling[reader].step = "free"
    /\ deliveries[p] < MaxDeliveries[p]
    /\ deliveries' = [deliveries EXCEPT ![p] = @ + 1]
    /\ handling' = [handling EXCEPT
           ![reader] = [step |-> IF HasAdapter THEN "send" ELSE "queue", prompt |-> p]]
    /\ UNCHANGED <<memory, disk, session, link, reader, drain, acked, dropped,
                   drops, injected, faults>>

Finish(r) == handling' = [handling EXCEPT ![r] = Free]

\* SendPrompt succeeds: the text is on the coding agent's input.
Inject(r) ==
    LET p == handling[r].prompt
    IN  /\ handling[r].step = "send"
        /\ session = "running"
        /\ injected' = [injected EXCEPT ![p] = @ + 1]
        /\ acked' = acked \cup {p}
        /\ Finish(r)
        /\ UNCHANGED <<memory, disk, session, link, reader, drain, dropped, drops,
                       deliveries, faults>>

\* The session is starting, over, or was stopped meanwhile.
CannotInject(r) ==
    /\ handling[r].step = "send"
    /\ session # "running"
    /\ handling' = [handling EXCEPT ![r].step = "queue"]
    /\ UNCHANGED <<memory, disk, session, link, reader, drain, history, faults>>

\* The write to the coding agent's input fails: the backend is told to redeliver.
InjectFails(r) ==
    /\ handling[r].step = "send"
    /\ session = "running"
    /\ Fault
    /\ Finish(r)
    /\ UNCHANGED <<memory, disk, session, link, reader, drain, history>>

\* queuePrompt's function: nothing for a prompt already queued, and the oldest
\* one makes room in a full queue.
Full == Len(memory) >= MaxOfflinePrompts

Enqueued(p) ==
    IF p \in Elements(memory) THEN memory
    ELSE Append(IF Full THEN Tail(memory) ELSE memory, p)

\* A prompt is acknowledged only when the file was replaced.
Queue(r) ==
    LET p == handling[r].prompt
    IN  /\ handling[r].step = "queue"
        /\ \/ Persisted(Enqueued(p)) /\ acked' = acked \cup {p}
           \/ NotPersisted(Enqueued(p)) /\ UNCHANGED acked
        /\ Drop(Elements(memory) \ Elements(Enqueued(p)))
        /\ Finish(r)
        /\ UNCHANGED <<session, link, reader, drain, injected, deliveries>>

-----------------------------------------------------------------------------
(***************************************************************************)
(* Connections and the drain.                                              *)
(***************************************************************************)
\* Faulty: OnConnected does not drain.
ConnectWithoutDrain(r) ==
    /\ link = "down"
    /\ handling[r].step = "free"
    /\ reader' = r
    /\ link' = "up"
    /\ UNCHANGED <<memory, disk, session, handling, drain, history, faults>>

\* The handshake succeeds; OnConnected takes a snapshot of the queue when there
\* is a session to inject it into.
Connect(r) ==
    LET drains == HasAdapter /\ memory # <<>>
    IN  /\ link = "down"
        /\ handling[r].step = "free"
        /\ reader' = r
        /\ link' = IF drains THEN "draining" ELSE "up"
        /\ drain' = IF drains THEN [step |-> "inject", todo |-> memory, injected |-> 0]
                    ELSE NotDraining
        /\ UNCHANGED <<memory, disk, session, handling, history, faults>>

\* One prompt of the snapshot is written to the coding agent.
DrainOne ==
    /\ drain.step = "inject"
    /\ drain.todo # <<>>
    /\ session = "running"
    /\ injected' = [injected EXCEPT ![Head(drain.todo)] = @ + 1]
    /\ drain' = [drain EXCEPT !.todo = Tail(@), !.injected = @ + 1]
    /\ UNCHANGED <<memory, disk, session, link, reader, handling, acked, dropped,
                   drops, deliveries, faults>>

\* The snapshot is done, or SendPrompt fails and the drain gives up.
DrainEnds ==
    /\ drain.step = "inject"
    /\ IF drain.todo = <<>> \/ session # "running" THEN UNCHANGED faults ELSE Fault
    /\ drain' = IF drain.injected = 0 THEN NotDraining ELSE [drain EXCEPT !.step = "trim"]
    /\ link' = IF drain.injected = 0 THEN "up" ELSE link
    /\ UNCHANGED <<memory, disk, session, reader, handling, history>>

\* Faulty: the last injected prompt stays in the queue.
TrimmedShort ==
    IF drain.injected > Len(memory) THEN <<>>
    ELSE SubSeq(memory, drain.injected, Len(memory))

\* As many prompts as were injected leave the front of the queue, whatever it
\* holds by now.
Trimmed ==
    IF drain.injected >= Len(memory) THEN <<>>
    ELSE SubSeq(memory, drain.injected + 1, Len(memory))

DrainTrims ==
    /\ drain.step = "trim"
    /\ Persisted(Trimmed) \/ NotPersisted(Trimmed)
    /\ drain' = NotDraining
    /\ link' = "up"
    /\ UNCHANGED <<session, reader, handling, history>>

\* The connection is lost; a frame being handled is handled to its end.
Disconnect ==
    /\ link = "up"
    /\ link' = "down"
    /\ UNCHANGED <<memory, disk, session, reader, handling, drain, history, faults>>

\* AUTH is answered with an error that is not retryable: Store.Reset, and the
\* reconnect loop ends.
CredentialsRejected ==
    /\ link = "down"
    /\ link' = "refused"
    /\ memory' = <<>>
    /\ disk' = <<>>
    /\ Drop(Elements(memory) \cup Elements(disk))
    /\ UNCHANGED <<session, reader, handling, drain, acked, injected, deliveries, faults>>

\* The process dies and starts again from its file.
Restart ==
    /\ Fault
    /\ memory' = disk
    /\ session' = "none"
    /\ link' = "down"
    /\ handling' = [r \in Readers |-> Free]
    /\ drain' = NotDraining
    /\ UNCHANGED <<disk, reader, history>>

-----------------------------------------------------------------------------
PromptsInit ==
    /\ memory = <<>>
    /\ disk = <<>>
    /\ session = "none"
    /\ link = "down"
    /\ reader = NoReader
    /\ handling = [r \in Readers |-> Free]
    /\ drain = NotDraining
    /\ acked = {}
    /\ dropped = {}
    /\ drops = 0
    /\ injected = [p \in Prompts |-> 0]
    /\ deliveries = [p \in Prompts |-> 0]
    /\ faults = 0

PromptsNext ==
    \/ Session
    \/ \E p \in Prompts : Receive(p)
    \/ \E r \in Readers :
          Inject(r) \/ CannotInject(r) \/ InjectFails(r) \/ Queue(r) \/ Connect(r)
    \/ DrainOne \/ DrainEnds \/ DrainTrims
    \/ Disconnect \/ CredentialsRejected
    \/ Restart

PromptsSpec == PromptsInit /\ [][PromptsNext]_promptVars

(***************************************************************************)
(* A read loop and the drain go on while they can, and the agent           *)
(* reconnects (Client.run).  Nothing is promised of the coding process.    *)
(***************************************************************************)
PromptsFairSpec ==
    /\ PromptsSpec
    /\ \A r \in Readers : WF_promptVars(Inject(r) \/ CannotInject(r) \/ Queue(r))
    /\ WF_promptVars(\E r \in Readers : Connect(r))
    /\ WF_promptVars(DrainOne) /\ WF_promptVars(DrainEnds) /\ WF_promptVars(DrainTrims)

-----------------------------------------------------------------------------
(***************************************************************************)
(* Properties.                                                             *)
(***************************************************************************)
Distinct(q) == \A j, k \in 1..Len(q) : q[j] = q[k] => j = k

\* Type invariant: the queue is bounded and holds a prompt at most once.
PromptsTypeOK ==
    /\ memory \in Seq(Prompts) /\ Len(memory) <= MaxOfflinePrompts /\ Distinct(memory)
    /\ disk \in Seq(Prompts) /\ Len(disk) <= MaxOfflinePrompts /\ Distinct(disk)
    /\ session \in {"none", "starting", "running", "exited", "stopped"}
    /\ link \in {"down", "draining", "up", "refused"}
    /\ reader \in Readers \cup {NoReader}
    /\ handling \in [Readers -> {Free} \cup [step: {"send", "queue"}, prompt: Prompts]]
    /\ drain \in [step: {"no", "inject", "trim"}, todo: Seq(Prompts), injected: Nat]
    /\ acked \subseteq Prompts
    /\ dropped \subseteq Prompts
    /\ drops \in Nat
    /\ injected \in [Prompts -> Nat]
    /\ deliveries \in [Prompts -> Nat]
    /\ \A p \in Prompts : deliveries[p] <= MaxDeliveries[p]
    /\ faults \in 0..MaxFaults

\* An acknowledged prompt that was neither injected nor is in the file, where a
\* restart would find it.
Lost == {p \in acked : injected[p] = 0 /\ p \notin Elements(disk)}

\* Whatever the drain and late read loops do to the queue, and whichever write
\* fails, no more prompts are lost than were dropped from a full queue or with
\* rejected credentials.  They need not be the same ones: a late read loop may
\* drop from the front what the drain has already injected, and the drain, which
\* counts, then removes the next one.  A prompt that comes again can be dropped
\* again, so it is drops that count, not prompts.
LossesAreDrops == Cardinality(Lost) <= drops

\* A prompt is injected once per delivery: the drain and handlePrompt never both
\* inject it, unless a crash or a failed write brings back a prompt already
\* injected.
InjectionsAccounted == \A p \in Prompts : injected[p] <= deliveries[p] + faults

\* The drain runs while OnConnected does, for a connection that has its read loop.
DrainInStep ==
    /\ link = "draining" <=> drain.step # "no"
    /\ drain.step = "no" => drain = NotDraining
    /\ link \in {"up", "draining"} => reader \in Readers
    /\ Distinct(drain.todo)

\* Late read loops have dropped d prompts since the snapshot: of the snapshot, the queue
\* holds what was not dropped, in front, and the drain has injected it up to its count.
Slipped(d) ==
    LET n == drain.injected IN
    /\ n + Len(drain.todo) <= Len(memory) + d
    /\ \A k \in 1..Len(memory) : k + d <= n => injected[memory[k]] > 0
    /\ \A k \in 1..Len(drain.todo) : n + k > d => memory[n + k - d] = drain.todo[k]

\* What a restart or the next write of the file would lose is lost already; what was
\* dropped from under the drain may be too, until the drain injects it all the same; and
\* for every prompt that was injected and then dropped, the drain removes another.
Missing == {p \in acked : injected[p] = 0 /\ p \notin Elements(memory) \cap Elements(disk)}
Slipping(d) == {drain.todo[k] : k \in {j \in 1..Len(drain.todo) : drain.injected + j <= d}}
LossesCounted(d) ==
    Cardinality(Missing \cup Slipping(d))
    + (IF d < drain.injected THEN d ELSE drain.injected) <= drops

\* A delivery is in the hands of a read loop, in the snapshot, in the queue behind what
\* is left of the snapshot, or was injected.
Held(p)     == {r \in Readers : handling[r].prompt = p}
Behind(d)   == {memory[k] : k \in {j \in 1..Len(memory) :
                                       j + d > drain.injected + Len(drain.todo)}}
Count(p, S) == IF p \in S THEN 1 ELSE 0
InjectionsCounted(d) ==
    \A p \in Prompts :
        injected[p] + Cardinality(Held(p)) + Count(p, Elements(drain.todo))
        + Count(p, Behind(d)) <= deliveries[p] + faults

Balanced(d) == Slipped(d) /\ LossesCounted(d) /\ InjectionsCounted(d)

\* The queue is well-formed and nothing is lost or injected unaccounted for.
PromptsInv ==
    /\ PromptsTypeOK /\ LossesAreDrops /\ InjectionsAccounted
    /\ DrainInStep /\ \E d \in 0..drops : Balanced(d)

\* A queued prompt leaves the queue while a session keeps running, if the connection
\* is lost and regained again and again; unless something was dropped to make room it
\* leaves by being injected.
RunsOn == <>[](session = "running")
Reconnects == []<>(link = "down") /\ []<>(link = "up")
QueuedInjectedOnReconnect ==
    RunsOn /\ Reconnects =>
        \A p \in Prompts : p \in Elements(memory) ~>
            (p \notin Elements(memory) /\ (injected[p] > 0 \/ dropped # {}))

(***************************************************************************)
(* What the documentation says and the code does not do.                   *)
(***************************************************************************)
\* handler.go:185 "Called when a session starts and after a reconnect."
QueuedInjectedWhenRunning ==
    RunsOn => \A p \in Prompts : p \in Elements(memory) ~>
                  (injected[p] > 0 \/ p \in dropped)

\* handler.go:61 "acknowledge only what was actually injected. A prompt the coding
\* agent could not accept is persisted locally and retried".
AcceptedIsKept == \A p \in acked : injected[p] > 0 \/ p \in Elements(disk) \/ p \in dropped

=============================================================================
