------------------------------ MODULE AgentSession ------------------------------
(***************************************************************************)
(* One coding session in the agent process: the goroutines of the session  *)
(* manager (agent/internal/session/manager.go), the Claude adapter with    *)
(* the process it watches (agent/internal/coding/claude.go) and the        *)
(* inhibition of the machine's sleep (agent/internal/power).               *)
(*                                                                         *)
(* The session is started by one goroutine (auto-start is the only caller  *)
(* of StartSession), stopped by requests of the backend and by the         *)
(* shutdown, watched by the consumer of its output and reported by the     *)
(* status loop.  All of them interleave statement by statement.            *)
(***************************************************************************)
CONSTANTS Request, Shutdown  \* the two callers of StopSession

ASSUME StoppersDiffer == Request # Shutdown

VARIABLES
    starter,    \* the auto-start goroutine
    process,    \* the coding agent as the OS sees it; "ok" and "failed" are its exits
    inherited,  \* it has ended, and a process it started still holds its streams open
    adapter,    \* claudeAdapter.state; exited is true when it is terminal
    attached,   \* Manager.adapter is set
    state,      \* Manager.state
    inhibitor,  \* the systemd-inhibit child, see Inhibitors
    prevented,  \* base.prevented, what Status() tells
    stopper,    \* calls of StopSession in progress
    consumer,   \* consumeOutput
    silent,     \* no output and no prompt for IdleTimeout
    tick,       \* the state statusLoop is about to send
    reported,   \* the state in the last STATUS frame
    waiting,    \* a TASK_WAITING was sent
    completed,  \* the exit in the TASK_COMPLETE
    manager,    \* Manager.Stop: how far the shutdown is
    missed      \* it began while StartSession was not done

coding  == <<process, inherited, adapter, silent>>
power   == <<inhibitor, prevented>>
reports  == <<tick, reported, waiting, completed>>
control == <<manager, missed>>
vars == <<starter, process, inherited, adapter, attached, state, inhibitor, prevented,
          stopper, consumer, silent, tick, reported, waiting, completed, manager, missed>>

Stoppers == {Request, Shutdown}
Terminal == {"stopped", "crashed"}
States   == {"idle", "starting", "running", "waiting_input", "stopping"} \cup Terminal
Ended    == {"ok", "failed"}
Exited   == adapter \in Terminal

\* free: it was killed; exited: it ended by itself, and its waiter has not noticed;
\* ended: the waiter has; leaked: it could not be killed, and the manager has lost it.
Inhibitors == {"none", "held", "free", "exited", "ended", "leaked"}

\* Until the process of the agent is gone its goroutines run.
Alive == manager # "gone"

-----------------------------------------------------------------------------
(***************************************************************************)
(* Sleep inhibition, on Linux.                                             *)
(***************************************************************************)
MarkPrevented == prevented' = TRUE
MarkAllowed   == prevented' = FALSE

\* With a child, or what still passes for one, only the reason changes; without
\* systemd-inhibit the error is a warning to the session.
PreventSleep ==
    \/ /\ inhibitor' = IF inhibitor = "exited" THEN "exited" ELSE "held"
       /\ MarkPrevented
    \/ UNCHANGED power

\* The child is forgotten, then killed; when that fails prevented stays as it is.
AllowSleep ==
    \/ /\ inhibitor' = IF inhibitor \in {"held", "exited"} THEN "free" ELSE inhibitor
       /\ MarkAllowed
    \/ /\ inhibitor = "held"
       /\ inhibitor' = "leaked"
       /\ UNCHANGED prevented

InhibitorExits ==
    /\ inhibitor = "held"
    /\ inhibitor' = "exited"
    /\ UNCHANGED <<starter, coding, attached, state, prevented, stopper, consumer,
                   reports, control>>

\* The goroutine that waits for the child.
InhibitorNoticed ==
    /\ Alive
    /\ inhibitor = "exited"
    /\ inhibitor' = "ended"
    /\ MarkAllowed
    /\ UNCHANGED <<starter, coding, attached, state, stopper, consumer, reports, control>>

-----------------------------------------------------------------------------
(***************************************************************************)
(* The process and its adapter.                                            *)
(***************************************************************************)
Working == {"starting", "running", "waiting_input"}

\* Someone may write to the streams, so that neither reader has come to their end.
Streaming == process = "alive" \/ inherited

\* Faulty: whatever it was doing.
ReadLineInAnyState ==
    /\ Alive
    /\ Streaming
    /\ adapter' = "running"
    /\ silent' = FALSE
    /\ UNCHANGED <<starter, process, inherited, attached, state, power, stopper, consumer,
                   reports, control>>

\* A line of output: the coding agent is past its start, or back at work.
ReadLine ==
    /\ Alive
    /\ Streaming
    /\ adapter' = IF adapter \in Working THEN "running" ELSE adapter
    /\ silent' = FALSE
    /\ UNCHANGED <<starter, process, inherited, attached, state, power, stopper, consumer,
                   reports, control>>

\* SendPrompt by the reader of a connection, which found the adapter in place.
SendPrompt ==
    /\ Alive
    /\ attached
    /\ Streaming /\ adapter # "starting"
    /\ adapter' = IF adapter = "waiting_input" THEN "running" ELSE adapter
    /\ silent' = FALSE
    /\ UNCHANGED <<starter, process, inherited, attached, state, power, stopper, consumer,
                   reports, control>>

FallSilent ==
    /\ Streaming /\ ~silent
    /\ silent' = TRUE
    /\ UNCHANGED <<starter, process, inherited, adapter, attached, state, power, stopper,
                   consumer, reports, control>>

\* The coding agent ends, by itself or because it was asked to; what it started may
\* go on with the streams it inherited ...
ProcessEnds ==
    /\ process = "alive"
    /\ process' \in Ended
    /\ inherited' \in BOOLEAN
    /\ silent' = FALSE
    /\ UNCHANGED <<starter, adapter, attached, state, power, stopper, consumer, reports,
                   control>>

\* ... and ends when it likes.
HeirsEnd ==
    /\ inherited
    /\ inherited' = FALSE
    /\ UNCHANGED <<starter, process, adapter, attached, state, power, stopper, consumer,
                   silent, reports, control>>

\* Faulty: a process that was asked to stop keeps the state it has.
ReapUnlessStopping ==
    /\ Alive
    /\ process \in Ended /\ ~inherited /\ ~Exited
    /\ adapter' = CASE adapter = "stopping" -> "stopping"
                    [] process = "ok"       -> "stopped"
                    [] OTHER                -> "crashed"
    /\ UNCHANGED <<starter, process, inherited, attached, state, power, stopper, consumer,
                   silent, reports, control>>

\* reap, after both streams have ended; the output channel is closed with it.
Reap ==
    /\ Alive
    /\ process \in Ended /\ ~inherited /\ ~Exited
    /\ adapter' = IF adapter = "stopping" \/ process = "ok" THEN "stopped" ELSE "crashed"
    /\ UNCHANGED <<starter, process, inherited, attached, state, power, stopper, consumer,
                   silent, reports, control>>

-----------------------------------------------------------------------------
(***************************************************************************)
(* StartSession, two seconds after the manager.                            *)
(***************************************************************************)
Next_(from, to) == Alive /\ starter = from /\ starter' = to

\* No session is active, so it begins; or the configured adapter is a placeholder.
BeginStart ==
    /\ Next_("asleep", "inhibit") \/ Next_("asleep", "done")
    /\ UNCHANGED <<coding, attached, state, power, stopper, consumer, reports, control>>

Inhibit ==
    /\ Next_("inhibit", "launch")
    /\ PreventSleep
    /\ UNCHANGED <<coding, attached, state, stopper, consumer, reports, control>>

Launch ==
    /\ Next_("launch", "attach")
    /\ process' = "alive"
    /\ adapter' = "starting"
    /\ UNCHANGED <<inherited, attached, state, power, stopper, consumer, silent, reports,
                   control>>

\* No usable directory, no executable, or the start of it failed.
LaunchFails ==
    /\ Next_("launch", "done")
    /\ AllowSleep
    /\ UNCHANGED <<coding, attached, state, stopper, consumer, reports, control>>

Attach ==
    /\ Next_("attach", "consume")
    /\ attached' = TRUE
    /\ state' = "starting"
    /\ UNCHANGED <<coding, power, stopper, consumer, reports, control>>

\* After the session ID was stored.
StartConsumer ==
    /\ Next_("consume", "report")
    /\ consumer' = "reading"
    /\ UNCHANGED <<coding, attached, state, power, stopper, reports, control>>

\* What sendStatus puts in the frame: the adapter's state when there is an adapter.
Snapshot == IF attached THEN adapter ELSE state

ReportStart ==
    /\ Next_("report", "done")
    /\ reported' = Snapshot
    /\ UNCHANGED <<coding, attached, state, power, stopper, consumer, tick, waiting,
                   completed, control>>

-----------------------------------------------------------------------------
(***************************************************************************)
(* StopSession.                                                            *)
(***************************************************************************)
Stopping(s, from, to) ==
    /\ Alive
    /\ stopper[s] = from
    /\ stopper' = [stopper EXCEPT ![s] = to]

\* Faulty: the inhibition is released with the request, not after the stop.
ReleaseAtOnce(s) ==
    /\ s = Shutdown => manager = "stopping"
    /\ attached
    /\ Stopping(s, "rest", IF Exited THEN "allow" ELSE "wait")
    /\ adapter' = IF Exited THEN adapter ELSE "stopping"
    /\ AllowSleep
    /\ UNCHANGED <<starter, process, inherited, attached, state, consumer, silent, reports,
                   control>>

\* An exited adapter has nothing to stop; any other is marked, its input is closed
\* and its process group gets SIGTERM.
BeginStop(s) ==
    /\ s = Shutdown => manager = "stopping"
    /\ attached
    /\ Stopping(s, "rest", IF Exited THEN "allow" ELSE "wait")
    /\ adapter' = IF Exited THEN adapter ELSE "stopping"
    /\ UNCHANGED <<starter, process, inherited, attached, state, power, consumer, silent,
                   reports, control>>

SeeExit(s) ==
    /\ Exited
    /\ Stopping(s, "wait", "allow")
    /\ UNCHANGED <<starter, coding, attached, state, power, consumer, reports, control>>

\* The grace is over: SIGKILL to the process group, and no wait for the end of it; a
\* process that has left the group survives.
Kill(s) ==
    /\ ~Exited
    /\ Stopping(s, "wait", "allow")
    /\ process' = IF process = "alive" THEN "failed" ELSE process
    /\ inherited' \in IF Streaming THEN BOOLEAN ELSE {FALSE}
    /\ silent' = FALSE
    /\ UNCHANGED <<starter, adapter, attached, state, power, consumer, reports, control>>

AllowAfterStop(s) ==
    /\ Stopping(s, "allow", "clear")
    /\ AllowSleep
    /\ UNCHANGED <<starter, coding, attached, state, consumer, reports, control>>

Clear(s) ==
    /\ Stopping(s, "clear", "rest")
    /\ attached' = FALSE
    /\ state' = "stopped"
    /\ manager' = IF s = Shutdown THEN "releasing" ELSE manager
    /\ UNCHANGED <<starter, coding, power, consumer, reports, missed>>

-----------------------------------------------------------------------------
(***************************************************************************)
(* consumeOutput and statusLoop.                                           *)
(***************************************************************************)
Consuming(from, to) == Alive /\ consumer = from /\ consumer' = to

\* The output has ended; the session is still the current one, there is no other.
Conclude ==
    /\ Exited
    /\ Consuming("reading", "allow")
    /\ state' = adapter
    /\ UNCHANGED <<starter, coding, attached, power, stopper, reports, control>>

AllowAfterExit ==
    /\ Consuming("allow", "complete")
    /\ AllowSleep
    /\ UNCHANGED <<starter, coding, attached, state, stopper, reports, control>>

Complete ==
    /\ Consuming("complete", "report")
    /\ completed' = process
    /\ UNCHANGED <<starter, coding, attached, state, power, stopper, tick, reported,
                   waiting, control>>

ReportEnd ==
    /\ Consuming("report", "done")
    /\ reported' = Snapshot
    /\ UNCHANGED <<starter, coding, attached, state, power, stopper, tick, waiting,
                   completed, control>>

\* detectIdle looks at the manager's own state.
DetectsIdle == attached /\ state = "running" /\ silent

\* Faulty: once a session is over there is nothing to tell.
StatusTickOfSession ==
    /\ manager = "up"
    /\ tick = "rest" /\ consumer # "done"
    /\ tick' = Snapshot
    /\ UNCHANGED <<starter, coding, attached, state, power, stopper, consumer, reported,
                   waiting, completed, control>>

\* detectIdle, and the first half of sendStatus ...
StatusTick ==
    /\ manager = "up"
    /\ tick = "rest"
    /\ IF DetectsIdle
       THEN /\ adapter' = IF adapter = "running" THEN "waiting_input" ELSE adapter
            /\ state' = "waiting_input"
            /\ waiting' = TRUE
            /\ tick' = adapter'
       ELSE /\ UNCHANGED <<adapter, state, waiting>>
            /\ tick' = Snapshot
    /\ UNCHANGED <<starter, process, inherited, attached, power, stopper, consumer, silent,
                   reported, completed, control>>

\* ... whose frame may be queued after a younger one.
SendTick ==
    /\ Alive
    /\ tick # "rest"
    /\ reported' = tick
    /\ tick' = "rest"
    /\ UNCHANGED <<starter, coding, attached, state, power, stopper, consumer, waiting,
                   completed, control>>

-----------------------------------------------------------------------------
(***************************************************************************)
(* Manager.Stop, and the end of the process.                               *)
(***************************************************************************)
BeginShutdown ==
    /\ manager = "up"
    /\ manager' = "stopping"
    /\ missed' = (starter \notin {"report", "done"})
    /\ UNCHANGED <<starter, coding, attached, state, power, stopper, consumer, reports>>

\* StopSession finds no adapter.
NothingToStop ==
    /\ manager = "stopping" /\ stopper[Shutdown] = "rest" /\ ~attached
    /\ manager' = "releasing"
    /\ UNCHANGED <<starter, coding, attached, state, power, stopper, consumer, reports,
                   missed>>

\* power.Release, whatever the session did.
Release ==
    /\ manager = "releasing"
    /\ manager' = "joining"
    /\ AllowSleep
    /\ UNCHANGED <<starter, coding, attached, state, stopper, consumer, reports, missed>>

\* Faulty: only the two loops are waited for.
JoinLoops ==
    /\ manager = "joining"
    /\ tick = "rest"
    /\ manager' = "down"
    /\ UNCHANGED <<starter, coding, attached, state, power, stopper, consumer, reports,
                   missed>>

\* wg.Wait: the loops and a consumer that was started before.
Join ==
    /\ manager = "joining"
    /\ tick = "rest" /\ consumer \in {"none", "done"}
    /\ manager' = "down"
    /\ UNCHANGED <<starter, coding, attached, state, power, stopper, consumer, reports,
                   missed>>

\* The transport is stopped and main returns; nothing waits for the starter.
Exit ==
    /\ manager = "down"
    /\ manager' = "gone"
    /\ UNCHANGED <<starter, coding, attached, state, power, stopper, consumer, reports,
                   missed>>

-----------------------------------------------------------------------------
Init ==
    /\ starter = "asleep"
    /\ process = "none"
    /\ inherited = FALSE
    /\ adapter = "idle"
    /\ attached = FALSE
    /\ state = "idle"
    /\ inhibitor = "none"
    /\ prevented = FALSE
    /\ stopper = [s \in Stoppers |-> "rest"]
    /\ consumer = "none"
    /\ silent = FALSE
    /\ tick = "rest"
    /\ reported = "idle"
    /\ waiting = FALSE
    /\ completed = "no"
    /\ manager = "up"
    /\ missed = FALSE

StartSession == BeginStart \/ Inhibit \/ Launch \/ LaunchFails \/ Attach
                \/ StartConsumer \/ ReportStart
StopSession(s) == SeeExit(s) \/ Kill(s) \/ AllowAfterStop(s) \/ Clear(s)
ConsumeOutput == Conclude \/ AllowAfterExit \/ Complete \/ ReportEnd
StatusLoop == StatusTick \/ SendTick
Stop == NothingToStop \/ Release \/ Join

Next ==
    \/ StartSession
    \/ \E s \in Stoppers : BeginStop(s) \/ StopSession(s)
    \/ ConsumeOutput \/ StatusLoop
    \/ BeginShutdown \/ Stop \/ Exit
    \/ ReadLine \/ SendPrompt \/ FallSilent \/ ProcessEnds \/ HeirsEnd \/ Reap
    \/ InhibitorExits \/ InhibitorNoticed

Spec == Init /\ [][Next]_vars

(***************************************************************************)
(* The goroutines run.  Nobody promises that a coding agent ends, that     *)
(* what it started ends after it, that anyone stops it, or that the agent  *)
(* process is shut down.                                                   *)
(***************************************************************************)
FairSpec ==
    /\ Spec
    /\ WF_vars(StartSession)
    /\ \A s \in Stoppers : WF_vars(StopSession(s))
    /\ WF_vars(ConsumeOutput)
    /\ WF_vars(StatusTick) /\ WF_vars(SendTick)
    /\ WF_vars(Reap) /\ WF_vars(InhibitorNoticed)
    /\ WF_vars(BeginStop(Shutdown) \/ Stop)

-----------------------------------------------------------------------------
(***************************************************************************)
(* Properties.                                                             *)
(***************************************************************************)
\* Type invariant.
TypeOK ==
    /\ starter \in {"asleep", "inhibit", "launch", "attach", "consume", "report", "done"}
    /\ process \in {"none", "alive"} \cup Ended
    /\ inherited \in BOOLEAN
    /\ adapter \in States
    /\ attached \in BOOLEAN
    /\ state \in States
    /\ inhibitor \in Inhibitors
    /\ prevented \in BOOLEAN
    /\ stopper \in [Stoppers -> {"rest", "wait", "allow", "clear"}]
    /\ consumer \in {"none", "reading", "allow", "complete", "report", "done"}
    /\ silent \in BOOLEAN
    /\ tick \in States \cup {"rest"}
    /\ reported \in States
    /\ waiting \in BOOLEAN
    /\ completed \in {"no"} \cup Ended
    /\ manager \in {"up", "stopping", "releasing", "joining", "down", "gone"}
    /\ missed \in BOOLEAN

\* What the goroutines know of each other by their progress alone: a session in place
\* was launched, an exit reported was reaped, and a coding agent that is being stopped
\* does not come back to work while the stop waits for it.
InStep ==
    /\ starter \in {"asleep", "inhibit", "launch"} => process = "none"
    /\ attached => starter \in {"consume", "report", "done"}
    /\ Exited => process \in Ended /\ ~inherited
    /\ inherited => process \in Ended
    /\ consumer # "none" => starter \in {"report", "done"} /\ process # "none"
    /\ consumer \in {"allow", "complete", "report", "done"} => Exited
    /\ completed # "no" => completed = process
    /\ \A s \in Stoppers : stopper[s] = "wait" => adapter \in {"stopping"} \cup Terminal

\* What one of them may rely on when it acts without looking at the others: whoever
\* stops the session is past its launch, and past the end of the coding agent when it
\* releases and clears; a coding agent that runs can be found by the next stop; it has
\* a consumer once it was started, and the consumer reports before it is done; and a
\* shutdown that did not overtake the start finds the coding agent, then the consumer,
\* at their end.
InOrder ==
    /\ \A s \in Stoppers :
          /\ stopper[s] # "rest" => starter \in {"consume", "report", "done"} /\ process # "none"
          /\ stopper[s] \in {"allow", "clear"} => process \in Ended
    /\ attached \/ starter \in {"attach", "consume"} => process # "none"
    /\ process = "alive" => attached \/ starter = "attach"
    /\ process # "none" => consumer # "none" \/ starter \in {"attach", "consume"}
    /\ consumer \in {"report", "done"} => completed = process
    /\ manager = "up" /\ starter \in {"asleep", "inhibit", "launch"} => inhibitor # "free"
    /\ stopper[Shutdown] # "rest" => manager = "stopping"
    /\ manager # "up" /\ ~missed =>
          /\ starter \in {"report", "done"}
          /\ manager # "stopping" => process # "alive"
          /\ manager \in {"down", "gone"} => consumer \in {"none", "done"}

IInv == TypeOK /\ InStep /\ InOrder

\* Whoever stops and however the session ends, sleep is inhibited only for a session:
\* one that is being started, or whose end the consumer of its output has still to
\* handle.  A start that fails and a coding agent that ends leave nothing behind.
HeldForSession ==
    inhibitor \in {"held", "exited"}
    => \/ starter \in {"launch", "attach", "consume"}
       \/ consumer \in {"reading", "allow"}

\* While the agent is up nothing releases the inhibition under a coding agent that
\* still runs: neither a stop in its grace period nor a second one.
AwakeWhileWorking ==
    process = "alive" /\ manager = "up" => inhibitor # "free"

InhibitionFollowsWork == HeldForSession /\ AwakeWhileWorking

\* A shutdown that came after the start of the session leaves no coding agent, no
\* inhibition it could release and no unreported end.
ShutdownIsComplete ==
    manager \in {"down", "gone"} /\ ~missed
    => /\ process # "alive"
       /\ inhibitor \notin {"held", "exited"}
       /\ process \in Ended => completed = process

\* The coding agent has ended and its streams have too.
Over == process \in Ended /\ ~inherited

\* The end of the coding agent is reported with its exit, even when a stop, or a
\* second one, runs at the same time; only the end of the agent prevents it, and a
\* process that goes on with the streams of the coding agent delays it.
EndIsReported == Over ~> (completed = process \/ manager = "gone")

\* STATUS frames built from an older snapshot may come last, but while the agent is up
\* they end with the end of the session.
StatusConverges ==
    <>[](Over /\ manager = "up") => <>[](reported \in Terminal)

(***************************************************************************)
(* What the documentation says and the code does not do.                   *)
(***************************************************************************)
\* manager.go:399 "A missed one means the user believes work is progressing when it
\* stopped forty minutes ago ... So this leans toward notifying.": a coding agent that
\* runs and stays silent is reported as waiting.
SilenceIsNoticed ==
    [](adapter = "running" /\ silent
       => <>(waiting \/ ~silent \/ adapter # "running" \/ manager # "up"))

=============================================================================
