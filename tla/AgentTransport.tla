----------------------------- MODULE AgentTransport -----------------------------
(***************************************************************************)
(* The agent's transport (agent/internal/transport/client.go): the loop    *)
(* that connects again and again, the buffer that frames wait in while     *)
(* there is no connection, and the writers that take them out of it, with  *)
(* the delays of shared/retry/backoff.go.                                  *)
(*                                                                         *)
(* serve returns with the first pump that fails and waits for none of the  *)
(* others: the writer of a connection that is over may still take a frame  *)
(* of the buffer while the next one is made.                               *)
(***************************************************************************)
EXTENDS Integers, Sequences, FiniteSets

CONSTANTS
    Senders,      \* goroutines that send frames: session, read loop, heartbeat
    Conns,        \* connections, each reused when nothing of it is left
    MaxFrames,    \* bound on the frames sent
    Capacity,     \* of the outbound buffer
    MaxDelayStep, \* attempts after which the delay is at its maximum
    NoConn,
    NoFrame

ASSUME TransportAssumption ==
    /\ IsFiniteSet(Conns) /\ NoConn \notin Conns
    /\ MaxFrames \in Nat /\ Capacity \in Nat \ {0} /\ MaxDelayStep \in Nat
    /\ NoFrame \notin Nat

VARIABLES
    run,        \* what the run loop is doing
    attempt,    \* Backoff.attempt, up to MaxDelayStep
    stopped,    \* Stop was called
    registered, \* the state file has credentials
    refused,    \* the backend refused the device for good
    conn,       \* Client.conn
    open,       \* connections whose socket is open
    writer,     \* the writePump of each connection: off, idle or the frame it writes
    sender,     \* Send: the frame of each sender, and whether it has dropped one for it
    frames,     \* frames sent so far
    outbound,   \* the buffer
    written,    \* frames whose write to a socket succeeded
    discarded   \* frames given up

loop  == <<run, attempt, stopped, registered, refused, conn>>
queue == <<sender, frames, outbound, discarded>>
transportVars == <<run, attempt, stopped, registered, refused, conn, open, writer,
                   sender, frames, outbound, written, discarded>>

Frames == 1..MaxFrames
Off  == [step |-> "off",  frame |-> NoFrame]
Idle == [step |-> "idle", frame |-> NoFrame]
Rest == [step |-> "rest", frame |-> NoFrame]

BufferFull == Len(outbound) >= Capacity

-----------------------------------------------------------------------------
(***************************************************************************)
(* Send.                                                                   *)
(***************************************************************************)
BeginSend(s) ==
    /\ sender[s] = Rest
    /\ frames < MaxFrames
    /\ frames' = frames + 1
    /\ sender' = [sender EXCEPT ![s] = [step |-> "put", frame |-> frames']]
    /\ UNCHANGED <<loop, open, writer, outbound, written, discarded>>

\* There is room.
Put(s) ==
    /\ sender[s].step \in {"put", "retry"}
    /\ ~BufferFull
    /\ outbound' = Append(outbound, sender[s].frame)
    /\ sender' = [sender EXCEPT ![s] = Rest]
    /\ UNCHANGED <<loop, open, writer, frames, written, discarded>>

\* There is none: the oldest frame goes, once.
DropOldest(s) ==
    /\ sender[s].step = "put"
    /\ BufferFull
    /\ outbound' = Tail(outbound)
    /\ discarded' = discarded \cup {Head(outbound)}
    /\ sender' = [sender EXCEPT ![s].step = "retry"]
    /\ UNCHANGED <<loop, open, writer, frames, written>>

\* Another sender was faster: an error, which ends the connection when the sender is
\* its heartbeat.
SendFails(s) ==
    /\ sender[s].step = "retry"
    /\ BufferFull
    /\ discarded' = discarded \cup {sender[s].frame}
    /\ sender' = [sender EXCEPT ![s] = Rest]
    /\ open' \in {open, open \ {conn}}
    /\ UNCHANGED <<loop, writer, frames, outbound, written>>

-----------------------------------------------------------------------------
(***************************************************************************)
(* The writers.                                                            *)
(***************************************************************************)
Serving(c) == run = "serve" /\ conn = c

\* select takes a frame although the connection may be over.
Take(c) ==
    /\ writer[c] = Idle
    /\ outbound # <<>>
    /\ writer' = [writer EXCEPT ![c] = [step |-> "write", frame |-> Head(outbound)]]
    /\ outbound' = Tail(outbound)
    /\ UNCHANGED <<loop, open, sender, frames, written, discarded>>

\* What the socket accepts may still be lost with the connection.
Write(c) ==
    /\ writer[c].step = "write"
    /\ c \in open
    /\ written' = written \cup {writer[c].frame}
    /\ writer' = [writer EXCEPT ![c] = Idle]
    /\ UNCHANGED <<loop, open, queue>>

\* Faulty: to make room the oldest frame goes, as in Send, but nobody counts it.
RequeueEvicting(c) ==
    /\ writer[c].step = "write"
    /\ outbound' = Append(IF BufferFull THEN Tail(outbound) ELSE outbound, writer[c].frame)
    /\ writer' = [writer EXCEPT ![c] = Off]
    /\ UNCHANGED <<loop, open, sender, frames, written, discarded>>

\* Faulty: the frame of a failed write is given up whether or not there is room for it.
RequeueGivingUp(c) ==
    /\ writer[c].step = "write"
    /\ discarded' = discarded \cup {writer[c].frame}
    /\ writer' = [writer EXCEPT ![c] = Off]
    /\ UNCHANGED <<loop, open, sender, frames, outbound, written>>

\* The write fails or takes too long: the frame goes to the back of the buffer, unless
\* that is full.  All of it may have reached the peer nevertheless, which then gets it
\* again: SessionLogs follows such a copy, this module follows the original only.
Requeue(c) ==
    /\ writer[c].step = "write"
    /\ IF BufferFull
       THEN discarded' = discarded \cup {writer[c].frame} /\ UNCHANGED outbound
       ELSE outbound' = Append(outbound, writer[c].frame) /\ UNCHANGED discarded
    /\ writer' = [writer EXCEPT ![c] = Off]
    /\ UNCHANGED <<loop, open, sender, frames, written>>

\* select sees that the connection, or the client, is over.
LeaveWriter(c) ==
    /\ writer[c] = Idle
    /\ stopped \/ ~Serving(c)
    /\ writer' = [writer EXCEPT ![c] = Off]
    /\ UNCHANGED <<loop, open, queue, written>>

\* The network fails, the peer closes or falls silent for HeartbeatTimeout.
Break(c) ==
    /\ c \in open
    /\ open' = open \ {c}
    /\ UNCHANGED <<loop, writer, queue, written>>

-----------------------------------------------------------------------------
(***************************************************************************)
(* The run loop.                                                           *)
(***************************************************************************)
\* Backoff.Next: the attempt counter grows; the delay it gives stops growing.
NextDelay(a) == IF a < MaxDelayStep THEN a + 1 ELSE a

\* connect returns: the deferred calls close the connection, then the loop waits.
Return(a) ==
    /\ run' = "wait"
    /\ attempt' = NextDelay(a)
    /\ conn' = NoConn
    /\ open' = open \ {conn}
    /\ UNCHANGED <<stopped, registered, refused>>

EndLoop ==
    /\ run' = "end"
    /\ conn' = NoConn
    /\ open' = open \ {conn}
    /\ UNCHANGED <<attempt, stopped>>

\* The loop looks at the stopped channel before it connects.
LeaveLoop ==
    /\ run = "dial" /\ stopped
    /\ EndLoop
    /\ UNCHANGED <<registered, refused, writer, queue, written>>

Dial(c) ==
    /\ run = "dial" /\ ~stopped
    /\ writer[c] = Off
    /\ run' = "auth"
    /\ conn' = c
    /\ open' = open \cup {c}
    /\ UNCHANGED <<attempt, stopped, registered, refused, writer, queue, written>>

DialFails ==
    /\ run = "dial" /\ ~stopped
    /\ Return(attempt)
    /\ UNCHANGED <<writer, queue, written>>

\* HTTP 401 or 403 instead of an upgrade.
DialRefused ==
    /\ run = "dial" /\ ~stopped
    /\ EndLoop
    /\ refused' = TRUE
    /\ UNCHANGED <<registered, writer, queue, written>>

Accepted ==
    /\ run = "auth" /\ conn \in open
    /\ run' = "announce"
    /\ UNCHANGED <<attempt, stopped, registered, refused, conn, open, writer, queue, written>>

\* An ERROR frame whose code is retryable, no answer in time, or a broken connection.
AuthFails ==
    /\ run = "auth"
    /\ Return(attempt)
    /\ UNCHANGED <<writer, queue, written>>

\* Any other code is final; unauthorized and device_not_found erase the state file.
AuthRefused ==
    /\ run = "auth" /\ conn \in open
    /\ EndLoop
    /\ refused' = TRUE
    /\ registered' \in {registered, FALSE}
    /\ UNCHANGED <<writer, queue, written>>

\* OnConnected, then the pumps.
Announce ==
    /\ run = "announce"
    /\ run' = "serve"
    /\ writer' = [writer EXCEPT ![conn] = Idle]
    /\ UNCHANGED <<attempt, stopped, registered, refused, conn, open, queue, written>>

\* Faulty: only the end of the read pump ends the connection.
ServeFailsOnRead ==
    /\ run = "serve"
    /\ conn \notin open
    /\ Return(attempt)
    /\ UNCHANGED <<writer, queue, written>>

\* A pump has returned an error: its socket is closed, or its writer is off.
ServeFails ==
    /\ run = "serve"
    /\ conn \notin open \/ writer[conn] = Off
    /\ Return(attempt)
    /\ UNCHANGED <<writer, queue, written>>

\* connect returns nil only for a client that is stopped, and only that resets the
\* delay.
ServeStopped ==
    /\ run = "serve" /\ stopped
    /\ Return(0)
    /\ UNCHANGED <<writer, queue, written>>

\* Faulty: a policy with MaxAttempts ends the loop.
WaitUnlessExhausted ==
    /\ run = "wait"
    /\ run' = IF attempt = MaxDelayStep THEN "end" ELSE "dial"
    /\ UNCHANGED <<attempt, stopped, registered, refused, conn, open, writer, queue, written>>

\* Backoff.Wait.
Wait ==
    /\ run = "wait"
    /\ run' = "dial"
    /\ UNCHANGED <<attempt, stopped, registered, refused, conn, open, writer, queue, written>>

\* Stop closes the channel and the connection.
StopClient ==
    /\ ~stopped
    /\ stopped' = TRUE
    /\ open' = open \ {conn}
    /\ UNCHANGED <<run, attempt, registered, refused, conn, writer, queue, written>>

-----------------------------------------------------------------------------
TransportInit ==
    /\ run = "dial"
    /\ attempt = 0
    /\ stopped = FALSE
    /\ registered = TRUE
    /\ refused = FALSE
    /\ conn = NoConn
    /\ open = {}
    /\ writer = [c \in Conns |-> Off]
    /\ sender = [s \in Senders |-> Rest]
    /\ frames = 0
    /\ outbound = <<>>
    /\ written = {}
    /\ discarded = {}

Send(s) == Put(s) \/ DropOldest(s) \/ SendFails(s)
WritePump(c) == Take(c) \/ Write(c) \/ Requeue(c) \/ LeaveWriter(c)
Authenticate == Accepted \/ AuthFails \/ AuthRefused
Run ==
    \/ LeaveLoop
    \/ (\E c \in Conns : Dial(c)) \/ DialFails \/ DialRefused
    \/ Authenticate \/ Announce
    \/ ServeFails \/ ServeStopped
    \/ Wait

TransportNext ==
    \/ \E s \in Senders : BeginSend(s) \/ Send(s)
    \/ \E c \in Conns : WritePump(c) \/ Break(c)
    \/ Run
    \/ StopClient

TransportSpec == TransportInit /\ [][TransportNext]_transportVars

(***************************************************************************)
(* The goroutines run: the loop goes on, a writer writes while the socket  *)
(* takes it, a write to a closed socket fails.  The network promises       *)
(* nothing.                                                                *)
(***************************************************************************)
TransportFairSpec ==
    /\ TransportSpec
    /\ \A s \in Senders : WF_transportVars(Send(s))
    /\ \A c \in Conns : WF_transportVars(WritePump(c))
    /\ WF_transportVars(Run)

-----------------------------------------------------------------------------
(***************************************************************************)
(* Properties.                                                             *)
(***************************************************************************)
\* Type invariant.
TransportTypeOK ==
    /\ run \in {"dial", "auth", "announce", "serve", "wait", "end"}
    /\ attempt \in 0..MaxDelayStep
    /\ stopped \in BOOLEAN
    /\ registered \in BOOLEAN
    /\ refused \in BOOLEAN
    /\ conn \in Conns \cup {NoConn}
    /\ open \subseteq Conns
    /\ writer \in [Conns -> {Off, Idle} \cup [step: {"write"}, frame: 1..frames]]
    /\ sender \in [Senders -> {Rest} \cup [step: {"put", "retry"}, frame: 1..frames]]
    /\ frames \in 0..MaxFrames
    /\ outbound \in Seq(1..frames) /\ Len(outbound) <= Capacity
    /\ written \subseteq 1..frames
    /\ discarded \subseteq 1..frames

\* The places a frame can be in.
SendersWith(f) == {s \in Senders : sender[s].frame = f}
QueuedAt(f)    == {k \in DOMAIN outbound : outbound[k] = f}
WritersWith(f) == {c \in Conns : writer[c].frame = f}
Places(f) ==
    {<<"sender", s>> : s \in SendersWith(f)}
    \cup {<<"buffer", k>> : k \in QueuedAt(f)}
    \cup {<<"writer", c>> : c \in WritersWith(f)}
    \cup {<<"written", g>> : g \in {f} \cap written}
    \cup {<<"discarded", g>> : g \in {f} \cap discarded}

\* Through reconnects, writers that outlive their connection and failed writes, every
\* frame is in one place: none is written again after a write of it succeeded, and none
\* vanishes without being counted as dropped.
EveryFrameOnce == \A f \in 1..frames : \E p \in Places(f) : Places(f) = {p}

\* Only the connection of the loop can be open, and while it is being made nothing of an
\* earlier use of it is left.
OneConnection ==
    /\ open \subseteq {conn}
    /\ run \in {"auth", "announce", "serve"} <=> conn # NoConn
    /\ run \in {"auth", "announce"} => writer[conn] = Off

TransportInv == TransportTypeOK /\ EveryFrameOnce /\ OneConnection

\* The transport is a buffer that writes each frame with success once or, when it is
\* full, loses it: neither an outage nor a writer that outlives its connection is a
\* reason of its own.
Outbox == INSTANCE LossyOutbox WITH sent <- frames, delivered <- written, lost <- discarded
OutboxSpec == Outbox!Spec

\* However long the outage is, the loop neither ends nor hangs: it serves a connection
\* or dials again and again, until the agent stops or its device is refused for good.
KeepsConnecting ==
    \/ <>(stopped \/ refused)
    \/ []<>(run = "serve")
    \/ []<>(run = "dial") /\ []<>(run = "wait")

\* A connection that stays up empties the buffer.
BufferDrains == <>[](run = "serve" /\ open # {}) => []<>(outbound = <<>>)

(***************************************************************************)
(* What the documentation says and the code does not do.                   *)
(***************************************************************************)
\* shared/retry/backoff.go:104 Reset "Must be called on every successful connection,
\* otherwise a long-lived agent that reconnects occasionally accumulates attempts and
\* eventually waits the maximum delay after a single blip."
ResetAfterSuccess == [][run = "serve" /\ run' = "wait" => attempt' = NextDelay(0)]_transportVars

=============================================================================
