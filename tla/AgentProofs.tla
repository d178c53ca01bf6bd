------------------------------- MODULE AgentProofs -------------------------------
(***************************************************************************)
(* Proofs about the agent: its session (AgentSession), its transport       *)
(* (AgentTransport) and its prompts (AgentPrompts).                        *)
(***************************************************************************)
EXTENDS AgentSession, AgentTransport, AgentPrompts, FiniteSetTheorems, SequenceTheorems, TLAPS

-----------------------------------------------------------------------------
(***************************************************************************)
(* The session.                                                            *)
(***************************************************************************)
USE DEF Stoppers, Terminal, States, Ended, Exited, Inhibitors, Alive, coding, power,
        reports, control

\* The variables that are true or false.
Flags ==
    /\ attached \in BOOLEAN /\ prevented \in BOOLEAN /\ silent \in BOOLEAN
    /\ waiting \in BOOLEAN /\ missed \in BOOLEAN /\ inherited \in BOOLEAN

\* An agent that has just started has no session.
LEMMA Initially == Init => IInv /\ InhibitionFollowsWork
BY DEF Init, IInv, TypeOK, InStep, InOrder, InhibitionFollowsWork, HeldForSession,
       AwakeWhileWorking

\* Starting the session.
LEMMA StarterStep ==
    ASSUME IInv, InhibitionFollowsWork, StartSession
    PROVE  IInv' /\ InhibitionFollowsWork'
<1> USE DEF IInv, TypeOK, InhibitionFollowsWork, Next_
<1>1. CASE BeginStart
  BY <1>1 DEF BeginStart, InStep, InOrder, HeldForSession, AwakeWhileWorking
<1>2. CASE Inhibit
  <2> USE <1>2 DEF Inhibit, PreventSleep, MarkPrevented
  <2>1. TypeOK'
    <3>1. Flags'
      BY Zenon DEF Flags
    <3> QED
      BY <3>1 DEF Flags
  <2>2. InStep'
    BY DEF InStep, InOrder
  <2>3. InOrder'
    BY DEF InStep, InOrder
  <2>4. HeldForSession' /\ AwakeWhileWorking'
    BY DEF InStep, InOrder, HeldForSession, AwakeWhileWorking
  <2> QED
    BY <2>1, <2>2, <2>3, <2>4
<1>3. CASE Launch
  BY <1>3 DEF Launch, InStep, InOrder, HeldForSession, AwakeWhileWorking
<1>4. CASE LaunchFails
  <2> USE <1>4 DEF LaunchFails, AllowSleep, MarkAllowed
  <2>1. TypeOK'
    <3>1. Flags'
      BY Zenon DEF Flags
    <3> QED
      BY <3>1 DEF Flags
  <2>2. InStep'
    BY DEF InStep, InOrder
  <2>3. InOrder'
    BY DEF InStep, InOrder
  <2>4. HeldForSession' /\ AwakeWhileWorking'
    BY DEF InStep, InOrder, HeldForSession, AwakeWhileWorking
  <2> QED
    BY <2>1, <2>2, <2>3, <2>4
<1>5. CASE Attach
  BY <1>5 DEF Attach, InStep, InOrder, HeldForSession, AwakeWhileWorking
<1>6. CASE StartConsumer
  <2> USE <1>6 DEF StartConsumer
  <2>1. TypeOK'
    <3>1. Flags'
      BY Zenon DEF Flags
    <3> QED
      BY <3>1 DEF Flags
  <2>2. InStep'
    <3>1. stopper' = stopper /\ adapter' = adapter /\ process' = process
      OBVIOUS
    <3>2. process # "none"
      BY DEF InOrder
    <3> QED
      BY <3>1, <3>2 DEF InStep
  <2>3. InOrder'
    BY DEF InStep, InOrder
  <2>4. HeldForSession' /\ AwakeWhileWorking'
    BY DEF InStep, InOrder, HeldForSession, AwakeWhileWorking
  <2> QED
    BY <2>1, <2>2, <2>3, <2>4
<1>7. CASE ReportStart
  BY <1>7 DEF ReportStart, Snapshot, InStep, InOrder, HeldForSession, AwakeWhileWorking
<1> QED
  BY <1>1, <1>2, <1>3, <1>4, <1>5, <1>6, <1>7 DEF StartSession

\* Stopping it.
LEMMA StopperStep ==
    ASSUME IInv, InhibitionFollowsWork, NEW s \in Stoppers, BeginStop(s) \/ StopSession(s)
    PROVE  IInv' /\ InhibitionFollowsWork'
<1> USE DEF IInv, TypeOK, InhibitionFollowsWork, Stopping
<1>1. CASE BeginStop(s)
  BY <1>1 DEF BeginStop, InStep, InOrder, HeldForSession, AwakeWhileWorking
<1>2. CASE SeeExit(s)
  BY <1>2 DEF SeeExit, InStep, InOrder, HeldForSession, AwakeWhileWorking
<1>3. CASE Kill(s)
  <2> USE <1>3 DEF Kill, Streaming
  <2>1. TypeOK'
    <3>1. Flags'
      BY Zenon DEF Flags
    <3> QED
      BY <3>1 DEF Flags
  <2>2. InStep'
    BY DEF InStep, InOrder
  <2>3. InOrder'
    <3>1. ASSUME NEW t \in Stoppers
          PROVE  /\ stopper'[t] # "rest" =>
                       starter' \in {"consume", "report", "done"} /\ process' # "none"
                 /\ stopper'[t] \in {"allow", "clear"} => process' \in Ended
      BY DEF InStep, InOrder
    <3> QED
      BY <3>1 DEF InStep, InOrder
  <2>4. HeldForSession' /\ AwakeWhileWorking'
    BY DEF InStep, InOrder, HeldForSession, AwakeWhileWorking
  <2> QED
    BY <2>1, <2>2, <2>3, <2>4
<1>4. CASE AllowAfterStop(s)
  <2> USE <1>4 DEF AllowAfterStop, AllowSleep, MarkAllowed
  <2>1. TypeOK'
    <3>1. Flags'
      BY Zenon DEF Flags
    <3> QED
      BY <3>1 DEF Flags
  <2>2. InStep'
    BY DEF InStep, InOrder
  <2>3. InOrder'
    BY DEF InStep, InOrder
  <2>4. HeldForSession' /\ AwakeWhileWorking'
    BY DEF InStep, InOrder, HeldForSession, AwakeWhileWorking
  <2> QED
    BY <2>1, <2>2, <2>3, <2>4
<1>5. CASE Clear(s)
  <2> USE <1>5 DEF Clear
  <2>1. TypeOK'
    <3>1. Flags'
      BY Zenon DEF Flags
    <3> QED
      BY <3>1 DEF Flags
  <2>2. InStep'
    BY DEF InStep, InOrder
  <2>3. InOrder'
    <3>1. process \in Ended
      BY DEF InOrder
    <3>2. ASSUME NEW t \in Stoppers
          PROVE  /\ stopper'[t] # "rest" =>
                       starter' \in {"consume", "report", "done"} /\ process' # "none"
                 /\ stopper'[t] \in {"allow", "clear"} => process' \in Ended
      BY <3>1 DEF InOrder
    <3>3. /\ s = Shutdown => manager = "stopping" /\ manager' = "releasing"
          /\ s # Shutdown => manager' = manager
      BY DEF InOrder
    <3>4. stopper'[Shutdown] # "rest" => manager' = "stopping"
      BY <3>3 DEF InOrder
    <3> QED
      BY <3>1, <3>2, <3>3, <3>4 DEF InStep, InOrder
  <2>4. HeldForSession' /\ AwakeWhileWorking'
    BY DEF InStep, InOrder, HeldForSession, AwakeWhileWorking
  <2> QED
    BY <2>1, <2>2, <2>3, <2>4
<1> QED
  BY <1>1, <1>2, <1>3, <1>4, <1>5 DEF StopSession

\* The consumer of the output and the status loop.
LEMMA WatcherStep ==
    ASSUME IInv, InhibitionFollowsWork, ConsumeOutput \/ StatusLoop
    PROVE  IInv' /\ InhibitionFollowsWork'
<1> USE DEF IInv, TypeOK, InhibitionFollowsWork, Consuming, Snapshot
<1>1. CASE Conclude
  BY <1>1 DEF Conclude, InStep, InOrder, HeldForSession, AwakeWhileWorking
<1>2. CASE AllowAfterExit
  <2> USE <1>2 DEF AllowAfterExit, AllowSleep, MarkAllowed
  <2>1. TypeOK'
    <3>1. Flags'
      BY Zenon DEF Flags
    <3> QED
      BY <3>1 DEF Flags
  <2>2. InStep'
    BY DEF InStep, InOrder
  <2>3. InOrder'
    BY DEF InStep, InOrder
  <2>4. HeldForSession' /\ AwakeWhileWorking'
    BY DEF InStep, InOrder, HeldForSession, AwakeWhileWorking
  <2> QED
    BY <2>1, <2>2, <2>3, <2>4
<1>3. CASE Complete
  BY <1>3 DEF Complete, InStep, InOrder, HeldForSession, AwakeWhileWorking
<1>4. CASE ReportEnd
  BY <1>4 DEF ReportEnd, InStep, InOrder, HeldForSession, AwakeWhileWorking
<1>5. CASE StatusTick
  <2> USE <1>5 DEF StatusTick, DetectsIdle
  <2>1. TypeOK'
    <3>1. Flags'
      BY Zenon DEF Flags
    <3> QED
      BY <3>1 DEF Flags
  <2>2. InStep'
    BY DEF InStep, InOrder
  <2>3. InOrder'
    BY DEF InStep, InOrder
  <2>4. HeldForSession' /\ AwakeWhileWorking'
    BY DEF InStep, InOrder, HeldForSession, AwakeWhileWorking
  <2> QED
    BY <2>1, <2>2, <2>3, <2>4
<1>6. CASE SendTick
  BY <1>6 DEF SendTick, InStep, InOrder, HeldForSession, AwakeWhileWorking
<1> QED
  BY <1>1, <1>2, <1>3, <1>4, <1>5, <1>6 DEF ConsumeOutput, StatusLoop

\* The shutdown.
LEMMA ManagerStep ==
    ASSUME IInv, InhibitionFollowsWork, BeginShutdown \/ Stop \/ Exit
    PROVE  IInv' /\ InhibitionFollowsWork'
<1> USE DEF IInv, TypeOK, InhibitionFollowsWork
<1>1. CASE BeginShutdown
  <2> USE <1>1 DEF BeginShutdown
  <2>1. TypeOK'
    <3>1. Flags'
      BY Zenon DEF Flags
    <3> QED
      BY <3>1 DEF Flags
  <2>2. InStep'
    BY DEF InStep, InOrder
  <2>3. InOrder'
    BY DEF InStep, InOrder
  <2>4. HeldForSession' /\ AwakeWhileWorking'
    BY DEF InStep, InOrder, HeldForSession, AwakeWhileWorking
  <2> QED
    BY <2>1, <2>2, <2>3, <2>4
<1>2. CASE NothingToStop
  BY <1>2 DEF NothingToStop, InStep, InOrder, HeldForSession, AwakeWhileWorking
<1>3. CASE Release
  <2> USE <1>3 DEF Release, AllowSleep, MarkAllowed
  <2>1. TypeOK'
    <3>1. Flags'
      BY Zenon DEF Flags
    <3> QED
      BY <3>1 DEF Flags
  <2>2. InStep'
    BY DEF InStep, InOrder
  <2>3. InOrder'
    BY DEF InStep, InOrder
  <2>4. HeldForSession' /\ AwakeWhileWorking'
    BY DEF InStep, InOrder, HeldForSession, AwakeWhileWorking
  <2> QED
    BY <2>1, <2>2, <2>3, <2>4
<1>4. CASE Join
  BY <1>4 DEF Join, InStep, InOrder, HeldForSession, AwakeWhileWorking
<1>5. CASE Exit
  BY <1>5 DEF Exit, InStep, InOrder, HeldForSession, AwakeWhileWorking
<1> QED
  BY <1>1, <1>2, <1>3, <1>4, <1>5 DEF Stop

\* The coding agent, its reaper and the child that inhibits sleep.
LEMMA ProcessStep ==
    ASSUME IInv, InhibitionFollowsWork,
           \/ ReadLine \/ SendPrompt \/ FallSilent \/ ProcessEnds \/ HeirsEnd \/ Reap
           \/ InhibitorExits \/ InhibitorNoticed
    PROVE  IInv' /\ InhibitionFollowsWork'
<1> USE DEF IInv, TypeOK, InhibitionFollowsWork
<1>1. CASE ReadLine
  <2> USE <1>1 DEF ReadLine, Streaming, Working
  <2>1. TypeOK'
    <3>1. Flags'
      BY Zenon DEF Flags
    <3> QED
      BY <3>1 DEF Flags
  <2>2. InStep'
    BY DEF InStep, InOrder
  <2>3. InOrder'
    BY DEF InStep, InOrder
  <2>4. HeldForSession' /\ AwakeWhileWorking'
    BY DEF InStep, InOrder, HeldForSession, AwakeWhileWorking
  <2> QED
    BY <2>1, <2>2, <2>3, <2>4
<1>2. CASE SendPrompt
  <2> USE <1>2 DEF SendPrompt, Streaming
  <2>1. TypeOK'
    <3>1. Flags'
      BY Zenon DEF Flags
    <3> QED
      BY <3>1 DEF Flags
  <2>2. InStep'
    BY DEF InStep, InOrder
  <2>3. InOrder'
    BY DEF InStep, InOrder
  <2>4. HeldForSession' /\ AwakeWhileWorking'
    BY DEF InStep, InOrder, HeldForSession, AwakeWhileWorking
  <2> QED
    BY <2>1, <2>2, <2>3, <2>4
<1>3. CASE FallSilent
  BY <1>3 DEF FallSilent, Streaming, InStep, InOrder, HeldForSession, AwakeWhileWorking
<1>4. CASE ProcessEnds
  <2> USE <1>4 DEF ProcessEnds
  <2>1. TypeOK'
    <3>1. Flags'
      BY Zenon DEF Flags
    <3> QED
      BY <3>1 DEF Flags
  <2>2. InStep'
    BY DEF InStep, InOrder
  <2>3. InOrder'
    BY DEF InStep, InOrder
  <2>4. HeldForSession' /\ AwakeWhileWorking'
    BY DEF InStep, InOrder, HeldForSession, AwakeWhileWorking
  <2> QED
    BY <2>1, <2>2, <2>3, <2>4
<1>5. CASE Reap
  BY <1>5 DEF Reap, InStep, InOrder, HeldForSession, AwakeWhileWorking
<1>6. CASE InhibitorExits
  BY <1>6 DEF InhibitorExits, InStep, InOrder, HeldForSession, AwakeWhileWorking
<1>7. CASE InhibitorNoticed
  <2> USE <1>7 DEF InhibitorNoticed, MarkAllowed
  <2>1. TypeOK'
    <3>1. Flags'
      BY Zenon DEF Flags
    <3> QED
      BY <3>1 DEF Flags
  <2>2. InStep'
    BY DEF InStep, InOrder
  <2>3. InOrder'
    BY DEF InStep, InOrder
  <2>4. HeldForSession' /\ AwakeWhileWorking'
    BY DEF InStep, InOrder, HeldForSession, AwakeWhileWorking
  <2> QED
    BY <2>1, <2>2, <2>3, <2>4
<1>8. CASE HeirsEnd
  <2> USE <1>8 DEF HeirsEnd
  <2>1. TypeOK'
    <3>1. Flags'
      BY Zenon DEF Flags
    <3> QED
      BY <3>1 DEF Flags
  <2>2. InStep' /\ InOrder'
    BY DEF InStep, InOrder
  <2>3. HeldForSession' /\ AwakeWhileWorking'
    BY DEF HeldForSession, AwakeWhileWorking
  <2> QED
    BY <2>1, <2>2, <2>3
<1> QED
  BY <1>1, <1>2, <1>3, <1>4, <1>5, <1>6, <1>7, <1>8

\* No step of any goroutine breaks what the others rely on.
LEMMA Step == IInv /\ InhibitionFollowsWork /\ [Next]_vars => IInv' /\ InhibitionFollowsWork'
<1>1. ASSUME IInv, InhibitionFollowsWork, UNCHANGED vars
      PROVE  IInv' /\ InhibitionFollowsWork'
  BY <1>1 DEF vars, IInv, TypeOK, InStep, InOrder, InhibitionFollowsWork, HeldForSession,
              AwakeWhileWorking
<1> QED
  BY <1>1, StarterStep, StopperStep, WatcherStep, ManagerStep, ProcessStep DEF Next

\* The invariant of the agent_session run.
THEOREM GoroutinesAgree == Spec => []IInv
BY Initially, Step, PTL DEF Spec

\* Sleep is inhibited only for a session, and released under none that runs.
THEOREM SleepFollowsWork == Spec => []InhibitionFollowsWork
BY Initially, Step, PTL DEF Spec

\* A shutdown that came after the start leaves no coding agent, no inhibition and no end
\* that was not reported.
THEOREM ShutdownLeavesNothing == Spec => []ShutdownIsComplete
<1>1. IInv /\ InhibitionFollowsWork => ShutdownIsComplete
  BY DEF IInv, TypeOK, InStep, InOrder, InhibitionFollowsWork, HeldForSession,
         ShutdownIsComplete
<1> QED
  BY <1>1, GoroutinesAgree, SleepFollowsWork, PTL

-----------------------------------------------------------------------------
(***************************************************************************)
(* The transport.  Every action moves at most one frame, from one kind of  *)
(* place to another, or moves none; the frames it does not move stay, or   *)
(* move up in the buffer.                                                  *)
(***************************************************************************)
USE DEF Off, Idle, Rest

\* The types of the loop, with its connection, and those of the frames.
LoopTyped ==
    /\ run \in {"dial", "auth", "announce", "serve", "wait", "end"}
    /\ attempt \in 0..MaxDelayStep
    /\ stopped \in BOOLEAN /\ registered \in BOOLEAN /\ refused \in BOOLEAN
    /\ conn \in Conns \cup {NoConn}
    /\ open \subseteq Conns

FramesTyped ==
    /\ frames \in 0..MaxFrames
    /\ writer \in [Conns -> {Off, Idle} \cup [step: {"write"}, frame: 1..frames]]
    /\ sender \in [Senders -> {Rest} \cup [step: {"put", "retry"}, frame: 1..frames]]
    /\ outbound \in Seq(1..frames) /\ Len(outbound) <= Capacity
    /\ written \subseteq 1..frames
    /\ discarded \subseteq 1..frames

\* The type invariant, in its two halves; and the same of the next state.
LEMMA TransportTypes == TransportTypeOK <=> LoopTyped /\ FramesTyped
BY DEF TransportTypeOK, LoopTyped, FramesTyped

LEMMA TransportTypesNext == TransportTypeOK' <=> LoopTyped' /\ FramesTyped'
BY TransportTypes, PTL

\* Nothing is on its way in the beginning.
LEMMA TransportInitially == TransportInit => TransportInv
<1> SUFFICES ASSUME TransportInit PROVE TransportInv
  OBVIOUS
<1>1. LoopTyped
  <2>1. attempt \in 0..MaxDelayStep
    BY TransportAssumption DEF TransportInit
  <2> QED
    BY <2>1, Zenon DEF TransportInit, LoopTyped
<1>2. FramesTyped
  BY TransportAssumption DEF TransportInit, FramesTyped
<1>3. EveryFrameOnce /\ OneConnection
  BY TransportAssumption DEF TransportInit, EveryFrameOnce, OneConnection
<1> QED
  BY <1>1, <1>2, <1>3, TransportTypes DEF TransportInv

\* Taking the first frame of the buffer and adding one at its end.
LEMMA BufferStep ==
    ASSUME NEW n \in Nat, NEW q \in Seq(1..n), NEW f \in 1..n
    PROVE  /\ Append(q, f) \in Seq(1..n) /\ Len(Append(q, f)) = Len(q) + 1
           /\ \A k \in DOMAIN q : Append(q, f)[k] = q[k]
           /\ Append(q, f)[Len(q) + 1] = f
           /\ q # <<>> => /\ Head(q) \in 1..n /\ Head(q) = q[1]
                          /\ Tail(q) \in Seq(1..n) /\ Len(Tail(q)) = Len(q) - 1
                          /\ \A k \in DOMAIN Tail(q) : Tail(q)[k] = q[k + 1]
OBVIOUS

\* The loop: one connection at a time, and a new one finds its writer off.
LEMMA LoopStep ==
    LoopTyped /\ FramesTyped /\ OneConnection /\ [TransportNext]_transportVars =>
        LoopTyped' /\ OneConnection'
<1> SUFFICES ASSUME LoopTyped, FramesTyped, OneConnection, [TransportNext]_transportVars
             PROVE  LoopTyped' /\ OneConnection'
  OBVIOUS
<1> USE TransportAssumption DEF LoopTyped, OneConnection, loop, queue
<1>1. CASE UNCHANGED <<loop, open>> /\ \A c \in Conns : writer[c] = Off => writer'[c] = Off
  BY <1>1
<1>2. CASE /\ UNCHANGED <<run, attempt, registered, refused, conn, writer>>
           /\ stopped' \in BOOLEAN /\ open' \subseteq open
  BY <1>2
<1>3. ASSUME NEW a \in 0..MaxDelayStep, Return(a), UNCHANGED writer
      PROVE  LoopTyped' /\ OneConnection'
  <2>1. attempt' \in 0..MaxDelayStep
    BY <1>3 DEF Return, NextDelay
  <2> QED
    BY <1>3, <2>1 DEF Return
<1>4. ASSUME EndLoop, UNCHANGED writer, registered' \in BOOLEAN, refused' \in BOOLEAN
      PROVE  LoopTyped' /\ OneConnection'
  BY <1>4 DEF EndLoop
<1>5. ASSUME NEW s \in Senders, BeginSend(s) \/ Send(s) PROVE LoopTyped' /\ OneConnection'
  BY <1>1, <1>2, <1>5 DEF BeginSend, Send, Put, DropOldest, SendFails
<1>6. ASSUME NEW c \in Conns, WritePump(c) \/ Break(c) PROVE LoopTyped' /\ OneConnection'
  <2>1. CASE Take(c) \/ Write(c) \/ Requeue(c) \/ LeaveWriter(c)
    <3>1. \A d \in Conns : writer[d] = Off => writer'[d] = Off
      BY <2>1 DEF FramesTyped, Take, Write, Requeue, LeaveWriter
    <3>2. UNCHANGED <<loop, open>>
      BY <2>1 DEF Take, Write, Requeue, LeaveWriter
    <3> QED
      BY <1>1, <3>1, <3>2
  <2>3. CASE Break(c)
    BY <1>2, <2>3 DEF Break
  <2> QED
    BY <1>6, <2>1, <2>3 DEF WritePump
<1>7. ASSUME NEW c \in Conns, Dial(c) PROVE LoopTyped' /\ OneConnection'
  BY <1>7 DEF Dial
<1>8. CASE LeaveLoop \/ DialFails \/ DialRefused
  BY <1>3, <1>4, <1>8 DEF LeaveLoop, DialFails, DialRefused
<1>9. CASE Authenticate
  <2>1. CASE Accepted
    BY <2>1 DEF Accepted
  <2> QED
    BY <1>3, <1>4, <1>9, <2>1 DEF Authenticate, AuthFails, AuthRefused
<1>10. CASE Announce
  BY <1>10 DEF Announce
<1>11. CASE ServeFails \/ ServeStopped
  BY <1>3, <1>11 DEF ServeFails, ServeStopped
<1>12. CASE Wait
  BY <1>12 DEF Wait
<1>13. CASE StopClient
  BY <1>2, <1>13 DEF StopClient
<1>14. CASE UNCHANGED transportVars
  BY <1>1, <1>14 DEF transportVars
<1> QED
  BY <1>5, <1>6, <1>7, <1>8, <1>9, <1>10, <1>11, <1>12, <1>13, <1>14 DEF TransportNext, Run

\* What an action that is not about frames leaves alone.
KeepsFrames ==
    /\ UNCHANGED <<sender, frames, outbound, written, discarded>>
    /\ writer' \in [Conns -> {Off, Idle} \cup [step: {"write"}, frame: 1..frames]]
    /\ \A c \in Conns : writer'[c].frame = writer[c].frame

\* Every action is one of the eight that move a frame, or leaves all of them where they are.
LEMMA FrameActions ==
    LoopTyped /\ FramesTyped /\ OneConnection /\ [TransportNext]_transportVars =>
        \/ \E s \in Senders : BeginSend(s) \/ Put(s) \/ DropOldest(s) \/ SendFails(s)
        \/ \E c \in Conns : Take(c) \/ Write(c) \/ Requeue(c)
        \/ KeepsFrames
<1> SUFFICES ASSUME LoopTyped, FramesTyped, OneConnection, [TransportNext]_transportVars
             PROVE  \/ \E s \in Senders : BeginSend(s) \/ Put(s) \/ DropOldest(s) \/ SendFails(s)
                    \/ \E c \in Conns : Take(c) \/ Write(c) \/ Requeue(c)
                    \/ KeepsFrames
  OBVIOUS
<1> USE DEF queue, KeepsFrames, FramesTyped
<1>1. CASE UNCHANGED <<writer, queue, written>>
  BY <1>1
<1>2. ASSUME NEW c \in Conns, LeaveWriter(c) PROVE KeepsFrames
  BY <1>2 DEF LeaveWriter
<1>3. CASE Announce
  BY <1>3 DEF Announce, LoopTyped, OneConnection
<1>4. CASE \/ StopClient \/ UNCHANGED transportVars \/ (Run /\ ~Announce)
           \/ \E c \in Conns : Break(c)
  BY <1>1, <1>4 DEF StopClient, transportVars, Run, LeaveLoop, Dial, DialFails, DialRefused,
     Authenticate, Accepted, AuthFails, AuthRefused, ServeFails, ServeStopped, Wait, Break
<1> QED
  BY <1>2, <1>3, <1>4 DEF TransportNext, Send, WritePump

\* Whoever has a frame has one that was sent.
LEMMA InHands ==
    ASSUME FramesTyped
    PROVE  /\ \A s \in Senders : sender[s] # Rest =>
                 sender[s] \in [step: {"put", "retry"}, frame: 1..frames]
           /\ \A c \in Conns : writer[c] \notin {Off, Idle} =>
                 writer[c] \in [step: {"write"}, frame: 1..frames]
BY DEF FramesTyped

\* Whatever an action does with a frame, the frame keeps its number.
LEMMA FramesTypedStep ==
    LoopTyped /\ FramesTyped /\ OneConnection /\ [TransportNext]_transportVars => FramesTyped'
<1> SUFFICES ASSUME LoopTyped, FramesTyped, OneConnection, [TransportNext]_transportVars
             PROVE  FramesTyped'
  OBVIOUS
<1> USE TransportAssumption DEF FramesTyped
<1>1. ASSUME NEW s \in Senders, BeginSend(s) PROVE FramesTyped'
  BY <1>1 DEF BeginSend
<1>2. ASSUME NEW s \in Senders, Put(s) PROVE FramesTyped'
  BY <1>2 DEF Put, BufferFull
<1>3. ASSUME NEW s \in Senders, DropOldest(s) PROVE FramesTyped'
  <2>1. /\ outbound # <<>> /\ Head(outbound) \in 1..frames
        /\ outbound' \in Seq(1..frames) /\ Len(outbound') <= Capacity
    BY <1>3 DEF DropOldest, BufferFull
  <2>2. sender' \in [Senders -> {Rest} \cup [step: {"put", "retry"}, frame: 1..frames]]
    BY <1>3, InHands DEF DropOldest
  <2> QED
    BY <1>3, <2>1, <2>2 DEF DropOldest
<1>4. ASSUME NEW s \in Senders, SendFails(s) PROVE FramesTyped'
  <2>1. sender[s].frame \in 1..frames
    BY <1>4, InHands DEF SendFails
  <2>2. sender' \in [Senders -> {Rest} \cup [step: {"put", "retry"}, frame: 1..frames]]
    BY <1>4 DEF SendFails
  <2> QED
    BY <1>4, <2>1, <2>2 DEF SendFails
<1>5. ASSUME NEW c \in Conns, Take(c) PROVE FramesTyped'
  BY <1>5 DEF Take
<1>6. ASSUME NEW c \in Conns, Write(c) PROVE FramesTyped'
  <2>1. writer[c].frame \in 1..frames
    BY <1>6, InHands DEF Write
  <2>2. writer' \in [Conns -> {Off, Idle} \cup [step: {"write"}, frame: 1..frames]]
    BY <1>6 DEF Write
  <2> QED
    BY <1>6, <2>1, <2>2 DEF Write, queue
<1>7. ASSUME NEW c \in Conns, Requeue(c) PROVE FramesTyped'
  <2>1. writer[c].frame \in 1..frames
    BY <1>7, InHands DEF Requeue
  <2>2. writer' \in [Conns -> {Off, Idle} \cup [step: {"write"}, frame: 1..frames]]
    BY <1>7 DEF Requeue
  <2>3. outbound' \in Seq(1..frames) /\ Len(outbound') <= Capacity /\ discarded' \subseteq 1..frames
    <3>1. CASE BufferFull
      BY <1>7, <2>1, <3>1 DEF Requeue
    <3>2. CASE ~BufferFull
      <4>1. outbound' = Append(outbound, writer[c].frame) /\ UNCHANGED discarded
        BY <1>7, <3>2 DEF Requeue
      <4>2. Len(outbound) + 1 <= Capacity
        BY <3>2 DEF BufferFull
      <4> QED
        BY <2>1, <4>1, <4>2
    <3> QED
      BY <3>1, <3>2
  <2> QED
    BY <1>7, <2>1, <2>2, <2>3 DEF Requeue
<1>8. CASE KeepsFrames
  BY <1>8 DEF KeepsFrames
<1> QED
  BY <1>1, <1>2, <1>3, <1>4, <1>5, <1>6, <1>7, <1>8, FrameActions

-----------------------------------------------------------------------------
(***************************************************************************)
(* Where frames are.                                                       *)
(***************************************************************************)
Sole(f)   == \E p \in Places(f) : Places(f) = {p}
One(S)    == \E x \in S : S = {x}
Delivered(f) == {f} \cap written
GivenUp(f)   == {f} \cap discarded

InOneKind(f) ==
    \/ One(SendersWith(f)) /\ QueuedAt(f) = {} /\ WritersWith(f) = {}
          /\ Delivered(f) = {} /\ GivenUp(f) = {}
    \/ SendersWith(f) = {} /\ One(QueuedAt(f)) /\ WritersWith(f) = {}
          /\ Delivered(f) = {} /\ GivenUp(f) = {}
    \/ SendersWith(f) = {} /\ QueuedAt(f) = {} /\ One(WritersWith(f))
          /\ Delivered(f) = {} /\ GivenUp(f) = {}
    \/ SendersWith(f) = {} /\ QueuedAt(f) = {} /\ WritersWith(f) = {}
          /\ One(Delivered(f)) /\ GivenUp(f) = {}
    \/ SendersWith(f) = {} /\ QueuedAt(f) = {} /\ WritersWith(f) = {}
          /\ Delivered(f) = {} /\ One(GivenUp(f))

\* The five kinds of places are apart: one of them has the frame, in one place.
LEMMA KindsApart ==
    ASSUME NEW f
    PROVE  Sole(f) <=> InOneKind(f)
<1> DEFINE A == SendersWith(f)  B == QueuedAt(f)  C == WritersWith(f)
           D == Delivered(f)    E == GivenUp(f)
<1>1. /\ \A x : <<"sender", x>> \in Places(f) <=> x \in A
      /\ \A x : <<"buffer", x>> \in Places(f) <=> x \in B
      /\ \A x : <<"writer", x>> \in Places(f) <=> x \in C
      /\ \A x : <<"written", x>> \in Places(f) <=> x \in D
      /\ \A x : <<"discarded", x>> \in Places(f) <=> x \in E
  BY DEF Places, Delivered, GivenUp
<1>2. \A p \in Places(f) : \/ \E x \in A : p = <<"sender", x>>
                           \/ \E x \in B : p = <<"buffer", x>>
                           \/ \E x \in C : p = <<"writer", x>>
                           \/ \E x \in D : p = <<"written", x>>
                           \/ \E x \in E : p = <<"discarded", x>>
  BY DEF Places, Delivered, GivenUp
<1> HIDE DEF A, B, C, D, E
<1>3. Sole(f) => \/ One(A) /\ B = {} /\ C = {} /\ D = {} /\ E = {}
                 \/ A = {} /\ One(B) /\ C = {} /\ D = {} /\ E = {}
                 \/ A = {} /\ B = {} /\ One(C) /\ D = {} /\ E = {}
                 \/ A = {} /\ B = {} /\ C = {} /\ One(D) /\ E = {}
                 \/ A = {} /\ B = {} /\ C = {} /\ D = {} /\ One(E)
  BY <1>1, <1>2 DEF Sole, One
<1>4. \/ One(A) /\ B = {} /\ C = {} /\ D = {} /\ E = {}
      \/ A = {} /\ One(B) /\ C = {} /\ D = {} /\ E = {}
      \/ A = {} /\ B = {} /\ One(C) /\ D = {} /\ E = {}
      \/ A = {} /\ B = {} /\ C = {} /\ One(D) /\ E = {}
      \/ A = {} /\ B = {} /\ C = {} /\ D = {} /\ One(E)
      => Sole(f)
  <2>1. ASSUME NEW p \in Places(f), \A q \in Places(f) : q = p PROVE Sole(f)
    BY <2>1 DEF Sole
  <2>2. ASSUME NEW x, A = {x}, B = {}, C = {}, D = {}, E = {} PROVE Sole(f)
    <3>1. <<"sender", x>> \in Places(f)
      BY <1>1, <2>2
    <3>2. \A q \in Places(f) : q = <<"sender", x>>
      BY <1>2, <2>2
    <3> QED
      BY <2>1, <3>1, <3>2
  <2>3. ASSUME NEW x, A = {}, B = {x}, C = {}, D = {}, E = {} PROVE Sole(f)
    <3>1. <<"buffer", x>> \in Places(f)
      BY <1>1, <2>3
    <3>2. \A q \in Places(f) : q = <<"buffer", x>>
      BY <1>2, <2>3
    <3> QED
      BY <2>1, <3>1, <3>2
  <2>4. ASSUME NEW x, A = {}, B = {}, C = {x}, D = {}, E = {} PROVE Sole(f)
    <3>1. <<"writer", x>> \in Places(f)
      BY <1>1, <2>4
    <3>2. \A q \in Places(f) : q = <<"writer", x>>
      BY <1>2, <2>4
    <3> QED
      BY <2>1, <3>1, <3>2
  <2>5. ASSUME NEW x, A = {}, B = {}, C = {}, D = {x}, E = {} PROVE Sole(f)
    <3>1. <<"written", x>> \in Places(f)
      BY <1>1, <2>5
    <3>2. \A q \in Places(f) : q = <<"written", x>>
      BY <1>2, <2>5
    <3> QED
      BY <2>1, <3>1, <3>2
  <2>6. ASSUME NEW x, A = {}, B = {}, C = {}, D = {}, E = {x} PROVE Sole(f)
    <3>1. <<"discarded", x>> \in Places(f)
      BY <1>1, <2>6
    <3>2. \A q \in Places(f) : q = <<"discarded", x>>
      BY <1>2, <2>6
    <3> QED
      BY <2>1, <3>1, <3>2
  <2> QED
    BY <2>2, <2>3, <2>4, <2>5, <2>6 DEF One
<1> QED
  BY <1>3, <1>4 DEF A, B, C, D, E, InOneKind

\* EveryFrameOnce, told by kinds of places; and the same of the next state.
LEMMA OnePlace == EveryFrameOnce <=> \A f \in 1..frames : InOneKind(f)
BY KindsApart DEF EveryFrameOnce, Sole

LEMMA OnePlaceNext == EveryFrameOnce' <=> (\A f \in 1..frames : InOneKind(f))'
BY OnePlace, PTL

\* A frame that does not move stays in its place, or moves up in the buffer.
LEMMA Unmoved ==
    ASSUME NEW f, InOneKind(f),
           SendersWith(f)' = SendersWith(f), WritersWith(f)' = WritersWith(f),
           QueuedAt(f) = {} => QueuedAt(f)' = {}, One(QueuedAt(f)) => One(QueuedAt(f)'),
           Delivered(f)' = Delivered(f), GivenUp(f)' = GivenUp(f)
    PROVE  InOneKind(f)'
BY DEF InOneKind, One

\* The first frame leaves the buffer.
LEMMA BufferShifts ==
    ASSUME FramesTyped, outbound # <<>>, outbound' = Tail(outbound), NEW f
    PROVE  /\ QueuedAt(f) = {} => QueuedAt(f)' = {}
           /\ f # Head(outbound) /\ One(QueuedAt(f)) => One(QueuedAt(f)')
           /\ f = Head(outbound) /\ One(QueuedAt(f)) => QueuedAt(f)' = {}
<1>1. /\ \A k \in DOMAIN outbound' : k + 1 \in DOMAIN outbound /\ outbound'[k] = outbound[k + 1]
      /\ \A k \in DOMAIN outbound : k # 1 => k - 1 \in DOMAIN outbound' /\ outbound'[k - 1] = outbound[k]
      /\ 1 \in DOMAIN outbound /\ Head(outbound) = outbound[1]
      /\ DOMAIN outbound \subseteq Nat /\ DOMAIN outbound' \subseteq Nat
  BY DEF FramesTyped
<1>2. QueuedAt(f) = {} => QueuedAt(f)' = {}
  BY <1>1 DEF QueuedAt
<1>3. ASSUME f # Head(outbound), NEW k \in QueuedAt(f), QueuedAt(f) = {k}
      PROVE  QueuedAt(f)' = {k - 1}
  <2>1. k - 1 \in QueuedAt(f)'
    BY <1>1, <1>3 DEF QueuedAt
  <2>2. ASSUME NEW m \in QueuedAt(f)' PROVE m = k - 1
    <3>1. m + 1 \in QueuedAt(f) /\ m \in Nat
      BY <1>1, <2>2 DEF QueuedAt
    <3> QED
      BY <1>3, <3>1
  <2> QED
    BY <2>1, <2>2
<1>4. ASSUME f = Head(outbound), One(QueuedAt(f)) PROVE QueuedAt(f)' = {}
  <2>1. QueuedAt(f) = {1}
    BY <1>1, <1>4 DEF QueuedAt, One
  <2> SUFFICES ASSUME NEW m \in QueuedAt(f)' PROVE FALSE
    OBVIOUS
  <2>2. m + 1 \in QueuedAt(f) /\ m \in DOMAIN outbound'
    BY <1>1 DEF QueuedAt
  <2>3. m = 0
    BY <1>1, <2>1, <2>2
  <2>4. 0 \notin DOMAIN outbound'
    BY DEF FramesTyped
  <2> QED
    BY <2>2, <2>3, <2>4
<1> QED
  BY <1>2, <1>3, <1>4 DEF One

\* A frame comes to the end of the buffer.
LEMMA BufferGrows ==
    ASSUME FramesTyped, NEW g \in 1..frames, outbound' = Append(outbound, g), NEW f
    PROVE  /\ f # g => QueuedAt(f)' = QueuedAt(f)
           /\ f = g /\ QueuedAt(f) = {} => One(QueuedAt(f)')
<1>1. /\ DOMAIN outbound' = DOMAIN outbound \cup {Len(outbound) + 1}
      /\ \A k \in DOMAIN outbound : outbound'[k] = outbound[k]
      /\ outbound'[Len(outbound) + 1] = g
  BY DEF FramesTyped
<1>2. f # g => QueuedAt(f)' = QueuedAt(f)
  BY <1>1 DEF QueuedAt
<1>3. f = g /\ QueuedAt(f) = {} => QueuedAt(f)' = {Len(outbound) + 1}
  BY <1>1 DEF QueuedAt
<1> QED
  BY <1>2, <1>3 DEF One

\* A frame that moves leaves the place it was in and comes to one other; only the frame of
\* BeginSend comes from nowhere.
LEMMA EveryFrameStep ==
    /\ FramesTyped /\ EveryFrameOnce
    /\ \/ \E s \in Senders : BeginSend(s) \/ Put(s) \/ DropOldest(s) \/ SendFails(s)
       \/ \E c \in Conns : Take(c) \/ Write(c) \/ Requeue(c)
       \/ KeepsFrames
    => EveryFrameOnce'
<1> SUFFICES ASSUME FramesTyped, \A f \in 1..frames : InOneKind(f),
                    \/ \E s \in Senders : BeginSend(s) \/ Put(s) \/ DropOldest(s) \/ SendFails(s)
                    \/ \E c \in Conns : Take(c) \/ Write(c) \/ Requeue(c)
                    \/ KeepsFrames
             PROVE  (\A f \in 1..frames : InOneKind(f))'
  BY OnePlace, OnePlaceNext
<1> USE TransportAssumption
<1>1. ASSUME NEW s \in Senders, BeginSend(s) PROVE (\A f \in 1..frames : InOneKind(f))'
  <2>1. ASSUME NEW f \in 1..frames PROVE InOneKind(f)'
    <3>1. SendersWith(f)' = SendersWith(f)
      BY <1>1 DEF BeginSend, SendersWith, FramesTyped
    <3> QED
      BY <1>1, <3>1, Unmoved DEF BeginSend, QueuedAt, WritersWith, Delivered, GivenUp
  <2>2. ASSUME NEW f, f = frames + 1 PROVE InOneKind(f)'
    <3>1. SendersWith(f)' = {s}
      <4>1. sender'[s].frame = f
        BY <1>1, <2>2 DEF BeginSend, FramesTyped
      <4>2. ASSUME NEW t \in Senders, t # s PROVE sender'[t].frame # f
        <5>1. sender'[t] = sender[t]
          BY <1>1, <4>2 DEF BeginSend, FramesTyped
        <5>2. CASE sender[t] = Rest
          BY <2>2, <5>1, <5>2 DEF FramesTyped
        <5>3. CASE sender[t] # Rest
          BY <2>2, <5>1, <5>3, InHands DEF FramesTyped
        <5> QED
          BY <5>2, <5>3
      <4> QED
        BY <4>1, <4>2 DEF SendersWith
    <3>2. QueuedAt(f)' = {}
      BY <1>1, <2>2 DEF BeginSend, QueuedAt, FramesTyped
    <3>3. WritersWith(f)' = {}
      BY <1>1, <2>2 DEF BeginSend, WritersWith, FramesTyped
    <3>4. Delivered(f)' = {} /\ GivenUp(f)' = {}
      BY <1>1, <2>2 DEF BeginSend, Delivered, GivenUp, FramesTyped
    <3> QED
      BY <3>1, <3>2, <3>3, <3>4 DEF InOneKind, One
  <2>3. frames' = frames + 1 /\ frames \in Nat
    BY <1>1 DEF BeginSend, FramesTyped
  <2> QED
    BY <2>1, <2>2, <2>3
<1>2. ASSUME NEW s \in Senders, Put(s) PROVE (\A f \in 1..frames : InOneKind(f))'
  <2> SUFFICES ASSUME NEW f \in 1..frames PROVE InOneKind(f)'
    BY <1>2 DEF Put
  <2>1. PICK g \in 1..frames : g = sender[s].frame
    BY <1>2, InHands DEF Put
  <2>2. /\ outbound' = Append(outbound, g)
        /\ sender' = [sender EXCEPT ![s] = Rest]
        /\ UNCHANGED <<writer, frames, written, discarded>>
    BY <1>2, <2>1 DEF Put
  <2>3. WritersWith(f)' = WritersWith(f) /\ Delivered(f)' = Delivered(f) /\ GivenUp(f)' = GivenUp(f)
    BY <2>2 DEF WritersWith, Delivered, GivenUp
  <2>4. SendersWith(f)' = SendersWith(f) \ {s}
    BY <2>2 DEF SendersWith, FramesTyped
  <2>5. s \in SendersWith(f) <=> f = g
    BY <2>1 DEF SendersWith
  <2>6. CASE f = g
    <3>1. SendersWith(f) = {s} /\ QueuedAt(f) = {}
      BY <2>5, <2>6 DEF InOneKind, One
    <3>2. SendersWith(f)' = {} /\ One(QueuedAt(f)')
      BY <2>2, <2>4, <2>6, <3>1, BufferGrows
    <3> QED
      BY <2>3, <2>5, <2>6, <3>2 DEF InOneKind, One
  <2>7. CASE f # g
    BY <2>2, <2>3, <2>4, <2>5, <2>7, BufferGrows, Unmoved
  <2> QED
    BY <2>6, <2>7
<1>3. ASSUME NEW s \in Senders, DropOldest(s) PROVE (\A f \in 1..frames : InOneKind(f))'
  <2> SUFFICES ASSUME NEW f \in 1..frames PROVE InOneKind(f)'
    BY <1>3 DEF DropOldest
  <2>1. outbound # <<>>
    BY <1>3 DEF DropOldest, BufferFull, FramesTyped
  <2>2. PICK g \in 1..frames : g = Head(outbound)
    BY <2>1 DEF FramesTyped
  <2>3. /\ outbound' = Tail(outbound)
        /\ discarded' = discarded \cup {g}
        /\ UNCHANGED <<writer, frames, written>>
    BY <1>3, <2>2 DEF DropOldest
  <2>4. SendersWith(f)' = SendersWith(f)
    BY <1>3 DEF DropOldest, SendersWith, FramesTyped
  <2>5. WritersWith(f)' = WritersWith(f) /\ Delivered(f)' = Delivered(f)
    BY <2>3 DEF WritersWith, Delivered
  <2>6. CASE f = g
    <3>1. 1 \in QueuedAt(f)
      BY <2>1, <2>2, <2>6 DEF QueuedAt, FramesTyped
    <3>2. One(QueuedAt(f)) /\ SendersWith(f) = {} /\ WritersWith(f) = {} /\ Delivered(f) = {}
      BY <3>1 DEF InOneKind
    <3>3. QueuedAt(f)' = {}
      BY <2>1, <2>2, <2>3, <2>6, <3>2, BufferShifts
    <3>4. GivenUp(f)' = {f}
      BY <2>3, <2>6 DEF GivenUp
    <3> QED
      BY <2>4, <2>5, <3>2, <3>3, <3>4 DEF InOneKind, One
  <2>7. CASE f # g
    <3>1. GivenUp(f)' = GivenUp(f)
      BY <2>3, <2>7 DEF GivenUp
    <3> QED
      BY <2>1, <2>2, <2>3, <2>4, <2>5, <2>7, <3>1, BufferShifts, Unmoved
  <2> QED
    BY <2>6, <2>7
<1>4. ASSUME NEW s \in Senders, SendFails(s) PROVE (\A f \in 1..frames : InOneKind(f))'
  <2> SUFFICES ASSUME NEW f \in 1..frames PROVE InOneKind(f)'
    BY <1>4 DEF SendFails
  <2>1. PICK g \in 1..frames : g = sender[s].frame
    BY <1>4, InHands DEF SendFails
  <2>2. /\ discarded' = discarded \cup {g}
        /\ sender' = [sender EXCEPT ![s] = Rest]
        /\ UNCHANGED <<writer, frames, outbound, written>>
    BY <1>4, <2>1 DEF SendFails
  <2>3. WritersWith(f)' = WritersWith(f) /\ Delivered(f)' = Delivered(f) /\ QueuedAt(f)' = QueuedAt(f)
    BY <2>2 DEF WritersWith, Delivered, QueuedAt
  <2>4. SendersWith(f)' = SendersWith(f) \ {s}
    BY <2>2 DEF SendersWith, FramesTyped
  <2>5. s \in SendersWith(f) <=> f = g
    BY <2>1 DEF SendersWith
  <2>6. CASE f = g
    <3>1. GivenUp(f)' = {f}
      BY <2>2, <2>6 DEF GivenUp
    <3> QED
      BY <2>3, <2>4, <2>5, <2>6, <3>1 DEF InOneKind, One
  <2>7. CASE f # g
    <3>1. GivenUp(f)' = GivenUp(f)
      BY <2>2, <2>7 DEF GivenUp
    <3> QED
      BY <2>3, <2>4, <2>5, <2>7, <3>1, Unmoved
  <2> QED
    BY <2>6, <2>7
<1>5. ASSUME NEW c \in Conns, Take(c) PROVE (\A f \in 1..frames : InOneKind(f))'
  <2> SUFFICES ASSUME NEW f \in 1..frames PROVE InOneKind(f)'
    BY <1>5 DEF Take
  <2>1. PICK g \in 1..frames : g = Head(outbound)
    BY <1>5 DEF Take, FramesTyped
  <2>2. /\ outbound # <<>> /\ outbound' = Tail(outbound)
        /\ UNCHANGED <<sender, frames, written, discarded>>
    BY <1>5 DEF Take
  <2>3. SendersWith(f)' = SendersWith(f) /\ Delivered(f)' = Delivered(f) /\ GivenUp(f)' = GivenUp(f)
    BY <2>2 DEF SendersWith, Delivered, GivenUp
  <2>4. WritersWith(f)' = IF f = g THEN WritersWith(f) \cup {c} ELSE WritersWith(f)
    BY <1>5, <2>1 DEF Take, WritersWith, FramesTyped
  <2>5. CASE f = g
    <3>1. 1 \in QueuedAt(f)
      BY <2>1, <2>2, <2>5 DEF QueuedAt, FramesTyped
    <3>2. /\ One(QueuedAt(f)) /\ SendersWith(f) = {} /\ WritersWith(f) = {}
          /\ Delivered(f) = {} /\ GivenUp(f) = {}
      BY <3>1 DEF InOneKind
    <3>3. QueuedAt(f)' = {}
      BY <2>1, <2>2, <2>5, <3>2, BufferShifts
    <3> QED
      BY <2>3, <2>4, <2>5, <3>2, <3>3 DEF InOneKind, One
  <2>6. CASE f # g
    BY <2>1, <2>2, <2>3, <2>4, <2>6, BufferShifts, Unmoved
  <2> QED
    BY <2>5, <2>6
<1>6. ASSUME NEW c \in Conns, Write(c) PROVE (\A f \in 1..frames : InOneKind(f))'
  <2> SUFFICES ASSUME NEW f \in 1..frames PROVE InOneKind(f)'
    BY <1>6 DEF Write, queue
  <2>1. PICK g \in 1..frames : g = writer[c].frame
    BY <1>6, InHands DEF Write
  <2>2. /\ written' = written \cup {g}
        /\ writer' = [writer EXCEPT ![c] = Idle]
        /\ UNCHANGED <<sender, frames, outbound, discarded>>
    BY <1>6, <2>1 DEF Write, queue
  <2>3. SendersWith(f)' = SendersWith(f) /\ GivenUp(f)' = GivenUp(f) /\ QueuedAt(f)' = QueuedAt(f)
    BY <2>2 DEF SendersWith, GivenUp, QueuedAt
  <2>4. WritersWith(f)' = WritersWith(f) \ {c}
    BY <2>2 DEF WritersWith, FramesTyped
  <2>5. c \in WritersWith(f) <=> f = g
    BY <2>1 DEF WritersWith
  <2>6. CASE f = g
    <3>1. Delivered(f)' = {f}
      BY <2>2, <2>6 DEF Delivered
    <3> QED
      BY <2>3, <2>4, <2>5, <2>6, <3>1 DEF InOneKind, One
  <2>7. CASE f # g
    <3>1. Delivered(f)' = Delivered(f)
      BY <2>2, <2>7 DEF Delivered
    <3> QED
      BY <2>3, <2>4, <2>5, <2>7, <3>1, Unmoved
  <2> QED
    BY <2>6, <2>7
<1>7. ASSUME NEW c \in Conns, Requeue(c) PROVE (\A f \in 1..frames : InOneKind(f))'
  <2> SUFFICES ASSUME NEW f \in 1..frames PROVE InOneKind(f)'
    BY <1>7 DEF Requeue
  <2>1. PICK g \in 1..frames : g = writer[c].frame
    BY <1>7, InHands DEF Requeue
  <2>2. /\ writer' = [writer EXCEPT ![c] = Off]
        /\ UNCHANGED <<sender, frames, written>>
    BY <1>7 DEF Requeue
  <2>3. SendersWith(f)' = SendersWith(f) /\ Delivered(f)' = Delivered(f)
    BY <2>2 DEF SendersWith, Delivered
  <2>4. WritersWith(f)' = WritersWith(f) \ {c}
    BY <2>2 DEF WritersWith, FramesTyped
  <2>5. c \in WritersWith(f) <=> f = g
    BY <2>1 DEF WritersWith
  <2>6. f = g => /\ WritersWith(f) = {c} /\ SendersWith(f) = {} /\ QueuedAt(f) = {}
                 /\ Delivered(f) = {} /\ GivenUp(f) = {}
    BY <2>5 DEF InOneKind, One
  <2>7. CASE discarded' = discarded \cup {g} /\ UNCHANGED outbound
    <3>1. QueuedAt(f)' = QueuedAt(f)
      BY <2>7 DEF QueuedAt
    <3>2. CASE f = g
      <4>1. GivenUp(f)' = {f}
        BY <2>7, <3>2 DEF GivenUp
      <4> QED
        BY <2>3, <2>4, <2>6, <3>1, <3>2, <4>1 DEF InOneKind, One
    <3>3. CASE f # g
      <4>1. GivenUp(f)' = GivenUp(f)
        BY <2>7, <3>3 DEF GivenUp
      <4> QED
        BY <2>3, <2>4, <2>5, <3>1, <3>3, <4>1, Unmoved
    <3> QED
      BY <3>2, <3>3
  <2>8. CASE outbound' = Append(outbound, g) /\ UNCHANGED discarded
    <3>1. GivenUp(f)' = GivenUp(f)
      BY <2>8 DEF GivenUp
    <3>2. CASE f = g
      <4>1. One(QueuedAt(f)')
        BY <2>6, <2>8, <3>2, BufferGrows
      <4> QED
        BY <2>3, <2>4, <2>6, <3>1, <3>2, <4>1 DEF InOneKind, One
    <3>3. CASE f # g
      BY <2>3, <2>4, <2>5, <2>8, <3>1, <3>3, BufferGrows, Unmoved
    <3> QED
      BY <3>2, <3>3
  <2> QED
    BY <1>7, <2>1, <2>7, <2>8 DEF Requeue
<1>8. CASE KeepsFrames
  <2> SUFFICES ASSUME NEW f \in 1..frames PROVE InOneKind(f)'
    BY <1>8 DEF KeepsFrames
  <2>1. /\ SendersWith(f)' = SendersWith(f) /\ QueuedAt(f)' = QueuedAt(f)
        /\ Delivered(f)' = Delivered(f) /\ GivenUp(f)' = GivenUp(f)
    BY <1>8 DEF KeepsFrames, SendersWith, QueuedAt, Delivered, GivenUp
  <2>2. WritersWith(f)' = WritersWith(f)
    BY <1>8 DEF KeepsFrames, WritersWith
  <2> QED
    BY <2>1, <2>2, Unmoved
<1> QED
  BY <1>1, <1>2, <1>3, <1>4, <1>5, <1>6, <1>7, <1>8

\* No action of a sender, a writer, the loop or the network breaks the invariant.
LEMMA TransportStep == TransportInv /\ [TransportNext]_transportVars => TransportInv'
<1> SUFFICES ASSUME TransportInv, [TransportNext]_transportVars PROVE TransportInv'
  OBVIOUS
<1>1. LoopTyped /\ FramesTyped /\ EveryFrameOnce /\ OneConnection
  BY TransportTypes DEF TransportInv
<1>2. LoopTyped' /\ OneConnection'
  BY <1>1, LoopStep
<1>3. FramesTyped'
  BY <1>1, FramesTypedStep
<1>4. EveryFrameOnce'
  BY <1>1, FrameActions, EveryFrameStep
<1> QED
  BY <1>2, <1>3, <1>4, TransportTypesNext DEF TransportInv

\* The invariant of the agent_transport run, for any number of senders, connections that
\* follow each other, frames and places in the buffer: writePump and requeue write no
\* frame again after a write of it succeeded, and none vanishes uncounted.
THEOREM FramesAreInOnePlace == TransportSpec => []TransportInv
BY TransportInitially, TransportStep, PTL DEF TransportSpec

-----------------------------------------------------------------------------
(***************************************************************************)
(* The buffer it promises to be.                                           *)
(***************************************************************************)
\* The number of elements is the same in both modules.
LEMMA SameCardinality == \A S : Outbox!Cardinality(S) = Cardinality(S)
BY Zenon DEF Outbox!Cardinality, Cardinality

\* A frame that is neither written nor given up is under way.
LEMMA UnderwayIs ==
    ASSUME NEW f \in 1..frames, Delivered(f) = {}, GivenUp(f) = {}
    PROVE  f \in Outbox!Underway
BY DEF Outbox!Underway, Delivered, GivenUp

\* With a full buffer and one more frame at hand, more are under way than the buffer holds.
LEMMA MoreThanItHolds ==
    ASSUME FramesTyped, \A f \in 1..frames : InOneKind(f), BufferFull,
           NEW g \in Outbox!Underway, QueuedAt(g) = {}
    PROVE  Cardinality(Outbox!Underway) > Capacity
<1> USE TransportAssumption
<1> DEFINE U == Outbox!Underway
           h == [k \in 0..Capacity |-> IF k = 0 THEN g ELSE outbound[k]]
<1>1. Len(outbound) = Capacity /\ DOMAIN outbound = 1..Capacity
  BY DEF FramesTyped, BufferFull
<1>2. \A k \in 1..Capacity : outbound[k] \in 1..frames /\ k \in QueuedAt(outbound[k])
  BY <1>1 DEF FramesTyped, QueuedAt
<1>3. \A k \in 1..Capacity : outbound[k] \in U
  <2> TAKE k \in 1..Capacity
  <2>1. Delivered(outbound[k]) = {} /\ GivenUp(outbound[k]) = {}
    BY <1>2 DEF InOneKind
  <2> QED
    BY <1>2, <2>1, UnderwayIs
<1>4. \A j, k \in 1..Capacity : outbound[j] = outbound[k] => j = k
  <2> TAKE j, k \in 1..Capacity
  <2>1. One(QueuedAt(outbound[j]))
    BY <1>2 DEF InOneKind
  <2> QED
    BY <1>2, <2>1 DEF One
<1>5. \A k \in 1..Capacity : outbound[k] # g
  BY <1>2
<1>6. h \in Injection(0..Capacity, U)
  <2>1. h \in [0..Capacity -> U]
    BY <1>3
  <2>2. \A j, k \in 0..Capacity : h[j] = h[k] => j = k
    BY <1>4, <1>5
  <2> QED
    BY <2>1, <2>2 DEF Injection, IsInjective
<1>7. IsFiniteSet(U)
  <2>1. IsFiniteSet(1..frames) /\ U \in SUBSET (1..frames)
    BY FS_Interval DEF FramesTyped, Outbox!Underway
  <2> QED
    BY <2>1, FS_Subset
<1>8. Cardinality(0..Capacity) <= Cardinality(U)
  BY <1>6, <1>7, FS_Injection
<1>9. Cardinality(0..Capacity) = Capacity + 1
  BY FS_Interval
<1>10. Cardinality(U) \in Nat
  BY <1>7, FS_CardinalityType
<1> QED
  BY <1>8, <1>9, <1>10

\* A new transport is an empty buffer.
LEMMA OutboxInitially == TransportInit => Outbox!Init
BY DEF TransportInit, Outbox!Init

\* Writing a frame delivers it; a frame given up, by Send or by requeue, is lost while the
\* buffer is full and one frame more is at hand; the rest moves frames that stay under way.
LEMMA OutboxStep ==
    TransportInv /\ [TransportNext]_transportVars => [Outbox!Next]_(Outbox!vars)
<1> SUFFICES ASSUME FramesTyped, \A f \in 1..frames : InOneKind(f),
                    \/ \E s \in Senders : BeginSend(s) \/ Put(s) \/ DropOldest(s) \/ SendFails(s)
                    \/ \E c \in Conns : Take(c) \/ Write(c) \/ Requeue(c)
                    \/ KeepsFrames
             PROVE  [Outbox!Next]_(Outbox!vars)
  BY TransportTypes, OnePlace, FrameActions DEF TransportInv
<1> USE DEF Outbox!vars
<1>1. ASSUME NEW g \in Outbox!Underway, Outbox!Deliver(g) \/ Outbox!Lose(g) PROVE Outbox!Next
  BY <1>1 DEF Outbox!Next
<1>2. ASSUME NEW g \in Outbox!Underway, QueuedAt(g) = {}, NEW f \in Outbox!Underway,
             BufferFull, discarded' = discarded \cup {f}, UNCHANGED <<frames, written>>
      PROVE  Outbox!Next
  <2>1. Cardinality(Outbox!Underway) > Capacity
    BY <1>2, MoreThanItHolds
  <2>2. Outbox!Lose(f)
    BY <1>2, <2>1, SameCardinality DEF Outbox!Lose
  <2> QED
    BY <1>1, <2>2
<1>3. ASSUME NEW s \in Senders, sender[s] # Rest
      PROVE  sender[s].frame \in Outbox!Underway /\ QueuedAt(sender[s].frame) = {}
  <2>1. sender[s].frame \in 1..frames /\ s \in SendersWith(sender[s].frame)
    BY <1>3, InHands DEF SendersWith
  <2>2. /\ QueuedAt(sender[s].frame) = {}
        /\ Delivered(sender[s].frame) = {} /\ GivenUp(sender[s].frame) = {}
    BY <2>1 DEF InOneKind
  <2> QED
    BY <2>1, <2>2, UnderwayIs
<1>4. ASSUME NEW c \in Conns, writer[c] \notin {Off, Idle}
      PROVE  writer[c].frame \in Outbox!Underway /\ QueuedAt(writer[c].frame) = {}
  <2>1. writer[c].frame \in 1..frames /\ c \in WritersWith(writer[c].frame)
    BY <1>4, InHands DEF WritersWith
  <2>2. /\ QueuedAt(writer[c].frame) = {}
        /\ Delivered(writer[c].frame) = {} /\ GivenUp(writer[c].frame) = {}
    BY <2>1 DEF InOneKind
  <2> QED
    BY <2>1, <2>2, UnderwayIs
<1>5. ASSUME NEW s \in Senders, BeginSend(s) PROVE Outbox!Next
  BY <1>5 DEF BeginSend, Outbox!Next, Outbox!Accept
<1>6. ASSUME NEW s \in Senders, DropOldest(s) PROVE Outbox!Next
  <2>1. outbound # <<>>
    BY <1>6, TransportAssumption DEF DropOldest, BufferFull, FramesTyped
  <2>2. Head(outbound) \in 1..frames /\ 1 \in QueuedAt(Head(outbound))
    BY <2>1 DEF FramesTyped, QueuedAt
  <2>3. Delivered(Head(outbound)) = {} /\ GivenUp(Head(outbound)) = {}
    BY <2>2 DEF InOneKind
  <2>4. Head(outbound) \in Outbox!Underway
    BY <2>2, <2>3, UnderwayIs
  <2>5. sender[s] # Rest
    BY <1>6 DEF DropOldest
  <2> QED
    BY <1>2, <1>3, <1>6, <2>4, <2>5 DEF DropOldest
<1>7. ASSUME NEW s \in Senders, SendFails(s) PROVE Outbox!Next
  <2>1. sender[s] # Rest
    BY <1>7 DEF SendFails
  <2> QED
    BY <1>2, <1>3, <1>7, <2>1 DEF SendFails
<1>8. ASSUME NEW c \in Conns, Write(c) PROVE Outbox!Next
  <2>1. writer[c] \notin {Off, Idle}
    BY <1>8 DEF Write
  <2> QED
    BY <1>1, <1>4, <1>8, <2>1 DEF Write, queue, Outbox!Deliver
<1>9. ASSUME NEW c \in Conns, Requeue(c) PROVE Outbox!Next \/ UNCHANGED Outbox!vars
  <2>1. writer[c] \notin {Off, Idle}
    BY <1>9 DEF Requeue
  <2> QED
    BY <1>2, <1>4, <1>9, <2>1 DEF Requeue
<1>10. ASSUME NEW s \in Senders, Put(s) PROVE UNCHANGED Outbox!vars
  BY <1>10 DEF Put
<1>11. ASSUME NEW c \in Conns, Take(c) PROVE UNCHANGED Outbox!vars
  BY <1>11 DEF Take
<1>12. CASE KeepsFrames
  BY <1>12 DEF KeepsFrames
<1> QED
  BY <1>5, <1>6, <1>7, <1>8, <1>9, <1>10, <1>11, <1>12

\* The transport is the lossy buffer of LossyOutbox: a frame that Send accepted is written
\* with success once, is lost only when more of them are under way than the buffer
\* holds, or is still under way.
THEOREM TransportIsAnOutbox == TransportSpec => OutboxSpec
<1>1. TransportInv /\ [TransportNext]_transportVars => [Outbox!Next]_(Outbox!vars)
  BY OutboxStep
<1> QED
  BY <1>1, OutboxInitially, FramesAreInOnePlace, PTL DEF TransportSpec, OutboxSpec, Outbox!Spec

-----------------------------------------------------------------------------
(***************************************************************************)
(* Prompts.  Between the snapshot of a drain and its end late read loops   *)
(* may drop prompts from the front of the queue.  With d of them dropped,  *)
(* Balanced(d) says where the snapshot is in the queue, and what the drain *)
(* will remove without having injected it; every action keeps it for some  *)
(* d.                                                                      *)
(***************************************************************************)
QueueTyped(q) == q \in Seq(Prompts) /\ Len(q) <= MaxOfflinePrompts /\ Distinct(q)

\* What the types of the queue, in memory and on disk, leave of the type invariant.
OthersTyped ==
    /\ session \in {"none", "starting", "running", "exited", "stopped"}
    /\ link \in {"down", "draining", "up", "refused"}
    /\ reader \in Readers \cup {NoReader}
    /\ handling \in [Readers -> {Free} \cup [step: {"send", "queue"}, prompt: Prompts]]
    /\ drain \in [step: {"no", "inject", "trim"}, todo: Seq(Prompts), injected: Nat]
    /\ acked \subseteq Prompts
    /\ dropped \subseteq Prompts
    /\ drops \in Nat
    /\ injected \in [Prompts -> Nat]
    /\ deliveries \in [Prompts -> Nat]
    /\ \A p \in Prompts : deliveries[p] <= MaxDeliveries[p]
    /\ faults \in 0..MaxFaults

\* The type invariant, in its parts; and the same of the next state.
LEMMA PromptsTypes == PromptsTypeOK <=> QueueTyped(memory) /\ QueueTyped(disk) /\ OthersTyped
BY DEF PromptsTypeOK, QueueTyped, OthersTyped

LEMMA PromptsTypesNext ==
    PromptsTypeOK' <=> QueueTyped(memory') /\ QueueTyped(disk') /\ OthersTyped'
BY DEF PromptsTypeOK, QueueTyped, OthersTyped

\* What is in a queue.
LEMMA QueuedArePrompts == \A q : QueueTyped(q) => Elements(q) \subseteq Prompts
BY DEF Elements, QueueTyped

\* An empty queue has none.
LEMMA EmptyQueue == QueueTyped(<<>>) /\ Elements(<<>>) = {}
BY PromptsAssumption DEF QueueTyped, Distinct, Elements

\* A prompt comes to the back of a queue with room, or in the place of the oldest.
LEMMA Appended ==
    ASSUME NEW q \in Seq(Prompts), NEW p \in Prompts
    PROVE  /\ Append(q, p) \in Seq(Prompts) /\ Len(Append(q, p)) = Len(q) + 1
           /\ \A k \in 1..Len(q) : Append(q, p)[k] = q[k]
           /\ Append(q, p)[Len(q) + 1] = p
OBVIOUS

LEMMA Shifted ==
    ASSUME NEW q \in Seq(Prompts), q # <<>>, NEW p \in Prompts
    PROVE  /\ Append(Tail(q), p) \in Seq(Prompts) /\ Len(Append(Tail(q), p)) = Len(q)
           /\ Len(q) \in Nat \ {0}
           /\ \A k \in 1..(Len(q) - 1) : Append(Tail(q), p)[k] = q[k + 1]
           /\ Append(Tail(q), p)[Len(q)] = p
<1>1. Tail(q) \in Seq(Prompts) /\ Len(Tail(q)) = Len(q) - 1 /\ Len(q) \in Nat \ {0}
  OBVIOUS
<1>2. \A k \in 1..(Len(q) - 1) : Tail(q)[k] = q[k + 1]
  OBVIOUS
<1> QED
  BY <1>1, <1>2, Appended

\* The three cases of queuePrompt.
LEMMA EnqueuedIs ==
    ASSUME QueueTyped(memory), NEW p \in Prompts
    PROVE  \/ p \in Elements(memory) /\ Enqueued(p) = memory
           \/ /\ p \notin Elements(memory) /\ Len(memory) < MaxOfflinePrompts
              /\ Enqueued(p) = Append(memory, p)
           \/ /\ p \notin Elements(memory) /\ memory # <<>>
              /\ Enqueued(p) = Append(Tail(memory), p)
<1>1. Full => memory # <<>>
  BY PromptsAssumption DEF Full, QueueTyped
<1>2. ~Full => Len(memory) < MaxOfflinePrompts
  BY PromptsAssumption DEF Full, QueueTyped
<1> QED
  BY <1>1, <1>2 DEF Enqueued

\* They keep the queue bounded and without repetition.
LEMMA EnqueuedTyped ==
    ASSUME QueueTyped(memory), NEW p \in Prompts
    PROVE  QueueTyped(Enqueued(p))
<1> USE DEF QueueTyped, Distinct, Elements
<1>1. ASSUME p \notin Elements(memory), Len(memory) < MaxOfflinePrompts
      PROVE  QueueTyped(Append(memory, p))
  <2> DEFINE r == Append(memory, p)
  <2>1. /\ r \in Seq(Prompts) /\ Len(r) = Len(memory) + 1
        /\ \A k \in 1..Len(memory) : r[k] = memory[k] /\ r[k] # p
        /\ r[Len(memory) + 1] = p
    BY <1>1, Appended
  <2> HIDE DEF r
  <2>2. ASSUME NEW j \in 1..Len(r), NEW k \in 1..Len(r), r[j] = r[k] PROVE j = k
    BY <2>1, <2>2
  <2> QED
    BY <1>1, <2>1, <2>2, PromptsAssumption DEF r
<1>2. ASSUME p \notin Elements(memory), memory # <<>>
      PROVE  QueueTyped(Append(Tail(memory), p))
  <2> DEFINE r == Append(Tail(memory), p)
  <2>1. /\ r \in Seq(Prompts) /\ Len(r) = Len(memory) /\ Len(memory) \in Nat \ {0}
        /\ \A k \in 1..(Len(memory) - 1) : r[k] = memory[k + 1]
        /\ r[Len(memory)] = p
    BY <1>2, Shifted
  <2>2. \A k \in 1..(Len(memory) - 1) : r[k] # p
    BY <1>2, <2>1
  <2> HIDE DEF r
  <2>3. ASSUME NEW j \in 1..Len(r), NEW k \in 1..Len(r), r[j] = r[k] PROVE j = k
    <3>1. CASE j = Len(memory) \/ k = Len(memory)
      BY <2>1, <2>2, <2>3, <3>1
    <3>2. CASE j # Len(memory) /\ k # Len(memory)
      <4>1. j + 1 \in 1..Len(memory) /\ k + 1 \in 1..Len(memory) /\ memory[j + 1] = memory[k + 1]
        BY <2>1, <2>3, <3>2
      <4> QED
        BY <4>1
    <3> QED
      BY <3>1, <3>2
  <2> QED
    BY <2>1, <2>3 DEF r
<1> QED
  BY <1>1, <1>2, EnqueuedIs

\* Prompts leave the front of a queue.
LEMMA TrimmedIs ==
    ASSUME QueueTyped(memory), drain.injected \in Nat
    PROVE  /\ Trimmed \in Seq(Prompts) /\ Len(Trimmed) <= Len(memory)
           /\ \A k \in 1..Len(Trimmed) : /\ drain.injected + k \in 1..Len(memory)
                                         /\ Trimmed[k] = memory[drain.injected + k]
           /\ \A k \in 1..Len(memory) : k > drain.injected =>
                 /\ k - drain.injected \in 1..Len(Trimmed)
                 /\ Trimmed[k - drain.injected] = memory[k]
<1> USE DEF QueueTyped
<1>1. CASE drain.injected >= Len(memory)
  BY <1>1 DEF Trimmed
<1>2. CASE ~(drain.injected >= Len(memory))
  <2>1. PICK n \in Nat : n = drain.injected /\ n < Len(memory)
    BY <1>2
  <2>2. Trimmed = SubSeq(memory, n + 1, Len(memory))
    BY <1>2, <2>1 DEF Trimmed
  <2>3. PICK m \in Nat : m = Len(memory) /\ n < m
    BY <2>1
  <2>4. /\ Trimmed \in Seq(Prompts) /\ Len(Trimmed) = m - n
        /\ \A k \in 1..(m - n) : Trimmed[k] = memory[n + k]
    <3>1. \A i \in (n + 1)..m : memory[i] \in Prompts
      BY <2>3
    <3>2. /\ SubSeq(memory, n + 1, m) \in Seq(Prompts)
          /\ Len(SubSeq(memory, n + 1, m)) = IF n + 1 <= m THEN m - (n + 1) + 1 ELSE 0
          /\ \A i \in 1..(m - (n + 1) + 1) : SubSeq(memory, n + 1, m)[i] = memory[n + 1 + i - 1]
      BY <3>1, SubSeqProperties
    <3>3. m - (n + 1) + 1 = m - n /\ \A i \in 1..(m - n) : n + 1 + i - 1 = n + i
      BY <2>3
    <3> HIDE DEF QueueTyped
    <3>4. Trimmed = SubSeq(memory, n + 1, m)
      BY <2>2, <2>3
    <3>5. n + 1 <= m
      BY <2>3
    <3>6. Len(Trimmed) = m - n
      BY <3>2, <3>3, <3>4, <3>5
    <3> QED
      BY <3>2, <3>3, <3>4, <3>6
  <2> HIDE DEF QueueTyped
  <2>5. \A k \in 1..Len(Trimmed) : n + k \in 1..m /\ Trimmed[k] = memory[n + k]
    BY <2>3, <2>4
  <2>6. ASSUME NEW k \in 1..m, k > n
        PROVE  k - n \in 1..Len(Trimmed) /\ Trimmed[k - n] = memory[k]
    <3>1. k - n \in 1..(m - n) /\ n + (k - n) = k
      BY <2>3, <2>6
    <3>2. Trimmed[k - n] = memory[n + (k - n)]
      BY <2>4, <3>1
    <3> QED
      BY <2>4, <3>1, <3>2
  <2>7. Len(Trimmed) <= m
    BY <2>3, <2>4
  <2> QED
    BY <2>1, <2>3, <2>4, <2>5, <2>6, <2>7
<1> QED
  BY <1>1, <1>2

\* So does the drain.
LEMMA TrimmedTyped ==
    ASSUME QueueTyped(memory), drain.injected \in Nat
    PROVE  QueueTyped(Trimmed)
<1>1. Distinct(Trimmed)
  <2> SUFFICES ASSUME NEW j \in 1..Len(Trimmed), NEW k \in 1..Len(Trimmed),
                      Trimmed[j] = Trimmed[k]
               PROVE  j = k
    BY DEF Distinct
  <2>1. /\ drain.injected + j \in 1..Len(memory) /\ drain.injected + k \in 1..Len(memory)
        /\ memory[drain.injected + j] = memory[drain.injected + k]
    BY TrimmedIs
  <2>2. drain.injected + j = drain.injected + k
    BY <2>1 DEF QueueTyped, Distinct
  <2>3. j \in Nat /\ k \in Nat
    BY TrimmedIs
  <2> QED
    BY <2>2, <2>3
<1>2. Trimmed \in Seq(Prompts) /\ Len(Trimmed) <= Len(memory) /\ Len(memory) <= MaxOfflinePrompts
  BY TrimmedIs DEF QueueTyped
<1>3. Len(Trimmed) <= MaxOfflinePrompts
  BY <1>2, PromptsAssumption DEF QueueTyped
<1> QED
  BY <1>1, <1>2, <1>3 DEF QueueTyped

-----------------------------------------------------------------------------
\* A read loop that is busy has a prompt.
LEMMA InHand ==
    ASSUME OthersTyped, NEW r \in Readers, handling[r].step \in {"send", "queue"}
    PROVE  handling[r].prompt \in Prompts /\ handling[r] \in [step: {"send", "queue"}, prompt: Prompts]
BY DEF OthersTyped, Free

\* Every write of the state file leaves a queue in memory and a queue on disk.
LEMMA QueuesTypedStep ==
    QueueTyped(memory) /\ QueueTyped(disk) /\ OthersTyped /\ [PromptsNext]_promptVars
    => QueueTyped(memory') /\ QueueTyped(disk')
<1> SUFFICES ASSUME QueueTyped(memory), QueueTyped(disk), OthersTyped, [PromptsNext]_promptVars
             PROVE  QueueTyped(memory') /\ QueueTyped(disk')
  OBVIOUS
<1>1. CASE UNCHANGED <<memory, disk>>
  BY <1>1
<1>2. ASSUME NEW r \in Readers, Queue(r) PROVE QueueTyped(memory') /\ QueueTyped(disk')
  <2>1. QueueTyped(Enqueued(handling[r].prompt))
    BY <1>2, InHand, EnqueuedTyped DEF Queue
  <2> QED
    BY <1>2, <2>1 DEF Queue, Persisted, NotPersisted
<1>3. CASE DrainTrims
  <2>1. QueueTyped(Trimmed)
    BY TrimmedTyped DEF OthersTyped
  <2> QED
    BY <1>3, <2>1 DEF DrainTrims, Persisted, NotPersisted
<1>4. CASE CredentialsRejected
  BY <1>4, EmptyQueue DEF CredentialsRejected
<1>5. CASE Restart
  BY <1>5 DEF Restart
<1>6. CASE \/ Session \/ DrainOne \/ DrainEnds \/ Disconnect \/ UNCHANGED promptVars
           \/ \E p \in Prompts : Receive(p)
           \/ \E r \in Readers : Inject(r) \/ CannotInject(r) \/ InjectFails(r) \/ Connect(r)
  BY <1>1, <1>6 DEF Session, DrainOne, DrainEnds, Disconnect, promptVars, Receive, Inject,
     CannotInject, InjectFails, Connect
<1> QED
  BY <1>2, <1>3, <1>4, <1>5, <1>6 DEF PromptsNext

\* The drain goes on to the next prompt of its snapshot.
LEMMA TodoShrinks ==
    ASSUME NEW q \in Seq(Prompts), q # <<>>
    PROVE  /\ Head(q) \in Prompts /\ Head(q) = q[1] /\ Len(q) \in Nat \ {0}
           /\ Tail(q) \in Seq(Prompts) /\ Len(Tail(q)) = Len(q) - 1
           /\ \A k \in 1..(Len(q) - 1) : Tail(q)[k] = q[k + 1]
           /\ Distinct(q) => Distinct(Tail(q)) /\ Head(q) \notin Elements(Tail(q))
<1>1. /\ Head(q) \in Prompts /\ Head(q) = q[1] /\ Len(q) \in Nat \ {0}
      /\ Tail(q) \in Seq(Prompts) /\ Len(Tail(q)) = Len(q) - 1
      /\ \A k \in 1..(Len(q) - 1) : Tail(q)[k] = q[k + 1]
  OBVIOUS
<1>2. ASSUME Distinct(q) PROVE Distinct(Tail(q))
  BY <1>1, <1>2 DEF Distinct
<1>3. ASSUME Distinct(q), Head(q) \in Elements(Tail(q)) PROVE FALSE
  BY <1>1, <1>3 DEF Distinct, Elements
<1> QED
  BY <1>1, <1>2, <1>3

\* The other variables keep their types, and the drain runs when the link says so.
LEMMA OthersTypedStep ==
    QueueTyped(memory) /\ QueueTyped(disk) /\ OthersTyped /\ DrainInStep
    /\ [PromptsNext]_promptVars
    => OthersTyped' /\ DrainInStep'
<1> SUFFICES ASSUME QueueTyped(memory), QueueTyped(disk), OthersTyped, DrainInStep,
                    [PromptsNext]_promptVars
             PROVE  OthersTyped' /\ DrainInStep'
  OBVIOUS
<1> USE PromptsAssumption DEF OthersTyped, DrainInStep, history, Fault, Free
<1>1. CASE Session
  BY <1>1 DEF Session, SessionStarts, FirstOutput, ProcessExits, SessionStops, HasAdapter
<1>2. ASSUME NEW p \in Prompts, Receive(p) PROVE OthersTyped' /\ DrainInStep'
  <2>1. deliveries' \in [Prompts -> Nat] /\ \A q \in Prompts : deliveries'[q] <= MaxDeliveries[q]
    BY <1>2 DEF Receive
  <2>2. handling' \in [Readers -> {Free} \cup [step: {"send", "queue"}, prompt: Prompts]]
    BY <1>2 DEF Receive
  <2> QED
    BY <1>2, <2>1, <2>2 DEF Receive
<1>3. ASSUME NEW r \in Readers, Inject(r) PROVE OthersTyped' /\ DrainInStep'
  BY <1>3, InHand DEF Inject, Finish
<1>4. ASSUME NEW r \in Readers, CannotInject(r) PROVE OthersTyped' /\ DrainInStep'
  <2>1. handling' \in [Readers -> {Free} \cup [step: {"send", "queue"}, prompt: Prompts]]
    BY <1>4, InHand DEF CannotInject
  <2> QED
    BY <1>4, <2>1 DEF CannotInject
<1>5. ASSUME NEW r \in Readers, InjectFails(r) PROVE OthersTyped' /\ DrainInStep'
  BY <1>5 DEF InjectFails, Finish
<1>6. ASSUME NEW lost \in SUBSET Prompts, Drop(lost)
      PROVE  dropped' \subseteq Prompts /\ drops' \in Nat /\ Cardinality(lost) \in Nat
  <2>1. Cardinality(lost) \in Nat
    BY FS_Subset, FS_CardinalityType
  <2> QED
    BY <1>6, <2>1 DEF Drop
<1>7. ASSUME NEW r \in Readers, Queue(r) PROVE OthersTyped' /\ DrainInStep'
  <2>1. Elements(memory) \ Elements(Enqueued(handling[r].prompt)) \in SUBSET Prompts
    BY QueuedArePrompts
  <2>2. dropped' \subseteq Prompts /\ drops' \in Nat
    BY <1>6, <1>7, <2>1 DEF Queue
  <2>3. acked' \subseteq Prompts /\ faults' \in 0..MaxFaults
    <3>1. handling[r].prompt \in Prompts
      BY <1>7, InHand DEF Queue
    <3>2. faults' = faults \/ (faults < MaxFaults /\ faults' = faults + 1)
      BY <1>7 DEF Queue, Persisted, NotPersisted
    <3>3. acked' = acked \/ acked' = acked \cup {handling[r].prompt}
      BY <1>7 DEF Queue
    <3> QED
      BY <3>1, <3>2, <3>3
  <2>4. handling' \in [Readers -> {Free} \cup [step: {"send", "queue"}, prompt: Prompts]]
    BY <1>7 DEF Queue, Finish
  <2>5. UNCHANGED <<session, link, reader, drain, injected, deliveries>>
    BY <1>7 DEF Queue
  <2> QED
    BY <2>2, <2>3, <2>4, <2>5
<1>8. ASSUME NEW r \in Readers, Connect(r) PROVE OthersTyped' /\ DrainInStep'
  <2>1. CASE HasAdapter /\ memory # <<>>
    BY <1>8, <2>1 DEF Connect, QueueTyped
  <2>2. CASE ~(HasAdapter /\ memory # <<>>)
    BY <1>8, <2>2 DEF Connect, NotDraining, Distinct
  <2> QED
    BY <2>1, <2>2
<1>9. CASE DrainOne
  <2>1. injected' \in [Prompts -> Nat]
    <3>1. PICK h \in Prompts : injected' = [injected EXCEPT ![h] = @ + 1]
      BY <1>9, TodoShrinks DEF DrainOne
    <3>2. injected \in [Prompts -> Nat] /\ injected[h] + 1 \in Nat
      OBVIOUS
    <3> HIDE DEF OthersTyped, DrainInStep
    <3> QED
      BY <3>1, <3>2
  <2>2. /\ drain' \in [step: {"no", "inject", "trim"}, todo: Seq(Prompts), injected: Nat]
        /\ drain'.step = "inject" /\ Distinct(drain'.todo)
    <3>1. Tail(drain.todo) \in Seq(Prompts) /\ Distinct(Tail(drain.todo))
      BY <1>9, TodoShrinks DEF DrainOne
    <3>2. /\ drain'.step = "inject" /\ drain'.todo = Tail(drain.todo)
          /\ drain' = [step |-> "inject", todo |-> Tail(drain.todo), injected |-> drain.injected + 1]
      BY <1>9 DEF DrainOne
    <3>3. drain.injected + 1 \in Nat
      OBVIOUS
    <3> QED
      BY <3>1, <3>2, <3>3
  <2> QED
    BY <1>9, <2>1, <2>2 DEF DrainOne
<1>10. CASE DrainEnds
  <2>1. faults' \in 0..MaxFaults
    BY <1>10 DEF DrainEnds
  <2>2. CASE drain.injected = 0
    BY <1>10, <2>1, <2>2 DEF DrainEnds, NotDraining, Distinct
  <2>3. CASE drain.injected # 0
    BY <1>10, <2>1, <2>3 DEF DrainEnds
  <2> QED
    BY <2>2, <2>3
<1>11. CASE DrainTrims
  BY <1>11 DEF DrainTrims, NotDraining, Distinct, Persisted, NotPersisted
<1>12. CASE Disconnect
  BY <1>12 DEF Disconnect
<1>13. CASE CredentialsRejected
  <2>1. Elements(memory) \cup Elements(disk) \in SUBSET Prompts
    BY QueuedArePrompts
  <2> QED
    BY <1>6, <1>13, <2>1 DEF CredentialsRejected
<1>14. CASE Restart
  BY <1>14 DEF Restart, NotDraining, Distinct
<1>15. CASE UNCHANGED promptVars
  BY <1>15 DEF promptVars
<1> QED
  BY <1>1, <1>2, <1>3, <1>4, <1>5, <1>7, <1>8, <1>9, <1>10, <1>11, <1>12, <1>13, <1>14,
     <1>15 DEF PromptsNext

-----------------------------------------------------------------------------
(***************************************************************************)
(* Counting.                                                               *)
(***************************************************************************)
LEMMA Fewer ==
    ASSUME NEW T, IsFiniteSet(T), NEW S \in SUBSET T
    PROVE  Cardinality(S) \in Nat /\ Cardinality(T) \in Nat /\ Cardinality(S) <= Cardinality(T)
BY FS_Subset, FS_CardinalityType

\* One element more, and one less.
LEMMA OneMore ==
    ASSUME NEW T, IsFiniteSet(T), NEW x, NEW S \in SUBSET (T \cup {x})
    PROVE  Cardinality(S) <= Cardinality(T) + 1
<1>1. IsFiniteSet(T \cup {x}) /\ Cardinality(T \cup {x}) <= Cardinality(T) + 1
  <2>1. Cardinality(T) \in Nat
    BY FS_CardinalityType
  <2>2. /\ IsFiniteSet(T \cup {x})
        /\ Cardinality(T \cup {x}) = IF x \in T THEN Cardinality(T) ELSE Cardinality(T) + 1
    BY FS_AddElement, Zenon
  <2> QED
    BY <2>1, <2>2
<1>2. Cardinality(S) \in Nat /\ Cardinality(T \cup {x}) \in Nat /\ Cardinality(T) \in Nat
      /\ Cardinality(S) <= Cardinality(T \cup {x})
  BY <1>1, Fewer, FS_CardinalityType
<1> QED
  BY <1>1, <1>2

LEMMA OneLess ==
    ASSUME NEW T, IsFiniteSet(T), NEW x \in T, NEW S \in SUBSET (T \ {x})
    PROVE  Cardinality(S) + 1 <= Cardinality(T)
<1>1. IsFiniteSet(T \ {x}) /\ Cardinality(T \ {x}) = Cardinality(T) - 1
  BY FS_RemoveElement
<1>2. Cardinality(S) \in Nat /\ Cardinality(T) \in Nat /\ Cardinality(S) <= Cardinality(T \ {x})
  BY <1>1, Fewer, FS_CardinalityType
<1> QED
  BY <1>1, <1>2

\* Sets of no and of one element.
LEMMA NothingCounts == \A S, x : Cardinality(S \ S) = 0 /\ Cardinality({}) = 0 /\ Cardinality({x}) = 1
<1>1. IsFiniteSet({}) /\ Cardinality({}) = 0
  BY FS_EmptySet
<1>2. ASSUME NEW x PROVE Cardinality({x}) = 1
  <2>1. Cardinality({} \cup {x}) = Cardinality({}) + 1
    BY <1>1, FS_AddElement
  <2> QED
    BY <1>1, <2>1
<1>3. ASSUME NEW S PROVE Cardinality(S \ S) = 0
  <2>1. S \ S = {}
    OBVIOUS
  <2> QED
    BY <1>1, <2>1
<1> QED
  BY <1>1, <1>2, <1>3

\* What is at stake in a state, and the injections that drops have made up for.
Gone(d)  == Missing \cup Slipping(d)
Ahead(d) == IF d < drain.injected THEN d ELSE drain.injected

\* The balance of losses, in these terms; and the same of the next state.
LEMMA CountedIs ==
    ASSUME NEW d
    PROVE  LossesCounted(d) <=> Cardinality(Gone(d)) + Ahead(d) <= drops
BY DEF LossesCounted, Gone, Ahead

LEMMA CountedNext ==
    ASSUME NEW d
    PROVE  LossesCounted(d)' <=> Cardinality(Gone(d)') + Ahead(d)' <= drops'
BY DEF LossesCounted, Gone, Ahead

\* A prompt that is gone is a prompt, and there are finitely many.
LEMMA GoneIs ==
    ASSUME OthersTyped, NEW d \in Nat
    PROVE  /\ Missing \subseteq Prompts /\ Slipping(d) \subseteq Prompts
           /\ IsFiniteSet(Missing) /\ IsFiniteSet(Gone(d))
           /\ Cardinality(Missing) \in Nat /\ Cardinality(Gone(d)) \in Nat
           /\ Cardinality(Missing) <= Cardinality(Gone(d))
           /\ drain.injected \in Nat /\ Ahead(d) \in Nat
<1>1. Missing \subseteq Prompts
  BY DEF OthersTyped, Missing
<1>2. Slipping(d) \subseteq Prompts
  BY DEF OthersTyped, Slipping
<1>3. IsFiniteSet(Missing) /\ IsFiniteSet(Gone(d))
  BY <1>1, <1>2, PromptsAssumption, FS_Subset DEF Gone
<1>4. Cardinality(Missing) <= Cardinality(Gone(d))
  BY <1>3, Fewer DEF Gone
<1> QED
  BY <1>1, <1>2, <1>3, <1>4, FS_CardinalityType DEF Ahead, OthersTyped

\* Nothing more is gone, and the drain is where it was.
LEMMA NoLoss ==
    ASSUME OthersTyped, OthersTyped', NEW d \in Nat, LossesCounted(d),
           Gone(d)' \subseteq Gone(d), drain'.injected = drain.injected, drops' = drops
    PROVE  LossesCounted(d)'
<1>1. Cardinality(Gone(d)') <= Cardinality(Gone(d))
  BY GoneIs, Fewer
<1>2. Ahead(d)' = Ahead(d)
  BY DEF Ahead
<1>3. Cardinality(Gone(d)') \in Nat /\ Cardinality(Gone(d)) \in Nat /\ Ahead(d) \in Nat
  <2>1. IsFiniteSet(Gone(d)')
    BY GoneIs, FS_Subset
  <2> QED
    BY <2>1, GoneIs, FS_CardinalityType
<1>4. drops \in Nat
  BY DEF OthersTyped
<1> QED
  BY <1>1, <1>2, <1>3, <1>4, CountedIs, CountedNext

\* Readers that hold a prompt.
LEMMA HeldIs ==
    ASSUME NEW p
    PROVE  IsFiniteSet(Held(p)) /\ Cardinality(Held(p)) \in Nat
BY PromptsAssumption, FS_Subset, FS_CardinalityType DEF Held

LEMMA HeldNext ==
    ASSUME NEW p
    PROVE  IsFiniteSet(Held(p)') /\ Cardinality(Held(p)') \in Nat
BY PromptsAssumption, FS_Subset, FS_CardinalityType DEF Held

\* A read loop is done with its prompt.
LEMMA HeldShrinks ==
    ASSUME OthersTyped, NEW r \in Readers, handling[r].step \in {"send", "queue"},
           handling' = [handling EXCEPT ![r] = Free], NEW p \in Prompts
    PROVE  Cardinality(Held(p)') + Count(p, {handling[r].prompt}) <= Cardinality(Held(p))
<1>1. Held(p)' = Held(p) \ {r}
  BY PromptsAssumption DEF Held, OthersTyped, Free
<1>2. CASE p = handling[r].prompt
  <2>1. r \in Held(p)
    BY <1>2 DEF Held
  <2>2. Cardinality(Held(p)') + 1 <= Cardinality(Held(p))
    BY <1>1, <2>1, HeldIs, OneLess
  <2> QED
    BY <1>2, <2>2 DEF Count
<1>3. CASE p # handling[r].prompt
  <2>1. Held(p)' = Held(p)
    BY <1>1, <1>3 DEF Held
  <2> QED
    BY <1>3, <2>1, HeldIs DEF Count
<1> QED
  BY <1>2, <1>3

\* A prompt is counted once or not at all.
LEMMA CountIs == \A p, S : Count(p, S) \in {0, 1} /\ (Count(p, S) = 1 <=> p \in S)
BY DEF Count

-----------------------------------------------------------------------------
(***************************************************************************)
(* The balance, action by action.                                          *)
(***************************************************************************)
\* What the actions may start from.
Sound(d) ==
    /\ QueueTyped(memory) /\ QueueTyped(disk) /\ OthersTyped /\ DrainInStep
    /\ d \in 0..drops
    /\ Balanced(d)

\* Neither the queue nor the drain changes.
LEMMA BalanceUntouched ==
    ASSUME NEW d, Sound(d), OthersTyped',
           UNCHANGED <<memory, disk, injected, acked, drops, deliveries>>,
           drain'.todo = drain.todo, drain'.injected = drain.injected,
           faults' >= faults,
           \A p \in Prompts : Cardinality(Held(p)') <= Cardinality(Held(p))
    PROVE  \E e \in 0..drops' : Balanced(e)'
<1> USE DEF Sound, Balanced
<1>1. d \in Nat /\ d \in 0..drops'
  BY DEF OthersTyped
<1>2. Slipped(d)'
  BY DEF Slipped
<1>3. LossesCounted(d)'
  BY DEF LossesCounted, Missing, Slipping
<1>4. InjectionsCounted(d)'
  <2>1. Behind(d)' = Behind(d)
    BY DEF Behind
  <2> SUFFICES ASSUME NEW p \in Prompts
               PROVE  injected'[p] + Cardinality(Held(p)') + Count(p, Elements(drain'.todo))
                      + Count(p, Behind(d)') <= deliveries'[p] + faults'
    BY DEF InjectionsCounted, Count
  <2>2. injected[p] + Cardinality(Held(p)) + Count(p, Elements(drain.todo))
        + Count(p, Behind(d)) <= deliveries[p] + faults
    BY DEF InjectionsCounted
  <2>3. Cardinality(Held(p)) \in Nat /\ Cardinality(Held(p)') \in Nat
        /\ Cardinality(Held(p)') <= Cardinality(Held(p))
    BY HeldIs, HeldNext
  <2>4. injected[p] \in Nat /\ deliveries[p] \in Nat /\ faults \in Nat /\ faults' \in Nat
    BY PromptsAssumption DEF OthersTyped
  <2> QED
    BY <2>1, <2>2, <2>3, <2>4, CountIs
<1> QED
  BY <1>1, <1>2, <1>3, <1>4

\* A prompt comes.
LEMMA ReceiveBalances ==
    ASSUME NEW d, Sound(d), OthersTyped', NEW p \in Prompts, Receive(p)
    PROVE  \E e \in 0..drops' : Balanced(e)'
<1> USE DEF Sound, Balanced
<1>0. UNCHANGED <<memory, disk, drain, acked, drops, injected, faults>>
  BY DEF Receive
<1>1. d \in Nat /\ d \in 0..drops'
  BY <1>0 DEF OthersTyped
<1>2. Slipped(d)'
  BY <1>0 DEF Slipped
<1>3. LossesCounted(d)'
  BY <1>0 DEF LossesCounted, Missing, Slipping
<1>4. InjectionsCounted(d)'
  <2>1. Behind(d)' = Behind(d)
    BY <1>0 DEF Behind
  <2> SUFFICES ASSUME NEW q \in Prompts
               PROVE  injected'[q] + Cardinality(Held(q)') + Count(q, Elements(drain'.todo))
                      + Count(q, Behind(d)') <= deliveries'[q] + faults'
    BY DEF InjectionsCounted, Count
  <2>2. injected[q] + Cardinality(Held(q)) + Count(q, Elements(drain.todo))
        + Count(q, Behind(d)) <= deliveries[q] + faults
    BY DEF InjectionsCounted
  <2>3. Cardinality(Held(q)') <= Cardinality(Held(q)) + Count(q, {p})
    <3>1. reader \in Readers
      BY DEF Receive, DrainInStep
    <3>2. /\ handling'[reader].prompt = p
          /\ \A r \in Readers : r # reader => handling'[r] = handling[r]
      BY <3>1 DEF Receive, OthersTyped
    <3>3. CASE q = p
      <4>1. Held(q)' \subseteq Held(q) \cup {reader}
        BY <3>2 DEF Held
      <4> QED
        BY <3>3, <4>1, HeldIs, OneMore DEF Count
    <3>4. CASE q # p
      <4>1. Held(q)' \subseteq Held(q)
        BY <3>2, <3>4 DEF Held
      <4> QED
        BY <3>4, <4>1, HeldIs, Fewer DEF Count
    <3> QED
      BY <3>3, <3>4
  <2>4. deliveries'[q] = deliveries[q] + Count(q, {p})
    BY DEF Receive, OthersTyped, Count
  <2>5. Cardinality(Held(q)) \in Nat /\ Cardinality(Held(q)') \in Nat
    BY HeldIs, HeldNext
  <2>6. injected[q] \in Nat /\ deliveries[q] \in Nat /\ faults \in Nat
    BY PromptsAssumption DEF OthersTyped
  <2> QED
    BY <1>0, <2>1, <2>2, <2>3, <2>4, <2>5, <2>6, CountIs
<1> QED
  BY <1>1, <1>2, <1>3, <1>4

\* handlePrompt injects a prompt.
LEMMA InjectBalances ==
    ASSUME NEW d, Sound(d), OthersTyped, OthersTyped', NEW r \in Readers, Inject(r)
    PROVE  \E e \in 0..drops' : Balanced(e)'
<1> USE DEF Sound, Balanced
<1>0. PICK p \in Prompts : /\ p = handling[r].prompt
                           /\ injected' = [injected EXCEPT ![p] = @ + 1]
                           /\ acked' = acked \cup {p}
                           /\ handling' = [handling EXCEPT ![r] = Free]
                           /\ UNCHANGED <<memory, disk, drain, drops, deliveries, faults>>
  BY InHand DEF Inject, Finish
<1>1. d \in Nat /\ d \in 0..drops'
  BY <1>0 DEF OthersTyped
<1>2. \A q \in Prompts : /\ injected[q] \in Nat
                         /\ injected'[q] = injected[q] + Count(q, {p})
  BY <1>0 DEF OthersTyped, Count
<1>3. Slipped(d)'
  <2>1. \A q \in Prompts : injected[q] > 0 => injected'[q] > 0
    BY <1>2, CountIs
  <2>2. \A k \in 1..Len(memory) : memory[k] \in Prompts
    BY DEF QueueTyped
  <2> QED
    BY <1>0, <2>1, <2>2 DEF Slipped
<1>4. LossesCounted(d)'
  <2>1. Missing' \subseteq Missing
    <3>1. p \notin Missing'
      BY <1>0, <1>2, CountIs DEF Missing
    <3>2. \A q \in acked : injected'[q] = 0 => injected[q] = 0
      <4>1. \A q \in Prompts : injected'[q] = 0 => injected[q] = 0
        BY <1>2, CountIs
      <4> QED
        BY <4>1 DEF OthersTyped
    <3> QED
      BY <1>0, <3>1, <3>2 DEF Missing
  <2>2. Slipping(d)' = Slipping(d)
    BY <1>0 DEF Slipping
  <2>3. Gone(d)' \subseteq Gone(d)
    BY <2>1, <2>2 DEF Gone
  <2> QED
    BY <1>0, <1>1, <2>3, NoLoss
<1>5. InjectionsCounted(d)'
  <2>1. Behind(d)' = Behind(d)
    BY <1>0 DEF Behind
  <2> SUFFICES ASSUME NEW q \in Prompts
               PROVE  injected'[q] + Cardinality(Held(q)') + Count(q, Elements(drain'.todo))
                      + Count(q, Behind(d)') <= deliveries'[q] + faults'
    BY DEF InjectionsCounted, Count
  <2>2. injected[q] + Cardinality(Held(q)) + Count(q, Elements(drain.todo))
        + Count(q, Behind(d)) <= deliveries[q] + faults
    BY DEF InjectionsCounted
  <2>3. Cardinality(Held(q)') + Count(q, {p}) <= Cardinality(Held(q))
    BY <1>0, HeldShrinks DEF Inject
  <2>4. Cardinality(Held(q)) \in Nat /\ Cardinality(Held(q)') \in Nat
    BY HeldIs, HeldNext
  <2>5. deliveries[q] \in Nat /\ faults \in Nat
    BY PromptsAssumption DEF OthersTyped
  <2> QED
    BY <1>0, <1>2, <2>1, <2>2, <2>3, <2>4, <2>5, CountIs
<1> QED
  BY <1>1, <1>3, <1>4, <1>5

\* The drain injects a prompt of its snapshot.
LEMMA DrainOneBalances ==
    ASSUME NEW d, Sound(d), OthersTyped, OthersTyped', DrainOne
    PROVE  \E e \in 0..drops' : Balanced(e)'
<1> USE DEF Sound, Balanced
<1>0. PICK h \in Prompts, n \in Nat, todo \in Seq(Prompts) :
          /\ todo = drain.todo /\ n = drain.injected /\ todo # <<>> /\ h = Head(todo)
          /\ injected' = [injected EXCEPT ![h] = @ + 1]
          /\ drain'.todo = Tail(todo) /\ drain'.injected = n + 1
          /\ Distinct(todo)
          /\ UNCHANGED <<memory, disk, handling, acked, drops, deliveries, faults>>
  BY TodoShrinks DEF DrainOne, OthersTyped, DrainInStep
<1>1. d \in Nat /\ d \in 0..drops' /\ drops \in Nat
  BY <1>0 DEF OthersTyped
<1>2. \A q \in Prompts : /\ injected[q] \in Nat
                         /\ injected'[q] = injected[q] + Count(q, {h})
  <2> HIDE DEF Sound, Balanced
  <2>1. injected \in [Prompts -> Nat] /\ injected' = [injected EXCEPT ![h] = @ + 1]
    BY <1>0 DEF OthersTyped
  <2> QED
    BY <2>1 DEF Count
<1>3. /\ h = todo[1] /\ Len(todo) \in Nat \ {0} /\ Len(Tail(todo)) = Len(todo) - 1
      /\ \A k \in 1..(Len(todo) - 1) : Tail(todo)[k] = todo[k + 1]
      /\ h \notin Elements(Tail(todo))
  BY <1>0, TodoShrinks
<1>4. PICK m \in Nat : m = Len(memory) /\ \A k \in 1..m : memory[k] \in Prompts
  BY DEF QueueTyped
<1>5. /\ n + Len(todo) <= m + d
      /\ \A k \in 1..m : k + d <= n => injected[memory[k]] > 0
      /\ \A k \in 1..Len(todo) : n + k > d => memory[n + k - d] = todo[k]
  BY <1>0, <1>4 DEF Slipped
<1>6. Slipped(d)'
  <2>1. n + 1 + Len(Tail(todo)) <= m + d
    BY <1>3, <1>5
  <2>2. ASSUME NEW k \in 1..m, k + d <= n + 1 PROVE injected'[memory[k]] > 0
    <3>1. CASE k + d <= n
      <4>1. injected[memory[k]] > 0
        BY <1>5, <3>1
      <4> QED
        BY <1>2, <1>4, <4>1, CountIs
    <3>2. CASE ~(k + d <= n)
      <4>1. k = n + 1 - d /\ n + 1 > d
        BY <1>1, <2>2, <3>2
      <4>2. memory[n + 1 - d] = todo[1]
        BY <1>3, <1>5, <4>1
      <4>3. memory[k] = h
        BY <1>3, <4>1, <4>2
      <4> QED
        BY <1>2, <4>3, CountIs
    <3> QED
      BY <3>1, <3>2
  <2>3. ASSUME NEW k \in 1..(Len(todo) - 1), n + 1 + k > d
        PROVE  memory[n + 1 + k - d] = Tail(todo)[k]
    <3>1. k + 1 \in 1..Len(todo) /\ n + (k + 1) > d /\ n + (k + 1) - d = n + 1 + k - d
      BY <1>1, <1>3, <2>3
    <3>2. memory[n + (k + 1) - d] = todo[k + 1]
      BY <1>5, <3>1
    <3> QED
      BY <1>3, <3>1, <3>2
  <2> QED
    BY <1>0, <1>3, <1>4, <2>1, <2>2, <2>3 DEF Slipped
<1>7. LossesCounted(d)'
  <2>1. Missing' \subseteq Missing \ {h}
    <3>1. h \notin Missing'
      BY <1>0, <1>2, CountIs DEF Missing
    <3>2. \A q \in Prompts : injected'[q] = 0 => injected[q] = 0
      BY <1>2, CountIs
    <3> QED
      BY <1>0, <3>1, <3>2 DEF Missing, OthersTyped
  <2>2. Slipping(d)' \subseteq Slipping(d) \ {h}
    <3>0. Slipping(d)' = {Tail(todo)[k] : k \in {j \in 1..(Len(todo) - 1) : n + 1 + j <= d}}
      <4> HIDE DEF Sound, Balanced
      <4>1. /\ drain'.todo = Tail(todo) /\ drain'.injected = n + 1
            /\ Len(Tail(todo)) = Len(todo) - 1
        BY <1>0, <1>3
      <4> QED
        BY <4>1, Zenon DEF Slipping
    <3> SUFFICES ASSUME NEW k \in 1..(Len(todo) - 1), n + 1 + k <= d
                 PROVE  Tail(todo)[k] \in Slipping(d) \ {h}
      BY <3>0
    <3>1. k + 1 \in 1..Len(todo) /\ n + (k + 1) <= d /\ Tail(todo)[k] = todo[k + 1]
      BY <1>1, <1>3
    <3>2. todo[k + 1] \in Slipping(d)
      BY <1>0, <3>1 DEF Slipping
    <3>3. Tail(todo)[k] \in Elements(Tail(todo))
      BY <1>3 DEF Elements
    <3> QED
      BY <1>3, <3>1, <3>2, <3>3
  <2>3. Gone(d)' \subseteq Gone(d) \ {h}
    BY <2>1, <2>2 DEF Gone
  <2>4. /\ IsFiniteSet(Gone(d)) /\ Cardinality(Gone(d)) \in Nat
        /\ Cardinality(Gone(d)) + Ahead(d) <= drops
        /\ IsFiniteSet(Gone(d)') /\ Cardinality(Gone(d)') \in Nat
    <3>1. IsFiniteSet(Gone(d)) /\ Cardinality(Gone(d)) + Ahead(d) <= drops
      BY <1>1, GoneIs, CountedIs
    <3>2. IsFiniteSet(Gone(d)')
      BY <2>3, <3>1, FS_Subset
    <3> QED
      BY <3>1, <3>2, FS_CardinalityType
  <2>5. Cardinality(Gone(d)') + Ahead(d)' <= drops
    <3>1. CASE d > n
      <4>1. h \in Gone(d)
        BY <1>0, <1>1, <1>3, <3>1 DEF Gone, Slipping
      <4>2. Cardinality(Gone(d)') + 1 <= Cardinality(Gone(d))
        BY <2>3, <2>4, <4>1, OneLess
      <4>3. Ahead(d) = n /\ Ahead(d)' = n + 1
        BY <1>0, <1>1, <3>1 DEF Ahead
      <4> QED
        BY <1>1, <2>4, <4>2, <4>3
    <3>2. CASE ~(d > n)
      <4>1. Cardinality(Gone(d)') <= Cardinality(Gone(d))
        BY <2>3, <2>4, Fewer
      <4>2. Ahead(d) = d /\ Ahead(d)' = d
        BY <1>0, <1>1, <3>2 DEF Ahead
      <4> QED
        BY <1>1, <2>4, <4>1, <4>2
    <3> QED
      BY <3>1, <3>2
  <2> QED
    BY <1>0, <2>5, CountedNext
<1>8. InjectionsCounted(d)'
  <2>1. Behind(d)' = Behind(d) /\ \A q : Held(q)' = Held(q)
    <3>1. n + Len(todo) = n + 1 + Len(Tail(todo))
      BY <1>3
    <3> QED
      BY <1>0, <3>1 DEF Behind, Held
  <2> SUFFICES ASSUME NEW q \in Prompts
               PROVE  injected'[q] + Cardinality(Held(q)') + Count(q, Elements(drain'.todo))
                      + Count(q, Behind(d)') <= deliveries'[q] + faults'
    BY DEF InjectionsCounted, Count
  <2>2. injected[q] + Cardinality(Held(q)) + Count(q, Elements(drain.todo))
        + Count(q, Behind(d)) <= deliveries[q] + faults
    BY DEF InjectionsCounted
  <2>3. Count(q, Elements(Tail(todo))) + Count(q, {h}) <= Count(q, Elements(todo))
    <3>1. h \in Elements(todo)
      BY <1>3 DEF Elements
    <3>2. Elements(Tail(todo)) \subseteq Elements(todo)
      <4>1. \A k \in 1..(Len(todo) - 1) : k + 1 \in 1..Len(todo)
        BY <1>3
      <4> QED
        BY <1>3, <4>1 DEF Elements
    <3> QED
      BY <1>3, <3>1, <3>2 DEF Count
  <2>4. Cardinality(Held(q)) \in Nat
    BY HeldIs
  <2>5. deliveries[q] \in Nat /\ faults \in Nat
    BY PromptsAssumption DEF OthersTyped
  <2> QED
    <3>1. /\ Count(q, {h}) \in {0, 1} /\ Count(q, Elements(Tail(todo))) \in {0, 1}
          /\ Count(q, Elements(todo)) \in {0, 1} /\ Count(q, Behind(d)) \in {0, 1}
      BY CountIs
    <3>2. injected[q] \in Nat /\ injected'[q] = injected[q] + Count(q, {h})
      BY <1>2
    <3>3. injected[q] + Cardinality(Held(q)) + Count(q, Elements(todo))
          + Count(q, Behind(d)) <= deliveries[q] + faults
      BY <1>0, <2>2
    <3> HIDE DEF Sound, Balanced
    <3>4. injected'[q] + Cardinality(Held(q)) + Count(q, Elements(Tail(todo)))
          + Count(q, Behind(d)) <= deliveries[q] + faults
      BY <2>3, <2>4, <2>5, <3>1, <3>2, <3>3
    <3> QED
      BY <1>0, <2>1, <3>4
<1> QED
  BY <1>1, <1>6, <1>7, <1>8

\* What queuePrompt does to the queue: nothing, one prompt more, or one for the oldest.
LEMMA EnqueuedEffects ==
    ASSUME QueueTyped(memory), NEW p \in Prompts
    PROVE  LET kept == Enqueued(p)
           IN  /\ p \in Elements(kept)
               /\ \/ kept = memory
                  \/ /\ Len(kept) = Len(memory) + 1
                     /\ \A k \in 1..Len(memory) : kept[k] = memory[k]
                     /\ kept[Len(memory) + 1] = p
                     /\ Elements(memory) \ Elements(kept) = {}
                  \/ /\ Len(kept) = Len(memory) /\ Len(memory) \in Nat \ {0}
                     /\ \A k \in 1..(Len(memory) - 1) : kept[k] = memory[k + 1]
                     /\ kept[Len(memory)] = p
                     /\ Elements(memory) \ Elements(kept) = {memory[1]}
<1> DEFINE kept == Enqueued(p)
<1> USE DEF Elements
<1>1. CASE p \in Elements(memory) /\ kept = memory
  BY <1>1, Zenon
<1>2. CASE p \notin Elements(memory) /\ kept = Append(memory, p)
  <2>1. /\ Len(kept) = Len(memory) + 1 /\ Len(memory) \in Nat
        /\ \A k \in 1..Len(memory) : kept[k] = memory[k]
        /\ kept[Len(memory) + 1] = p
    BY <1>2, Appended DEF QueueTyped
  <2> HIDE DEF queue
  <2>2. p \in Elements(kept)
    BY <2>1
  <2>3. Elements(memory) \ Elements(kept) = {}
    BY <2>1
  <2> QED
    BY <2>1, <2>2, <2>3 DEF queue
<1>3. CASE p \notin Elements(memory) /\ memory # <<>> /\ kept = Append(Tail(memory), p)
  <2>1. /\ Len(kept) = Len(memory) /\ Len(memory) \in Nat \ {0}
        /\ \A k \in 1..(Len(memory) - 1) : kept[k] = memory[k + 1]
        /\ kept[Len(memory)] = p
    BY <1>3, Shifted DEF QueueTyped
  <2> HIDE DEF queue
  <2>2. p \in Elements(kept)
    BY <2>1
  <2>3. \A k \in 1..Len(memory) : k # 1 => memory[k] \in Elements(kept)
    <3> SUFFICES ASSUME NEW k \in 1..Len(memory), k # 1 PROVE memory[k] \in Elements(kept)
      OBVIOUS
    <3>1. k - 1 \in 1..(Len(memory) - 1) /\ k - 1 + 1 = k /\ k - 1 \in 1..Len(kept)
      BY <2>1
    <3>2. kept[k - 1] = memory[k]
      BY <2>1, <3>1
    <3> QED
      BY <3>1, <3>2
  <2>4. memory[1] \in Elements(memory) /\ memory[1] \notin Elements(kept)
    <3>1. memory[1] \in Elements(memory) /\ memory[1] # p
      BY <1>3, <2>1
    <3>2. \A k \in 1..(Len(memory) - 1) : memory[k + 1] # memory[1]
      <4> TAKE k \in 1..(Len(memory) - 1)
      <4>1. k + 1 \in 1..Len(memory) /\ 1 \in 1..Len(memory) /\ k + 1 # 1
        BY <2>1
      <4> QED
        BY <4>1 DEF QueueTyped, Distinct
    <3>3. \A k \in 1..Len(kept) : k = Len(memory) \/ k \in 1..(Len(memory) - 1)
      BY <2>1
    <3> QED
      BY <2>1, <3>1, <3>2, <3>3
  <2>5. Elements(memory) \ Elements(kept) = {memory[1]}
    BY <2>3, <2>4
  <2> QED
    BY <2>1, <2>2, <2>5 DEF queue
<1> QED
  BY <1>1, <1>2, <1>3, EnqueuedIs

\* queuePrompt puts a prompt into the queue: in a full one it drops the oldest, which the
\* drain may have injected already; the drain then removes one more.
LEMMA QueueBalances ==
    ASSUME NEW d, Sound(d), OthersTyped, OthersTyped', NEW r \in Readers, Queue(r)
    PROVE  \E e \in 0..drops' : Balanced(e)'
<1> USE DEF Sound, Balanced
<1>0. PICK p \in Prompts :
          /\ p = handling[r].prompt
          /\ memory' = Enqueued(p)
          /\ \/ disk' = memory' /\ acked' = acked \cup {p}
             \/ disk' = disk /\ acked' = acked
          /\ faults' = faults \/ faults' = faults + 1
          /\ drops' = drops + Cardinality(Elements(memory) \ Elements(memory'))
          /\ handling' = [handling EXCEPT ![r] = Free]
          /\ UNCHANGED <<drain, injected, deliveries>>
  <2>1. handling[r].prompt \in Prompts
    BY InHand DEF Queue
  <2>2. /\ memory' = Enqueued(handling[r].prompt)
        /\ \/ disk' = memory' /\ acked' = acked \cup {handling[r].prompt}
           \/ disk' = disk /\ acked' = acked
        /\ faults' = faults \/ faults' = faults + 1
    BY DEF Queue, Persisted, NotPersisted, Fault
  <2> QED
    BY <2>1, <2>2 DEF Queue, Drop, Finish
<1>1. PICK n \in Nat, todo \in Seq(Prompts), m \in Nat :
          /\ todo = drain.todo /\ n = drain.injected /\ Len(todo) \in Nat
          /\ m = Len(memory) /\ \A k \in 1..m : memory[k] \in Prompts
  <2>1. drain.injected \in Nat /\ drain.todo \in Seq(Prompts) /\ Len(drain.todo) \in Nat
    BY DEF OthersTyped
  <2>2. Len(memory) \in Nat /\ \A k \in 1..Len(memory) : memory[k] \in Prompts
    BY DEF QueueTyped
  <2> QED
    BY <2>1, <2>2
<1>2. d \in Nat /\ drops \in Nat /\ faults \in Nat /\ d <= drops
  BY PromptsAssumption DEF OthersTyped
<1>3. /\ n + Len(todo) <= m + d
      /\ \A k \in 1..m : k + d <= n => injected[memory[k]] > 0
      /\ \A k \in 1..Len(todo) : n + k > d => memory[n + k - d] = todo[k]
  BY <1>1 DEF Slipped
<1>4. p \in Elements(memory')
  BY <1>0, EnqueuedEffects
<1>5. Missing' \subseteq Missing \cup (Elements(memory) \ Elements(memory'))
  <2> SUFFICES ASSUME NEW q \in Missing', q \in Elements(memory) => q \in Elements(memory')
               PROVE  q \in Missing
    OBVIOUS
  <2>1. q \in acked' /\ injected[q] = 0 /\ q \notin Elements(memory') \cap Elements(disk')
    BY <1>0 DEF Missing
  <2>2. CASE disk' = memory' /\ acked' = acked \cup {p}
    <3>1. q \notin Elements(memory')
      BY <2>1, <2>2
    <3> QED
      BY <1>4, <2>1, <2>2, <3>1 DEF Missing
  <2>3. CASE disk' = disk /\ acked' = acked
    BY <2>1, <2>3 DEF Missing
  <2> QED
    BY <1>0, <2>2, <2>3
<1>6. ASSUME NEW e \in Nat, Behind(e)' \subseteq Behind(d) \cup {p} PROVE InjectionsCounted(e)'
  <2> SUFFICES ASSUME NEW q \in Prompts
               PROVE  injected'[q] + Cardinality(Held(q)') + Count(q, Elements(drain'.todo))
                      + Count(q, Behind(e)') <= deliveries'[q] + faults'
    BY DEF InjectionsCounted, Count
  <2>1. injected[q] + Cardinality(Held(q)) + Count(q, Elements(drain.todo))
        + Count(q, Behind(d)) <= deliveries[q] + faults
    BY DEF InjectionsCounted
  <2>2. Cardinality(Held(q)') + Count(q, {p}) <= Cardinality(Held(q))
    BY <1>0, HeldShrinks DEF Queue
  <2>3. Count(q, Behind(e)') <= Count(q, Behind(d)) + Count(q, {p})
    BY <1>6 DEF Count
  <2>4. /\ Cardinality(Held(q)) \in Nat /\ Cardinality(Held(q)') \in Nat
        /\ injected[q] \in Nat /\ deliveries[q] \in Nat
        /\ Count(q, {p}) \in {0, 1} /\ Count(q, Elements(drain.todo)) \in {0, 1}
        /\ Count(q, Behind(e)') \in {0, 1} /\ Count(q, Behind(d)) \in {0, 1}
    <3>1. \A S : Count(q, S) \in {0, 1}
      BY CountIs
    <3> QED
      BY <3>1, HeldIs, HeldNext DEF OthersTyped
  <2> HIDE DEF Sound, Balanced
  <2>5. PICK i \in Nat, h \in Nat, k \in Nat, t \in Nat, b \in Nat, c \in Nat, o \in {0, 1},
             g \in Nat, f \in Nat :
            /\ i = injected[q] /\ t = Count(q, Elements(drain.todo)) /\ o = Count(q, {p})
            /\ h = Cardinality(Held(q)) /\ k = Cardinality(Held(q)')
            /\ b = Count(q, Behind(d)) /\ c = Count(q, Behind(e)')
            /\ g = deliveries[q] /\ f = faults
    <3>1. \A x \in {0, 1} : x \in Nat
      OBVIOUS
    <3> QED
      BY <1>2, <2>4, <3>1
  <2>6. i + h + t + b <= g + f /\ k + o <= h /\ c <= b + o
    BY <2>1, <2>2, <2>3, <2>5
  <2>7. i + k + t + c <= g + f /\ i + k + t + c <= g + (f + 1)
    BY <2>6
  <2>8. faults' = f \/ faults' = f + 1
    BY <1>0, <2>5
  <2> QED
    BY <1>0, <2>5, <2>7, <2>8
<1>7. CASE memory' = memory
  <2>1. drops' = drops
    BY <1>0, <1>2, <1>7, NothingCounts
  <2>2. Slipped(d)'
    BY <1>0, <1>7 DEF Slipped
  <2>3. Gone(d)' \subseteq Gone(d)
    BY <1>0, <1>5, <1>7 DEF Gone, Slipping
  <2>4. LossesCounted(d)'
    BY <1>0, <1>2, <2>1, <2>3, NoLoss
  <2>5. Behind(d)' = Behind(d)
    BY <1>0, <1>7 DEF Behind
  <2> QED
    BY <1>2, <1>6, <2>1, <2>2, <2>4, <2>5
<1>8. CASE /\ Len(memory') = m + 1
           /\ \A k \in 1..m : memory'[k] = memory[k]
           /\ memory'[m + 1] = p
           /\ Elements(memory) \ Elements(memory') = {}
  <2>1. drops' = drops
    BY <1>0, <1>2, <1>8, NothingCounts
  <2>2. Slipped(d)'
    <3>1. n + Len(todo) <= Len(memory') + d
      BY <1>1, <1>2, <1>3, <1>8
    <3>2. ASSUME NEW k \in 1..Len(memory'), k + d <= n PROVE injected[memory'[k]] > 0
      <4>1. k \in 1..m
        BY <1>1, <1>2, <1>3, <1>8, <3>2
      <4> QED
        BY <1>3, <1>8, <3>2, <4>1
    <3>3. ASSUME NEW k \in 1..Len(todo), n + k > d PROVE memory'[n + k - d] = todo[k]
      <4>1. n + k - d \in 1..m
        <5> HIDE DEF Sound, Balanced
        <5>1. PICK l \in Nat : l = Len(todo)
          BY <1>1
        <5>2. k \in 1..l /\ n + l <= m + d
          BY <1>3, <5>1
        <5> QED
          BY <1>2, <3>3, <5>2
      <4> QED
        BY <1>3, <1>8, <3>3, <4>1
    <3> QED
      BY <1>0, <1>1, <3>1, <3>2, <3>3 DEF Slipped
  <2>3. Gone(d)' \subseteq Gone(d)
    BY <1>0, <1>5, <1>8 DEF Gone, Slipping
  <2>4. LossesCounted(d)'
    BY <1>0, <1>2, <2>1, <2>3, NoLoss
  <2>5. Behind(d)' \subseteq Behind(d) \cup {p}
    <3> SUFFICES ASSUME NEW k \in 1..(m + 1), k + d > n + Len(todo)
                 PROVE  memory'[k] \in Behind(d) \cup {p}
      BY <1>0, <1>1, <1>8 DEF Behind
    <3>1. k = m + 1 \/ k \in 1..m
      BY <1>1
    <3> QED
      BY <1>1, <1>8, <3>1 DEF Behind
  <2> QED
    BY <1>2, <1>6, <2>1, <2>2, <2>4, <2>5
<1>9. CASE /\ Len(memory') = m /\ m \in Nat \ {0}
           /\ \A k \in 1..(m - 1) : memory'[k] = memory[k + 1]
           /\ memory'[m] = p
           /\ Elements(memory) \ Elements(memory') = {memory[1]}
  <2>1. drops' = drops + 1
    BY <1>0, <1>9, NothingCounts
  <2>2. Slipped(d + 1)'
    <3>1. n + Len(todo) <= Len(memory') + (d + 1)
      BY <1>1, <1>2, <1>3, <1>9
    <3>2. ASSUME NEW k \in 1..Len(memory'), k + (d + 1) <= n PROVE injected[memory'[k]] > 0
      <4>1. k \in 1..(m - 1) /\ k + 1 \in 1..m /\ (k + 1) + d <= n
        BY <1>1, <1>2, <1>3, <1>9, <3>2
      <4> QED
        BY <1>3, <1>9, <4>1
    <3>3. ASSUME NEW k \in 1..Len(todo), n + k > d + 1 PROVE memory'[n + k - (d + 1)] = todo[k]
      <4>1. n + k - (d + 1) \in 1..(m - 1) /\ n + k > d /\ n + k - (d + 1) + 1 = n + k - d
        <5>1. k \in Nat /\ k <= Len(todo) /\ n + k > d + 1
          BY <1>1, <3>3
        <5>2. n + k - (d + 1) >= 1 /\ n + k - (d + 1) <= m - 1
          <6> HIDE DEF Sound, Balanced
          <6>1. PICK l \in Nat : l = Len(todo)
            BY <1>1
          <6>2. k <= l /\ n + l <= m + d
            BY <1>3, <5>1, <6>1
          <6> QED
            BY <1>2, <5>1, <6>2
        <5>3. n + k > d /\ n + k - (d + 1) + 1 = n + k - d
          BY <1>2, <5>1
        <5>4. n + k - (d + 1) \in 1..(m - 1)
          BY <1>2, <5>1, <5>2
        <5> QED
          BY <5>3, <5>4
      <4> QED
        BY <1>3, <1>9, <4>1
    <3> QED
      BY <1>0, <1>1, <3>1, <3>2, <3>3 DEF Slipped
  <2>3. LossesCounted(d + 1)'
    <3>1. Gone(d + 1)' \subseteq Gone(d) \cup {memory[1]}
      <4>1. Slipping(d + 1)' \subseteq Slipping(d) \cup {memory[1]}
        <5> SUFFICES ASSUME NEW k \in 1..Len(todo), n + k <= d + 1
                     PROVE  todo[k] \in Slipping(d) \cup {memory[1]}
          BY <1>0, <1>1 DEF Slipping
        <5>1. CASE n + k <= d
          BY <1>1, <5>1 DEF Slipping
        <5>2. CASE ~(n + k <= d)
          <6>1. n + k > d /\ n + k - d = 1
            BY <1>1, <1>2, <5>2
          <6> QED
            BY <1>3, <6>1
        <5> QED
          BY <5>1, <5>2
      <4> QED
        BY <1>5, <1>9, <4>1 DEF Gone
    <3>2. /\ IsFiniteSet(Gone(d)) /\ Cardinality(Gone(d)) \in Nat
          /\ Cardinality(Gone(d)) + Ahead(d) <= drops
          /\ IsFiniteSet(Gone(d + 1)') /\ Cardinality(Gone(d + 1)') \in Nat
      <4>1. IsFiniteSet(Gone(d)) /\ Cardinality(Gone(d)) + Ahead(d) <= drops
        BY <1>2, GoneIs, CountedIs
      <4>2. IsFiniteSet(Gone(d) \cup {memory[1]})
        BY <4>1, FS_AddElement
      <4>3. IsFiniteSet(Gone(d + 1)')
        BY <3>1, <4>2, FS_Subset
      <4> QED
        BY <4>1, <4>3, FS_CardinalityType
    <3>3. CASE d < n
      <4>1. injected[memory[1]] > 0
        BY <1>1, <1>2, <1>3, <1>9, <3>3
      <4>2. Missing' \subseteq Missing
        <5>1. memory[1] \notin Missing'
          BY <1>0, <4>1 DEF Missing
        <5> QED
          BY <1>5, <1>9, <5>1
      <4>3. Slipping(d + 1)' = {}
        <5>1. \A k \in 1..Len(todo) : ~(n + k <= d + 1)
          BY <1>1, <1>2, <3>3
        <5> QED
          BY <1>0, <1>1, <5>1 DEF Slipping
      <4>4. Gone(d + 1)' \subseteq Gone(d)
        BY <4>2, <4>3 DEF Gone
      <4>5. Cardinality(Gone(d + 1)') <= Cardinality(Gone(d))
        BY <3>2, <4>4, Fewer
      <4>6. Ahead(d) = d /\ Ahead(d + 1)' = d + 1
        BY <1>0, <1>1, <1>2, <3>3 DEF Ahead
      <4>7. Cardinality(Gone(d + 1)') + Ahead(d + 1)' <= drops'
        BY <1>2, <2>1, <3>2, <4>5, <4>6
      <4> QED
        BY <4>7, CountedNext
    <3>4. CASE ~(d < n)
      <4>1. Cardinality(Gone(d + 1)') <= Cardinality(Gone(d)) + 1
        BY <3>1, <3>2, OneMore
      <4>2. Ahead(d) = n /\ Ahead(d + 1)' = n
        BY <1>0, <1>1, <1>2, <3>4 DEF Ahead
      <4>3. Cardinality(Gone(d + 1)') + Ahead(d + 1)' <= drops'
        BY <1>1, <1>2, <2>1, <3>2, <4>1, <4>2
      <4> QED
        BY <4>3, CountedNext
    <3> QED
      BY <3>3, <3>4
  <2>4. Behind(d + 1)' \subseteq Behind(d) \cup {p}
    <3> SUFFICES ASSUME NEW k \in 1..m, k + (d + 1) > n + Len(todo)
                 PROVE  memory'[k] \in Behind(d) \cup {p}
      BY <1>0, <1>1, <1>9 DEF Behind
    <3>1. CASE k = m
      BY <1>9, <3>1
    <3>2. CASE k # m
      <4>1. k \in 1..(m - 1) /\ k + 1 \in 1..m /\ (k + 1) + d > n + Len(todo)
        BY <1>1, <1>2, <3>2
      <4> QED
        BY <1>1, <1>9, <4>1 DEF Behind
    <3> QED
      BY <3>1, <3>2
  <2>5. d + 1 \in Nat /\ d + 1 \in 0..drops'
    BY <1>2, <2>1
  <2> QED
    BY <1>6, <2>2, <2>3, <2>4, <2>5
<1>10. \/ memory' = memory
       \/ /\ Len(memory') = Len(memory) + 1
          /\ \A k \in 1..Len(memory) : memory'[k] = memory[k]
          /\ memory'[Len(memory) + 1] = p
          /\ Elements(memory) \ Elements(memory') = {}
       \/ /\ Len(memory') = Len(memory) /\ Len(memory) \in Nat \ {0}
          /\ \A k \in 1..(Len(memory) - 1) : memory'[k] = memory[k + 1]
          /\ memory'[Len(memory)] = p
          /\ Elements(memory) \ Elements(memory') = {memory[1]}
  <2> HIDE DEF Balanced
  <2>1. QueueTyped(memory) /\ memory' = Enqueued(p)
    BY <1>0
  <2> HIDE DEF Sound
  <2> QED
    BY <2>1, EnqueuedEffects, Zenon
<1> QED
  BY <1>1, <1>7, <1>8, <1>9, <1>10

\* Neither a session nor a read loop that cannot inject changes the queue.
LEMMA UntouchedBalances ==
    ASSUME NEW d, Sound(d), OthersTyped, OthersTyped',
           \/ Session \/ Disconnect \/ UNCHANGED promptVars
           \/ \E r \in Readers : CannotInject(r) \/ InjectFails(r)
    PROVE  \E e \in 0..drops' : Balanced(e)'
<1> USE DEF history
<1>0. faults \in Nat
  BY PromptsAssumption DEF OthersTyped
<1>1. CASE Session \/ Disconnect \/ UNCHANGED promptVars
  <2>1. UNCHANGED <<memory, disk, injected, acked, drops, deliveries, drain, faults, handling>>
    BY <1>1 DEF Session, Disconnect, promptVars
  <2>2. \A p \in Prompts : Cardinality(Held(p)') <= Cardinality(Held(p))
    <3> TAKE p \in Prompts
    <3>1. Held(p)' = Held(p)
      BY <2>1 DEF Held
    <3> QED
      BY <3>1, HeldIs
  <2> QED
    BY <1>0, <2>1, <2>2, BalanceUntouched
<1>2. ASSUME NEW r \in Readers, CannotInject(r) PROVE \E e \in 0..drops' : Balanced(e)'
  <2>1. UNCHANGED <<memory, disk, injected, acked, drops, deliveries, drain, faults>>
    BY <1>2 DEF CannotInject
  <2>2. \A p \in Prompts : Cardinality(Held(p)') <= Cardinality(Held(p))
    <3> TAKE p \in Prompts
    <3>1. \A s \in Readers : handling'[s].prompt = handling[s].prompt
      BY <1>2, InHand DEF CannotInject, OthersTyped
    <3>2. Held(p)' = Held(p)
      BY <3>1 DEF Held
    <3> QED
      BY <3>2, HeldIs
  <2> QED
    BY <1>0, <2>1, <2>2, BalanceUntouched
<1>3. ASSUME NEW r \in Readers, InjectFails(r) PROVE \E e \in 0..drops' : Balanced(e)'
  <2>1. /\ UNCHANGED <<memory, disk, injected, acked, drops, deliveries, drain>>
        /\ faults' >= faults
    BY <1>0, <1>3 DEF InjectFails, Fault
  <2>2. \A p \in Prompts : Cardinality(Held(p)') <= Cardinality(Held(p))
    <3> TAKE p \in Prompts
    <3>1. Cardinality(Held(p)') + Count(p, {handling[r].prompt}) <= Cardinality(Held(p))
      BY <1>3, HeldShrinks DEF InjectFails, Finish
    <3>2. Count(p, {handling[r].prompt}) \in Nat
      BY DEF Count
    <3> QED
      BY <3>1, <3>2, HeldIs, HeldNext
  <2> QED
    BY <2>1, <2>2, BalanceUntouched
<1> QED
  BY <1>1, <1>2, <1>3

\* What is missing never costs more than what was dropped.
LEMMA MissingIsDropped ==
    ASSUME NEW d, Sound(d), OthersTyped
    PROVE  d \in Nat /\ drops \in Nat /\ Cardinality(Missing) <= drops
<1>1. d \in Nat /\ drops \in Nat
  BY DEF Sound, OthersTyped
<1>2. Cardinality(Gone(d)) + Ahead(d) <= drops
  BY CountedIs DEF Sound, Balanced
<1> QED
  BY <1>1, <1>2, GoneIs

\* With no drain, what is missing is all that is at stake, whatever was dropped before.
Settled ==
    /\ drain = NotDraining /\ OthersTyped /\ QueueTyped(memory)
    /\ Cardinality(Missing) <= drops
    /\ \A p \in Prompts : injected[p] + Cardinality(Held(p)) + Count(p, Elements(memory))
                          <= deliveries[p] + faults

\* Then it balances; and the same of the next state.
LEMMA SettledBalances == Settled => \A d \in Nat : Balanced(d)
<1> SUFFICES ASSUME Settled, NEW d \in Nat PROVE Balanced(d)
  OBVIOUS
<1> USE DEF Settled, NotDraining
<1>1. Len(drain.todo) = 0 /\ drain.injected = 0 /\ Len(memory) \in Nat
  BY DEF QueueTyped
<1>2. Slipped(d)
  BY <1>1 DEF Slipped
<1>3. LossesCounted(d)
  <2>1. Slipping(d) = {}
    BY <1>1 DEF Slipping
  <2>2. Gone(d) = Missing
    BY <2>1 DEF Gone
  <2>3. Ahead(d) = 0
    BY <1>1 DEF Ahead
  <2> QED
    BY <2>2, <2>3, GoneIs, CountedIs
<1>4. InjectionsCounted(d)
  <2>1. Behind(d) = Elements(memory)
    BY <1>1 DEF Behind, Elements
  <2>2. Elements(drain.todo) = {}
    BY <1>1 DEF Elements
  <2> SUFFICES ASSUME NEW p \in Prompts
               PROVE  injected[p] + Cardinality(Held(p)) + Count(p, {})
                      + Count(p, Elements(memory)) <= deliveries[p] + faults
    BY <2>1, <2>2 DEF InjectionsCounted
  <2>3. Count(p, {}) = 0
    BY DEF Count
  <2>4. injected[p] + Cardinality(Held(p)) \in Nat
    BY HeldIs DEF OthersTyped
  <2> QED
    BY <2>3, <2>4
<1> QED
  BY <1>2, <1>3, <1>4 DEF Balanced

LEMMA SettledBalancesNext == Settled' => (\A d \in Nat : Balanced(d))'
BY SettledBalances, PTL

\* A queued prompt that the drain did not get to is in its snapshot, or came since.
LEMMA NotInjectedYet ==
    ASSUME NEW d, Sound(d), NEW k \in 1..Len(memory), k > drain.injected
    PROVE  memory[k] \in Elements(drain.todo) \cup Behind(d)
<1>1. PICK n \in Nat, todo \in Seq(Prompts), m \in Nat, l \in Nat :
          todo = drain.todo /\ n = drain.injected /\ m = Len(memory) /\ l = Len(todo)
  <2>1. drain.injected \in Nat /\ drain.todo \in Seq(Prompts)
    BY DEF Sound, OthersTyped
  <2>2. Len(memory) \in Nat /\ Len(drain.todo) \in Nat
    BY <2>1 DEF Sound, QueueTyped
  <2> QED
    BY <2>1, <2>2
<1>2. /\ d \in Nat
      /\ \A j \in 1..l : n + j > d => memory[n + j - d] = todo[j]
  BY <1>1 DEF Sound, Balanced, Slipped, OthersTyped
<1>3. CASE k + d > n + l
  BY <1>1, <1>3 DEF Behind
<1>4. CASE ~(k + d > n + l)
  <2>1. k + d - n \in 1..l /\ n + (k + d - n) > d /\ n + (k + d - n) - d = k
    <3>1. k \in Nat /\ k > n /\ k >= 1 /\ d \in Nat /\ k + d <= n + l
      BY <1>1, <1>2, <1>4
    <3>2. k + d - n >= 1 /\ k + d - n <= l
      BY <3>1
    <3>3. n + (k + d - n) = k + d /\ n + (k + d - n) - d = k /\ k + d > d
      BY <3>1
    <3> QED
      BY <3>1, <3>2, <3>3
  <2>2. memory[k] = todo[k + d - n]
    BY <1>2, <2>1
  <2> QED
    BY <1>1, <2>1, <2>2 DEF Elements
<1> QED
  BY <1>3, <1>4

\* A delivery is counted once wherever the prompt is held, so no more are injected.
LEMMA InjectionsAre ==
    ASSUME NEW d, Sound(d), OthersTyped, NEW p \in Prompts,
           NEW S \in SUBSET (Elements(drain.todo) \cup Behind(d))
    PROVE  /\ injected[p] + Cardinality(Held(p)) + Count(p, S) <= deliveries[p] + faults
           /\ injected[p] <= deliveries[p] + faults
           /\ injected[p] \in Nat /\ deliveries[p] \in Nat /\ faults \in Nat
<1>1. injected[p] + Cardinality(Held(p)) + Count(p, Elements(drain.todo))
      + Count(p, Behind(d)) <= deliveries[p] + faults
  BY DEF Sound, Balanced, InjectionsCounted
<1>2. Count(p, S) <= Count(p, Elements(drain.todo)) + Count(p, Behind(d))
  BY DEF Count
<1>3. /\ Count(p, S) \in Nat /\ Count(p, Elements(drain.todo)) \in Nat /\ Count(p, Behind(d)) \in Nat
      /\ Cardinality(Held(p)) \in Nat /\ injected[p] \in Nat /\ deliveries[p] \in Nat
      /\ faults \in Nat
  BY PromptsAssumption, HeldIs DEF Count, OthersTyped
<1>4. injected[p] + Cardinality(Held(p)) + (Count(p, Elements(drain.todo)) + Count(p, Behind(d)))
      <= deliveries[p] + faults
  BY <1>1, <1>3
<1>5. injected[p] + Cardinality(Held(p)) + Count(p, S) <= deliveries[p] + faults
  BY <1>2, <1>3, <1>4
<1> QED
  BY <1>3, <1>5

\* OnConnected takes its snapshot.
LEMMA ConnectBalances ==
    ASSUME NEW d, Sound(d), OthersTyped, OthersTyped', NEW r \in Readers, Connect(r)
    PROVE  \E e \in 0..drops' : Balanced(e)'
<1> USE DEF history
<1>1. CASE ~(HasAdapter /\ memory # <<>>)
  <2>1. drain = NotDraining /\ drain' = NotDraining
    BY <1>1 DEF Connect, Sound, DrainInStep
  <2>2. UNCHANGED <<memory, disk, injected, acked, drops, deliveries, drain, faults, handling>>
    BY <2>1 DEF Connect
  <2>3. \A p \in Prompts : Cardinality(Held(p)') <= Cardinality(Held(p))
    <3> TAKE p \in Prompts
    <3>1. Held(p)' = Held(p)
      BY <2>2 DEF Held
    <3> QED
      BY <3>1, HeldIs
  <2>4. faults \in Nat
    BY PromptsAssumption DEF OthersTyped
  <2> QED
    BY <2>2, <2>3, <2>4, BalanceUntouched
<1>2. CASE HasAdapter /\ memory # <<>>
  <2>1. /\ drain'.todo = memory /\ drain'.injected = 0
        /\ UNCHANGED <<memory, disk, injected, acked, drops, deliveries, faults, handling>>
    BY <1>2 DEF Connect
  <2>2. drain = NotDraining
    BY DEF Connect, Sound, DrainInStep
  <2>3. Len(memory) \in Nat /\ Elements(memory) \subseteq Elements(drain.todo) \cup Behind(d)
    <3>1. Len(memory) \in Nat /\ \A k \in 1..Len(memory) : k > drain.injected
      BY <2>2 DEF NotDraining, Sound, QueueTyped
    <3> QED
      BY <3>1, NotInjectedYet DEF Elements
  <2>4. Slipped(0)'
    BY <2>1, <2>3 DEF Slipped
  <2>5. LossesCounted(0)'
    <3>1. Slipping(0)' = {}
      BY <2>1, <2>3 DEF Slipping
    <3>2. Gone(0)' = Missing
      BY <2>1, <3>1 DEF Gone, Missing
    <3>3. Ahead(0)' = 0
      BY <2>1 DEF Ahead
    <3> QED
      BY <2>1, <3>2, <3>3, MissingIsDropped, GoneIs, CountedNext
  <2>6. InjectionsCounted(0)'
    <3>1. Behind(0)' = {}
      BY <2>1, <2>3 DEF Behind
    <3> SUFFICES ASSUME NEW p \in Prompts
                 PROVE  injected[p] + Cardinality(Held(p)') + Count(p, Elements(memory))
                        + Count(p, {}) <= deliveries[p] + faults
      BY <2>1, <3>1 DEF InjectionsCounted, Count
    <3>2. Held(p)' = Held(p)
      BY <2>1 DEF Held
    <3>3. injected[p] + Cardinality(Held(p)) + Count(p, Elements(memory)) <= deliveries[p] + faults
      BY <2>3, InjectionsAre
    <3>4. Count(p, {}) = 0 /\ Count(p, Elements(memory)) \in Nat
      BY DEF Count
    <3>5. injected[p] \in Nat /\ Cardinality(Held(p)) \in Nat
      BY HeldIs DEF OthersTyped
    <3> QED
      BY <3>2, <3>3, <3>4, <3>5
  <2>7. 0 \in 0..drops'
    BY <2>1 DEF OthersTyped
  <2> QED
    BY <2>4, <2>5, <2>6, <2>7 DEF Balanced
<1> QED
  BY <1>1, <1>2

\* The drain gives up, or has nothing left to do.
LEMMA DrainEndsBalances ==
    ASSUME NEW d, Sound(d), QueueTyped(memory'), OthersTyped, OthersTyped', DrainEnds
    PROVE  \E e \in 0..drops' : Balanced(e)'
<1> USE DEF history
<1>1. /\ UNCHANGED <<memory, disk, injected, acked, drops, deliveries, handling>>
      /\ faults' >= faults /\ faults \in Nat /\ faults' \in Nat
  BY PromptsAssumption DEF DrainEnds, Fault, OthersTyped
<1>2. \A p : Held(p)' = Held(p)
  BY <1>1 DEF Held
<1>3. CASE drain.injected = 0
  <2>1. drain' = NotDraining
    BY <1>3 DEF DrainEnds
  <2>2. Elements(memory) \subseteq Elements(drain.todo) \cup Behind(d)
    <3>1. \A k \in 1..Len(memory) : k > drain.injected
      BY <1>3 DEF Sound, QueueTyped
    <3> QED
      BY <3>1, NotInjectedYet DEF Elements
  <2>3. Missing' = Missing
    BY <1>1 DEF Missing
  <2>4. \A p \in Prompts : injected'[p] + Cardinality(Held(p)') + Count(p, Elements(memory'))
                           <= deliveries'[p] + faults'
    <3> TAKE p \in Prompts
    <3>1. /\ injected[p] + Cardinality(Held(p)) + Count(p, Elements(memory))
             <= deliveries[p] + faults
          /\ injected[p] \in Nat /\ deliveries[p] \in Nat
      BY <2>2, InjectionsAre
    <3>2. Cardinality(Held(p)) \in Nat /\ Count(p, Elements(memory)) \in Nat
      BY HeldIs DEF Count
    <3>3. injected[p] + Cardinality(Held(p)) + Count(p, Elements(memory)) <= deliveries[p] + faults'
      BY <1>1, <3>1, <3>2
    <3> QED
      BY <1>1, <1>2, <3>3
  <2>5. Settled'
    BY <1>1, <2>1, <2>3, <2>4, MissingIsDropped DEF Settled, Count
  <2> QED
    BY <1>1, <2>5, SettledBalancesNext, MissingIsDropped DEF Sound
<1>4. CASE drain.injected # 0
  <2>1. drain'.todo = drain.todo /\ drain'.injected = drain.injected
    BY <1>4 DEF DrainEnds, OthersTyped
  <2>2. \A p \in Prompts : Cardinality(Held(p)') <= Cardinality(Held(p))
    BY <1>2, HeldIs
  <2> QED
    BY <1>1, <2>1, <2>2, BalanceUntouched
<1> QED
  BY <1>3, <1>4

\* The elements of two sets.
LEMMA AtMostBoth ==
    ASSUME NEW S, IsFiniteSet(S), NEW T, IsFiniteSet(T), NEW U \in SUBSET (S \cup T)
    PROVE  Cardinality(U) <= Cardinality(S) + Cardinality(T)
<1>1. /\ IsFiniteSet(S \cup T)
      /\ Cardinality(S \cup T) = Cardinality(S) + Cardinality(T) - Cardinality(S \cap T)
  BY FS_Union
<1>2. Cardinality(S \cap T) \in Nat /\ Cardinality(S) \in Nat /\ Cardinality(T) \in Nat
  BY Fewer, FS_CardinalityType
<1>3. Cardinality(U) \in Nat /\ Cardinality(U) <= Cardinality(S \cup T)
  BY <1>1, Fewer
<1> QED
  BY <1>1, <1>2, <1>3

\* The drain removes as many prompts as it injected: those among them that it did not
\* inject are at most as many as were dropped from in front of them.
LEMMA DrainTrimsBalances ==
    ASSUME NEW d, Sound(d), QueueTyped(memory'), OthersTyped, OthersTyped', DrainTrims
    PROVE  \E e \in 0..drops' : Balanced(e)'
<1> USE DEF history
<1>1. /\ memory' = Trimmed /\ (disk' = memory' \/ disk' = disk)
      /\ UNCHANGED <<injected, acked, drops, deliveries, handling>> /\ drain' = NotDraining
      /\ faults' >= faults /\ faults \in Nat /\ faults' \in Nat
  BY PromptsAssumption DEF DrainTrims, Persisted, NotPersisted, Fault, OthersTyped
<1>2. PICK n \in Nat, m \in Nat : n = drain.injected /\ m = Len(memory)
  <2>1. drain.injected \in Nat /\ Len(memory) \in Nat
    BY DEF Sound, OthersTyped, QueueTyped
  <2> QED
    BY <2>1
<1>3. /\ d \in Nat /\ drops \in Nat /\ d \in 0..drops'
      /\ \A k \in 1..m : k + d <= n => injected[memory[k]] > 0
  BY <1>1, <1>2, MissingIsDropped DEF Sound, Balanced, Slipped
<1> DEFINE I == {k \in 1..m : k <= n /\ k + d > n}
           T == {memory[k] : k \in I}
<1>4. Missing' \subseteq Missing \cup T
  <2> SUFFICES ASSUME NEW q \in Missing', q \notin Missing PROVE q \in T
    OBVIOUS
  <2>1. q \in acked /\ injected[q] = 0 /\ q \notin Elements(memory') \cap Elements(disk')
    BY <1>1 DEF Missing
  <2>2. q \in Elements(memory) /\ q \in Elements(disk)
    BY <2>1 DEF Missing
  <2>3. q \notin Elements(Trimmed)
    BY <1>1, <2>1, <2>2
  <2>4. PICK k \in 1..m : q = memory[k]
    BY <1>2, <2>2 DEF Elements
  <2>5. k <= n
    <3>1. CASE k > n
      <4>1. k - n \in 1..Len(Trimmed) /\ Trimmed[k - n] = memory[k]
        BY <1>2, <3>1, TrimmedIs DEF Sound
      <4> QED
        BY <2>3, <2>4, <4>1 DEF Elements
    <3> QED
      BY <1>2, <3>1
  <2>6. k + d > n
    BY <1>2, <1>3, <2>1, <2>4
  <2> QED
    BY <2>4, <2>5, <2>6
<1>5. IsFiniteSet(T) /\ Cardinality(T) <= Ahead(d)
  <2>1. IsFiniteSet(I) /\ Cardinality(I) <= Ahead(d)
    <3>1. CASE d < n
      <4>1. I \in SUBSET ((n - d + 1)..n)
        BY <1>2, <1>3
      <4>2. IsFiniteSet((n - d + 1)..n) /\ Cardinality((n - d + 1)..n) = d
        <5>1. n - d + 1 \in Int /\ n \in Int /\ n - (n - d + 1) + 1 = d
              /\ (n - d + 1 > n => d = 0)
          BY <1>2, <1>3
        <5>2. /\ IsFiniteSet((n - d + 1)..n)
              /\ Cardinality((n - d + 1)..n)
                    = IF n - d + 1 > n THEN 0 ELSE n - (n - d + 1) + 1
          BY <5>1, FS_Interval
        <5> QED
          BY <5>1, <5>2
      <4>3. Ahead(d) = d
        BY <1>2, <3>1 DEF Ahead
      <4>4. IsFiniteSet(I) /\ Cardinality(I) <= d
        BY <4>1, <4>2, FS_Subset
      <4> QED
        BY <4>3, <4>4
    <3>2. CASE ~(d < n)
      <4>1. I \in SUBSET (1..n)
        BY <1>2
      <4>2. IsFiniteSet(1..n) /\ Cardinality(1..n) = n
        <5>1. 1 \in Int /\ n \in Int /\ n - 1 + 1 = n /\ (1 > n => n = 0)
          BY <1>2
        <5>2. /\ IsFiniteSet(1..n)
              /\ Cardinality(1..n) = IF 1 > n THEN 0 ELSE n - 1 + 1
          BY <5>1, FS_Interval
        <5> QED
          BY <5>1, <5>2
      <4>3. Ahead(d) = n
        BY <1>2, <3>2 DEF Ahead
      <4> QED
        BY <4>1, <4>2, <4>3, FS_Subset
    <3> QED
      BY <3>1, <3>2
  <2>2. [k \in I |-> memory[k]] \in Surjection(I, T)
    BY DEF Surjection
  <2>3. IsFiniteSet(T) /\ Cardinality(T) <= Cardinality(I)
    BY <2>1, <2>2, FS_Surjection
  <2>4. Cardinality(T) \in Nat /\ Cardinality(I) \in Nat /\ Ahead(d) \in Nat
    BY <1>3, <2>1, <2>3, FS_CardinalityType, GoneIs
  <2> QED
    BY <2>1, <2>3, <2>4
<1> HIDE DEF I, T
<1>6. Cardinality(Missing') <= drops'
  <2>1. Cardinality(Missing') <= Cardinality(Missing) + Cardinality(T)
    BY <1>3, <1>4, <1>5, GoneIs, AtMostBoth
  <2>2. Cardinality(Gone(d)) + Ahead(d) <= drops /\ Cardinality(Missing) <= Cardinality(Gone(d))
    BY <1>3, CountedIs, GoneIs DEF Sound, Balanced
  <2>3. /\ Cardinality(Missing') \in Nat /\ Cardinality(Missing) \in Nat /\ Cardinality(T) \in Nat
        /\ Cardinality(Gone(d)) \in Nat /\ Ahead(d) \in Nat
    <3>1. IsFiniteSet(Missing')
      BY PromptsAssumption, FS_Subset DEF Missing, OthersTyped
    <3> QED
      BY <1>3, <1>5, <3>1, GoneIs, FS_CardinalityType
  <2> QED
    BY <1>1, <1>3, <1>5, <2>1, <2>2, <2>3
<1>7. Elements(memory') \subseteq Elements(drain.todo) \cup Behind(d)
  <2> SUFFICES ASSUME NEW k \in 1..Len(Trimmed)
               PROVE  Trimmed[k] \in Elements(drain.todo) \cup Behind(d)
    BY <1>1 DEF Elements
  <2>1. n + k \in 1..m /\ Trimmed[k] = memory[n + k]
    BY <1>2, TrimmedIs DEF Sound
  <2>2. n + k > n
    BY <1>2, TrimmedIs DEF Sound
  <2> QED
    BY <1>2, <2>1, <2>2, NotInjectedYet
<1>8. \A p \in Prompts : injected'[p] + Cardinality(Held(p)') + Count(p, Elements(memory'))
                         <= deliveries'[p] + faults'
  <2> TAKE p \in Prompts
  <2>1. /\ injected[p] + Cardinality(Held(p)) + Count(p, Elements(memory'))
           <= deliveries[p] + faults
        /\ injected[p] \in Nat /\ deliveries[p] \in Nat
    BY <1>7, InjectionsAre
  <2>2. Cardinality(Held(p)) \in Nat /\ Count(p, Elements(memory')) \in Nat
    BY HeldIs DEF Count
  <2>3. injected[p] + Cardinality(Held(p)) + Count(p, Elements(memory')) <= deliveries[p] + faults'
    BY <1>1, <2>1, <2>2
  <2>4. Held(p)' = Held(p)
    BY <1>1 DEF Held
  <2> QED
    BY <1>1, <2>3, <2>4
<1>9. Settled'
  BY <1>1, <1>6, <1>8 DEF Settled, Count
<1> QED
  BY <1>3, <1>9, SettledBalancesNext

\* Store.Reset drops the whole queue.
LEMMA RejectionBalances ==
    ASSUME NEW d, Sound(d), QueueTyped(memory'), OthersTyped, OthersTyped', CredentialsRejected
    PROVE  \E e \in 0..drops' : Balanced(e)'
<1> DEFINE Q == Elements(memory) \cup Elements(disk)
<1>1. /\ memory' = <<>> /\ disk' = <<>> /\ drops' = drops + Cardinality(Q)
      /\ UNCHANGED <<handling, drain, acked, injected, deliveries, faults>>
      /\ drain = NotDraining
  BY DEF CredentialsRejected, Drop, Sound, DrainInStep
<1>2. IsFiniteSet(Q) /\ Cardinality(Q) \in Nat
  <2>1. Q \in SUBSET Prompts
    BY DEF Elements, Sound, QueueTyped
  <2> QED
    BY <2>1, PromptsAssumption, FS_Subset, FS_CardinalityType
<1>3. Missing' \subseteq Missing \cup Q
  BY <1>1 DEF Missing
<1>4. Cardinality(Missing') <= drops' /\ d \in Nat /\ d \in 0..drops'
  <2>1. Cardinality(Missing') <= Cardinality(Missing) + Cardinality(Q)
    BY <1>2, <1>3, MissingIsDropped, GoneIs, AtMostBoth
  <2>2. Cardinality(Missing) <= drops /\ d \in Nat /\ drops \in Nat /\ Cardinality(Missing) \in Nat
    BY MissingIsDropped, GoneIs
  <2>3. Cardinality(Missing') \in Nat
    BY PromptsAssumption, FS_Subset, FS_CardinalityType DEF Missing, OthersTyped
  <2>4. d <= drops
    BY DEF Sound, OthersTyped
  <2> QED
    BY <1>1, <1>2, <2>1, <2>2, <2>3, <2>4
<1>5. \A p \in Prompts : injected'[p] + Cardinality(Held(p)') + Count(p, Elements(memory'))
                         <= deliveries'[p] + faults'
  <2> TAKE p \in Prompts
  <2>1. injected[p] + Cardinality(Held(p)) + Count(p, {}) <= deliveries[p] + faults
    BY InjectionsAre
  <2>2. Held(p)' = Held(p) /\ Elements(memory') = {}
    BY <1>1, EmptyQueue DEF Held
  <2> QED
    BY <1>1, <2>1, <2>2
<1>6. Settled'
  BY <1>1, <1>4, <1>5 DEF Settled, Count
<1> QED
  BY <1>4, <1>6, SettledBalancesNext

\* The process dies: the file has what it had.
LEMMA RestartBalances ==
    ASSUME NEW d, Sound(d), QueueTyped(memory'), OthersTyped, OthersTyped', Restart
    PROVE  \E e \in 0..drops' : Balanced(e)'
<1> USE DEF history
<1>1. /\ memory' = disk /\ disk' = disk /\ drain' = NotDraining
      /\ handling' = [r \in Readers |-> Free]
      /\ UNCHANGED <<drops, acked, injected, deliveries>>
      /\ faults' = faults + 1
  BY DEF Restart, Fault
<1>2. Missing' \subseteq Missing
  BY <1>1 DEF Missing
<1>3. Cardinality(Missing') <= drops' /\ d \in Nat /\ d \in 0..drops'
  <2>1. Cardinality(Missing') <= Cardinality(Missing) /\ Cardinality(Missing') \in Nat
    BY <1>2, MissingIsDropped, GoneIs, Fewer
  <2> QED
    BY <1>1, <2>1, MissingIsDropped, GoneIs DEF Sound
<1>4. \A p \in Prompts : injected'[p] + Cardinality(Held(p)') + Count(p, Elements(memory'))
                         <= deliveries'[p] + faults'
  <2> TAKE p \in Prompts
  <2>1. /\ injected[p] <= deliveries[p] + faults
        /\ injected[p] \in Nat /\ deliveries[p] \in Nat /\ faults \in Nat
    BY InjectionsAre
  <2>2. Held(p)' = {}
    BY <1>1, PromptsAssumption DEF Held, Free
  <2>3. Cardinality(Held(p)') = 0
    BY <2>2, FS_EmptySet
  <2>4. Count(p, Elements(memory')) \in {0, 1}
    BY CountIs
  <2>5. injected[p] + 0 + Count(p, Elements(memory')) <= deliveries[p] + (faults + 1)
    BY <2>1, <2>4
  <2> QED
    BY <1>1, <2>3, <2>5
<1>5. Settled'
  BY <1>1, <1>3, <1>4 DEF Settled, Count
<1> QED
  BY <1>3, <1>5, SettledBalancesNext

\* A balance leaves nothing lost or injected unaccounted for.
LEMMA SoundSuffices == (\E d : Sound(d)) => LossesAreDrops /\ InjectionsAccounted
<1> SUFFICES ASSUME NEW d, Sound(d) PROVE LossesAreDrops /\ InjectionsAccounted
  OBVIOUS
<1>1. OthersTyped
  BY DEF Sound
<1>2. LossesAreDrops
  <2>1. Lost \in SUBSET Missing
    BY DEF Lost, Missing
  <2>2. Cardinality(Lost) <= Cardinality(Missing) /\ Cardinality(Lost) \in Nat
    BY <1>1, <2>1, MissingIsDropped, GoneIs, Fewer
  <2> QED
    BY <1>1, <2>2, MissingIsDropped, GoneIs DEF LossesAreDrops
<1>3. InjectionsAccounted
  BY <1>1, InjectionsAre DEF InjectionsAccounted
<1> QED
  BY <1>2, <1>3

\* The invariant is that there is a balance; and the same of the next state.
LEMMA SoundIs == PromptsInv <=> \E d : Sound(d)
BY SoundSuffices, PromptsTypes DEF PromptsInv, Sound

LEMMA SoundNext == PromptsInv' <=> (\E d : Sound(d))'
BY SoundIs, PTL

\* An agent that has just been installed has no prompts.
LEMMA PromptsInitially == PromptsInit => PromptsInv
<1> SUFFICES ASSUME PromptsInit PROVE \E d : Sound(d)
  BY SoundIs
<1> USE PromptsAssumption DEF PromptsInit
<1>1. QueueTyped(memory) /\ QueueTyped(disk) /\ Elements(memory) = {}
  BY EmptyQueue
<1>2. OthersTyped /\ DrainInStep
  BY DEF OthersTyped, DrainInStep, NotDraining, Distinct
<1>3. Cardinality(Missing) <= drops
  <2>1. Missing = {}
    BY DEF Missing
  <2> QED
    BY <2>1, FS_EmptySet
<1>4. \A p \in Prompts : injected[p] + Cardinality(Held(p)) + Count(p, Elements(memory))
                         <= deliveries[p] + faults
  <2> TAKE p \in Prompts
  <2>1. Held(p) = {}
    BY DEF Held, Free
  <2> QED
    BY <1>1, <2>1, FS_EmptySet DEF Count
<1>5. Balanced(0)
  BY <1>1, <1>2, <1>3, <1>4, SettledBalances DEF Settled
<1>6. 0 \in 0..drops
  OBVIOUS
<1> QED
  BY <1>1, <1>2, <1>5, <1>6 DEF Sound

\* Every action finds a balance again.
LEMMA PromptsStep == PromptsInv /\ [PromptsNext]_promptVars => PromptsInv'
<1> SUFFICES ASSUME NEW d, Sound(d), [PromptsNext]_promptVars PROVE (\E e : Sound(e))'
  BY SoundIs, SoundNext
<1>1. OthersTyped /\ OthersTyped' /\ DrainInStep' /\ QueueTyped(memory') /\ QueueTyped(disk')
  BY QueuesTypedStep, OthersTypedStep DEF Sound
<1>2. \E e \in 0..drops' : Balanced(e)'
  <2>1. CASE \/ Session \/ Disconnect \/ UNCHANGED promptVars
             \/ \E r \in Readers : CannotInject(r) \/ InjectFails(r)
    BY <1>1, <2>1, UntouchedBalances
  <2>2. ASSUME NEW p \in Prompts, Receive(p) PROVE \E e \in 0..drops' : Balanced(e)'
    BY <1>1, <2>2, ReceiveBalances
  <2>3. ASSUME NEW r \in Readers, Inject(r) PROVE \E e \in 0..drops' : Balanced(e)'
    BY <1>1, <2>3, InjectBalances
  <2>4. ASSUME NEW r \in Readers, Queue(r) PROVE \E e \in 0..drops' : Balanced(e)'
    BY <1>1, <2>4, QueueBalances
  <2>5. ASSUME NEW r \in Readers, Connect(r) PROVE \E e \in 0..drops' : Balanced(e)'
    BY <1>1, <2>5, ConnectBalances
  <2>6. CASE DrainOne
    BY <1>1, <2>6, DrainOneBalances
  <2>7. CASE DrainEnds
    BY <1>1, <2>7, DrainEndsBalances
  <2>8. CASE DrainTrims
    BY <1>1, <2>8, DrainTrimsBalances
  <2>9. CASE CredentialsRejected
    BY <1>1, <2>9, RejectionBalances
  <2>10. CASE Restart
    BY <1>1, <2>10, RestartBalances
  <2> QED
    BY <2>1, <2>2, <2>3, <2>4, <2>5, <2>6, <2>7, <2>8, <2>9, <2>10 DEF PromptsNext
<1> QED
  BY <1>1, <1>2 DEF Sound

\* The invariant of the agent_prompts run, for any number of prompts and read loops, any
\* capacity of the queue and any number of deliveries, failed writes and restarts.
THEOREM PromptsAreAccountedFor == PromptsSpec => []PromptsInv
BY PromptsInitially, PromptsStep, PTL DEF PromptsSpec

\* What handlePrompt acknowledged and the agent then lost, it dropped, in queuePrompt or
\* with rejected credentials, or dropped another in its place.
THEOREM LossesAreAccountedFor == PromptsSpec => []LossesAreDrops
<1>1. PromptsInv => LossesAreDrops
  BY DEF PromptsInv
<1> QED
  BY <1>1, PromptsAreAccountedFor, PTL

\* No prompt is written to the coding agent more often than the backend delivered it, but
\* for failed writes of the file and restarts.
THEOREM InjectionsAreAccountedFor == PromptsSpec => []InjectionsAccounted
<1>1. PromptsInv => InjectionsAccounted
  BY DEF PromptsInv
<1> QED
  BY <1>1, PromptsAreAccountedFor, PTL

=============================================================================
