--------------------------- MODULE PromptQueueProofs ---------------------------
(***************************************************************************)
(* What holds of PromptQueue for every number of prompts, goroutines and   *)
(* instances, every queue size and every value of the limits.              *)
(***************************************************************************)
EXTENDS PromptQueue, FiniteSetTheorems, SequenceTheorems, TLAPS

\* A query returns rows as they are, and only open ones with attempts left.
LEMMA PendingRows ==
    ASSUME NEW limit \in Nat, NEW s \in PendingForDevice(limit), TypeOK
    PROVE  /\ s \in Snapshot
           /\ s.id \in Prompts
           /\ s = Row(s.id)
           /\ InQueue(s.id)
<1>1. PICK p \in Prompts : s = Row(p) /\ InQueue(p)
  BY DEF PendingForDevice
<1>2. status[p] \in Open /\ attempts[p] \in 0..MaxDeliveryAttempts
  BY <1>1 DEF InQueue, TypeOK
<1>3. s.id = p
  BY <1>1 DEF Row
<1>4. s \in Snapshot
  BY <1>1, <1>2 DEF Row, Snapshot
<1>5. QED BY <1>1, <1>3, <1>4

\* What is left of the agent's queue after a disconnection was in it before.
LEMMA LoseKeeps ==
    ASSUME TypeOK, Lose
    PROVE  /\ outbox' \in Seq([id: Prompts, accepted: BOOLEAN])
           /\ Len(outbox') <= OutboxSize
           /\ \A k \in 1..Len(outbox') : \E j \in 1..Len(outbox) : outbox'[k] = outbox[j]
<1> DEFINE Ack == [id: Prompts, accepted: BOOLEAN]
<1>1. outbox \in Seq(Ack) /\ Len(outbox) <= OutboxSize /\ OutboxSize \in Nat
  BY ConstantsAssumption DEF TypeOK
<1>n. Len(outbox) \in Nat
  BY <1>1
<1>2. PICK gone \in 0..Len(outbox) :
        LET kept == SubSeq(outbox, gone + 1, Len(outbox))
        IN  \/ outbox' = kept
            \/ kept # <<>> /\ outbox' = Append(Tail(kept), Head(kept))
  BY DEF Lose
<1> DEFINE kept == SubSeq(outbox, gone + 1, Len(outbox))
<1> HIDE DEF Ack
<1>3. /\ kept \in Seq(Ack)
      /\ Len(kept) = Len(outbox) - gone
      /\ \A k \in 1..Len(kept) : kept[k] = outbox[gone + k]
  <2>1. \A k \in (gone + 1)..Len(outbox) : outbox[k] \in Ack
    BY <1>1, <1>n, ElementOfSeq
  <2>2. /\ kept \in Seq(Ack)
        /\ Len(kept) = IF gone + 1 <= Len(outbox) THEN Len(outbox) - (gone + 1) + 1 ELSE 0
        /\ \A k \in 1..(Len(outbox) - (gone + 1) + 1) : kept[k] = outbox[(gone + 1) + k - 1]
    BY <2>1, <1>1, SubSeqProperties, gone + 1 \in Int, Len(outbox) \in Int
  <2>3. Len(kept) = Len(outbox) - gone
    BY <2>2, <1>1
  <2>4. \A k \in 1..Len(kept) : kept[k] = outbox[gone + k]
    BY <2>2, <2>3, <1>1
  <2>5. QED BY <2>2, <2>3, <2>4
<1> HIDE DEF kept
<1>4. CASE outbox' = kept
  <2>1. Len(outbox') <= OutboxSize
    BY <1>1, <1>n, <1>3, <1>4
  <2>2. ASSUME NEW k \in 1..Len(outbox') PROVE outbox'[k] = outbox[gone + k] /\ gone + k \in 1..Len(outbox)
    BY <1>n, <1>3, <1>4
  <2>3. QED BY <1>1, <1>3, <1>4, <2>1, <2>2 DEF Ack
<1>5. CASE kept # <<>> /\ outbox' = Append(Tail(kept), Head(kept))
  <2>0. Len(kept) \in Nat /\ Len(kept) # 0
    BY <1>3, <1>5, EmptySeq
  <2>1. /\ Tail(kept) \in Seq(Ack) /\ Head(kept) \in Ack
        /\ Len(Tail(kept)) = Len(kept) - 1
        /\ \A k \in 1..Len(Tail(kept)) : Tail(kept)[k] = kept[k + 1]
        /\ Head(kept) = kept[1]
        /\ Len(kept) >= 1
    BY <1>3, <1>5, <2>0, HeadTailProperties
  <2>2. /\ outbox' \in Seq(Ack) /\ Len(outbox') = Len(kept)
        /\ \A k \in 1..Len(kept) : outbox'[k] = IF k = Len(kept) THEN kept[1] ELSE kept[k + 1]
    <3>1. /\ outbox' \in Seq(Ack)
          /\ Len(outbox') = Len(Tail(kept)) + 1
          /\ \A k \in 1..Len(Tail(kept)) : outbox'[k] = Tail(kept)[k]
          /\ outbox'[Len(Tail(kept)) + 1] = Head(kept)
      BY <2>1, <1>5, AppendProperties
    <3>2. QED BY <3>1, <2>1, <2>0
  <2>3. \A k \in 1..Len(kept) : \E j \in 1..Len(outbox) : outbox'[k] = outbox[j]
    <3>1. TAKE k \in 1..Len(kept)
    <3>2. CASE k = Len(kept)
      <4>1. 1 \in 1..Len(kept) /\ gone + 1 \in 1..Len(outbox)
        BY <2>1, <1>3, <1>1
      <4>2. QED BY <4>1, <3>2, <2>2, <1>3
    <3>3. CASE k # Len(kept)
      <4>1. k + 1 \in 1..Len(kept) /\ gone + (k + 1) \in 1..Len(outbox)
        BY <3>3, <2>0, <1>3, <1>n
      <4>2. QED BY <4>1, <3>3, <2>2, <1>3
    <3>4. QED BY <3>2, <3>3
  <2>4. Len(outbox') <= OutboxSize
    BY <2>2, <1>3, <1>1, <1>n
  <2>5. QED BY <2>2, <2>3, <2>4 DEF Ack
<1>6. QED BY <1>2, <1>4, <1>5 DEF kept, Ack

\* A read loop of a lost connection has only frames that were on a wire.
LEMMA LoseHandsOver ==
    ASSUME TypeOK, Lose
    PROVE  /\ late' \in [Prompts -> 0..MaxLate]
           /\ \A p \in Prompts : late'[p] > 0 => late[p] > 0 \/ OnWire(p)
<1>1. PICK received \in 0..Len(wire) :
          late' = [p \in Prompts |->
              late[p] + Cardinality({k \in 1..received : wire[k] = p})]
  BY DEF Lose
<1>2. ASSUME NEW p \in Prompts, ~OnWire(p) PROVE late'[p] = late[p]
  <2>1. Len(wire) \in Nat
    BY DEF TypeOK
  <2>2. {k \in 1..received : wire[k] = p} = {}
    BY <1>2, <2>1 DEF OnWire
  <2>3. late[p] \in Nat
    BY ConstantsAssumption DEF TypeOK
  <2>4. QED BY <1>1, <2>2, <2>3, FS_EmptySet
<1>3. QED BY <1>2 DEF Lose

\* An answer takes a frame from the wire or from such a read loop.
LEMMA ReplyReads ==
    ASSUME TypeOK, NEW p \in Prompts, NEW accepted \in BOOLEAN, Reply(p, accepted)
    PROVE  /\ wire' \in Seq(Prompts) /\ Len(wire') <= SendQueueSize
           /\ late' \in [Prompts -> 0..MaxLate]
           /\ \A k \in 1..Len(wire') : \E j \in 1..Len(wire) : wire'[k] = wire[j]
           /\ \A q \in Prompts : late'[q] > 0 => late[q] > 0
           /\ late[p] > 0 \/ OnWire(p)
<1>s. /\ wire \in Seq(Prompts) /\ Len(wire) \in Nat /\ Len(wire) <= SendQueueSize
      /\ SendQueueSize \in Nat
      /\ late \in [Prompts -> 0..MaxLate] /\ MaxLate \in Nat
  BY ConstantsAssumption DEF TypeOK
<1>1. CASE wire # <<>> /\ p = Head(wire) /\ wire' = Tail(wire) /\ UNCHANGED late
  <2>1. Len(wire) # 0
    BY <1>1, <1>s, EmptySeq
  <2>2. /\ wire' \in Seq(Prompts)
        /\ Head(wire) = wire[1]
        /\ Len(wire') = Len(wire) - 1
        /\ \A k \in 1..Len(wire') : wire'[k] = wire[k + 1]
    BY <1>1, <1>s, HeadTailProperties
  <2>3. 1 \in 1..Len(wire) /\ \A k \in 1..Len(wire') : k + 1 \in 1..Len(wire)
    BY <2>1, <2>2, <1>s
  <2>4. OnWire(p)
    BY <2>2, <2>3, <1>1 DEF OnWire
  <2>5. Len(wire') <= SendQueueSize
    BY <2>2, <1>s
  <2>6. QED BY <2>2, <2>3, <2>4, <2>5, <1>1, <1>s
<1>2. CASE late[p] > 0 /\ late' = [late EXCEPT ![p] = @ - 1] /\ UNCHANGED wire
  <2>1. late[p] - 1 \in 0..MaxLate
    BY <1>2, <1>s
  <2>2. late' \in [Prompts -> 0..MaxLate]
    BY <1>2, <2>1, <1>s
  <2>3. \A q \in Prompts : late'[q] > 0 => late[q] > 0
    BY <1>2, <1>s
  <2>4. QED BY <2>2, <2>3, <1>2, <1>s
<1>3. QED BY <1>1, <1>2 DEF Reply

-----------------------------------------------------------------------------
(***************************************************************************)
(* Type correctness.                                                       *)
(***************************************************************************)
Task == [op: Ops, step: {"rest", "read", "write", "update"}, todo: SUBSET Snapshot]

\* The three ways a goroutine moves on keep task well typed.
LEMMA TaskUpdates ==
    ASSUME TypeOK, NEW w \in Workers, NEW op \in Ops, NEW todo \in SUBSET Snapshot,
           NEW step \in {"rest", "read", "write", "update"}
    PROVE  /\ Start(w, op, step, todo) => task' \in [Workers -> Task]
           /\ Continue(w, todo) => task' \in [Workers -> Task]
           /\ Proceed(w, step) => task' \in [Workers -> Task]
<1>1. task \in [Workers -> Task] /\ task[w].op \in Ops /\ task[w].todo \in SUBSET Snapshot
  BY DEF TypeOK, Task
<1>2. /\ [op |-> op, step |-> step, todo |-> todo] \in Task
      /\ [op |-> task[w].op, step |-> "write", todo |-> todo] \in Task
      /\ [task[w] EXCEPT !.step = step] \in Task
  BY <1>1 DEF Task
<1>3. Rest(task[w].op) \in Task
  BY DEF Rest, Idle, Listening, Task, Ops, Serving
<1>4. Start(w, op, step, todo) => task' \in [Workers -> Task]
  BY <1>1, <1>2 DEF Start
<1>5. Continue(w, todo) => task' \in [Workers -> Task]
  BY <1>1, <1>2, <1>3 DEF Continue
<1>6. Proceed(w, step) => task' \in [Workers -> Task]
  BY <1>1, <1>2 DEF Proceed
<1>7. QED BY <1>4, <1>5, <1>6

\* A saturating count stays in range and does not fall.
LEMMA SaturateBound ==
    ASSUME NEW max \in Nat, NEW n \in 0..max
    PROVE  Saturate(n, max) \in 0..max /\ Saturate(n, max) >= n
  BY DEF Saturate

\* The initial state is well typed.
LEMMA InitType == Init => TypeOK
  BY ConstantsAssumption
  DEF Init, TypeOK, Ops, Delivering, Serving, Idle, Status

\* Every step keeps the state well typed. No handler counts an attempt on a row
\* that has none left because no handler but Cancel holds such a row.
LEMMA NextType == TypeOK /\ (\A w \in Workers : HeldBy(w)) /\ [Next]_vars => TypeOK'
<1> SUFFICES ASSUME TypeOK, \A w \in Workers : HeldBy(w), [Next]_vars PROVE TypeOK'
  OBVIOUS
<1> USE ConstantsAssumption
<1>1. ASSUME NEW w \in Workers, Update(w) PROVE TypeOK'
  <2>1. PICK s \in Current(w) :
          /\ status' = [status EXCEPT ![s.id] = NewStatus(task[w].op, s)]
          /\ attempts' = [attempts EXCEPT ![s.id] = NewAttempts(task[w].op, s)]
          /\ Continue(w, task[w].todo \ {s})
    BY <1>1 DEF Update
  <2>2. s \in Snapshot /\ task[w].todo \ {s} \in SUBSET Snapshot
    BY DEF TypeOK, Current, Oldest
  <2>3. task' \in [Workers -> Task]
    BY <2>1, <2>2, TaskUpdates DEF Ops
  <2>4. NewStatus(task[w].op, s) \in Status
    BY <2>2 DEF NewStatus, Status, Open, Terminal
  <2>5. NewAttempts(task[w].op, s) \in 0..MaxDeliveryAttempts
    <3>1. task[w].op \in Delivering => ~Exhausted(s)
      BY DEF HeldBy, Current, Oldest, Delivering
    <3>2. QED BY <2>2, <3>1 DEF NewAttempts, Exhausted, Snapshot
  <2>6. QED
    BY <1>1, <2>1, <2>3, <2>4, <2>5 DEF Update, TypeOK, Task, linkVars
<1>2. ASSUME NEW w \in Workers, UpdateFails(w) PROVE TypeOK'
  <2>1. task[w].todo \ Current(w) \in SUBSET Snapshot
    BY DEF TypeOK
  <2>2. task' \in [Workers -> Task]
    BY <1>2, <2>1, TaskUpdates DEF UpdateFails, Ops
  <2>3. faults' \in 0..MaxFaults
    BY <1>2 DEF UpdateFails, Fault, TypeOK
  <2>4. QED
    BY <1>2, <2>2, <2>3 DEF UpdateFails, TypeOK, Task, linkVars, rowVars
<1>3. ASSUME NEW w \in Workers, Sweep(w) PROVE TypeOK'
  <2>1. PICK cutoff \in Prompts :
          Start(w, "sweep", "write",
                {s \in PendingForDevice(SweepLimit) : s.id <= cutoff})
    BY <1>3 DEF Sweep
  <2>2. {s \in PendingForDevice(SweepLimit) : s.id <= cutoff} \in SUBSET Snapshot
    BY PendingRows
  <2>3. task' \in [Workers -> Task]
    BY <2>1, <2>2, TaskUpdates DEF Ops, Delivering
  <2>4. faults' \in 0..MaxFaults
    <3>1. UNCHANGED faults \/ Fault
      BY <1>3 DEF Sweep
    <3>2. faults \in 0..MaxFaults /\ MaxFaults \in Nat
      BY DEF TypeOK
    <3>3. QED BY <3>1, <3>2 DEF Fault
  <2>5. QED
    BY <1>3, <2>3, <2>4 DEF Sweep, TypeOK, Task, linkVars, rowVars
<1>4. ASSUME NEW w \in Workers, WriteFrame(w) PROVE TypeOK'
  <2>1. Proceed(w, "update") /\ UNCHANGED <<rowVars, hub, socket, closing, late,
                                           outbox, signals, taken, faults>>
    BY <1>4 DEF WriteFrame
  <2>2. PICK s \in Current(w) :
          \/ UNCHANGED <<wire, writes>>
          \/ /\ \/ Len(wire) < SendQueueSize /\ wire' = Append(wire, s.id)
                \/ UNCHANGED wire
             /\ writes' = [writes EXCEPT
                    ![s.id] = Saturate(@, MaxDeliveryAttempts + 1)]
    BY <1>4 DEF WriteFrame
  <2>3. s.id \in Prompts
    BY DEF TypeOK, Current, Oldest, Snapshot
  <2>4. task' \in [Workers -> Task]
    BY <2>1, TaskUpdates DEF Ops
  <2>5. wire' \in Seq(Prompts) /\ Len(wire') <= SendQueueSize
    <3>1. wire \in Seq(Prompts) /\ Len(wire) <= SendQueueSize /\ SendQueueSize \in Nat
      BY DEF TypeOK
    <3>2. QED BY <3>1, <2>2, <2>3, AppendProperties
  <2>6. writes' \in [Prompts -> 0..(MaxDeliveryAttempts + 1)]
    <3>1. writes \in [Prompts -> 0..(MaxDeliveryAttempts + 1)]
      BY DEF TypeOK
    <3>2. Saturate(writes[s.id], MaxDeliveryAttempts + 1) \in 0..(MaxDeliveryAttempts + 1)
      BY <3>1, <2>3, SaturateBound
    <3>3. QED BY <3>1, <3>2, <2>2
  <2>7. QED
    BY <2>1, <2>4, <2>5, <2>6 DEF TypeOK, Task, rowVars
<1>5. ASSUME NEW w \in Workers, DeliveryFails(w) PROVE TypeOK'
  <2>1. \E todo \in SUBSET Snapshot : Continue(w, todo)
    <3>1. task[w].todo \ Current(w) \in SUBSET Snapshot /\ {} \in SUBSET Snapshot
      BY DEF TypeOK
    <3>2. QED BY <1>5, <3>1 DEF DeliveryFails
  <2>2. task' \in [Workers -> Task]
    BY <2>1, TaskUpdates DEF Ops
  <2>3. signals' \subseteq Instances \X Prompts
    <3>1. PICK s \in Current(w) :
            IF task[w].op = "send"
            THEN \E reached \in SUBSET Instances :
                     signals' = signals \cup (reached \X {s.id})
            ELSE UNCHANGED signals
      BY <1>5 DEF DeliveryFails
    <3>2. s.id \in Prompts
      BY DEF TypeOK, Current, Oldest, Snapshot
    <3>3. QED BY <3>1, <3>2 DEF TypeOK
  <2>4. closing' \in {"no", "yes", "last"}
    BY <1>5 DEF DeliveryFails, TypeOK
  <2>5. QED
    BY <1>5, <2>2, <2>3, <2>4 DEF DeliveryFails, TypeOK, Task, rowVars
<1>6. ASSUME NEW w \in Workers, Connect(w) PROVE TypeOK'
  <2>1. task' \in [Workers -> Task]
    BY <1>6, TaskUpdates DEF Connect, Ops, Serving
  <2>2. QED
    BY <1>6, <2>1 DEF Connect, TypeOK, Task, rowVars
<1>7. ASSUME NEW w \in Workers, Flush(w) PROVE TypeOK'
  <2>1. PendingForDevice(FlushLimit) \in SUBSET Snapshot
    BY PendingRows
  <2>2. task' \in [Workers -> Task]
    BY <1>7, <2>1, TaskUpdates DEF Flush, Ops
  <2>3. QED
    BY <1>7, <2>2 DEF Flush, TypeOK, Task, rowVars, linkVars
<1>8. ASSUME NEW w \in Workers, Acknowledge(w) PROVE TypeOK'
  <2> DEFINE found == {s \in PendingForDevice(AckLimit) : s.id = Head(outbox).id}
  <2>1. found \in SUBSET Snapshot
    BY PendingRows
  <2>2. task' \in [Workers -> Task]
    <3>1. CASE UNCHANGED task
      BY <3>1 DEF TypeOK, Task
    <3>2. CASE Start(w, "accept", "update", found)
      BY <3>2, <2>1, TaskUpdates DEF Ops, Serving
    <3>3. CASE Start(w, "reject", "update", found)
      BY <3>3, <2>1, TaskUpdates DEF Ops, Serving
    <3>4. QED BY <1>8, <3>1, <3>2, <3>3 DEF Acknowledge
  <2>3. outbox' \in Seq([id: Prompts, accepted: BOOLEAN]) /\ Len(outbox') <= OutboxSize
    BY <1>8 DEF Acknowledge, TypeOK
  <2>4. closing' \in {"no", "yes", "last"}
    BY <1>8 DEF Acknowledge, TypeOK
  <2>5. QED
    BY <1>8, <2>2, <2>3, <2>4 DEF Acknowledge, TypeOK, Task, rowVars
<1>9. ASSUME NEW w \in Workers, Unregister(w) PROVE TypeOK'
  BY <1>9 DEF Unregister, TypeOK, rowVars, Idle, Ops
<1>10. ASSUME NEW w \in Workers, NEW p \in Prompts, Send(w, p) PROVE TypeOK'
  <2>1. {[id |-> p, status |-> "pending", attempts |-> 0]} \in SUBSET Snapshot
    BY DEF Snapshot, Open
  <2>2. task' \in [Workers -> Task]
    BY <1>10, <2>1, TaskUpdates DEF Send, Ops, Delivering
  <2>3. status' \in [Prompts -> Status \cup {"none"}]
    BY <1>10 DEF Send, TypeOK, Status, Open
  <2>4. QED
    BY <1>10, <2>2, <2>3 DEF Send, TypeOK, Task, linkVars
<1>11. ASSUME NEW w \in Workers, NEW p \in Prompts, Cancel(w, p) PROVE TypeOK'
  <2>1. {Row(p)} \in SUBSET Snapshot
    BY <1>11 DEF Cancel, Row, Snapshot, TypeOK
  <2>2. task' \in [Workers -> Task]
    BY <1>11, <2>1, TaskUpdates DEF Cancel, Ops
  <2>3. QED
    BY <1>11, <2>2 DEF Cancel, TypeOK, Task, linkVars, rowVars
<1>12. ASSUME NEW w \in Workers, NEW p \in Prompts, ReceiveSignal(w, p) PROVE TypeOK'
  <2> DEFINE found == {s \in PendingForDevice(FlushLimit) : s.id = p}
  <2>1. found \in SUBSET Snapshot
    BY PendingRows
  <2>2. task' \in [Workers -> Task]
    <3>1. CASE UNCHANGED task
      BY <3>1 DEF TypeOK, Task
    <3>2. CASE Start(w, "signal", "write", found)
      BY <3>2, <2>1, TaskUpdates DEF Ops, Delivering
    <3>3. QED BY <1>12, <3>1, <3>2 DEF ReceiveSignal
  <2>3. signals' \subseteq Instances \X Prompts
    BY <1>12 DEF ReceiveSignal, TypeOK
  <2>4. QED
    BY <1>12, <2>2, <2>3 DEF ReceiveSignal, TypeOK, Task, linkVars, rowVars
<1>13. ASSUME NEW p \in Prompts, NEW accepted \in BOOLEAN, Reply(p, accepted)
       PROVE  /\ wire' \in Seq(Prompts) /\ Len(wire') <= SendQueueSize
              /\ late' \in [Prompts -> 0..MaxLate]
              /\ outbox' \in Seq([id: Prompts, accepted: BOOLEAN])
              /\ Len(outbox') <= OutboxSize
  <2>1. /\ outbox' \in Seq([id: Prompts, accepted: BOOLEAN])
        /\ Len(outbox') <= OutboxSize
    BY <1>13 DEF Reply, TypeOK
  <2>2. QED BY <2>1, <1>13, ReplyReads
<1>14. ASSUME NEW p \in Prompts, AgentAccepts(p) PROVE TypeOK'
  <2>1. taken' \in [Prompts -> 0..2]
    <3>1. Saturate(taken[p], 2) \in 0..2
      BY SaturateBound DEF TypeOK
    <3>2. QED BY <1>14, <3>1 DEF AgentAccepts, TypeOK
  <2>2. QED
    BY <1>14, <1>13, <2>1 DEF AgentAccepts, TypeOK, rowVars
<1>15. ASSUME NEW p \in Prompts, AgentRejects(p) PROVE TypeOK'
  <2>1. faults' \in 0..MaxFaults
    BY <1>15 DEF AgentRejects, Fault, TypeOK
  <2>2. QED
    BY <1>15, <1>13, <2>1 DEF AgentRejects, TypeOK, rowVars
<1>16. ASSUME Lose
       PROVE  /\ socket' \in Workers \cup {NoConn}
              /\ closing' \in {"no", "yes", "last"}
              /\ wire' \in Seq(Prompts) /\ Len(wire') <= SendQueueSize
              /\ late' \in [Prompts -> 0..MaxLate]
              /\ outbox' \in Seq([id: Prompts, accepted: BOOLEAN])
              /\ Len(outbox') <= OutboxSize
  <2>1. /\ late' \in [Prompts -> 0..MaxLate]
        /\ outbox' \in Seq([id: Prompts, accepted: BOOLEAN])
        /\ Len(outbox') <= OutboxSize
    BY <1>16, LoseKeeps, LoseHandsOver
  <2>2. QED
    BY <1>16, <2>1 DEF Lose
<1>17. ASSUME Disconnect PROVE TypeOK'
  <2>1. faults' \in 0..MaxFaults
    BY <1>17 DEF Disconnect, Fault, TypeOK
  <2>2. /\ socket' \in Workers \cup {NoConn}
        /\ closing' \in {"no", "yes", "last"}
        /\ wire' \in Seq(Prompts) /\ Len(wire') <= SendQueueSize
        /\ late' \in [Prompts -> 0..MaxLate]
        /\ outbox' \in Seq([id: Prompts, accepted: BOOLEAN])
        /\ Len(outbox') <= OutboxSize
    BY <1>17, <1>16 DEF Disconnect
  <2>3. QED
    BY <1>17, <2>1, <2>2 DEF Disconnect, TypeOK, rowVars
<1>18. ASSUME NEW i \in Instances, Crash(i) PROVE TypeOK'
  <2>1. task' \in [Workers -> Task]
    BY <1>18 DEF Crash, TypeOK, Task, Idle, Ops
  <2>2. /\ socket' \in Workers \cup {NoConn}
        /\ closing' \in {"no", "yes", "last"}
        /\ wire' \in Seq(Prompts) /\ Len(wire') <= SendQueueSize
        /\ late' \in [Prompts -> 0..MaxLate]
        /\ outbox' \in Seq([id: Prompts, accepted: BOOLEAN])
        /\ Len(outbox') <= OutboxSize
    BY <1>18, <1>16 DEF Crash, TypeOK
  <2>3. faults' \in 0..MaxFaults
    BY <1>18 DEF Crash, Fault, TypeOK
  <2>4. QED
    BY <1>18, <2>1, <2>2, <2>3 DEF Crash, TypeOK, Task, rowVars
<1>19. CASE UNCHANGED vars
  BY <1>19 DEF vars, TypeOK
<1>20. QED
  BY <1>1, <1>2, <1>3, <1>4, <1>5, <1>6, <1>7, <1>8, <1>9, <1>10, <1>11, <1>12,
     <1>14, <1>15, <1>17, <1>18, <1>19 DEF Next, Goroutine

-----------------------------------------------------------------------------
(***************************************************************************)
(* The inductive invariant.                                                *)
(***************************************************************************)
\* What no step takes back: a prompt stays in the table, the agent's and the
\* connections' counts only grow.
Grows == \A p \in Prompts :
    /\ status[p] # "none" => status'[p] # "none"
    /\ taken'[p] >= taken[p]
    /\ writes'[p] >= writes[p]

\* The counters of a typed state are natural numbers.
LEMMA Counts ==
    ASSUME TypeOK, NEW p \in Prompts
    PROVE  attempts[p] \in Nat /\ writes[p] \in Nat /\ taken[p] \in Nat
<1>1. /\ attempts[p] \in 0..MaxDeliveryAttempts
      /\ writes[p] \in 0..(MaxDeliveryAttempts + 1)
      /\ taken[p] \in 0..2
  BY DEF TypeOK
<1>2. QED BY <1>1

\* So are those of the next state.
LEMMA CountsNext ==
    ASSUME TypeOK', NEW p \in Prompts
    PROVE  attempts'[p] \in Nat /\ writes'[p] \in Nat /\ taken'[p] \in Nat
<1>1. /\ attempts'[p] \in 0..MaxDeliveryAttempts
      /\ writes'[p] \in 0..(MaxDeliveryAttempts + 1)
      /\ taken'[p] \in 0..2
  BY DEF TypeOK
<1>2. QED BY <1>1

\* A step that leaves them alone takes nothing back.
LEMMA SameGrows ==
    ASSUME TypeOK, UNCHANGED <<status, taken, writes>>
    PROVE  Grows
  BY Counts DEF Grows

\* Rows held before a step are still rows of known prompts with written counts.
LEMMA HeldRow ==
    ASSUME TypeOK, TypeOK', Grows, NEW w \in Workers, HeldBy(w), NEW s \in task[w].todo
    PROVE  /\ s \in Snapshot /\ s.id \in Prompts /\ s.attempts \in Int
           /\ status'[s.id] # "none"
           /\ s.attempts <= writes'[s.id]
           /\ taken[s.id] > 0 => taken'[s.id] > 0
           /\ s.attempts < writes[s.id] => s.attempts < writes'[s.id]
<1>1. s \in Snapshot /\ s.id \in Prompts /\ s.attempts \in Int
  BY DEF TypeOK, Snapshot
<1>2. /\ status[s.id] # "none" /\ s.attempts <= writes[s.id]
      /\ taken'[s.id] >= taken[s.id] /\ writes'[s.id] >= writes[s.id]
      /\ status[s.id] # "none" => status'[s.id] # "none"
  BY <1>1 DEF HeldBy, Grows
<1>3. /\ writes[s.id] \in Int /\ writes'[s.id] \in Int
      /\ taken[s.id] \in Int /\ taken'[s.id] \in Int
  BY <1>1, Counts, CountsNext
<1>4. QED BY <1>1, <1>2, <1>3

\* A goroutine that does not move still holds what it held.
LEMMA HeldStays ==
    ASSUME TypeOK, TypeOK', Grows, NEW w \in Workers, HeldBy(w), task'[w] = task[w]
    PROVE  HeldBy(w)'
<1> SUFFICES ASSUME NEW s \in task[w].todo
             PROVE  /\ status'[s.id] # "none"
                    /\ s.attempts <= writes'[s.id]
                    /\ \A t \in task[w].todo : s.id = t.id => s = t
                    /\ task[w].op # "cancel" => ~Exhausted(s)
                    /\ task[w].op = "accept" => taken'[s.id] > 0
                    /\ task[w].op \in Delivering /\ AtStep(w, "update") /\ s \in Current(w)
                          => s.attempts < writes'[s.id]
  BY DEF HeldBy, AtStep, Current, Exhausted
<1>1. QED BY HeldRow DEF HeldBy

\* A goroutine that goes on with some of the rows it had holds them correctly.
LEMMA HeldContinues ==
    ASSUME TypeOK, TypeOK', Grows, NEW w \in Workers, HeldBy(w),
           NEW todo \in SUBSET task[w].todo, Continue(w, todo)
    PROVE  HeldBy(w)'
<1>1. CASE todo = {}
  <2>1. task'[w].todo = {}
    BY <1>1 DEF Continue, TypeOK, Rest, Idle, Listening
  <2>2. QED BY <2>1 DEF HeldBy
<1>2. CASE todo # {}
  <2>1. /\ task'[w].op = task[w].op /\ task'[w].step = "write" /\ task'[w].todo = todo
    BY <1>2 DEF Continue, TypeOK
  <2>2. ~AtStep(w, "update")'
    BY <2>1 DEF AtStep
  <2>3. ASSUME NEW s \in todo
        PROVE  /\ status'[s.id] # "none"
               /\ s.attempts <= writes'[s.id]
               /\ \A t \in todo : s.id = t.id => s = t
               /\ task[w].op # "cancel" => ~Exhausted(s)
               /\ task[w].op = "accept" => taken'[s.id] > 0
    BY HeldRow DEF HeldBy
  <2>4. QED BY <2>1, <2>2, <2>3 DEF HeldBy, Exhausted
<1>3. QED BY <1>1, <1>2

\* A goroutine that starts with rows it has just read holds them correctly.
LEMMA HeldStarts ==
    ASSUME TypeOK, TypeOK', Grows, NEW w \in Workers, NEW op \in Ops, NEW step, NEW todo,
           task'[w] = [op |-> op, step |-> step, todo |-> todo],
           op \in Delivering => step = "write",
           \A s \in todo :
               /\ s.id \in Prompts
               /\ status'[s.id] # "none"
               /\ s.attempts <= writes'[s.id]
               /\ \A t \in todo : s.id = t.id => s = t
               /\ op # "cancel" => ~Exhausted(s)
               /\ op = "accept" => taken'[s.id] > 0
    PROVE  HeldBy(w)'
<1>1. task'[w].op = op /\ task'[w].step = step /\ task'[w].todo = todo
  OBVIOUS
<1>2. op \in Delivering => ~AtStep(w, "update")'
  BY <1>1 DEF AtStep
<1>3. QED BY <1>1, <1>2 DEF HeldBy, Exhausted

\* Rows of a query are such rows.
LEMMA PendingHeld ==
    ASSUME TypeOK, TypeOK', Grows, AttemptsWereWritten, NEW limit \in Nat,
           NEW s \in PendingForDevice(limit)
    PROVE  /\ s.id \in Prompts
           /\ status'[s.id] # "none"
           /\ s.attempts <= writes'[s.id]
           /\ ~Exhausted(s)
           /\ \A t \in PendingForDevice(limit) : s.id = t.id => s = t
<1>1. /\ s.id \in Prompts /\ s = Row(s.id) /\ InQueue(s.id)
  BY PendingRows
<1>2. s.attempts = attempts[s.id] /\ status[s.id] \in Open
  BY <1>1 DEF Row, InQueue
<1>3. status'[s.id] # "none"
  BY <1>1, <1>2 DEF Grows, Open
<1>4. /\ attempts[s.id] <= writes[s.id] /\ writes'[s.id] >= writes[s.id]
      /\ attempts[s.id] \in Int /\ writes[s.id] \in Int /\ writes'[s.id] \in Int
  BY <1>1, Counts, CountsNext DEF AttemptsWereWritten, Grows
<1>5. ~Exhausted(s)
  BY <1>1, <1>2, <1>4, ConstantsAssumption DEF InQueue, Exhausted
<1>6. \A t \in PendingForDevice(limit) : s.id = t.id => s = t
  BY <1>1, PendingRows
<1>7. QED BY <1>1, <1>2, <1>3, <1>4, <1>5, <1>6

\* The initial state satisfies the invariant.
LEMMA InitInv == Init => IInv
<1> SUFFICES ASSUME Init PROVE IInv
  OBVIOUS
<1> USE DEF Init
<1>1. TypeOK
  BY InitType
<1>2. ASSUME NEW w \in Workers PROVE HeldBy(w)
  BY DEF HeldBy, Idle
<1>3. InTransit
  BY DEF InTransit
<1>4. ConnectionServed
  BY DEF ConnectionServed
<1>5. DeliveredWasTaken /\ AttemptsWereWritten /\ NeverFailed
  BY DEF DeliveredWasTaken, AttemptsWereWritten, NeverFailed
<1>6. QED BY <1>1, <1>2, <1>3, <1>4, <1>5 DEF IInv

\* No step takes a count or a prompt back.
LEMMA NextGrows == IInv /\ Next => Grows
<1> SUFFICES ASSUME IInv, Next PROVE Grows
  OBVIOUS
<1>t. TypeOK
  BY DEF IInv
<1> USE <1>t
<1>1. ASSUME NEW w \in Workers, Update(w) PROVE Grows
  <2>1. PICK s \in Current(w) :
          status' = [status EXCEPT ![s.id] = NewStatus(task[w].op, s)]
    BY <1>1 DEF Update
  <2>2. NewStatus(task[w].op, s) # "none"
    BY DEF NewStatus
  <2>3. UNCHANGED <<taken, writes>>
    BY <1>1 DEF Update
  <2>4. QED BY <2>1, <2>2, <2>3, Counts DEF Grows, TypeOK
<1>2. ASSUME NEW w \in Workers, WriteFrame(w) PROVE Grows
  <2>1. UNCHANGED <<status, taken>>
    BY <1>2 DEF WriteFrame, rowVars
  <2>2. PICK s \in Current(w) :
          \/ UNCHANGED writes
          \/ writes' = [writes EXCEPT ![s.id] = Saturate(@, MaxDeliveryAttempts + 1)]
    BY <1>2 DEF WriteFrame
  <2>3. ASSUME NEW p \in Prompts PROVE Saturate(writes[p], MaxDeliveryAttempts + 1) >= writes[p]
    BY SaturateBound, ConstantsAssumption DEF TypeOK
  <2>4. DOMAIN writes = Prompts
    BY DEF TypeOK
  <2>5. ASSUME NEW p \in Prompts PROVE writes'[p] >= writes[p]
    BY <2>2, <2>3, <2>4, Counts
  <2>6. QED BY <2>1, <2>5, Counts DEF Grows
<1>3. ASSUME NEW p \in Prompts, AgentAccepts(p) PROVE Grows
  <2>1. UNCHANGED <<status, writes>> /\ taken' = [taken EXCEPT ![p] = Saturate(@, 2)]
    BY <1>3 DEF AgentAccepts, rowVars
  <2>2. Saturate(taken[p], 2) >= taken[p]
    BY SaturateBound DEF TypeOK
  <2>3. DOMAIN taken = Prompts
    BY DEF TypeOK
  <2>4. ASSUME NEW q \in Prompts PROVE taken'[q] >= taken[q]
    BY <2>1, <2>2, <2>3, Counts
  <2>5. QED BY <2>1, <2>4, Counts DEF Grows
<1>4. ASSUME NEW w \in Workers, NEW p \in Prompts, Send(w, p) PROVE Grows
  BY <1>4, Counts DEF Send, Grows, TypeOK
<1>5. ASSUME UNCHANGED <<status, taken, writes>> PROVE Grows
  BY <1>5, SameGrows
<1>6. QED
  BY <1>1, <1>2, <1>3, <1>4, <1>5
  DEF Next, Goroutine, UpdateFails, Sweep, DeliveryFails, Connect, Flush, Acknowledge,
      Unregister, Cancel, ReceiveSignal, AgentRejects, Disconnect, Crash, rowVars

\* After any step every goroutine still holds its rows correctly.
LEMMA NextHeld ==
    ASSUME IInv, TypeOK', Next, NEW v \in Workers
    PROVE  HeldBy(v)'
<1>g. Grows
  BY NextGrows
<1>i. TypeOK /\ HeldBy(v) /\ AttemptsWereWritten
  BY DEF IInv
<1>1. ASSUME task'[v] = task[v] PROVE HeldBy(v)'
  BY <1>1, <1>g, <1>i, HeldStays
<1>2. ASSUME NEW todo \in SUBSET task[v].todo, Continue(v, todo) PROVE HeldBy(v)'
  BY <1>2, <1>g, <1>i, HeldContinues
<1>3. ASSUME task'[v].todo = {} PROVE HeldBy(v)'
  BY <1>3 DEF HeldBy
<1>4. ASSUME NEW w \in Workers, w # v,
             \/ \E op, step, todo : Start(w, op, step, todo)
             \/ \E todo : Continue(w, todo)
             \/ \E step : Proceed(w, step)
             \/ UNCHANGED task
             \/ task' = [task EXCEPT ![w] = Idle]
      PROVE  HeldBy(v)'
  <2>1. task'[v] = task[v]
    BY <1>4, <1>i DEF Start, Continue, Proceed, TypeOK
  <2>2. QED BY <2>1, <1>1
<1>5. ASSUME NEW w \in Workers, Update(w) PROVE HeldBy(v)'
  <2>1. PICK s \in Current(w) : Continue(w, task[w].todo \ {s})
    BY <1>5 DEF Update
  <2>2. CASE w = v
    BY <2>1, <2>2, <1>2
  <2>3. CASE w # v
    BY <2>1, <2>3, <1>4
  <2>4. QED BY <2>2, <2>3
<1>6. ASSUME NEW w \in Workers, UpdateFails(w) PROVE HeldBy(v)'
  <2>1. Continue(w, task[w].todo \ Current(w))
    BY <1>6 DEF UpdateFails
  <2>2. CASE w = v
    BY <2>1, <2>2, <1>2
  <2>3. CASE w # v
    BY <2>1, <2>3, <1>4
  <2>4. QED BY <2>2, <2>3
<1>7. ASSUME NEW w \in Workers, Sweep(w) PROVE HeldBy(v)'
  <2>1. PICK cutoff \in Prompts :
          Start(w, "sweep", "write", {s \in PendingForDevice(SweepLimit) : s.id <= cutoff})
    BY <1>7 DEF Sweep
  <2>2. CASE w = v
    <3> DEFINE rows == {s \in PendingForDevice(SweepLimit) : s.id <= cutoff}
    <3>1. \A s \in rows :
             /\ s.id \in Prompts /\ status'[s.id] # "none" /\ s.attempts <= writes'[s.id]
             /\ ~Exhausted(s) /\ \A t \in rows : s.id = t.id => s = t
      BY PendingHeld, <1>g, <1>i, ConstantsAssumption
    <3>2. task'[v] = [op |-> "sweep", step |-> "write", todo |-> rows]
      BY <2>1, <2>2, <1>i DEF Start, TypeOK
    <3> HIDE DEF rows
    <3>3. QED BY <3>1, <3>2, <1>g, <1>i, HeldStarts DEF Ops, Delivering
  <2>3. CASE w # v
    BY <2>1, <2>3, <1>4
  <2>4. QED BY <2>2, <2>3
<1>8. ASSUME NEW w \in Workers, WriteFrame(w) PROVE HeldBy(v)'
  <2>1. Proceed(w, "update")
    BY <1>8 DEF WriteFrame
  <2>2. CASE w # v
    BY <2>1, <2>2, <1>4
  <2>3. CASE w = v
    <3>1. /\ task'[v].op = task[v].op /\ task'[v].todo = task[v].todo
          /\ task'[v].step = "update"
      BY <2>1, <2>3, <1>i DEF Proceed, TypeOK
    <3>2. Current(v)' = Current(v)
      BY <3>1 DEF Current
    <3>3. PICK c \in Current(v) :
             IF GivesUp(task[v].op, c) THEN TRUE
             ELSE writes' = [writes EXCEPT ![c.id] = Saturate(@, MaxDeliveryAttempts + 1)]
      BY <1>8, <2>3 DEF WriteFrame
    <3>4. ASSUME NEW s \in Current(v), task[v].op \in Delivering
          PROVE  s.attempts < writes'[s.id]
      <4>1. s \in task[v].todo /\ c \in task[v].todo
        BY DEF Current, Oldest
      <4>2. s \in Snapshot /\ c \in Snapshot
        BY <4>1, <1>i DEF TypeOK
      <4>3. s.id = c.id
        <5>1. s.id <= c.id /\ c.id <= s.id
          BY DEF Current, Oldest
        <5>2. s.id \in Int /\ c.id \in Int
          BY <4>2 DEF Snapshot, Prompts
        <5>3. QED BY <5>1, <5>2
      <4>4. s = c
        BY <4>1, <4>3, <1>i DEF HeldBy
      <4>5. ~Exhausted(s)
        BY <3>4, <4>1, <1>i DEF HeldBy, Delivering
      <4>6. writes'[s.id] = Saturate(writes[s.id], MaxDeliveryAttempts + 1)
        BY <3>3, <4>2, <4>4, <4>5, <1>i DEF TypeOK, Snapshot, GivesUp
      <4>7. s.attempts <= writes[s.id]
        BY <4>1, <1>i DEF HeldBy
      <4>8. s.attempts \in Int /\ writes[s.id] \in Int
        BY <4>2, <1>i, Counts DEF Snapshot
      <4>9. QED BY <4>5, <4>6, <4>7, <4>8, ConstantsAssumption DEF Saturate, Exhausted
    <3>5. ASSUME NEW s \in task[v].todo
          PROVE  /\ status'[s.id] # "none"
                 /\ s.attempts <= writes'[s.id]
                 /\ \A t \in task[v].todo : s.id = t.id => s = t
                 /\ task[v].op # "cancel" => ~Exhausted(s)
                 /\ task[v].op = "accept" => taken'[s.id] > 0
      BY HeldRow, <1>g, <1>i DEF HeldBy
    <3>6. QED BY <3>1, <3>2, <3>4, <3>5 DEF HeldBy, Exhausted
  <2>4. QED BY <2>2, <2>3
<1>9. ASSUME NEW w \in Workers, DeliveryFails(w) PROVE HeldBy(v)'
  <2>1. PICK todo \in SUBSET task[w].todo : Continue(w, todo)
    <3>1. task[w].todo \ Current(w) \in SUBSET task[w].todo /\ {} \in SUBSET task[w].todo
      OBVIOUS
    <3>2. QED BY <1>9, <3>1 DEF DeliveryFails
  <2>2. CASE w = v
    BY <2>1, <2>2, <1>2
  <2>3. CASE w # v
    BY <2>1, <2>3, <1>4
  <2>4. QED BY <2>2, <2>3
<1>10. ASSUME NEW w \in Workers, Connect(w) PROVE HeldBy(v)'
  <2>1. Start(w, "flush", "read", {})
    BY <1>10 DEF Connect
  <2>2. CASE w = v
    BY <2>1, <2>2, <1>3, <1>i DEF Start, TypeOK
  <2>3. CASE w # v
    BY <2>1, <2>3, <1>4
  <2>4. QED BY <2>2, <2>3
<1>11. ASSUME NEW w \in Workers, Flush(w) PROVE HeldBy(v)'
  <2> DEFINE rows == PendingForDevice(FlushLimit)
  <2>1. Continue(w, rows) /\ AtStep(w, "read")
    BY <1>11 DEF Flush
  <2>2. CASE w # v
    BY <2>1, <2>2, <1>4
  <2>3. CASE w = v /\ rows = {}
    BY <2>1, <2>3, <1>3, <1>i DEF Continue, TypeOK, Rest, Idle, Listening
  <2>4. CASE w = v /\ rows # {}
    <3>1. \A s \in rows :
             /\ s.id \in Prompts /\ status'[s.id] # "none" /\ s.attempts <= writes'[s.id]
             /\ ~Exhausted(s) /\ \A t \in rows : s.id = t.id => s = t
      BY PendingHeld, <1>g, <1>i, ConstantsAssumption
    <3>2. task'[v] = [op |-> task[v].op, step |-> "write", todo |-> rows]
      BY <2>1, <2>4, <1>i DEF Continue, TypeOK
    <3>3. task[v].op \in Ops /\ task[v].op # "accept"
      BY <1>11, <2>4, <1>i DEF Flush, TypeOK
    <3> HIDE DEF rows
    <3>4. QED BY <3>1, <3>2, <3>3, <1>g, <1>i, HeldStarts
  <2>5. QED BY <2>2, <2>3, <2>4

<1>12. ASSUME NEW w \in Workers, Acknowledge(w) PROVE HeldBy(v)'
  <2> DEFINE rows == {s \in PendingForDevice(AckLimit) : s.id = Head(outbox).id}
  <2>1. PICK op \in {"accept", "reject"} :
          /\ UNCHANGED task \/ Start(w, op, "update", rows)
          /\ op = "accept" => Head(outbox).accepted
    BY <1>12 DEF Acknowledge
  <2>2. CASE UNCHANGED task \/ w # v
    BY <2>1, <2>2, <1>1, <1>4
  <2>3. CASE w = v /\ Start(w, op, "update", rows)
    <3>1. Head(outbox).accepted => taken[Head(outbox).id] > 0
      <4>1. Len(outbox) \in Nat /\ outbox # <<>> /\ Head(outbox) = outbox[1] /\ Len(outbox) # 0
        BY <1>12, <1>i, EmptySeq DEF Acknowledge, TypeOK
      <4>2. 1 \in 1..Len(outbox)
        BY <4>1
      <4>3. QED BY <4>1, <4>2 DEF IInv, InTransit
    <3>2. \A s \in rows :
             /\ s.id \in Prompts /\ status'[s.id] # "none" /\ s.attempts <= writes'[s.id]
             /\ ~Exhausted(s) /\ \A t \in rows : s.id = t.id => s = t
      BY PendingHeld, <1>g, <1>i, ConstantsAssumption
    <3>3. taken' = taken
      BY <1>12 DEF Acknowledge
    <3>4. \A s \in rows : op = "accept" => taken'[s.id] > 0
      BY <3>1, <3>3, <2>1
    <3>5. task'[v] = [op |-> op, step |-> "update", todo |-> rows]
      BY <2>3, <1>i DEF Start, TypeOK
    <3>6. op \in Ops /\ op \notin Delivering
      BY DEF Ops, Serving, Delivering
    <3> HIDE DEF rows
    <3>7. QED BY <3>2, <3>4, <3>5, <3>6, <1>g, <1>i, HeldStarts
  <2>4. QED BY <2>1, <2>2, <2>3
<1>13. ASSUME NEW w \in Workers, Unregister(w) PROVE HeldBy(v)'
  <2>1. task' = [task EXCEPT ![w] = Idle]
    BY <1>13 DEF Unregister
  <2>2. CASE w = v
    BY <2>1, <2>2, <1>3, <1>i DEF Idle, TypeOK
  <2>3. CASE w # v
    BY <2>1, <2>3, <1>4
  <2>4. QED BY <2>2, <2>3
<1>14. ASSUME NEW w \in Workers, NEW p \in Prompts, Send(w, p) PROVE HeldBy(v)'
  <2> DEFINE row == [id |-> p, status |-> "pending", attempts |-> 0]
  <2>1. Start(w, "send", "write", {row})
    BY <1>14 DEF Send
  <2>2. CASE w = v
    <3>1. status'[p] # "none" /\ 0 <= writes'[p]
      BY <1>14, <1>i, CountsNext DEF Send, TypeOK
    <3>2. ~Exhausted(row)
      BY ConstantsAssumption DEF Exhausted
    <3>3. task'[v] = [op |-> "send", step |-> "write", todo |-> {row}]
      BY <2>1, <2>2, <1>i DEF Start, TypeOK
    <3>4. \A s \in {row} :
             /\ s.id \in Prompts /\ status'[s.id] # "none" /\ s.attempts <= writes'[s.id]
             /\ ~Exhausted(s) /\ \A t \in {row} : s.id = t.id => s = t
      BY <3>1, <3>2
    <3> HIDE DEF row
    <3>5. QED BY <3>3, <3>4, <1>g, <1>i, HeldStarts DEF Ops, Delivering
  <2>3. CASE w # v
    BY <2>1, <2>3, <1>4
  <2>4. QED BY <2>2, <2>3
<1>15. ASSUME NEW w \in Workers, NEW p \in Prompts, Cancel(w, p) PROVE HeldBy(v)'
  <2>1. Start(w, "cancel", "update", {Row(p)})
    BY <1>15 DEF Cancel
  <2>2. CASE w = v
    <3>1. status'[p] # "none"
      BY <1>15 DEF Cancel, rowVars, Open
    <3>2. attempts[p] <= writes'[p]
      BY <1>15, <1>i DEF Cancel, AttemptsWereWritten
    <3>3. task'[v] = [op |-> "cancel", step |-> "update", todo |-> {Row(p)}]
      BY <2>1, <2>2, <1>i DEF Start, TypeOK
    <3>4. \A s \in {Row(p)} :
             /\ s.id \in Prompts /\ status'[s.id] # "none" /\ s.attempts <= writes'[s.id]
             /\ \A t \in {Row(p)} : s.id = t.id => s = t
      BY <3>1, <3>2 DEF Row
    <3>5. QED BY <3>3, <3>4, <1>g, <1>i, HeldStarts DEF Ops, Delivering
  <2>3. CASE w # v
    BY <2>1, <2>3, <1>4
  <2>4. QED BY <2>2, <2>3
<1>16. ASSUME NEW w \in Workers, NEW p \in Prompts, ReceiveSignal(w, p) PROVE HeldBy(v)'
  <2> DEFINE rows == {s \in PendingForDevice(FlushLimit) : s.id = p}
  <2>1. UNCHANGED task \/ Start(w, "signal", "write", rows)
    BY <1>16 DEF ReceiveSignal
  <2>2. CASE UNCHANGED task \/ w # v
    BY <2>1, <2>2, <1>1, <1>4
  <2>3. CASE w = v /\ Start(w, "signal", "write", rows)
    <3>1. \A s \in rows :
             /\ s.id \in Prompts /\ status'[s.id] # "none" /\ s.attempts <= writes'[s.id]
             /\ ~Exhausted(s) /\ \A t \in rows : s.id = t.id => s = t
      BY PendingHeld, <1>g, <1>i, ConstantsAssumption
    <3>2. task'[v] = [op |-> "signal", step |-> "write", todo |-> rows]
      BY <2>3, <1>i DEF Start, TypeOK
    <3> HIDE DEF rows
    <3>3. QED BY <3>1, <3>2, <1>g, <1>i, HeldStarts DEF Ops, Delivering
  <2>4. QED BY <2>1, <2>2, <2>3
<1>17. ASSUME NEW i \in Instances, Crash(i) PROVE HeldBy(v)'
  <2>1. task'[v] = IF InstanceOf[v] = i THEN Idle ELSE task[v]
    BY <1>17 DEF Crash
  <2>2. CASE InstanceOf[v] = i
    BY <2>1, <2>2, <1>3 DEF Idle
  <2>3. CASE InstanceOf[v] # i
    BY <2>1, <2>3, <1>1
  <2>4. QED BY <2>2, <2>3
<1>18. ASSUME UNCHANGED task PROVE HeldBy(v)'
  BY <1>18, <1>1
<1>19. QED
  BY <1>5, <1>6, <1>7, <1>8, <1>9, <1>10, <1>11, <1>12, <1>13, <1>14, <1>15, <1>16, <1>17,
     <1>18
  DEF Next, Goroutine, AgentAccepts, AgentRejects, Disconnect

\* Frames and answers in transit still speak of known prompts and taken ones.
LEMMA NextTransit ==
    ASSUME IInv, TypeOK', Next
    PROVE  InTransit'
<1>g. Grows
  BY NextGrows
<1>i. TypeOK /\ InTransit
  BY DEF IInv
<1>s. wire \in Seq(Prompts) /\ outbox \in Seq([id: Prompts, accepted: BOOLEAN])
  BY <1>i DEF TypeOK
<1>1. ASSUME NEW p \in Prompts
      PROVE  /\ status[p] # "none" => status'[p] # "none"
             /\ taken[p] > 0 => taken'[p] > 0
  BY <1>g, <1>i, Counts, CountsNext DEF Grows
<1>2. ASSUME NEW k \in 1..Len(wire) PROVE status'[wire[k]] # "none"
  <2>1. wire[k] \in Prompts
    BY <1>s, ElementOfSeq
  <2>2. QED BY <2>1, <1>1, <1>i DEF InTransit
<1>3. ASSUME NEW k \in 1..Len(outbox), outbox[k].accepted PROVE taken'[outbox[k].id] > 0
  <2>1. outbox[k].id \in Prompts
    <3>1. outbox[k] \in [id: Prompts, accepted: BOOLEAN]
      BY <1>s, ElementOfSeq
    <3>2. QED BY <3>1
  <2>2. QED BY <2>1, <1>1, <1>3, <1>i DEF InTransit
<1>l. ASSUME \A p \in Prompts : late'[p] > 0 => late[p] > 0 \/ OnWire(p)
      PROVE  \A p \in Prompts : late'[p] > 0 => status'[p] # "none"
  BY <1>l, <1>1, <1>2, <1>i DEF InTransit, OnWire
<1>4. ASSUME \A k \in 1..Len(wire') : \E j \in 1..Len(wire) : wire'[k] = wire[j],
             \A p \in Prompts : late'[p] > 0 => late[p] > 0 \/ OnWire(p),
             \A k \in 1..Len(outbox') : \E j \in 1..Len(outbox) : outbox'[k] = outbox[j]
      PROVE  InTransit'
  BY <1>2, <1>3, <1>4, <1>l DEF InTransit
<1>w. UNCHANGED wire => \A k \in 1..Len(wire') : \E j \in 1..Len(wire) : wire'[k] = wire[j]
  OBVIOUS
<1>o. UNCHANGED outbox =>
        \A k \in 1..Len(outbox') : \E j \in 1..Len(outbox) : outbox'[k] = outbox[j]
  OBVIOUS
<1>5. ASSUME NEW w \in Workers, WriteFrame(w) PROVE InTransit'
  <2>1. UNCHANGED <<late, outbox>>
    BY <1>5 DEF WriteFrame
  <2>2. CASE UNCHANGED wire
    BY <2>1, <2>2, <1>4, <1>w, <1>o
  <2>3. CASE \E s \in Current(w) : wire' = Append(wire, s.id)
    <3>1. PICK s \in Current(w) : wire' = Append(wire, s.id)
      BY <2>3
    <3>2. s.id \in Prompts /\ status[s.id] # "none"
      BY DEF IInv, HeldBy, Current, Oldest, TypeOK, Snapshot
    <3>3. /\ Len(wire') = Len(wire) + 1
          /\ \A k \in 1..Len(wire) : wire'[k] = wire[k]
          /\ wire'[Len(wire) + 1] = s.id
      BY <3>1, <3>2, <1>s, AppendProperties
    <3>4. \A k \in 1..Len(wire') : status'[wire'[k]] # "none"
      <4>1. TAKE k \in 1..Len(wire')
      <4>2. Len(wire) \in Nat
        BY <1>s
      <4>3. CASE k \in 1..Len(wire)
        BY <3>3, <4>3, <1>2
      <4>4. CASE k = Len(wire) + 1
        BY <3>2, <3>3, <4>4, <1>1
      <4>5. QED BY <4>1, <4>2, <4>3, <4>4, <3>3
    <3>5. QED BY <3>4, <2>1, <1>3, <1>l DEF InTransit
  <2>4. QED BY <1>5, <2>2, <2>3 DEF WriteFrame
<1>6. ASSUME NEW p \in Prompts, NEW accepted \in BOOLEAN, Reply(p, accepted),
             accepted => taken'[p] > 0
      PROVE  InTransit'
  <2>2. /\ \A k \in 1..Len(wire') : \E j \in 1..Len(wire) : wire'[k] = wire[j]
        /\ \A q \in Prompts : late'[q] > 0 => late[q] > 0
    BY <1>6, <1>i, ReplyReads
  <2> DEFINE room == IF Len(outbox) < OutboxSize THEN outbox ELSE Tail(outbox)
             ack == [id |-> p, accepted |-> accepted]
  <2>3. outbox' = Append(room, ack)
    BY <1>6 DEF Reply
  <2>4. /\ room \in Seq([id: Prompts, accepted: BOOLEAN])
        /\ \A k \in 1..Len(room) : \E j \in 1..Len(outbox) : room[k] = outbox[j]
    <3>1. CASE Len(outbox) < OutboxSize
      BY <3>1, <1>s
    <3>2. CASE ~(Len(outbox) < OutboxSize)
      <4>1. outbox # <<>>
        <5>1. Len(outbox) # 0 /\ OutboxSize \in Nat
          BY <3>2, ConstantsAssumption
        <5>2. QED BY <5>1, <1>s, EmptySeq
      <4>2. /\ Len(outbox) \in Nat
            /\ Tail(outbox) \in Seq([id: Prompts, accepted: BOOLEAN])
            /\ Len(Tail(outbox)) = Len(outbox) - 1
            /\ \A k \in 1..Len(Tail(outbox)) : Tail(outbox)[k] = outbox[k + 1]
        BY <4>1, <1>s, HeadTailProperties
      <4>3. \A k \in 1..Len(Tail(outbox)) : k + 1 \in 1..Len(outbox)
        BY <4>2
      <4>4. QED BY <3>2, <4>2, <4>3
    <3>3. QED BY <3>1, <3>2
  <2> HIDE DEF room
  <2>5. \A k \in 1..Len(outbox') : outbox'[k].accepted => taken'[outbox'[k].id] > 0
    <3>1. TAKE k \in 1..Len(outbox')
    <3>2. ack \in [id: Prompts, accepted: BOOLEAN]
      OBVIOUS
    <3>3. /\ Len(room) \in Nat
          /\ Len(outbox') = Len(room) + 1
          /\ \A n \in 1..Len(room) : outbox'[n] = room[n]
          /\ outbox'[Len(room) + 1] = ack
      BY <2>3, <2>4, <3>2, AppendProperties
    <3>4. CASE k \in 1..Len(room)
      BY <3>3, <3>4, <2>4, <1>3
    <3>5. CASE k = Len(room) + 1
      BY <3>3, <3>5, <1>6
    <3>6. QED BY <3>1, <3>3, <3>4, <3>5
  <2>6. QED BY <2>2, <2>5, <1>2, <1>l DEF InTransit
<1>7. ASSUME NEW p \in Prompts, AgentAccepts(p) PROVE InTransit'
  <2>1. taken' = [taken EXCEPT ![p] = Saturate(@, 2)] /\ taken[p] \in 0..2
    BY <1>7, <1>i DEF AgentAccepts, TypeOK
  <2>2. taken'[p] > 0
    BY <2>1, <1>i DEF Saturate, TypeOK
  <2>3. QED BY <2>2, <1>7, <1>6 DEF AgentAccepts
<1>8. ASSUME NEW p \in Prompts, AgentRejects(p) PROVE InTransit'
  BY <1>8, <1>6 DEF AgentRejects
<1>9. ASSUME NEW w \in Workers, Acknowledge(w) PROVE InTransit'
  <2>1. outbox # <<>> /\ outbox' = Tail(outbox) /\ UNCHANGED <<wire, late>>
    BY <1>9 DEF Acknowledge
  <2>2. /\ Len(outbox) \in Nat
        /\ Len(outbox') = Len(outbox) - 1
        /\ \A k \in 1..Len(outbox') : outbox'[k] = outbox[k + 1]
    BY <2>1, <1>s, HeadTailProperties
  <2>3. \A k \in 1..Len(outbox') : k + 1 \in 1..Len(outbox)
    BY <2>2
  <2>4. QED BY <2>1, <2>2, <2>3, <1>4, <1>w
<1>10. ASSUME Lose PROVE InTransit'
  <2>1. wire' = <<>>
    BY <1>10 DEF Lose
  <2>2. \A k \in 1..Len(wire') : \E j \in 1..Len(wire) : wire'[k] = wire[j]
    BY <2>1
  <2>3. QED BY <2>2, <1>10, <1>i, LoseKeeps, LoseHandsOver, <1>4
<1>11. ASSUME UNCHANGED <<wire, late, outbox>> PROVE InTransit'
  BY <1>11, <1>4, <1>w, <1>o
<1>12. QED
  BY <1>5, <1>7, <1>8, <1>9, <1>10, <1>11
  DEF Next, Goroutine, Update, UpdateFails, Sweep, DeliveryFails, Connect, Flush, Unregister,
      Send, Cancel, ReceiveSignal, Disconnect, Crash, linkVars

\* The agent's connection is still served and registered.
LEMMA NextServed ==
    ASSUME IInv, Next
    PROVE  ConnectionServed'
<1>i. TypeOK /\ ConnectionServed
  BY DEF IInv
<1>c. NoConn \notin Workers
  BY ConstantsAssumption
<1>1. ASSUME UNCHANGED <<hub, socket, closing>>,
             NEW w \in Workers,
             task[w].op \in Serving => task'[w].op \in Serving,
             \A v \in Workers \ {w} : task'[v] = task[v]
      PROVE  ConnectionServed'
  BY <1>1, <1>i DEF ConnectionServed, TypeOK
<1>2. ASSUME NEW w \in Workers, NEW op, NEW step, NEW todo, Start(w, op, step, todo),
             task[w].op \in Serving => op \in Serving
      PROVE  /\ task[w].op \in Serving => task'[w].op \in Serving
             /\ \A v \in Workers \ {w} : task'[v] = task[v]
  BY <1>2, <1>i DEF Start, TypeOK
<1>3. ASSUME NEW w \in Workers, NEW todo, Continue(w, todo)
      PROVE  /\ task[w].op \in Serving => task'[w].op \in Serving
             /\ \A v \in Workers \ {w} : task'[v] = task[v]
  BY <1>3, <1>i DEF Continue, TypeOK, Rest, Listening, Idle, Serving
<1>4. ASSUME NEW w \in Workers, NEW step, Proceed(w, step)
      PROVE  /\ task[w].op \in Serving => task'[w].op \in Serving
             /\ \A v \in Workers \ {w} : task'[v] = task[v]
  BY <1>4, <1>i DEF Proceed, TypeOK
<1>5. ASSUME UNCHANGED <<task, hub, socket, closing>> PROVE ConnectionServed'
  BY <1>5, <1>i DEF ConnectionServed
<1>6. ASSUME NEW w \in Workers, Update(w) \/ UpdateFails(w) \/ Flush(w) PROVE ConnectionServed'
  <2>1. UNCHANGED <<hub, socket, closing>> /\ \E todo : Continue(w, todo)
    BY <1>6 DEF Update, UpdateFails, Flush, linkVars
  <2>2. QED BY <2>1, <1>1, <1>3
<1>7. ASSUME NEW w \in Workers, Sweep(w) PROVE ConnectionServed'
  <2>1. UNCHANGED <<hub, socket, closing>> /\ IsIdle(w)
    BY <1>7 DEF Sweep, linkVars
  <2>2. \E todo : Start(w, "sweep", "write", todo)
    BY <1>7 DEF Sweep
  <2>3. QED BY <2>1, <2>2, <1>1, <1>2 DEF IsIdle, Serving
<1>8. ASSUME NEW w \in Workers, WriteFrame(w) PROVE ConnectionServed'
  BY <1>8, <1>1, <1>4 DEF WriteFrame
<1>9. ASSUME NEW w \in Workers, DeliveryFails(w) PROVE ConnectionServed'
  <2>1. UNCHANGED <<hub, socket>> /\ closing' \in {"yes", closing}
    BY <1>9 DEF DeliveryFails
  <2>2. \E todo : Continue(w, todo)
    BY <1>9 DEF DeliveryFails
  <2>3. CASE closing' = "yes"
    BY <2>3 DEF ConnectionServed
  <2>4. CASE closing' = closing
    BY <2>1, <2>2, <2>4, <1>1, <1>3
  <2>5. QED BY <2>1, <2>3, <2>4
<1>10. ASSUME NEW w \in Workers, Connect(w) PROVE ConnectionServed'
  BY <1>10, <1>i, ConstantsAssumption DEF Connect, Start, ConnectionServed, TypeOK, Serving
<1>11. ASSUME NEW w \in Workers, Acknowledge(w) PROVE ConnectionServed'
  <2>1. UNCHANGED <<hub, socket>> /\ closing' \in {"last", closing}
    BY <1>11 DEF Acknowledge
  <2>2. UNCHANGED task \/ \E op \in {"accept", "reject"} : \E todo : Start(w, op, "update", todo)
    BY <1>11 DEF Acknowledge
  <2>3. CASE closing' = "last"
    BY <2>3 DEF ConnectionServed
  <2>4. CASE closing' = closing
    BY <2>1, <2>2, <2>4, <1>1, <1>2, <1>5 DEF Serving
  <2>5. QED BY <2>1, <2>3, <2>4
<1>12. ASSUME NEW w \in Workers, Unregister(w) PROVE ConnectionServed'
  <2>1. /\ socket # w \/ closing # "no"
        /\ hub' = [hub EXCEPT ![InstanceOf[w]] = IF @ = w THEN NoConn ELSE @]
        /\ task' = [task EXCEPT ![w] = Idle]
        /\ UNCHANGED <<socket, closing>>
    BY <1>12 DEF Unregister
  <2>2. SUFFICES ASSUME socket # NoConn, closing = "no"
                 PROVE  task'[socket].op \in Serving /\ hub'[InstanceOf[socket]] = socket
    BY <2>1 DEF ConnectionServed
  <2>3. socket \in Workers /\ socket # w /\ hub[InstanceOf[socket]] = socket
        /\ task[socket].op \in Serving
    BY <2>1, <2>2, <1>i DEF ConnectionServed, TypeOK
  <2>4. QED BY <2>1, <2>3, <1>i, ConstantsAssumption DEF TypeOK
<1>13. ASSUME NEW w \in Workers, NEW p \in Prompts,
              Send(w, p) \/ Cancel(w, p) \/ ReceiveSignal(w, p)
       PROVE  ConnectionServed'
  <2>1. UNCHANGED <<hub, socket, closing>> /\ IsIdle(w)
    BY <1>13 DEF Send, Cancel, ReceiveSignal, linkVars
  <2>2. UNCHANGED task \/ \E op, step, todo : Start(w, op, step, todo)
    BY <1>13 DEF Send, Cancel, ReceiveSignal
  <2>3. QED BY <2>1, <2>2, <1>1, <1>2, <1>5 DEF IsIdle, Serving
<1>14. ASSUME socket' = NoConn PROVE ConnectionServed'
  BY <1>14 DEF ConnectionServed
<1>15. ASSUME NEW i \in Instances, Crash(i) PROVE ConnectionServed'
  <2>1. CASE socket # NoConn /\ InstanceOf[socket] = i
    BY <1>15, <2>1, <1>14 DEF Crash, Lose
  <2>2. CASE socket = NoConn
    BY <1>15, <2>2, <1>14 DEF Crash
  <2>3. CASE socket # NoConn /\ InstanceOf[socket] # i
    BY <1>15, <2>3, <1>i DEF Crash, ConnectionServed, TypeOK
  <2>4. QED BY <2>1, <2>2, <2>3
<1>16. QED
  BY <1>5, <1>6, <1>7, <1>8, <1>9, <1>10, <1>11, <1>12, <1>13, <1>14, <1>15
  DEF Next, Goroutine, AgentAccepts, AgentRejects, Reply, Disconnect, Lose

\* What the rows say stays true: who writes a row holds a copy of it.
LEMMA NextRows ==
    ASSUME IInv, TypeOK', Next
    PROVE  (DeliveredWasTaken /\ AttemptsWereWritten /\ NeverFailed)'
<1>g. Grows
  BY NextGrows
<1>i. TypeOK /\ DeliveredWasTaken /\ AttemptsWereWritten /\ NeverFailed
  BY DEF IInv
<1>1. ASSUME NEW p \in Prompts
      PROVE  /\ taken[p] > 0 => taken'[p] > 0
             /\ attempts[p] <= writes'[p]
  BY <1>g, <1>i, Counts, CountsNext DEF Grows, AttemptsWereWritten
<1>2. ASSUME UNCHANGED attempts,
             \A p \in Prompts : status'[p] \in {status[p], "pending"}
      PROVE  (DeliveredWasTaken /\ AttemptsWereWritten /\ NeverFailed)'
  BY <1>1, <1>2, <1>i DEF DeliveredWasTaken, AttemptsWereWritten, NeverFailed
<1>3. ASSUME NEW w \in Workers, Update(w)
      PROVE  (DeliveredWasTaken /\ AttemptsWereWritten /\ NeverFailed)'
  <2>1. PICK s \in Current(w) :
          /\ status' = [status EXCEPT ![s.id] = NewStatus(task[w].op, s)]
          /\ attempts' = [attempts EXCEPT ![s.id] = NewAttempts(task[w].op, s)]
    BY <1>3 DEF Update
  <2>2. UNCHANGED <<taken, writes>> /\ AtStep(w, "update")
    BY <1>3 DEF Update
  <2>3. s \in task[w].todo /\ s \in Snapshot /\ s.id \in Prompts /\ s.attempts \in Nat
    BY <1>i DEF Current, Oldest, TypeOK, Snapshot
  <2>4. /\ s.attempts <= writes[s.id]
        /\ task[w].op # "cancel" => ~Exhausted(s)
        /\ task[w].op = "accept" => taken[s.id] > 0
        /\ task[w].op \in Delivering => s.attempts < writes[s.id]
    BY <2>2, <2>3 DEF IInv, HeldBy
  <2>5. NewStatus(task[w].op, s) # "failed"
    BY <2>4 DEF NewStatus, Delivering, GivesUp
  <2>6. NewStatus(task[w].op, s) = "delivered" => taken[s.id] > 0
    BY <2>4 DEF NewStatus
  <2>7. NewAttempts(task[w].op, s) <= writes[s.id]
    BY <2>3, <2>4, <1>i, Counts DEF NewAttempts
  <2>8. QED
    BY <2>1, <2>2, <2>3, <2>5, <2>6, <2>7, <1>i
    DEF DeliveredWasTaken, AttemptsWereWritten, NeverFailed, TypeOK
<1>4. ASSUME NEW w \in Workers, NEW p \in Prompts, Send(w, p)
      PROVE  (DeliveredWasTaken /\ AttemptsWereWritten /\ NeverFailed)'
  BY <1>4, <1>2, <1>i DEF Send, TypeOK
<1>5. ASSUME UNCHANGED rowVars
      PROVE  (DeliveredWasTaken /\ AttemptsWereWritten /\ NeverFailed)'
  BY <1>5, <1>2 DEF rowVars
<1>6. QED
  BY <1>3, <1>4, <1>5
  DEF Next, Goroutine, UpdateFails, Sweep, WriteFrame, DeliveryFails, Connect, Flush,
      Acknowledge, Unregister, Cancel, ReceiveSignal, AgentAccepts, AgentRejects, Disconnect,
      Crash

\* The invariant is inductive.
LEMMA NextInv == IInv /\ [Next]_vars => IInv'
<1> SUFFICES ASSUME IInv, [Next]_vars PROVE IInv'
  OBVIOUS
<1>1. CASE Next
  <2>1. TypeOK'
    BY <1>1, NextType DEF IInv
  <2>2. \A w \in Workers : HeldBy(w)'
    BY <1>1, <2>1, NextHeld
  <2>3. InTransit' /\ ConnectionServed'
    BY <1>1, <2>1, NextTransit, NextServed
  <2>4. (DeliveredWasTaken /\ AttemptsWereWritten /\ NeverFailed)'
    BY <1>1, <2>1, NextRows
  <2>5. QED BY <2>1, <2>2, <2>3, <2>4 DEF IInv
<1>2. CASE UNCHANGED vars
  BY <1>2
  DEF vars, IInv, TypeOK, HeldBy, InTransit, ConnectionServed, DeliveredWasTaken,
      AttemptsWereWritten, NeverFailed, AtStep, Current, Exhausted
<1>3. QED BY <1>1, <1>2

\* The inductive invariant holds of every behaviour of the queue.
THEOREM Invariance == Spec => []IInv
<1>1. QED BY InitInv, NextInv, PTL DEF Spec

\* Every variable keeps its type: attempts stays within MaxDeliveryAttempts, the
\* socket and the agent's outbound queue within their capacities.
THEOREM TypeCorrect == Spec => []TypeOK
<1>1. IInv => TypeOK
  BY DEF IInv
<1>2. QED BY <1>1, Invariance, PTL

\* No handler, however late its copy of the row, records a delivery that did not
\* happen: Acknowledge is the only one that writes "delivered", and it runs on an
\* ACK the agent sent after it took the prompt.
THEOREM NoFalseDelivery == Spec => []DeliveredWasTaken
<1>1. IInv => DeliveredWasTaken
  BY DEF IInv
<1>2. QED BY <1>1, Invariance, PTL

\* prompt_queue.attempts never exceeds the frames written for the prompt.
THEOREM AttemptsAreReal == Spec => []AttemptsWereWritten
<1>1. IInv => AttemptsWereWritten
  BY DEF IInv
<1>2. QED BY <1>1, Invariance, PTL

\* MarkFailed is never reached: a row whose attempts are used up is in no query's
\* result, so neither the two delivery loops nor Acknowledge ever see one.  It is
\* why SpentIsMarked, what domain/prompt.go:35 says, fails in every instance.
THEOREM FailedUnreachable == Spec => []NeverFailed
<1>1. IInv => NeverFailed
  BY DEF IInv
<1>2. QED BY <1>1, Invariance, PTL

\* Hub.Unregister by a connection that was replaced leaves the new one in place.
THEOREM ConnectionStaysRegistered == Spec => []LiveConnectionRegistered
<1>1. IInv => LiveConnectionRegistered
  BY DEF IInv, ConnectionServed, LiveConnectionRegistered
<1>2. QED BY <1>1, Invariance, PTL

-----------------------------------------------------------------------------
(***************************************************************************)
(* A settled prompt stays settled, a withdrawn one stays withdrawn.        *)
(***************************************************************************)
\* A goroutine gets hold of a row of p only from one that is open, or by
\* inserting it.
LEMMA NotHeldStays ==
    ASSUME TypeOK, Next, NEW p \in Prompts, status[p] \in Terminal, ~Held(p)
    PROVE  ~Held(p)'
<1>1. \A w \in Workers : \A s \in task[w].todo : s.id # p
  BY DEF Held
<1>2. ASSUME NEW limit \in Nat, NEW s \in PendingForDevice(limit) PROVE s.id # p
  BY <1>2, PendingRows DEF InQueue, Open, Terminal
<1>3. SUFFICES ASSUME NEW v \in Workers, NEW s \in task'[v].todo PROVE s.id # p
  BY DEF Held
<1>4. ASSUME NEW w \in Workers, NEW todo, \A t \in todo : t.id # p,
             \/ Continue(w, todo)
             \/ \E op, step : Start(w, op, step, todo)
      PROVE  s.id # p
  <2>1. v # w => task'[v] = task[v]
    BY <1>4 DEF Continue, Start, TypeOK
  <2>2. v = w => task'[v].todo \in {todo, {}}
    <3>1. CASE Continue(w, todo)
      BY <3>1 DEF Continue, Rest, Idle, Listening, TypeOK
    <3>2. CASE \E op, step : Start(w, op, step, todo)
      BY <3>2 DEF Start, TypeOK
    <3>3. QED BY <1>4, <3>1, <3>2
  <2>3. QED BY <2>1, <2>2, <1>4, <1>1
<1>5. ASSUME UNCHANGED task PROVE s.id # p
  BY <1>5, <1>1
<1>6. ASSUME NEW w \in Workers,
             Update(w) \/ UpdateFails(w) \/ DeliveryFails(w)
      PROVE  s.id # p
  <2>1. \E todo \in SUBSET task[w].todo : Continue(w, todo)
    <3>1. CASE Update(w)
      BY <3>1 DEF Update
    <3>2. CASE UpdateFails(w)
      BY <3>2 DEF UpdateFails
    <3>3. CASE DeliveryFails(w)
      <4>1. task[w].todo \ Current(w) \in SUBSET task[w].todo /\ {} \in SUBSET task[w].todo
        OBVIOUS
      <4>2. QED BY <3>3, <4>1 DEF DeliveryFails
    <3>4. QED BY <1>6, <3>1, <3>2, <3>3
  <2>2. QED BY <2>1, <1>1, <1>4
<1>7. ASSUME NEW w \in Workers, Sweep(w) PROVE s.id # p
  <2>1. PICK cutoff \in Prompts :
          Start(w, "sweep", "write", {t \in PendingForDevice(SweepLimit) : t.id <= cutoff})
    BY <1>7 DEF Sweep
  <2>2. \A t \in {r \in PendingForDevice(SweepLimit) : r.id <= cutoff} : t.id # p
    BY <1>2, ConstantsAssumption
  <2>3. QED BY <2>1, <2>2, <1>4
<1>8. ASSUME NEW w \in Workers, WriteFrame(w) PROVE s.id # p
  BY <1>8, <1>1 DEF WriteFrame, Proceed, TypeOK
<1>9. ASSUME NEW w \in Workers, Connect(w) PROVE s.id # p
  BY <1>9, <1>4 DEF Connect
<1>10. ASSUME NEW w \in Workers, Flush(w) PROVE s.id # p
  BY <1>10, <1>2, <1>4, ConstantsAssumption DEF Flush
<1>11. ASSUME NEW w \in Workers, Acknowledge(w) PROVE s.id # p
  <2> DEFINE found == {t \in PendingForDevice(AckLimit) : t.id = Head(outbox).id}
  <2>1. UNCHANGED task \/ \E op : Start(w, op, "update", found)
    BY <1>11 DEF Acknowledge
  <2>2. QED BY <2>1, <1>2, <1>4, <1>5, ConstantsAssumption
<1>12. ASSUME NEW w \in Workers, Unregister(w) PROVE s.id # p
  BY <1>12, <1>1 DEF Unregister, Idle, TypeOK
<1>13. ASSUME NEW w \in Workers, NEW q \in Prompts, Send(w, q) PROVE s.id # p
  <2>1. q # p
    BY <1>13 DEF Send, Terminal
  <2> DEFINE row == [id |-> q, status |-> "pending", attempts |-> 0]
  <2>2. Start(w, "send", "write", {row}) /\ row.id = q
    BY <1>13 DEF Send
  <2> HIDE DEF row
  <2>3. QED BY <2>1, <2>2, <1>4
<1>14. ASSUME NEW w \in Workers, NEW q \in Prompts, Cancel(w, q) PROVE s.id # p
  <2>1. q # p
    BY <1>14 DEF Cancel, Terminal, Open
  <2>2. Start(w, "cancel", "update", {Row(q)}) /\ Row(q).id = q
    BY <1>14 DEF Cancel, Row
  <2>3. QED BY <2>1, <2>2, <1>4
<1>15. ASSUME NEW w \in Workers, NEW q \in Prompts, ReceiveSignal(w, q) PROVE s.id # p
  <2> DEFINE found == {t \in PendingForDevice(FlushLimit) : t.id = q}
  <2>1. UNCHANGED task \/ Start(w, "signal", "write", found)
    BY <1>15 DEF ReceiveSignal
  <2>2. QED BY <2>1, <1>2, <1>4, <1>5, ConstantsAssumption
<1>16. ASSUME NEW i \in Instances, Crash(i) PROVE s.id # p
  BY <1>16, <1>1 DEF Crash, Idle
<1>17. QED
  BY <1>5, <1>6, <1>7, <1>8, <1>9, <1>10, <1>11, <1>12, <1>13, <1>14, <1>15, <1>16
  DEF Next, Goroutine, AgentAccepts, AgentRejects, Disconnect

\* Only a goroutine that holds a row writes it.
LEMMA NotHeldUnwritten ==
    ASSUME TypeOK, Next, NEW p \in Prompts, status[p] \in Terminal, ~Held(p)
    PROVE  status'[p] = status[p]
<1>1. ASSUME NEW w \in Workers, Update(w) PROVE status'[p] = status[p]
  <2>1. PICK s \in Current(w) : status' = [status EXCEPT ![s.id] = NewStatus(task[w].op, s)]
    BY <1>1 DEF Update
  <2>2. s.id # p
    BY DEF Held, Current, Oldest
  <2>3. QED BY <2>1, <2>2 DEF TypeOK
<1>2. ASSUME NEW w \in Workers, NEW q \in Prompts, Send(w, q) PROVE status'[p] = status[p]
  BY <1>2 DEF Send, TypeOK, Terminal
<1>3. QED
  BY <1>1, <1>2
  DEF Next, Goroutine, UpdateFails, Sweep, WriteFrame, DeliveryFails, Connect, Flush,
      Acknowledge, Unregister, Cancel, ReceiveSignal, AgentAccepts, AgentRejects, Disconnect,
      Crash, rowVars

\* A stuttering step changes nothing of a prompt.
LEMMA StutterKeeps ==
    ASSUME UNCHANGED vars, NEW p
    PROVE  status'[p] = status[p] /\ taken'[p] = taken[p] /\ Held(p)' = Held(p)
           /\ OnWire(p)' = OnWire(p) /\ late'[p] = late[p]
BY DEF vars, Held, OnWire

\* delivered and cancelled are final for a prompt of which no handler keeps an
\* earlier copy: Deliver, Acknowledge and Cancel all start from open rows.
THEOREM SettledStays == Spec => SettledIsFinal
<1>1. ASSUME TypeOK, [Next]_vars, NEW p \in Prompts, status[p] \in Terminal, ~Held(p)
      PROVE  status'[p] = status[p] /\ ~Held(p)'
  BY <1>1, NotHeldStays, NotHeldUnwritten, StutterKeeps
<1>2. TypeOK /\ [Next]_vars =>
        [\A p \in Prompts : status[p] \in Terminal /\ ~Held(p)
                            => status'[p] = status[p] /\ ~Held(p)']_vars
  BY <1>1
<1>3. QED BY <1>2, TypeCorrect, PTL DEF Spec, SettledIsFinal

\* No frame of a withdrawn prompt is written, so the agent does not take it.
LEMMA WithdrawnStays ==
    ASSUME TypeOK, TypeOK', Next, NEW p \in Prompts, Withdrawn(p)
    PROVE  Withdrawn(p)' /\ taken'[p] = taken[p]
<1>1. status'[p] = "cancelled" /\ ~Held(p)'
  BY NotHeldStays, NotHeldUnwritten DEF Withdrawn, Terminal
<1>s. wire \in Seq(Prompts) /\ \A k \in 1..Len(wire) : wire[k] # p
  BY DEF TypeOK, Withdrawn, OnWire
<1>l. late \in [Prompts -> Nat] /\ late' \in [Prompts -> Nat] /\ late[p] = 0
  BY ConstantsAssumption DEF TypeOK, Withdrawn
<1> DEFINE Untouched == ~OnWire(p)' /\ late'[p] = 0 /\ taken'[p] = taken[p]
<1>2. ASSUME UNCHANGED <<wire, late, taken>> PROVE Untouched
  BY <1>2, <1>s, <1>l DEF OnWire
<1>3. ASSUME NEW w \in Workers, WriteFrame(w) PROVE Untouched
  <2>1. PICK s \in Current(w) : UNCHANGED wire \/ wire' = Append(wire, s.id)
    BY <1>3 DEF WriteFrame
  <2>2. s.id # p /\ s.id \in Prompts
    BY DEF Withdrawn, Held, Current, Oldest, TypeOK, Snapshot
  <2>3. CASE wire' = Append(wire, s.id)
    <3>1. /\ Len(wire) \in Nat
          /\ Len(wire') = Len(wire) + 1
          /\ \A k \in 1..Len(wire) : wire'[k] = wire[k]
          /\ wire'[Len(wire) + 1] = s.id
      BY <2>2, <2>3, <1>s, AppendProperties
    <3>2. \A k \in 1..Len(wire') : k \in 1..Len(wire) \/ k = Len(wire) + 1
      BY <3>1
    <3>3. QED BY <3>1, <3>2, <2>2, <1>s, <1>l, <1>3 DEF OnWire, WriteFrame
  <2>4. QED BY <2>1, <2>3, <1>2, <1>3 DEF WriteFrame
<1>4. ASSUME NEW q \in Prompts, AgentAccepts(q) \/ AgentRejects(q)
      PROVE  Untouched
  <2>1. PICK accepted \in BOOLEAN : Reply(q, accepted)
    BY <1>4 DEF AgentAccepts, AgentRejects
  <2>2. /\ \A k \in 1..Len(wire') : \E j \in 1..Len(wire) : wire'[k] = wire[j]
        /\ late'[p] > 0 => late[p] > 0
        /\ late[q] > 0 \/ OnWire(q)
    BY <2>1, ReplyReads
  <2>3. ~OnWire(p)' /\ late'[p] = 0
    BY <2>2, <1>s, <1>l DEF OnWire
  <2>4. q # p
    BY <2>2, <1>s, <1>l DEF OnWire
  <2>5. QED BY <2>3, <2>4, <1>4 DEF AgentAccepts, AgentRejects, TypeOK
<1>5. ASSUME Lose, UNCHANGED taken PROVE Untouched
  <2>1. Len(wire') = 0
    BY <1>5 DEF Lose
  <2>2. late'[p] > 0 => late[p] > 0 \/ OnWire(p)
    BY <1>5, LoseHandsOver
  <2>3. late'[p] = 0
    BY <2>2, <1>l DEF Withdrawn
  <2>4. QED BY <2>1, <2>3, <1>5 DEF OnWire
<1>6. Untouched
  BY <1>2, <1>3, <1>4, <1>5
  DEF Next, Goroutine, Update, UpdateFails, Sweep, DeliveryFails, Connect, Flush, Acknowledge,
      Unregister, Send, Cancel, ReceiveSignal, Disconnect, Crash, linkVars
<1>7. QED BY <1>1, <1>6 DEF Withdrawn

\* A cancelled prompt that nobody is handling any more, on either side of the
\* connections, never reaches the agent: no flush, sweep, signal or ACK brings
\* it back.
THEOREM WithdrawalIsFinal == Spec => WithdrawnNeverTaken
<1>1. ASSUME TypeOK, TypeOK', [Next]_vars, NEW p \in Prompts, Withdrawn(p)
      PROVE  Withdrawn(p)' /\ taken'[p] = taken[p]
  BY <1>1, WithdrawnStays, StutterKeeps DEF Withdrawn
<1>2. TypeOK /\ TypeOK' /\ [Next]_vars =>
        [\A p \in Prompts : Withdrawn(p) => Withdrawn(p)' /\ taken'[p] = taken[p]]_vars
  BY <1>1
<1>3. QED BY <1>2, TypeCorrect, PTL DEF Spec, WithdrawnNeverTaken

-----------------------------------------------------------------------------
(***************************************************************************)
(* The queue implements PromptDelivery.                                    *)
(***************************************************************************)
AcceptedSet  == {p \in Prompts : status[p] # "none"}
TakenSet     == {p \in Prompts : taken[p] > 0}
ConfirmedSet == {p \in Prompts : status[p] = "delivered"}

\* Every step of the queue accepts, takes, confirms or reopens one prompt, or is
\* invisible to whoever only looks at those.
LEMMA StepRefines ==
    ASSUME IInv, [Next]_vars
    PROVE  Promise!Next \/ UNCHANGED <<AcceptedSet, TakenSet, ConfirmedSet>>
<1>i. TypeOK
  BY DEF IInv
<1>1. ASSUME UNCHANGED <<rowVars, taken>>
      PROVE  UNCHANGED <<AcceptedSet, TakenSet, ConfirmedSet>>
  BY <1>1 DEF rowVars, AcceptedSet, TakenSet, ConfirmedSet
<1>2. ASSUME NEW w \in Workers, Update(w)
      PROVE  Promise!Next \/ UNCHANGED <<AcceptedSet, TakenSet, ConfirmedSet>>
  <2>1. PICK s \in Current(w) : status' = [status EXCEPT ![s.id] = NewStatus(task[w].op, s)]
    BY <1>2 DEF Update
  <2>2. s \in task[w].todo /\ s.id \in Prompts
    BY <1>i DEF Current, Oldest, TypeOK, Snapshot
  <2>3. status[s.id] # "none" /\ status'[s.id] # "none"
    BY <2>1, <2>2, <1>i DEF IInv, HeldBy, NewStatus, TypeOK
  <2>4. \A q \in Prompts \ {s.id} : status'[q] = status[q]
    BY <2>1, <1>i DEF TypeOK
  <2>5. UNCHANGED TakenSet
    BY <1>2 DEF Update, TakenSet
  <2>6. UNCHANGED AcceptedSet
    BY <2>3, <2>4 DEF AcceptedSet
  <2>7. CASE status'[s.id] = "delivered"
    <3>1. task[w].op = "accept"
      BY <2>1, <2>2, <2>7, <1>i DEF NewStatus, TypeOK
    <3>2. s.id \in TakenSet
      BY <3>1, <2>2 DEF IInv, HeldBy, TakenSet
    <3>3. ConfirmedSet' = ConfirmedSet \cup {s.id}
      BY <2>2, <2>4, <2>7 DEF ConfirmedSet
    <3>4. Promise!Confirm(s.id)
      BY <3>2, <3>3, <2>5, <2>6 DEF Promise!Confirm, AcceptedSet, TakenSet, ConfirmedSet
    <3>5. QED BY <3>4, <2>2 DEF Promise!Next
  <2>8. CASE status'[s.id] # "delivered" /\ status[s.id] = "delivered"
    <3>1. s.id \in ConfirmedSet /\ ConfirmedSet' = ConfirmedSet \ {s.id}
      BY <2>2, <2>4, <2>8 DEF ConfirmedSet
    <3>2. Promise!Reopen(s.id)
      BY <3>1, <2>5, <2>6 DEF Promise!Reopen, AcceptedSet, TakenSet, ConfirmedSet
    <3>3. QED BY <3>2, <2>2 DEF Promise!Next
  <2>9. CASE status'[s.id] # "delivered" /\ status[s.id] # "delivered"
    <3>1. ConfirmedSet' = ConfirmedSet
      BY <2>4, <2>9 DEF ConfirmedSet
    <3>2. QED BY <3>1, <2>5, <2>6
  <2>10. QED BY <2>7, <2>8, <2>9
<1>3. ASSUME NEW w \in Workers, NEW p \in Prompts, Send(w, p) PROVE Promise!Next
  <2>1. status[p] = "none" /\ status' = [status EXCEPT ![p] = "pending"] /\ UNCHANGED taken
    BY <1>3 DEF Send
  <2>2. p \notin AcceptedSet /\ AcceptedSet' = AcceptedSet \cup {p}
    BY <2>1, <1>i DEF AcceptedSet, TypeOK
  <2>3. UNCHANGED <<TakenSet, ConfirmedSet>>
    BY <2>1, <1>i DEF TakenSet, ConfirmedSet, TypeOK
  <2>4. Promise!Accept(p)
    BY <2>2, <2>3 DEF Promise!Accept, AcceptedSet, TakenSet, ConfirmedSet
  <2>5. QED BY <2>4 DEF Promise!Next
<1>4. ASSUME NEW p \in Prompts, AgentAccepts(p) PROVE Promise!Next
  <2>1. /\ Reply(p, TRUE)
        /\ taken' = [taken EXCEPT ![p] = Saturate(@, 2)]
        /\ UNCHANGED status
    BY <1>4 DEF AgentAccepts, rowVars
  <2>2. taken[p] \in 0..2 /\ taken'[p] > 0
    BY <2>1, <1>i DEF Saturate, TypeOK
  <2>3. TakenSet' = TakenSet \cup {p}
    BY <2>1, <2>2, <1>i DEF TakenSet, TypeOK
  <2>4. p \in AcceptedSet
    <3>1. late[p] > 0 \/ OnWire(p)
      BY <2>1, <1>i, ReplyReads
    <3>2. QED BY <3>1 DEF IInv, InTransit, OnWire, AcceptedSet
  <2>5. UNCHANGED <<AcceptedSet, ConfirmedSet>>
    BY <2>1 DEF AcceptedSet, ConfirmedSet
  <2>6. Promise!Take(p)
    BY <2>3, <2>4, <2>5 DEF Promise!Take, AcceptedSet, TakenSet, ConfirmedSet
  <2>7. QED BY <2>6 DEF Promise!Next
<1>5. CASE UNCHANGED vars
  BY <1>5, <1>1 DEF vars, rowVars
<1>6. QED
  BY <1>1, <1>2, <1>3, <1>4, <1>5
  DEF Next, Goroutine, UpdateFails, Sweep, WriteFrame, DeliveryFails, Connect, Flush,
      Acknowledge, Unregister, Cancel, ReceiveSignal, AgentRejects, Disconnect, Crash

\* Seen from outside, with instances, rows, races and lost frames hidden, the
\* queue accepts prompts, delivers them at least once and confirms only those
\* delivered.
THEOREM QueueKeepsPromise == Spec => PromiseSpec
<1>1. Init => Promise!Init
  BY DEF Init, Promise!Init
<1>2. IInv /\ [Next]_vars => [Promise!Next]_(Promise!vars)
  BY StepRefines DEF Promise!vars, AcceptedSet, TakenSet, ConfirmedSet
<1>3. QED BY <1>1, <1>2, Invariance, PTL DEF Spec, PromiseSpec, Promise!Spec

=============================================================================
