-------------------------- MODULE DashboardFeedProofs --------------------------
(***************************************************************************)
(* Proofs about DashboardFeed, for any number of connections, of senders   *)
(* of STATUS, of states, ticks and questions and any capacity of the       *)
(* queue.                                                                  *)
(***************************************************************************)
EXTENDS DashboardFeed, TLAPS

Events == Statuses \cup Waits \cup Notices
Reports == [of: Versions, at: Times] \cup {Nothing}
Handling ==
    [step: {"save", "forward"}, frame: Statuses]
    \cup [step: {"settings", "deliver", "create", "forward"}, frame: Waits]
    \cup {Rest}

USE DEF At

\* A queue holds what it held and what is appended.
LEMMA Appended ==
    ASSUME NEW q \in Seq(Events), NEW e \in Events
    PROVE  /\ Append(q, e) \in Seq(Events) /\ Len(Append(q, e)) = Len(q) + 1
           /\ \A k \in DOMAIN Append(q, e) :
                 Append(q, e)[k] = e \/ \E j \in DOMAIN q : Append(q, e)[k] = q[j]
OBVIOUS

\* What is taken from a queue was in it, and so is what remains.
LEMMA Taken ==
    ASSUME NEW q \in Seq(Events), q # <<>>
    PROVE  /\ Tail(q) \in Seq(Events) /\ Len(Tail(q)) = Len(q) - 1
           /\ 1 \in DOMAIN q /\ Head(q) = q[1] /\ Head(q) \in Events
           /\ \A k \in DOMAIN Tail(q) : \E j \in DOMAIN q : Tail(q)[k] = q[j]
<1>1. /\ Tail(q) \in Seq(Events) /\ Len(Tail(q)) = Len(q) - 1
      /\ 1 \in DOMAIN q /\ Head(q) = q[1] /\ Head(q) \in Events
  OBVIOUS
<1>2. ASSUME NEW k \in DOMAIN Tail(q) PROVE \E j \in DOMAIN q : Tail(q)[k] = q[j]
  <2>1. k + 1 \in DOMAIN q /\ Tail(q)[k] = q[k + 1]
    OBVIOUS
  <2> QED
    BY <2>1
<1> QED
  BY <1>1, <1>2

\* An event that is heard, or not, leaves a queue within its capacity with nothing in it
\* but this event and what was there.
LEMMA Heard ==
    ASSUME TypeOK, NEW e \in Events, Hear(e) \/ Unheard
    PROVE  /\ queue' \in Seq(Events) /\ Len(queue') <= Capacity /\ open' \in BOOLEAN
           /\ UNCHANGED <<live, alerts>>
           /\ \A k \in DOMAIN queue' : queue'[k] = e \/ \E j \in DOMAIN queue : queue'[k] = queue[j]
<1> USE ConstantsAssumption
<1>1. queue \in Seq(Events) /\ Len(queue) \in Nat /\ Len(queue) <= Capacity /\ open \in BOOLEAN
  BY DEF TypeOK, Events
<1>2. CASE Unheard
  BY <1>1, <1>2 DEF Unheard, dashboard
<1>3. CASE Hear(e) /\ Len(queue) < Capacity
  <2>1. queue' = Append(queue, e) /\ UNCHANGED <<open, live, alerts>>
    BY <1>3 DEF Hear
  <2>2. Len(queue) + 1 <= Capacity
    BY <1>1, <1>3
  <2> QED
    BY <1>1, <2>1, <2>2, Appended
<1>4. CASE Hear(e) /\ ~(Len(queue) < Capacity)
  <2>1. queue' = <<>> /\ open' = FALSE /\ UNCHANGED <<live, alerts>>
    BY <1>4 DEF Hear
  <2>2. << >> \in Seq(Events) /\ Len(<< >>) = 0 /\ DOMAIN << >> = {}
    OBVIOUS
  <2>3. Len(<< >>) <= Capacity
    BY <2>2
  <2> QED
    BY <2>1, <2>2, <2>3
<1> QED
  BY <1>2, <1>3, <1>4

\* What the dashboard was told, or will be, after a step that adds at most one event.
LEMMA AlertedAfter ==
    ASSUME UNCHANGED alerts, NEW e,
           \A k \in DOMAIN queue' : queue'[k] = e \/ \E j \in DOMAIN queue : queue'[k] = queue[j]
    PROVE  Alerted' \subseteq Alerted \cup (IF e.type = "NOTIFICATION" THEN {e.of} ELSE {})
BY DEF Alerted

\* Showing the head of the queue adds nothing to it.
LEMMA AlertedByShow ==
    ASSUME TypeOK, Show
    PROVE  Alerted' \subseteq Alerted
<1>1. queue \in Seq(Events) /\ queue # <<>> /\ queue' = Tail(queue)
  BY DEF TypeOK, Show, Events
<1>2. alerts' \subseteq Alerted
  BY <1>1, Taken DEF Show, Alerted
<1>3. \A k \in DOMAIN queue' : \E j \in DOMAIN queue : queue'[k] = queue[j]
  BY <1>1, Taken
<1> QED
  BY <1>2, <1>3 DEF Alerted

\* The frame a reader goes on with is the one it received.
LEMMA Moved ==
    ASSUME TypeOK, NEW c \in Conns, NEW step, Goto(c, step)
    PROVE  /\ handler'[c].step = step /\ handler'[c].frame = handler[c].frame
           /\ \A d \in Conns \ {c} : handler'[d] = handler[d]
           /\ [step |-> step, frame |-> handler[c].frame] \in Handling
              => handler' \in [Conns -> Handling]
<1>1. handler \in [Conns -> Handling]
  BY DEF TypeOK, Handling
<1>2. handler' = [handler EXCEPT ![c] = [step |-> step, frame |-> handler[c].frame]]
  <2>1. handler[c] = [step |-> handler[c].step, frame |-> handler[c].frame]
    BY <1>1 DEF Handling, Rest
  <2>2. [handler[c] EXCEPT !.step = step] = [step |-> step, frame |-> handler[c].frame]
    BY <2>1
  <2> QED
    BY <2>2 DEF Goto
<1> QED
  BY <1>1, <1>2

\* The step a reader is at tells what it handles.
LEMMA HandledFrame ==
    ASSUME TypeOK, NEW c \in Conns
    PROVE  /\ handler[c] \in Handling
           /\ At(c, "save") => Frame(c) \in Statuses
           /\ InHand(c) => Frame(c) \in Waits
           /\ At(c, "forward") => Frame(c) \in Statuses \cup Waits
<1>1. handler[c] \in Handling
  BY DEF TypeOK, Handling
<1>2. CASE handler[c] \in [step: {"save", "forward"}, frame: Statuses]
  BY <1>1, <1>2 DEF Frame, InHand
<1>3. CASE handler[c] \in [step: {"settings", "deliver", "create", "forward"}, frame: Waits]
  BY <1>1, <1>3 DEF Frame, InHand
<1>4. CASE handler[c] = Rest
  BY <1>1, <1>4 DEF Frame, InHand, Rest
<1> QED
  BY <1>1, <1>2, <1>3, <1>4 DEF Handling

\* A reader that is done rests, and the others are where they were.
LEMMA Rested ==
    ASSUME TypeOK, NEW c \in Conns, Done(c)
    PROVE  /\ handler' \in [Conns -> Handling] /\ handler'[c] = Rest
           /\ \A d \in Conns \ {c} : handler'[d] = handler[d]
BY DEF TypeOK, Done, Handling

\* The settings and the dashboard's connection stay Booleans.
LEMMA FlagStep ==
    settings \in BOOLEAN /\ open \in BOOLEAN /\ [Next]_vars
    => settings' \in BOOLEAN /\ open' \in BOOLEAN
BY Zenon DEF Next, Change, Tick, Report, ReadState, SendStatus, Ask, Disconnect, Connect, Handle,
   HandleStatus, Notify, SaveStatus, SaveFails, ConsultSettings, Deliver, Create, CreateFails,
   Forward, ForwardLost, Hear, Unheard, Show, Open, Close, SaveSettings, MarkRead, MarkAllRead,
   Receive, Done, agent, rows, dashboard, vars

Typed ==
    /\ version \in Versions
    /\ now \in Times
    /\ reading \in [Senders -> 0..MaxVersion]
    /\ questions \in 0..MaxQuestions
    /\ conn \in Conns \cup {NoConn}
    /\ handler \in [Conns -> Handling]
    /\ status \in Reports
    /\ notes \subseteq [of: Questions, read: BOOLEAN]
    /\ muted \subseteq Questions
    /\ failed \subseteq Questions
    /\ queue \in Seq(Events) /\ Len(queue) <= Capacity
    /\ live \in Reports
    /\ alerts \subseteq Questions

LEMMA TypeParts == TypeOK <=> Typed /\ settings \in BOOLEAN /\ open \in BOOLEAN
BY Zenon DEF TypeOK, Typed, Handling, Events, Reports

\* No step leaves the types.
LEMMA TypeStep == TypeOK /\ [Next]_vars => TypeOK'
<1> SUFFICES ASSUME TypeOK, [Next]_vars PROVE Typed'
  BY FlagStep, TypeParts, Zenon DEF TypeOK, Typed, Handling, Events, Reports
<1> USE ConstantsAssumption DEF agent, rows, dashboard
<1>1. Typed
  BY TypeParts
<1>2. CASE Tick
  BY <1>1, <1>2 DEF Tick, Typed, Times
<1>3. CASE Change
  BY <1>1, <1>3 DEF Change, Typed, Versions
<1>4. ASSUME NEW g \in Senders, Report(g) PROVE Typed'
  <2>1. CASE ReadState(g)
    <3>1. version \in 0..MaxVersion
      BY <1>1 DEF Typed, Versions
    <3> QED
      BY <1>1, <2>1, <3>1 DEF ReadState, Typed
  <2>2. CASE SendStatus(g)
    <3>1. reading[g] \in Versions
      BY <1>1, <2>2 DEF SendStatus, Typed, Versions
    <3>2. [step |-> "save", frame |-> [type |-> "STATUS", of |-> reading[g], at |-> now]]
          \in Handling
      BY <1>1, <3>1 DEF Handling, Statuses, Typed
    <3>3. reading' \in [Senders -> 0..MaxVersion]
      BY <1>1, <2>2 DEF SendStatus, Typed
    <3>4. handler' \in [Conns -> Handling]
      BY <1>1, <2>2, <3>2 DEF SendStatus, Receive, Typed
    <3> QED
      BY <1>1, <2>2, <3>3, <3>4 DEF SendStatus, Typed
  <2> QED
    BY <1>4, <2>1, <2>2 DEF Report
<1>5. CASE Ask
  <2>1. questions' = questions + 1 /\ questions < MaxQuestions /\ questions \in 0..MaxQuestions
    BY <1>1, <1>5 DEF Ask, Typed
  <2>2. questions' \in Questions /\ questions' \in 0..MaxQuestions
    BY <2>1 DEF Questions
  <2>3. [step |-> "settings", frame |-> [type |-> "TASK_WAITING", of |-> questions']]
        \in Handling
    BY <2>2 DEF Handling, Waits
  <2> QED
    BY <1>1, <1>5, <2>2, <2>3 DEF Ask, Receive, Typed
<1>6. CASE Disconnect \/ \E c \in Conns : Connect(c)
  BY <1>1, <1>6 DEF Disconnect, Connect, Typed
<1>7. ASSUME NEW c \in Conns, SaveStatus(c) PROVE Typed'
  <2>1. Frame(c) \in Statuses
    BY <1>7, HandledFrame DEF SaveStatus
  <2>2. [step |-> "forward", frame |-> handler[c].frame] \in Handling
    BY <2>1 DEF Handling, Frame
  <2>3. Goto(c, "forward")
    BY <1>7 DEF SaveStatus
  <2>4. handler' \in [Conns -> Handling]
    BY <2>2, <2>3, Moved
  <2>5. Reported(Frame(c)) \in Reports
    BY <2>1 DEF Statuses, Reported, Reports
  <2> QED
    BY <1>1, <1>7, <2>4, <2>5 DEF SaveStatus, Typed
<1>8. ASSUME NEW c \in Conns, SaveFails(c) \/ ForwardLost(c) PROVE Typed'
  BY <1>1, <1>8, Rested DEF SaveFails, ForwardLost, Typed
<1>9. ASSUME NEW c \in Conns, InHand(c), NEW step \in {"deliver", "create", "forward"},
             Goto(c, step)
      PROVE  handler' \in [Conns -> Handling] /\ Frame(c).of \in Questions
  <2>1. handler[c].frame \in Waits
    BY <1>9, HandledFrame DEF Frame
  <2>2. [step |-> step, frame |-> handler[c].frame] \in Handling
    BY <2>1 DEF Handling
  <2>3. handler' \in [Conns -> Handling]
    BY <1>9, <2>2, Moved
  <2> QED
    BY <2>1, <2>3 DEF Frame, Waits
<1>10. ASSUME NEW c \in Conns, ConsultSettings(c) PROVE Typed'
  BY <1>1, <1>10, <1>9 DEF ConsultSettings, Typed, InHand
<1>11. ASSUME NEW c \in Conns, Deliver(c) PROVE Typed'
  <2>1. handler' \in [Conns -> Handling] /\ Frame(c).of \in Questions
    BY <1>11, <1>9 DEF Deliver, InHand
  <2>2. [type |-> "NOTIFICATION", of |-> Frame(c).of] \in Events
    BY <2>1 DEF Events, Notices
  <2>3. queue' \in Seq(Events) /\ Len(queue') <= Capacity /\ UNCHANGED <<live, alerts>>
    BY <1>11, <2>2, Heard DEF Deliver
  <2> QED
    BY <1>1, <1>11, <2>1, <2>3 DEF Deliver, Typed
<1>12. ASSUME NEW c \in Conns, Create(c) PROVE Typed'
  <2>1. handler' \in [Conns -> Handling] /\ Frame(c).of \in Questions
    BY <1>12, <1>9 DEF Create, InHand
  <2>2. [of |-> Frame(c).of, read |-> FALSE] \in [of: Questions, read: BOOLEAN]
    BY <2>1
  <2>3. notes' \subseteq [of: Questions, read: BOOLEAN]
    BY <1>1, <1>12, <2>2, Zenon DEF Create, Typed
  <2> QED
    BY <1>1, <1>12, <2>1, <2>3 DEF Create, Typed
<1>13. ASSUME NEW c \in Conns, CreateFails(c) PROVE Typed'
  BY <1>1, <1>13, <1>9 DEF CreateFails, Typed, InHand
<1>14. ASSUME NEW c \in Conns, Forward(c) PROVE Typed'
  <2>1. Frame(c) \in Events
    BY <1>14, HandledFrame DEF Forward, Events
  <2>2. queue' \in Seq(Events) /\ Len(queue') <= Capacity /\ UNCHANGED <<live, alerts>>
    BY <1>14, <2>1, Heard DEF Forward
  <2> QED
    BY <1>1, <1>14, <2>2, Rested DEF Forward, Typed
<1>15. CASE Show
  <2>1. queue \in Seq(Events) /\ queue # <<>> /\ queue' = Tail(queue)
    BY <1>1, <1>15 DEF Show, Typed
  <2>2. queue' \in Seq(Events) /\ Len(queue') = Len(queue) - 1 /\ Head(queue) \in Events
    BY <2>1, Taken
  <2>3. Len(queue) \in Nat /\ Len(queue) <= Capacity
    BY <1>1, <2>1 DEF Typed
  <2>4. Len(queue') <= Capacity
    BY <2>2, <2>3
  <2>5. /\ Head(queue).type = "STATUS" => Reported(Head(queue)) \in Reports
        /\ Head(queue).type = "NOTIFICATION" => Head(queue).of \in Questions
    BY <2>2 DEF Events, Statuses, Waits, Notices, Reported, Reports
  <2>6. /\ live' = IF Head(queue).type = "STATUS" THEN Reported(Head(queue)) ELSE live
        /\ alerts' = IF Head(queue).type = "NOTIFICATION"
                     THEN alerts \cup {Head(queue).of} ELSE alerts
        /\ UNCHANGED <<version, now, reading, questions, conn, handler, status, notes, muted,
                       failed>>
    BY <1>15 DEF Show
  <2>7. live' \in Reports /\ alerts' \subseteq Questions
    BY <1>1, <2>5, <2>6 DEF Typed
  <2> QED
    BY <1>1, <2>2, <2>4, <2>6, <2>7 DEF Typed
<1>16. CASE Open \/ Close
  <2>1. << >> \in Seq(Events) /\ Len(<< >>) = 0 /\ Len(<< >>) <= Capacity
    OBVIOUS
  <2>2. queue' = queue \/ queue' = << >>
    BY <1>16 DEF Open, Close
  <2>3. queue' \in Seq(Events) /\ Len(queue') <= Capacity
    BY <1>1, <2>1, <2>2 DEF Typed
  <2>4. UNCHANGED <<version, now, reading, questions, conn, handler, status, notes, muted,
                    failed, live, alerts>>
    BY <1>16 DEF Open, Close
  <2> QED
    BY <1>1, <2>3, <2>4 DEF Typed
<1>17. CASE SaveSettings
  BY <1>1, <1>17 DEF SaveSettings, Typed
<1>18. CASE MarkAllRead \/ \E n \in notes : MarkRead(n)
  <2>1. \A n \in notes : [n EXCEPT !.read = TRUE] \in [of: Questions, read: BOOLEAN]
    <3> TAKE n \in notes
    <3>1. n \in [of: Questions, read: BOOLEAN]
      BY <1>1 DEF Typed
    <3> QED
      BY <3>1
  <2>2. \A m \in notes' : m \in notes \/ \E n \in notes : m = [n EXCEPT !.read = TRUE]
    BY <1>18, Zenon DEF MarkAllRead, MarkRead
  <2>3. notes' \subseteq [of: Questions, read: BOOLEAN]
    BY <1>1, <2>1, <2>2, Zenon DEF Typed
  <2> QED
    BY <1>1, <1>18, <2>3 DEF MarkAllRead, MarkRead, Typed
<1>19. CASE UNCHANGED vars
  BY <1>1, <1>19 DEF vars, Typed
<1> QED
  BY <1>2, <1>3, <1>4, <1>5, <1>6, <1>7, <1>8, <1>10, <1>11, <1>12, <1>13, <1>14, <1>15, <1>16,
     <1>17, <1>18, <1>19 DEF Next, Handle, HandleStatus, Notify

\* In the initial states nothing is in anybody's hands.
LEMMA InitRaised == Init => IInv
<1> SUFFICES ASSUME Init PROVE IInv
  OBVIOUS
<1> USE ConstantsAssumption DEF Init
<1>1. TypeOK
  <2>1. Typed
    BY DEF Typed, Handling, Rest, Versions, Times, Reports
  <2> QED
    BY <2>1, TypeParts
<1>2. \A c \in Conns : ~InHand(c)
  BY DEF InHand, Rest
<1>3. Stored = {} /\ Alerted = {}
  BY DEF Stored, Alerted
<1> QED
  BY <1>1, <1>2, <1>3 DEF IInv, RaisedWhole, InOneHand

\* A step that raises nothing: no question changes hands, no row appears or goes, and
\* the dashboard is sent no notification.
LEMMA Quiet ==
    ASSUME RaisedWhole, InOneHand,
           UNCHANGED <<questions, muted, failed>>, Stored' = Stored,
           \A m, n \in notes' : m.of = n.of => m = n,
           Alerted' \subseteq Alerted,
           \A c \in Conns : InHand(c) \/ InHand(c)' => handler'[c] = handler[c]
    PROVE  RaisedWhole' /\ InOneHand'
<1>1. \A c \in Conns : /\ InHand(c)' = InHand(c)
                       /\ InHand(c) => /\ Frame(c)' = Frame(c)
                                       /\ At(c, "create")' = At(c, "create")
  BY DEF InHand, Frame
<1>2. Notifying' = Notifying
  BY <1>1 DEF Notifying, InHand
<1>3. RaisedWhole'
  BY <1>2 DEF RaisedWhole
<1>4. InOneHand'
  BY <1>1 DEF InOneHand
<1> QED
  BY <1>3, <1>4

\* The notifications page is behind no notification that the dashboard was sent, and
\* whatever is raised was asked before.
LEMMA AlertedAsked ==
    ASSUME TypeOK, RaisedWhole, InOneHand
    PROVE  Alerted \subseteq 1..questions
<1>1. Notifying \subseteq 1..questions
  BY DEF Notifying, InOneHand, InHand
<1> QED
  BY <1>1 DEF RaisedWhole, InOneHand

\* Marking rows read keeps them apart.
LEMMA MarkingKeepsRows ==
    ASSUME TypeOK, RaisedWhole, MarkAllRead \/ \E n \in notes : MarkRead(n)
    PROVE  Stored' = Stored /\ \A m, n \in notes' : m.of = n.of => m = n
<1> DEFINE Marked(n) == [n EXCEPT !.read = TRUE]
<1>1. ASSUME NEW n \in notes PROVE Marked(n).of = n.of
  <2>1. n \in [of: Questions, read: BOOLEAN]
    BY DEF TypeOK
  <2>2. "of" \in DOMAIN n
    BY <2>1
  <2> QED
    BY <2>2
<1>2. \A m, n \in notes : m.of = n.of => m = n
  BY DEF RaisedWhole
<1> HIDE DEF Marked
<1>3. CASE MarkAllRead
  <2>1. notes' = {Marked(n) : n \in notes}
    BY <1>3 DEF MarkAllRead, Marked
  <2>2. ASSUME NEW m \in notes', NEW k \in notes', m.of = k.of PROVE m = k
    <3>1. PICK n \in notes, j \in notes : m = Marked(n) /\ k = Marked(j)
      BY <2>1
    <3>2. n = j
      BY <1>1, <1>2, <2>2, <3>1
    <3> QED
      BY <3>1, <3>2
  <2>3. \A x : x \in Stored' <=> x \in Stored
    BY <1>1, <2>1, Zenon DEF Stored
  <2> QED
    BY <2>2, <2>3
<1>4. ASSUME NEW n \in notes, MarkRead(n)
      PROVE  Stored' = Stored /\ \A m, k \in notes' : m.of = k.of => m = k
  <2>1. notes' = (notes \ {n}) \cup {Marked(n)}
    BY <1>4 DEF MarkRead, Marked
  <2>2. Marked(n).of = n.of
    BY <1>1
  <2>3. \A m \in notes' : m = Marked(n) \/ m \in notes \ {n}
    BY <2>1
  <2>4. \A m, k \in notes' : m.of = k.of => m = k
    BY <1>2, <2>2, <2>3
  <2>5. \A x : x \in Stored' <=> x \in Stored
    BY <2>1, <2>2, Zenon DEF Stored
  <2> QED
    BY <2>4, <2>5
<1> QED
  BY <1>3, <1>4

\* No step raises a question twice, or by halves.
LEMMA RaisedStep == IInv /\ [Next]_vars => RaisedWhole' /\ InOneHand'
<1> SUFFICES ASSUME IInv, [Next]_vars PROVE RaisedWhole' /\ InOneHand'
  OBVIOUS
<1> USE ConstantsAssumption DEF agent, rows, dashboard
<1>1. TypeOK /\ RaisedWhole /\ InOneHand
  BY DEF IInv
<1>2. \A m, n \in notes : m.of = n.of => m = n
  BY <1>1 DEF RaisedWhole
<1>3. CASE UNCHANGED <<questions, handler, rows, dashboard>>
  BY <1>1, <1>2, <1>3, Quiet DEF Stored, Alerted, InHand
<1>4. CASE \/ Change \/ Tick \/ Disconnect \/ (\E c \in Conns : Connect(c))
           \/ (\E g \in Senders : ReadState(g)) \/ UNCHANGED vars
  BY <1>3, <1>4 DEF Change, Tick, ReadState, Disconnect, Connect, vars
<1>5. ASSUME NEW g \in Senders, SendStatus(g) PROVE RaisedWhole' /\ InOneHand'
  <2>1. UNCHANGED <<questions, rows, dashboard>>
    BY <1>5 DEF SendStatus
  <2>2. \A c \in Conns : InHand(c) \/ InHand(c)' => handler'[c] = handler[c]
    BY <1>1, <1>5 DEF SendStatus, Receive, InHand, TypeOK
  <2> QED
    BY <1>1, <1>2, <2>1, <2>2, Quiet DEF Stored, Alerted
<1>6. CASE Ask
  <2>1. PICK c \in Conns : c = conn
    BY <1>1, <1>6 DEF Ask, Receive, TypeOK
  <2>2. /\ At(c, "rest")
        /\ handler' = [handler EXCEPT ![c] =
              [step |-> "settings", frame |-> [type |-> "TASK_WAITING", of |-> questions + 1]]]
        /\ questions' = questions + 1 /\ questions \in Nat
        /\ UNCHANGED <<rows, dashboard>>
    BY <1>1, <1>6, <2>1 DEF Ask, Receive, TypeOK
  <2>3. /\ handler'[c] = [step |-> "settings",
                          frame |-> [type |-> "TASK_WAITING", of |-> questions + 1]]
        /\ \A d \in Conns \ {c} : handler'[d] = handler[d]
    BY <1>1, <2>2 DEF TypeOK
  <2>4. Stored' = Stored /\ Alerted' = Alerted /\ UNCHANGED <<notes, muted, failed>>
    BY <2>2 DEF Stored, Alerted
  <2>5. questions + 1 \notin Alerted \cup muted \cup Stored \cup failed
    BY <1>1, <2>2, AlertedAsked DEF InOneHand
  <2>6. Notifying' = Notifying
    BY <2>2, <2>3 DEF Notifying, Frame
  <2>7. RaisedWhole'
    BY <1>1, <2>4, <2>6 DEF RaisedWhole
  <2>8. \A d \in Conns : InHand(d) => Frame(d).of # questions + 1
    BY <1>1, <2>2 DEF InOneHand
  <2>9. Frame(c)'.of = questions + 1 /\ ~At(c, "create")'
    BY <2>3 DEF Frame
  <2>10. \A d \in Conns \ {c} :
            /\ InHand(d)' = InHand(d) /\ Frame(d)' = Frame(d)
            /\ At(d, "create")' = At(d, "create")
    BY <2>3 DEF InHand, Frame
  <2>11. \A q : q \in 1..questions \/ q = questions + 1 => q \in 1..questions'
    BY <2>2
  <2>12. InOneHand'
    BY <1>1, <2>4, <2>5, <2>8, <2>9, <2>10, <2>11 DEF InOneHand
  <2> QED
    BY <2>7, <2>12
<1>7. ASSUME NEW c \in Conns, SaveStatus(c) \/ SaveFails(c) \/ ForwardLost(c)
      PROVE  RaisedWhole' /\ InOneHand'
  <2>1. UNCHANGED <<questions, notes, muted, failed, dashboard>>
    BY <1>7 DEF SaveStatus, SaveFails, ForwardLost
  <2>2. ~InHand(c) /\ (Goto(c, "forward") \/ Done(c))
    BY <1>7 DEF SaveStatus, SaveFails, ForwardLost, InHand
  <2>3. /\ handler'[c].step \in {"forward", "rest"}
        /\ \A d \in Conns \ {c} : handler'[d] = handler[d]
    <3>1. CASE Goto(c, "forward")
      BY <1>1, <3>1, Moved
    <3>2. CASE Done(c)
      BY <1>1, <3>2, Rested DEF Rest
    <3> QED
      BY <2>2, <3>1, <3>2
  <2>4. ~InHand(c)'
    BY <2>3 DEF InHand
  <2> QED
    BY <1>1, <1>2, <2>1, <2>2, <2>3, <2>4, Quiet DEF Stored, Alerted
<1>8. ASSUME NEW c \in Conns, Forward(c) PROVE RaisedWhole' /\ InOneHand'
  <2>1. Frame(c) \in Statuses \cup Waits
    BY <1>1, <1>8, HandledFrame DEF Forward
  <2>2. Frame(c) \in Events /\ Frame(c).type # "NOTIFICATION"
    BY <2>1 DEF Events, Statuses, Waits
  <2>3. UNCHANGED alerts
        /\ \A k \in DOMAIN queue' :
              queue'[k] = Frame(c) \/ \E j \in DOMAIN queue : queue'[k] = queue[j]
    BY <1>1, <1>8, <2>2, Heard DEF Forward
  <2>4. Alerted' \subseteq Alerted
    BY <2>2, <2>3, AlertedAfter
  <2>5. ~InHand(c) /\ ~InHand(c)' /\ \A d \in Conns \ {c} : handler'[d] = handler[d]
    BY <1>1, <1>8, Rested DEF Forward, InHand, Rest
  <2>6. UNCHANGED <<questions, notes, muted, failed>>
    BY <1>8 DEF Forward
  <2> QED
    BY <1>1, <1>2, <2>4, <2>5, <2>6, Quiet DEF Stored
<1>9. CASE Show
  <2>1. UNCHANGED <<questions, handler, notes, muted, failed>>
    BY <1>9 DEF Show
  <2> QED
    BY <1>1, <1>2, <1>9, <2>1, AlertedByShow, Quiet DEF Stored, InHand
<1>10. CASE Open \/ Close \/ SaveSettings
  <2>1. UNCHANGED <<questions, handler, notes, muted, failed, alerts>>
    BY <1>10 DEF Open, Close, SaveSettings
  <2>2. queue' = queue \/ queue' = << >>
    BY <1>10 DEF Open, Close, SaveSettings
  <2>3. Alerted' \subseteq Alerted
    BY <2>1, <2>2 DEF Alerted
  <2> QED
    BY <1>1, <1>2, <2>1, <2>3, Quiet DEF Stored, InHand
<1>11. CASE MarkAllRead \/ \E n \in notes : MarkRead(n)
  <2>1. UNCHANGED <<questions, handler, muted, failed, dashboard>>
    BY <1>11 DEF MarkAllRead, MarkRead
  <2>2. Stored' = Stored /\ \A m, n \in notes' : m.of = n.of => m = n
    BY <1>1, <1>11, MarkingKeepsRows
  <2> QED
    BY <1>1, <2>1, <2>2, Quiet DEF Alerted, InHand
\* From here on the reader of c has the question q in its hands.
<1>12. ASSUME NEW c \in Conns, NEW step, InHand(c), Goto(c, step)
       PROVE  /\ handler'[c].step = step /\ Frame(c)' = Frame(c)
              /\ Frame(c).of \in (1..questions) \ (muted \cup Stored \cup failed)
              /\ ~At(c, "create") => Frame(c).of \notin Alerted
              /\ \A d \in Conns \ {c} :
                    /\ handler'[d] = handler[d] /\ Frame(d)' = Frame(d)
                    /\ InHand(d)' = InHand(d) /\ At(d, "create")' = At(d, "create")
                    /\ InHand(d) => Frame(d).of # Frame(c).of
  <2>1. /\ handler'[c].step = step /\ handler'[c].frame = handler[c].frame
        /\ \A d \in Conns \ {c} : handler'[d] = handler[d]
    BY <1>1, <1>12, Moved
  <2>2. \A d \in Conns \ {c} :
           /\ Frame(d)' = Frame(d)
           /\ InHand(d)' = InHand(d) /\ At(d, "create")' = At(d, "create")
    BY <2>1 DEF Frame, InHand
  <2>3. \A d \in Conns \ {c} : InHand(d) => Frame(d).of # Frame(c).of
    BY <1>1, <1>12 DEF InOneHand
  <2>4. Frame(c)' = Frame(c)
    BY <2>1 DEF Frame
  <2> QED
    BY <1>1, <1>12, <2>1, <2>2, <2>3, <2>4 DEF InOneHand
<1>13. ASSUME NEW c \in Conns, ConsultSettings(c) PROVE RaisedWhole' /\ InOneHand'
  <2>1. InHand(c) /\ ~At(c, "create") /\ UNCHANGED <<questions, notes, failed, dashboard>>
    BY <1>13 DEF ConsultSettings, InHand
  <2>2. Stored' = Stored /\ Alerted' = Alerted
    BY <2>1 DEF Stored, Alerted
  <2>3. CASE Goto(c, "deliver") /\ UNCHANGED muted
    <3>1. handler'[c].step = "deliver" /\ InHand(c)' /\ ~At(c, "create")'
      BY <1>12, <2>1, <2>3 DEF InHand
    <3>2. Notifying' = Notifying
      BY <1>12, <2>1, <2>3, <3>1 DEF Notifying
    <3>3. RaisedWhole'
      BY <1>1, <2>1, <2>2, <2>3, <3>2 DEF RaisedWhole
    <3>4. InOneHand'
      BY <1>1, <1>12, <2>1, <2>2, <2>3, <3>1 DEF InOneHand
    <3> QED
      BY <3>3, <3>4
  <2>4. CASE muted' = muted \cup {Frame(c).of} /\ Goto(c, "forward")
    <3>1. handler'[c].step = "forward" /\ ~InHand(c)' /\ ~At(c, "create")'
      BY <1>12, <2>1, <2>4 DEF InHand
    <3>2. Notifying' = Notifying
      BY <1>12, <2>1, <2>4, <3>1 DEF Notifying
    <3>3. RaisedWhole'
      BY <1>1, <1>12, <2>1, <2>2, <2>4, <3>2 DEF RaisedWhole
    <3>4. InOneHand'
      BY <1>1, <1>12, <2>1, <2>2, <2>4, <3>1 DEF InOneHand
    <3> QED
      BY <3>3, <3>4
  <2> QED
    BY <1>13, <2>3, <2>4 DEF ConsultSettings
<1>14. ASSUME NEW c \in Conns, Deliver(c) PROVE RaisedWhole' /\ InOneHand'
  <2>1. /\ InHand(c) /\ ~At(c, "create") /\ Goto(c, "create")
        /\ UNCHANGED <<questions, notes, muted, failed>>
    BY <1>14 DEF Deliver, InHand
  <2> DEFINE event == [type |-> "NOTIFICATION", of |-> Frame(c).of]
  <2>2. Frame(c).of \in Questions
    BY <1>1, <2>1, HandledFrame DEF Waits
  <2>3. event \in Events
    BY <2>2 DEF Events, Notices
  <2>4. UNCHANGED alerts
        /\ \A k \in DOMAIN queue' :
              queue'[k] = event \/ \E j \in DOMAIN queue : queue'[k] = queue[j]
    BY <1>1, <1>14, <2>3, Heard DEF Deliver
  <2>5. Alerted' \subseteq Alerted \cup {Frame(c).of}
    BY <2>4, AlertedAfter
  <2>6. Stored' = Stored
    BY <2>1 DEF Stored
  <2>7. handler'[c].step = "create" /\ InHand(c)' /\ At(c, "create")'
    BY <1>12, <2>1 DEF InHand
  <2>8. Notifying' = Notifying \cup {Frame(c).of}
    BY <1>12, <2>1, <2>7 DEF Notifying
  <2>9. RaisedWhole'
    BY <1>1, <1>12, <2>1, <2>5, <2>6, <2>8 DEF RaisedWhole
  <2>10. InOneHand'
    BY <1>1, <1>12, <2>1, <2>5, <2>6, <2>7 DEF InOneHand
  <2> QED
    BY <2>9, <2>10
\* Its row is inserted, or is not: in both cases nobody has it in hand any more.
<1>15. ASSUME NEW c \in Conns, At(c, "create"), Goto(c, "forward"),
              UNCHANGED <<questions, muted, dashboard>>,
              (Stored \cup failed)' = Stored \cup failed \cup {Frame(c).of},
              \A m, n \in notes' : m.of = n.of => m = n
       PROVE  RaisedWhole' /\ InOneHand'
  <2>1. InHand(c)
    BY <1>15 DEF InHand
  <2>2. handler'[c].step = "forward" /\ ~InHand(c)' /\ ~At(c, "create")'
    BY <1>12, <1>15, <2>1 DEF InHand
  <2>3. Alerted' = Alerted
    BY <1>15 DEF Alerted
  <2>4. Notifying \subseteq Notifying' \cup {Frame(c).of}
    BY <1>12, <1>15, <2>1, <2>2 DEF Notifying
  <2>5. Frame(c).of \notin muted
    BY <1>12, <1>15, <2>1
  <2>6. Alerted' \subseteq (Stored \cup failed \cup Notifying)'
    BY <1>1, <1>15, <2>3, <2>4 DEF RaisedWhole
  <2>7. (muted \cap (Alerted \cup Stored \cup failed))' = {}
    BY <1>1, <1>15, <2>3, <2>5 DEF RaisedWhole
  <2>8. RaisedWhole'
    BY <1>15, <2>6, <2>7 DEF RaisedWhole
  <2>9. InOneHand'
    BY <1>1, <1>12, <1>15, <2>1, <2>2, <2>3 DEF InOneHand
  <2> QED
    BY <2>8, <2>9
<1>16. ASSUME NEW c \in Conns, Create(c) PROVE RaisedWhole' /\ InOneHand'
  <2> DEFINE row == [of |-> Frame(c).of, read |-> FALSE]
  <2>1. /\ At(c, "create") /\ Goto(c, "forward") /\ notes' = notes \cup {row}
        /\ UNCHANGED <<questions, muted, failed, dashboard>>
    BY <1>16 DEF Create
  <2>2. row.of = Frame(c).of /\ Frame(c).of \notin Stored
    BY <1>12, <2>1 DEF InHand
  <2> HIDE DEF row
  <2>3. \A x : x \in Stored' <=> x \in Stored \cup {Frame(c).of}
    BY <2>1, <2>2, Zenon DEF Stored
  <2>4. \A m, n \in notes' : m.of = n.of => m = n
    BY <1>2, <2>1, <2>2 DEF Stored
  <2> QED
    BY <1>15, <2>1, <2>3, <2>4
<1>17. ASSUME NEW c \in Conns, CreateFails(c) PROVE RaisedWhole' /\ InOneHand'
  <2>1. /\ At(c, "create") /\ Goto(c, "forward") /\ failed' = failed \cup {Frame(c).of}
        /\ UNCHANGED <<questions, notes, muted, dashboard>>
    BY <1>17 DEF CreateFails
  <2>2. Stored' = Stored
    BY <2>1 DEF Stored
  <2> QED
    BY <1>2, <1>15, <2>1, <2>2
<1> QED
  BY <1>4, <1>5, <1>6, <1>7, <1>8, <1>9, <1>10, <1>11, <1>13, <1>14, <1>16, <1>17
     DEF Next, Report, Handle, HandleStatus, Notify

\* No connection, and no order in which the settings, the dashboard and the rows change,
\* raises a question twice or loses a row of one that was announced.
THEOREM QuestionsAreRaisedWhole == Spec => []IInv
<1>1. IInv /\ [Next]_vars => IInv'
  BY TypeStep, RaisedStep DEF IInv
<1> QED
  BY <1>1, InitRaised, PTL DEF Spec

\* The time of a report is a number.
LEMMA ReportTimes == \A r \in Reports : r.at \in Nat
BY ConstantsAssumption DEF Reports, Times, Nothing

\* The row is never taken back to an earlier report.
LEMMA StatusGrows ==
    TypeOK /\ [Next]_vars => status.at \in Nat /\ status'.at \in Nat /\ status.at <= status'.at
<1> SUFFICES ASSUME TypeOK, [Next]_vars
             PROVE  status.at \in Nat /\ status'.at \in Nat /\ status.at <= status'.at
  OBVIOUS
<1>1. status.at \in Nat
  BY ReportTimes DEF TypeOK, Reports
<1>2. ASSUME NEW c \in Conns, SaveStatus(c) PROVE status'.at \in Nat /\ status.at <= status'.at
  <2>1. Frame(c) \in Statuses
    BY <1>2, HandledFrame DEF SaveStatus
  <2>2. Reported(Frame(c)).at = Frame(c).at /\ Frame(c).at \in Nat
    BY <2>1, ConstantsAssumption DEF Statuses, Times, Reported
  <2> QED
    BY <1>1, <1>2, <2>2 DEF SaveStatus
<1>3. (\A c \in Conns : ~SaveStatus(c)) => UNCHANGED status
  BY Zenon DEF Next, Change, Tick, Report, ReadState, SendStatus, Ask, Disconnect, Connect,
     Handle, HandleStatus, Notify, SaveFails, ConsultSettings, Deliver, Create, CreateFails,
     Forward, ForwardLost, Show, Open, Close, SaveSettings, MarkRead, MarkAllRead, rows, vars
<1> QED
  BY <1>1, <1>2, <1>3

\* What goes to a dashboard after the row is read or written is not ahead of it.
LEMMA FrameNotAhead ==
    ASSUME TypeOK, PageNotBehind, NEW c \in Conns, At(c, "forward")
    PROVE  Frame(c) \in Events /\ (Frame(c).type = "STATUS" => Frame(c).at <= status.at)
<1>1. Frame(c) \in Statuses \cup Waits
  BY HandledFrame
<1> QED
  BY <1>1 DEF PageNotBehind, Events, Statuses, Waits

\* What a step may do with a reader: nothing, hand it a frame, let it save a status, let it
\* go on with a question, or let it rest.
LEMMA ReaderGoesOn ==
    ASSUME TypeOK, [Next]_vars, NEW c \in Conns
    PROVE  \/ handler'[c] = handler[c]
           \/ handler'[c].step \in {"rest", "save", "settings"}
           \/ SaveStatus(c)
           \/ InHand(c) /\ \E step \in {"deliver", "create", "forward"} : Goto(c, step)
<1>1. CASE UNCHANGED handler
  BY <1>1
<1>2. CASE Ask \/ \E g \in Senders : SendStatus(g)
  BY <1>2 DEF SendStatus, Ask, Receive, TypeOK
<1>3. ASSUME NEW d \in Conns, Handle(d), d # c PROVE handler'[c] = handler[c]
  <2>1. Done(d) \/ \E step : Goto(d, step)
    BY <1>3 DEF Handle, HandleStatus, Notify, SaveStatus, SaveFails, ConsultSettings, Deliver,
       Create, CreateFails, Forward, ForwardLost
  <2> QED
    BY <1>3, <2>1, Moved, Rested
<1>4. CASE SaveFails(c) \/ Forward(c) \/ ForwardLost(c)
  BY <1>4, Rested DEF SaveFails, Forward, ForwardLost, Rest
<1>5. CASE Notify(c)
  BY <1>5 DEF Notify, ConsultSettings, Deliver, Create, CreateFails, InHand
<1>6. \/ UNCHANGED handler
      \/ Ask \/ \E g \in Senders : SendStatus(g)
      \/ \E d \in Conns : Handle(d)
  BY Zenon DEF Next, Change, Tick, Report, ReadState, Disconnect, Connect, Show, Open, Close,
     SaveSettings, MarkRead, MarkAllRead, vars
<1> QED
  BY <1>1, <1>2, <1>3, <1>4, <1>5, <1>6 DEF Handle, HandleStatus

\* No frame on its way to a dashboard, and nothing it shows, comes to be ahead of the row.
LEMMA PageStep == TypeOK /\ PageNotBehind /\ [Next]_vars => PageNotBehind'
<1> SUFFICES ASSUME TypeOK, PageNotBehind, [Next]_vars PROVE PageNotBehind'
  OBVIOUS
<1> USE DEF agent, rows, dashboard
<1> DEFINE Behind(e) == e.type = "STATUS" => e.at <= status.at
           Shown == live.at <= status.at /\ \A k \in DOMAIN queue : Behind(queue[k])
<1>1. /\ status.at \in Nat /\ status'.at \in Nat /\ status.at <= status'.at
      /\ live.at \in Nat /\ live.at <= status.at
      /\ \A k \in DOMAIN queue : queue[k] \in Events /\ Behind(queue[k])
  BY StatusGrows, ReportTimes DEF TypeOK, Events, Reports, PageNotBehind
<1>2. \A e \in Events : Behind(e) => (Behind(e))'
  BY <1>1, ConstantsAssumption DEF Events, Statuses, Waits, Notices, Times
<1>3. ASSUME NEW e \in Events, Behind(e), Hear(e) \/ Unheard
      PROVE  UNCHANGED live /\ \A k \in DOMAIN queue' : (Behind(queue[k]))'
  BY <1>1, <1>2, <1>3, Heard
<1>4. Shown'
  <2>1. CASE UNCHANGED <<live, queue>> \/ (UNCHANGED live /\ queue' = << >>)
    BY <1>1, <1>2, <2>1
  <2>2. ASSUME NEW c \in Conns, Deliver(c) PROVE Shown'
    <3>1. Frame(c).of \in Questions
      BY <2>2, HandledFrame DEF Deliver, InHand, Waits
    <3>2. [type |-> "NOTIFICATION", of |-> Frame(c).of] \in Events
      BY <3>1 DEF Events, Notices
    <3> QED
      BY <1>1, <1>3, <2>2, <3>2 DEF Deliver
  <2>3. ASSUME NEW c \in Conns, Forward(c) PROVE Shown'
    BY <1>1, <1>3, <2>3, FrameNotAhead DEF Forward
  <2>4. CASE Show
    <3>1. queue \in Seq(Events) /\ queue # <<>> /\ queue' = Tail(queue)
      BY <2>4 DEF TypeOK, Show, Events
    <3>2. /\ Head(queue) \in Events /\ Behind(Head(queue))
          /\ \A k \in DOMAIN queue' : \E j \in DOMAIN queue : queue'[k] = queue[j]
      BY <1>1, <3>1, Taken
    <3>3. \/ live' = Reported(Head(queue)) /\ Head(queue).type = "STATUS"
          \/ UNCHANGED live
      BY <2>4 DEF Show
    <3>5. Reported(Head(queue)).at = Head(queue).at
      BY DEF Reported
    <3>4. UNCHANGED status
      BY <2>4 DEF Show
    <3> QED
      BY <1>1, <1>2, <3>2, <3>3, <3>4, <3>5
  <2>5. \/ \E c \in Conns : Deliver(c) \/ Forward(c)
        \/ Show
        \/ UNCHANGED <<live, queue>> \/ (UNCHANGED live /\ queue' = << >>)
    BY Zenon DEF Next, Change, Tick, Report, ReadState, SendStatus, Ask, Disconnect, Connect,
       Handle, HandleStatus, Notify, SaveStatus, SaveFails, ConsultSettings, Create, CreateFails,
       ForwardLost, Open, Close, SaveSettings, MarkRead, MarkAllRead, vars
  <2> QED
    BY <2>1, <2>2, <2>3, <2>4, <2>5
<1>5. ASSUME NEW c \in Conns, At(c, "forward")', Frame(c)' \in Statuses
      PROVE  (Frame(c).at <= status.at)'
  <2>1. CASE handler'[c] = handler[c]
    <3>1. Frame(c)' = Frame(c) /\ At(c, "forward") /\ Frame(c).at \in Nat
      BY <1>5, <2>1, ConstantsAssumption DEF Frame, Statuses, Times
    <3>2. Frame(c).at <= status.at
      BY <1>5, <3>1 DEF PageNotBehind
    <3> QED
      BY <1>1, <3>1, <3>2
  <2>2. CASE SaveStatus(c)
    <3>1. /\ Goto(c, "forward")
          /\ status' = IF status.at <= Frame(c).at THEN Reported(Frame(c)) ELSE status
      BY <2>2 DEF SaveStatus
    <3>2. Frame(c)' = Frame(c)
      BY <3>1, Moved DEF Frame
    <3>3. Frame(c).at \in Nat /\ Reported(Frame(c)).at = Frame(c).at
      BY <1>5, <3>2, ConstantsAssumption DEF Statuses, Times, Reported
    <3> QED
      BY <1>1, <3>1, <3>2, <3>3
  <2>3. CASE InHand(c) /\ \E step \in {"deliver", "create", "forward"} : Goto(c, step)
    <3>1. Frame(c)' = Frame(c)
      BY <2>3, Moved DEF Frame
    <3> QED
      BY <1>5, <2>3, <3>1, HandledFrame DEF Statuses, Waits
  <2>4. CASE handler'[c].step \in {"rest", "save", "settings"}
    BY <1>5, <2>4
  <2> QED
    BY <2>1, <2>2, <2>3, <2>4, ReaderGoesOn
<1> QED
  BY <1>4, <1>5 DEF PageNotBehind

\* The row is never of an earlier time than what a dashboard was shown of it, or will be,
\* however many goroutines stamp their reports late and whichever connections bring them.
THEOREM PageIsNotBehind == Spec => []PageNotBehind
<1>1. Init => PageNotBehind
  BY DEF Init, PageNotBehind, Rest, Nothing
<1>2. IInv /\ PageNotBehind /\ [Next]_vars => PageNotBehind'
  BY PageStep DEF IInv
<1> QED
  BY <1>1, <1>2, QuestionsAreRaisedWhole, PTL DEF Spec

=============================================================================
