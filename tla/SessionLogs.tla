------------------------------ MODULE SessionLogs ------------------------------
(***************************************************************************)
(* The transcript of a session: the agent collects the lines of the coding *)
(* agent in batches (agent/internal/session/manager.go), its transport     *)
(* brings them over one connection after another, the gateway stores them  *)
(* (backend/internal/app/session.go and adapter/postgres), and a dashboard *)
(* reads them page by page (adapter/http/handlers.go).                     *)
(*                                                                         *)
(* A line is its number in the order the coding agent wrote it.  Frames    *)
(* carry the ID of a session that has a row: the consumer of the output,   *)
(* which alone fills the buffer, is started after the ID was set.          *)
(***************************************************************************)
EXTENDS Integers, Sequences, FiniteSets, SequencesExt, FiniteSetsExt

CONSTANTS
    Conns,       \* connections of the agent, each reused when nothing of it is left
    Streams,     \* stdout and stderr
    MaxLines,    \* bound on the lines written
    BatchSize,   \* session.log_batch_size
    Capacity,    \* of the transport's buffer
    MaxPage,     \* maxPageLimit of the stores
    DefaultPage, \* defaultPageLimit
    Limits,      \* limits a dashboard asks for
    MaxRetries,  \* bound on the writes that fail
    NoConn

ASSUME ConstantsAssumption ==
    /\ IsFiniteSet(Conns) /\ NoConn \notin Conns
    /\ MaxLines \in Nat /\ MaxRetries \in Nat
    /\ BatchSize \in Nat \ {0} /\ Capacity \in Nat \ {0} /\ MaxPage \in Nat \ {0}
    /\ DefaultPage \in 1..MaxPage
    /\ Limits \subseteq Nat

VARIABLES
    streams, \* the stream of each line written so far
    buffer,  \* Manager.logBuf
    outbox,  \* Client.outbound
    hand,    \* per connection, the LOG frame its writer has taken out of the outbox
    conn,    \* the connection frames are written to
    socket,  \* per connection, frames the gateway has not read
    handler, \* per connection, what AppendLogs is doing
    table,   \* session_logs: the line stored under each sequence number
    retries, \* writes that failed so far
    dropped, \* lines given up because a buffer was full
    lost,    \* lines given up for another reason the code names
    calm,    \* no connection was lost and no statement failed
    emptied, \* the retention job removed every row, once at least
    next,    \* the reader's after_seq
    seen     \* sequence numbers of the rows it was sent

agent   == <<streams, buffer>>
link    == <<hand, conn, socket, retries>>
backend == <<handler, table, lost, emptied>>
reader  == <<next, seen>>
vars == <<streams, buffer, outbox, hand, conn, socket, handler, table, retries, dropped,
          lost, calm, emptied, next, seen>>

Lines == 1..Len(streams)
Rest  == [step |-> "rest", frame |-> <<>>, base |-> 0]

\* A LOG frame is its lines; a frame of another kind has none.
Other == <<>>

-----------------------------------------------------------------------------
(***************************************************************************)
(* The agent.                                                              *)
(***************************************************************************)
Full == Len(outbox) >= Capacity

\* Send, here one step (AgentTransport takes it apart): there is room; or the oldest frame
\* goes, and either the new one takes the place or the frame of another sender, which was
\* faster, and then the new one goes too: the error is ignored.
Send(frame) ==
    \/ /\ ~Full
       /\ outbox' = Append(outbox, frame)
       /\ UNCHANGED dropped
    \/ /\ Full
       /\ outbox' = Append(Tail(outbox), frame)
       /\ dropped' = dropped \cup Range(Head(outbox))
    \/ /\ Full
       /\ outbox' = Append(Tail(outbox), Other)
       /\ dropped' = dropped \cup Range(Head(outbox)) \cup Range(frame)

\* STATUS, ACK, PING and the others share the outbox.
SendOther ==
    /\ Send(Other)
    /\ UNCHANGED <<agent, link, backend, calm, reader>>

WriteLine(s) ==
    /\ Len(streams) < MaxLines
    /\ streams' = Append(streams, s)

\* readStream finds the output channel full, its consumer being that far behind.  A line
\* that finds room there keeps its place until appendLog: the channel itself is left out.
DropLine(s) ==
    /\ WriteLine(s)
    /\ dropped' = dropped \cup {Len(streams) + 1}
    /\ UNCHANGED <<buffer, outbox, link, backend, calm, reader>>

\* Every batch is of one stream.
SameStream(s) == buffer # <<>> => streams[Last(buffer)] = s
Batch == Append(buffer, Len(streams) + 1)

\* Faulty: lines of both streams share a batch.
AppendLogMixed(s) ==
    /\ WriteLine(s)
    /\ IF Len(Batch) >= BatchSize
       THEN Send(Batch) /\ buffer' = <<>>
       ELSE buffer' = Batch /\ UNCHANGED <<outbox, dropped>>
    /\ UNCHANGED <<link, backend, calm, reader>>

\* appendLog: a line of the other stream flushes what is there (batches are then longer
\* than one line, so that it waits itself), a full batch is flushed with the line.
AppendLog(s) ==
    /\ WriteLine(s)
    /\ \/ /\ ~SameStream(s)
          /\ Send(buffer)
          /\ buffer' = <<Len(streams) + 1>>
       \/ /\ SameStream(s) /\ Len(Batch) >= BatchSize
          /\ Send(Batch)
          /\ buffer' = <<>>
       \/ /\ SameStream(s) /\ Len(Batch) < BatchSize
          /\ buffer' = Batch
          /\ UNCHANGED <<outbox, dropped>>
    /\ UNCHANGED <<link, backend, calm, reader>>

\* The ticker of flushLoop.
Flush ==
    /\ buffer # <<>>
    /\ Send(buffer)
    /\ buffer' = <<>>
    /\ UNCHANGED <<streams, link, backend, calm, reader>>

-----------------------------------------------------------------------------
(***************************************************************************)
(* The transport between them.                                             *)
(***************************************************************************)
Connect(c) ==
    /\ conn = NoConn
    /\ socket[c] = <<>> /\ hand[c] = <<>>
    /\ conn' = c
    /\ UNCHANGED <<agent, outbox, hand, socket, retries, dropped, backend, calm, reader>>

\* Frames of other kinds go their own way.
Take(c) ==
    /\ conn = c /\ hand[c] = <<>> /\ outbox # <<>>
    /\ hand' = [hand EXCEPT ![c] = Head(outbox)]
    /\ outbox' = Tail(outbox)
    /\ UNCHANGED <<agent, conn, socket, retries, dropped, backend, calm, reader>>

Write(c) ==
    /\ conn = c /\ hand[c] # <<>>
    /\ socket' = [socket EXCEPT ![c] = Append(@, hand[c])]
    /\ hand' = [hand EXCEPT ![c] = <<>>]
    /\ UNCHANGED <<agent, outbox, conn, retries, dropped, backend, calm, reader>>

\* The connection is lost: the gateway reads what has arrived, the rest is gone.  The
\* frame that is being written, whose write fails, may be the last to arrive.
Disconnect(c) ==
    LET writing == hand[c] # <<>>
        sent    == IF writing THEN Append(socket[c], hand[c]) ELSE socket[c]
    IN  /\ conn = c
        /\ writing => retries < MaxRetries
        /\ retries' = IF writing THEN retries + 1 ELSE retries
        /\ conn' = NoConn
        /\ \E n \in 0..Len(sent) :
              /\ socket' = [socket EXCEPT ![c] = SubSeq(sent, 1, n)]
              /\ lost' = lost \cup UNION {Range(socket[c][k]) : k \in n + 1..Len(socket[c])}
        /\ calm' = FALSE
        /\ UNCHANGED <<agent, outbox, hand, dropped, handler, table, emptied, reader>>

\* The writer puts its frame at the back, unless the buffer has filled up meanwhile.
Requeue(c) ==
    /\ conn # c /\ hand[c] # <<>>
    /\ IF Full
       THEN dropped' = dropped \cup Range(hand[c]) /\ UNCHANGED outbox
       ELSE outbox' = Append(outbox, hand[c]) /\ UNCHANGED dropped
    /\ hand' = [hand EXCEPT ![c] = <<>>]
    /\ UNCHANGED <<agent, conn, socket, retries, backend, calm, reader>>

-----------------------------------------------------------------------------
(***************************************************************************)
(* The backend.                                                            *)
(***************************************************************************)
Stored == DOMAIN table

\* Faulty: the rows are counted.
CountRows == Cardinality(Stored)

\* MaxSeq, 0 for a session without rows.
MaxSeq == IF Stored = {} THEN 0 ELSE Max(Stored)

\* AppendLogs, the first statement.
ReadMaxSeq(c) ==
    /\ handler[c] = Rest /\ socket[c] # <<>>
    /\ handler' = [handler EXCEPT ![c] = [step |-> "insert", frame |-> Head(socket[c]),
                                         base |-> MaxSeq]]
    /\ socket' = [socket EXCEPT ![c] = Tail(@)]
    /\ UNCHANGED <<agent, outbox, hand, conn, retries, dropped, table, lost, calm, emptied,
                   reader>>

\* AppendBatch: ON CONFLICT DO NOTHING keeps the row that is there, and the line of the
\* batch that was to have its number is lost.
AppendBatch(c) ==
    LET h   == handler[c]
        new == {h.base + k : k \in DOMAIN h.frame}
    IN  /\ h.step = "insert"
        /\ table' = [k \in Stored \cup new |-> IF k \in Stored THEN table[k]
                                                             ELSE h.frame[k - h.base]]
        /\ lost' = lost \cup {h.frame[k - h.base] : k \in new \cap Stored}
        /\ handler' = [handler EXCEPT ![c] = Rest]
        /\ UNCHANGED <<agent, outbox, link, dropped, calm, emptied, reader>>

\* One of the two statements fails: an ERROR frame, and the agent only logs it.
AppendFails(c) ==
    /\ handler[c].step = "insert"
    /\ lost' = lost \cup Range(handler[c].frame)
    /\ handler' = [handler EXCEPT ![c] = Rest]
    /\ calm' = FALSE
    /\ UNCHANGED <<agent, outbox, link, dropped, table, emptied, reader>>

\* The retention job: rows older than 90 days go, no row is older than one with a
\* smaller number, and no request is as old as that.
DeleteOlderThan(n) ==
    LET old == {k \in Stored : k <= n}
    IN  /\ old # {}
        /\ \A c \in Conns : handler[c].step = "insert" => handler[c].base >= n
        /\ table' = [k \in Stored \ old |-> table[k]]
        /\ lost' = lost \cup {table[k] : k \in old}
        /\ emptied' = (emptied \/ old = Stored)
        /\ UNCHANGED <<agent, outbox, link, dropped, handler, calm, reader>>

-----------------------------------------------------------------------------
(***************************************************************************)
(* A reader.                                                               *)
(***************************************************************************)
ClampLimit(n) == IF n = 0 THEN DefaultPage ELSE IF n > MaxPage THEN MaxPage ELSE n

\* After: the rows that follow, by number, as many as a page holds.
Following == {k \in Stored : k > next}
Page(limit) == {k \in Following : Cardinality({j \in Following : j <= k}) <= ClampLimit(limit)}

\* Faulty: the page after the one that was read, however much of it was sent.
NextPage(limit) ==
    /\ Following # {}
    /\ seen' = seen \cup Page(limit)
    /\ next' = next + ClampLimit(limit)
    /\ UNCHANGED <<agent, outbox, link, dropped, backend, calm>>

\* GetSessionLogs; an empty page leaves next_seq where it was.
GetSessionLogs(limit) ==
    /\ Following # {}
    /\ seen' = seen \cup Page(limit)
    /\ next' = Max(Page(limit))
    /\ UNCHANGED <<agent, outbox, link, dropped, backend, calm>>

\* has_more: the limit that was asked for, not the one that was used, is compared.
HasMore(limit) == Page(limit) # {} /\ Cardinality(Page(limit)) >= limit

-----------------------------------------------------------------------------
Init ==
    /\ streams = <<>>
    /\ buffer = <<>>
    /\ outbox = <<>>
    /\ hand = [c \in Conns |-> <<>>]
    /\ conn = NoConn
    /\ socket = [c \in Conns |-> <<>>]
    /\ handler = [c \in Conns |-> Rest]
    /\ table = <<>>
    /\ retries = 0
    /\ dropped = {}
    /\ lost = {}
    /\ calm = TRUE
    /\ emptied = FALSE
    /\ next = 0
    /\ seen = {}

Connection(c) == Connect(c) \/ Take(c) \/ Write(c) \/ Disconnect(c) \/ Requeue(c)
Handle(c)     == ReadMaxSeq(c) \/ AppendBatch(c)

Next ==
    \/ \E s \in Streams : AppendLog(s) \/ DropLine(s)
    \/ Flush \/ SendOther
    \/ \E c \in Conns : Connection(c) \/ Handle(c) \/ AppendFails(c)
    \/ \E n \in Stored : DeleteOlderThan(n)
    \/ \E limit \in Limits : GetSessionLogs(limit)

Spec == Init /\ [][Next]_vars

-----------------------------------------------------------------------------
(***************************************************************************)
(* Properties.                                                             *)
(***************************************************************************)
\* Type invariant.
Frames    == Seq(Lines)
LogFrames == Frames \ {Other}
TypeOK ==
    /\ streams \in Seq(Streams) /\ Len(streams) <= MaxLines
    /\ buffer \in Seq(Lines) /\ Len(buffer) < BatchSize
    /\ outbox \in Seq(Frames) /\ Len(outbox) <= Capacity
    /\ hand \in [Conns -> Frames]
    /\ conn \in Conns \cup {NoConn}
    /\ socket \in [Conns -> Seq(LogFrames)]
    /\ handler \in [Conns -> {Rest} \cup [step: {"insert"}, frame: LogFrames, base: Nat]]
    /\ Stored \subseteq Nat \ {0} /\ \A k \in Stored : table[k] \in Lines
    /\ retries \in 0..MaxRetries
    /\ dropped \subseteq Lines /\ lost \subseteq Lines
    /\ calm \in BOOLEAN /\ emptied \in BOOLEAN
    /\ next \in Nat
    /\ seen \subseteq Nat

In(frames) == UNION {Range(frames[k]) : k \in DOMAIN frames}
Underway ==
    Range(buffer) \cup In(outbox)
    \cup UNION {Range(hand[c]) \cup In(socket[c]) \cup Range(handler[c].frame) : c \in Conns}

\* Whatever connections, statements and jobs do, a line that was written is on its way,
\* in the transcript, or was lost for a reason: the output channel or the outbox was full,
\* a connection was lost, a statement failed, another connection took its number first,
\* or its age.
NoLineVanishes == Lines = Underway \cup Range(table) \cup dropped \cup lost

\* A batch has one stream, and its lines are in order.
Ordered(f) == \A j, k \in DOMAIN f : j < k => f[j] < f[k] /\ streams[f[j]] = streams[f[k]]
Batches ==
    /\ Ordered(buffer)
    /\ \A k \in DOMAIN outbox : Ordered(outbox[k])
    /\ \A c \in Conns :
          /\ Ordered(hand[c])
          /\ \A k \in DOMAIN socket[c] : Ordered(socket[c][k])
          /\ Ordered(handler[c].frame)

\* Rows are numbered from where the table ended when their batch was looked at: unless it
\* was emptied since, what follows there has been stored by another connection.
Numbered ==
    /\ Stored # {} => \E m \in Stored : \A k \in Stored : k <= m
    /\ emptied \/ next <= MaxSeq
    /\ emptied \/ \A c \in Conns : handler[c].step = "insert" =>
          handler[c].base <= MaxSeq /\ handler[c].base + 1..MaxSeq \subseteq Stored

\* Without a fault there is one connection, and lines pass one another nowhere.
Before(a, b)  == \A j \in a, k \in b : j < k
Sorted(frames) ==
    \A j, k \in DOMAIN frames : j < k => Before(Range(frames[j]), Range(frames[k]))
Waiting == In(outbox) \cup Range(buffer)
InSequence ==
    calm =>
        /\ \A c \in Conns \ {conn} : socket[c] = <<>> /\ hand[c] = <<>> /\ handler[c] = Rest
        /\ Before(Range(table) \cup lost, Underway)
        /\ Sorted(outbox) /\ Before(In(outbox), Range(buffer))
        /\ \A c \in Conns :
              /\ Before(Range(hand[c]), Waiting)
              /\ Sorted(socket[c]) /\ Before(In(socket[c]), Range(hand[c]) \cup Waiting)
              /\ Before(Range(handler[c].frame), In(socket[c]) \cup Range(hand[c]) \cup Waiting)
              /\ handler[c].step = "insert" => \A k \in Stored : k <= handler[c].base

IInv == TypeOK /\ NoLineVanishes /\ Batches /\ Numbered /\ InSequence

\* While no connection is lost and no statement fails, the transcript is what was written
\* but for the lines that full buffers dropped: rows are in the order of the lines, each
\* line once, and of the others only age removes one.
CalmTranscript ==
    calm => /\ \A j, k \in Stored : j < k => table[j] < table[k]
            /\ \A l \in lost : \A k \in Stored : l < table[k]

\* A reader that goes on where its last page ended skips no row, although connections
\* that overlap store rows while it reads.
ReaderSkipsNothing == emptied \/ \A k \in Stored : k <= next => k \in seen

(***************************************************************************)
(* What the documentation says and the code does not do.                   *)
(***************************************************************************)
\* session_store.go:195 "a batch redelivered after a reconnect is discarded rather than
\* duplicating the transcript."
RedeliveryIsDiscarded == IsInjective(table)

\* handlers.go:468 "A full page implies more may exist": a reader told that there is no
\* more has all that was there.
LastPageIsLast ==
    [][\A limit \in Limits :
          GetSessionLogs(limit) /\ ~HasMore(limit) => \A k \in Stored : k <= next']_vars

=============================================================================
