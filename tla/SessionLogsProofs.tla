--------------------------- MODULE SessionLogsProofs ---------------------------
(***************************************************************************)
(* Proofs about SessionLogs, for any number of connections, lines, streams *)
(* and readers' limits, and any sizes of batches, buffers and pages.       *)
(***************************************************************************)
EXTENDS SessionLogs, FiniteSetTheorems, WellFoundedInduction, TLAPS

-----------------------------------------------------------------------------
(***************************************************************************)
(* Numbers, batches and queues of batches.                                 *)
(***************************************************************************)
\* Every nonempty set of numbers has a least one.
LEMMA LeastNumber ==
    ASSUME NEW S \in SUBSET Nat, S # {}
    PROVE  \E m \in S : \A k \in S : m <= k
<1>1. IsWellFoundedOn(OpToRel(<, Nat), Nat)
  BY NatLessThanWellFounded
<1>2. PICK m \in S : \A k \in S : <<k, m>> \notin OpToRel(<, Nat)
  BY <1>1, WFMin
<1>3. \A k \in S : ~(k < m)
  BY <1>2 DEF OpToRel
<1> QED
  BY <1>3

\* A set of numbers with a bound has a greatest one, and that is its Max.
LEMMA GreatestNumber ==
    ASSUME NEW S \in SUBSET Nat, S # {}, NEW b \in Nat, \A k \in S : k <= b
    PROVE  Max(S) \in S /\ \A k \in S : k <= Max(S)
<1>1. PICK d \in {b - k : k \in S} : \A e \in {b - k : k \in S} : d <= e
  <2>1. \A k \in S : b - k \in Nat
    OBVIOUS
  <2>2. {b - k : k \in S} \in SUBSET Nat /\ {b - k : k \in S} # {}
    BY <2>1
  <2> QED
    BY <2>2, LeastNumber
<1>2. PICK m \in S : d = b - m
  BY <1>1
<1>3. \A k \in S : k <= m
  BY <1>1, <1>2
<1> QED
  BY <1>3 DEF Max

LEMMA RangeIff == \A f, x : x \in Range(f) <=> \E k \in DOMAIN f : x = f[k]
BY Zenon DEF Range

LEMMA InIff == \A frames, x : x \in In(frames) <=> \E k \in DOMAIN frames : x \in Range(frames[k])
BY Zenon DEF In

LEMMA NothingIn == Range(<< >>) = {} /\ In(<< >>) = {}
<1>1. DOMAIN << >> = {}
  OBVIOUS
<1> QED
  BY <1>1, RangeIff, InIff

\* A sequence over a set is one over any larger set.
LEMMA SeqGrows == ASSUME NEW S, NEW T, S \subseteq T PROVE Seq(S) \subseteq Seq(T)
OBVIOUS

\* What an append adds to a sequence, element by element.
LEMMA Appended ==
    ASSUME NEW S, NEW q \in Seq(S), NEW e \in S
    PROVE  /\ Append(q, e) \in Seq(S) /\ Len(Append(q, e)) = Len(q) + 1 /\ Len(q) \in Nat
           /\ DOMAIN q = 1..Len(q) /\ DOMAIN Append(q, e) = 1..Len(q) + 1
           /\ \A k \in DOMAIN q : Append(q, e)[k] = q[k]
           /\ Append(q, e)[Len(q) + 1] = e
           /\ \A k \in DOMAIN Append(q, e) : k \in DOMAIN q \/ k = Len(q) + 1
           /\ DOMAIN q \subseteq DOMAIN Append(q, e) /\ Len(q) + 1 \in DOMAIN Append(q, e)
<1>1. /\ Append(q, e) \in Seq(S) /\ Len(Append(q, e)) = Len(q) + 1 /\ Len(q) \in Nat
      /\ DOMAIN q = 1..Len(q) /\ DOMAIN Append(q, e) = 1..Len(q) + 1
      /\ \A k \in DOMAIN q : Append(q, e)[k] = q[k]
      /\ Append(q, e)[Len(q) + 1] = e
  OBVIOUS
<1> QED
  BY <1>1

\* What is left of a sequence, element by element.
LEMMA Taken ==
    ASSUME NEW S, NEW q \in Seq(S), q # << >>
    PROVE  /\ Tail(q) \in Seq(S) /\ Head(q) \in S /\ Head(q) = q[1]
           /\ Len(q) \in Nat /\ DOMAIN q = 1..Len(q) /\ 1 \in DOMAIN q
           /\ \A k \in DOMAIN Tail(q) :
                 /\ k \in Nat \ {0}
                 /\ k + 1 \in DOMAIN q /\ Tail(q)[k] = q[k + 1]
           /\ \A k \in DOMAIN q : k = 1 \/ (k - 1 \in DOMAIN Tail(q) /\ Tail(q)[k - 1] = q[k])
<1>1. /\ Tail(q) \in Seq(S) /\ Head(q) \in S /\ Head(q) = q[1]
      /\ Len(q) \in Nat /\ DOMAIN q = 1..Len(q) /\ 1 \in DOMAIN q
      /\ DOMAIN Tail(q) = 1..Len(q) - 1
      /\ \A k \in 1..Len(q) - 1 : Tail(q)[k] = q[k + 1]
  OBVIOUS
<1>2. \A k \in 1..Len(q) : k = 1 \/ (k - 1 \in 1..Len(q) - 1 /\ Tail(q)[k - 1] = q[k])
  <2> TAKE k \in 1..Len(q)
  <2>1. k # 1 => k - 1 \in 1..Len(q) - 1 /\ (k - 1) + 1 = k
    BY <1>1
  <2> QED
    BY <1>1, <2>1
<1>3. \A k \in DOMAIN Tail(q) : k \in Nat \ {0} /\ k + 1 \in DOMAIN q /\ Tail(q)[k] = q[k + 1]
  BY <1>1
<1> QED
  BY <1>1, <1>2, <1>3

LEMMA RangeOfAppend ==
    ASSUME NEW S, NEW f \in Seq(S), NEW e \in S
    PROVE  Range(Append(f, e)) = Range(f) \cup {e}
<1>1. /\ \A k \in DOMAIN Append(f, e) : k \in DOMAIN f \/ k = Len(f) + 1
      /\ \A k \in DOMAIN f : k \in DOMAIN Append(f, e) /\ Append(f, e)[k] = f[k]
      /\ Len(f) + 1 \in DOMAIN Append(f, e) /\ Append(f, e)[Len(f) + 1] = e
  BY Appended
<1>2. /\ \A x : x \in Range(f) <=> \E k \in DOMAIN f : x = f[k]
      /\ \A x : x \in Range(Append(f, e)) <=> \E k \in DOMAIN Append(f, e) : x = Append(f, e)[k]
  BY RangeIff, Zenon
<1>3. \A x : x \in Range(Append(f, e)) <=> x \in Range(f) \cup {e}
  <2> TAKE x
  <2>1. ASSUME x \in Range(Append(f, e)) PROVE x \in Range(f) \cup {e}
    BY <1>1, <1>2, <2>1
  <2>2. ASSUME x \in Range(f) \cup {e} PROVE x \in Range(Append(f, e))
    BY <1>1, <1>2, <2>2
  <2> QED
    BY <2>1, <2>2
<1> QED
  BY <1>3

LEMMA InAppend ==
    ASSUME NEW S, NEW frames \in Seq(S), NEW f \in S
    PROVE  In(Append(frames, f)) = In(frames) \cup Range(f)
<1>1. /\ \A k \in DOMAIN Append(frames, f) : k \in DOMAIN frames \/ k = Len(frames) + 1
      /\ \A k \in DOMAIN frames : k \in DOMAIN Append(frames, f) /\ Append(frames, f)[k] = frames[k]
      /\ Len(frames) + 1 \in DOMAIN Append(frames, f) /\ Append(frames, f)[Len(frames) + 1] = f
  BY Appended
<1>2. \A x : x \in In(Append(frames, f)) <=> x \in In(frames) \cup Range(f)
  <2> TAKE x
  <2>1. ASSUME x \in In(Append(frames, f)) PROVE x \in In(frames) \cup Range(f)
    BY <1>1, <2>1, InIff
  <2>2. ASSUME x \in In(frames) \cup Range(f) PROVE x \in In(Append(frames, f))
    BY <1>1, <2>2, InIff
  <2> QED
    BY <2>1, <2>2
<1> QED
  BY <1>2

LEMMA InTail ==
    ASSUME NEW S, NEW frames \in Seq(S), frames # << >>
    PROVE  In(frames) = Range(Head(frames)) \cup In(Tail(frames))
<1>1. /\ 1 \in DOMAIN frames /\ Head(frames) = frames[1]
      /\ \A k \in DOMAIN Tail(frames) : k + 1 \in DOMAIN frames /\ Tail(frames)[k] = frames[k + 1]
      /\ \A k \in DOMAIN frames :
            k = 1 \/ (k - 1 \in DOMAIN Tail(frames) /\ Tail(frames)[k - 1] = frames[k])
  BY Taken
<1>2. /\ \A x : x \in In(frames) <=> \E k \in DOMAIN frames : x \in Range(frames[k])
      /\ \A x : x \in In(Tail(frames)) <=>
                \E k \in DOMAIN Tail(frames) : x \in Range(Tail(frames)[k])
  BY InIff, Zenon
<1>3. \A x : x \in In(frames) <=> x \in Range(Head(frames)) \cup In(Tail(frames))
  <2> TAKE x
  <2>1. ASSUME x \in In(frames) PROVE x \in Range(Head(frames)) \cup In(Tail(frames))
    BY <1>1, <1>2, <2>1
  <2>2. ASSUME x \in Range(Head(frames)) \cup In(Tail(frames)) PROVE x \in In(frames)
    BY <1>1, <1>2, <2>2
  <2> QED
    BY <2>1, <2>2
<1> QED
  BY <1>3

\* The gateway reads the first frames of a lost connection; the others are gone.
LEMMA InPrefix ==
    ASSUME NEW S, NEW frames \in Seq(S), NEW n \in 0..Len(frames)
    PROVE  /\ SubSeq(frames, 1, n) \in Seq(S)
           /\ DOMAIN SubSeq(frames, 1, n) \subseteq DOMAIN frames
           /\ \A k \in DOMAIN SubSeq(frames, 1, n) : SubSeq(frames, 1, n)[k] = frames[k]
           /\ In(frames) = In(SubSeq(frames, 1, n))
                           \cup UNION {Range(frames[k]) : k \in n + 1..Len(frames)}
<1>1. /\ SubSeq(frames, 1, n) \in Seq(S) /\ DOMAIN SubSeq(frames, 1, n) = 1..n
      /\ DOMAIN frames = 1..Len(frames) /\ Len(frames) \in Nat
      /\ \A k \in 1..n : SubSeq(frames, 1, n)[k] = frames[k]
  OBVIOUS
<1>2. \A k \in 1..Len(frames) : k \in 1..n \/ k \in n + 1..Len(frames)
  BY <1>1
<1>3. 1..n \subseteq 1..Len(frames) /\ n + 1..Len(frames) \subseteq 1..Len(frames)
  BY <1>1
<1> DEFINE gone == UNION {Range(frames[k]) : k \in n + 1..Len(frames)}
<1>4. \A x : x \in gone <=> \E k \in n + 1..Len(frames) : x \in Range(frames[k])
  BY Zenon
<1> HIDE DEF gone
<1>5. \A x : x \in In(frames) <=> x \in In(SubSeq(frames, 1, n)) \cup gone
  <2> TAKE x
  <2>1. ASSUME x \in In(frames) PROVE x \in In(SubSeq(frames, 1, n)) \cup gone
    BY <1>1, <1>2, <1>4, <2>1, InIff
  <2>2. ASSUME x \in In(SubSeq(frames, 1, n)) \cup gone PROVE x \in In(frames)
    BY <1>1, <1>3, <1>4, <2>2, InIff
  <2> QED
    BY <2>1, <2>2
<1>6. In(frames) = In(SubSeq(frames, 1, n)) \cup gone
  BY <1>5
<1> QED
  BY <1>1, <1>3, <1>6 DEF gone

\* A queue whose batches follow one another.
LEMMA SortedAppend ==
    ASSUME NEW S, NEW frames \in Seq(S), NEW f \in S,
           Sorted(frames), Before(In(frames), Range(f))
    PROVE  Sorted(Append(frames, f))
<1> SUFFICES ASSUME NEW j \in DOMAIN Append(frames, f), NEW k \in DOMAIN Append(frames, f), j < k
             PROVE  Before(Range(Append(frames, f)[j]), Range(Append(frames, f)[k]))
  BY DEF Sorted
<1>1. j \in DOMAIN frames
  BY Appended
<1>2. CASE k \in DOMAIN frames
  BY <1>1, <1>2, Appended DEF Sorted
<1>3. CASE k = Len(frames) + 1
  <2>1. Append(frames, f)[j] = frames[j] /\ Append(frames, f)[k] = f
    BY <1>1, <1>3, Appended
  <2> QED
    BY <1>1, <2>1, InIff DEF Before
<1> QED
  BY <1>2, <1>3, Appended

LEMMA SortedTail ==
    ASSUME NEW S, NEW frames \in Seq(S), frames # << >>, Sorted(frames)
    PROVE  Sorted(Tail(frames)) /\ Before(Range(Head(frames)), In(Tail(frames)))
<1>1. Sorted(Tail(frames))
  BY Taken DEF Sorted
<1>2. ASSUME NEW k \in DOMAIN Tail(frames)
      PROVE  Before(Range(Head(frames)), Range(Tail(frames)[k]))
  <2>1. k + 1 \in DOMAIN frames /\ Tail(frames)[k] = frames[k + 1] /\ 1 < k + 1
        /\ 1 \in DOMAIN frames /\ Head(frames) = frames[1]
    BY Taken
  <2> QED
    BY <2>1 DEF Sorted
<1>3. Before(Range(Head(frames)), In(Tail(frames)))
  BY <1>2, InIff DEF Before
<1> QED
  BY <1>1, <1>3

-----------------------------------------------------------------------------
(***************************************************************************)
(* The rows and the pages of a reader.                                     *)
(***************************************************************************)
HasLast == Stored # {} => \E m \in Stored : \A k \in Stored : k <= m

AtEnd == /\ MaxSeq \in Nat /\ IsFiniteSet(Stored)
         /\ \A k \in Stored : k <= MaxSeq
         /\ Stored # {} => MaxSeq \in Stored

\* The table ends with its greatest number.
LEMMA LastRow == TypeOK /\ HasLast => AtEnd
<1> SUFFICES ASSUME TypeOK, HasLast PROVE AtEnd
  OBVIOUS
<1> USE DEF AtEnd
<1>1. Stored \in SUBSET Nat
  BY DEF TypeOK
<1>2. CASE Stored = {}
  BY <1>2, FS_EmptySet DEF MaxSeq
<1>3. CASE Stored # {}
  <2>1. PICK m \in Stored : \A k \in Stored : k <= m
    BY <1>3 DEF HasLast
  <2>2. Max(Stored) \in Stored /\ \A k \in Stored : k <= Max(Stored)
    BY <1>1, <1>3, <2>1, GreatestNumber
  <2>3. m \in Nat
    BY <1>1, <2>1
  <2>4. IsFiniteSet(Stored)
    BY <1>1, <2>1, <2>3, FS_BoundedSetOfNaturals
  <2>5. MaxSeq = Max(Stored)
    BY <1>3 DEF MaxSeq
  <2> QED
    BY <1>1, <2>2, <2>4, <2>5
<1> QED
  BY <1>2, <1>3

LEMMA LastRowNext == TypeOK' /\ HasLast' => AtEnd'
BY LastRow, PTL

LEMMA EndOfTable == ASSUME TypeOK, Numbered PROVE AtEnd
BY LastRow DEF Numbered, HasLast

\* A page holds the rows that follow up to some row, and at least one.
LEMMA PageOfRows ==
    ASSUME TypeOK, Numbered, NEW limit \in Limits, Following # {}
    PROVE  /\ Page(limit) \subseteq Following /\ Following \subseteq Nat
           /\ Max(Page(limit)) \in Page(limit)
           /\ \A k \in Following : k <= Max(Page(limit)) => k \in Page(limit)
<1> USE ConstantsAssumption
<1>1. Following \in SUBSET Nat /\ IsFiniteSet(Following) /\ \A k \in Following : k <= MaxSeq
  <2>1. Following \subseteq Stored
    BY DEF Following
  <2> QED
    BY <2>1, EndOfTable, FS_Subset DEF TypeOK, AtEnd
<1>2. limit \in Nat /\ ClampLimit(limit) \in Nat /\ 1 <= ClampLimit(limit)
  BY DEF ClampLimit
<1> DEFINE UpTo(k) == {j \in Following : j <= k}
<1>3. \A k \in Following : IsFiniteSet(UpTo(k)) /\ Cardinality(UpTo(k)) \in Nat
  <2> TAKE k \in Following
  <2>1. UpTo(k) \subseteq Following
    OBVIOUS
  <2> QED
    BY <1>1, <2>1, FS_Subset, FS_CardinalityType
<1>4. Page(limit) = {k \in Following : Cardinality(UpTo(k)) <= ClampLimit(limit)}
  BY DEF Page
<1>5. ASSUME NEW k \in Page(limit), NEW j \in Following, j <= k PROVE j \in Page(limit)
  <2>1. k \in Following /\ j \in Nat /\ k \in Nat
    BY <1>1, <1>4
  <2>2. UpTo(j) \subseteq UpTo(k)
    <3>1. \A i \in Following : i \in Nat /\ (i <= j => i <= k)
      BY <1>1, <1>5, <2>1
    <3> QED
      BY <3>1
  <2>3. Cardinality(UpTo(j)) <= Cardinality(UpTo(k))
    BY <1>3, <2>1, <2>2, FS_Subset
  <2>4. Cardinality(UpTo(k)) <= ClampLimit(limit)
    BY <1>4
  <2>5. Cardinality(UpTo(j)) \in Nat /\ Cardinality(UpTo(k)) \in Nat
    BY <1>3, <2>1
  <2>6. Cardinality(UpTo(j)) <= ClampLimit(limit)
    BY <1>2, <2>3, <2>4, <2>5
  <2> QED
    BY <1>4, <2>6
<1>6. Page(limit) # {}
  <2>1. PICK m \in Following : \A k \in Following : m <= k
    BY <1>1, LeastNumber
  <2>2. UpTo(m) = {m}
    <3>1. \A i \in Following : i <= m <=> i = m
      BY <1>1, <2>1
    <3> QED
      BY <3>1
  <2>3. Cardinality(UpTo(m)) = 1
    BY <2>2, FS_Singleton
  <2> QED
    BY <1>2, <1>4, <2>3
<1>7. Page(limit) \subseteq Following
  BY <1>4
<1>8. Max(Page(limit)) \in Page(limit) /\ \A k \in Page(limit) : k <= Max(Page(limit))
  <2>1. Page(limit) \in SUBSET Nat /\ MaxSeq \in Nat /\ \A k \in Page(limit) : k <= MaxSeq
    BY <1>1, <1>7, EndOfTable DEF AtEnd
  <2> QED
    BY <1>6, <2>1, GreatestNumber
<1> QED
  BY <1>1, <1>5, <1>7, <1>8

-----------------------------------------------------------------------------
(***************************************************************************)
(* Types.                                                                  *)
(***************************************************************************)
FramesOf(lines) == Seq(lines) \ {Other}
HandlingOf(lines) == {Rest} \cup [step: {"insert"}, frame: FramesOf(lines), base: Nat]

\* Whatever holds lines holds some of these.
Hold(lines) ==
    /\ buffer \in Seq(lines)
    /\ outbox \in Seq(Seq(lines))
    /\ hand \in [Conns -> Seq(lines)]
    /\ socket \in [Conns -> Seq(FramesOf(lines))]
    /\ handler \in [Conns -> HandlingOf(lines)]
    /\ \A k \in Stored : table[k] \in lines
    /\ dropped \subseteq lines /\ lost \subseteq lines

Typed ==
    /\ streams \in Seq(Streams) /\ Len(streams) <= MaxLines
    /\ Len(buffer) < BatchSize
    /\ Len(outbox) <= Capacity
    /\ conn \in Conns \cup {NoConn}
    /\ Stored \subseteq Nat \ {0}
    /\ retries \in 0..MaxRetries
    /\ next \in Nat
    /\ seen \subseteq Nat

LEMMA TypeParts == TypeOK <=> Hold(Lines) /\ Typed /\ calm \in BOOLEAN /\ emptied \in BOOLEAN
BY Zenon DEF TypeOK, Hold, Typed, FramesOf, HandlingOf, Frames, LogFrames

LEMMA FlagStep ==
    calm \in BOOLEAN /\ emptied \in BOOLEAN /\ [Next]_vars
    => calm' \in BOOLEAN /\ emptied' \in BOOLEAN
BY Zenon DEF Next, AppendLog, DropLine, Flush, SendOther, Connection, Connect, Take, Write, Disconnect,
       Requeue, Handle, ReadMaxSeq, AppendBatch, AppendFails, DeleteOlderThan, GetSessionLogs,
       vars, link, backend

LEMMA FramesGrow ==
    ASSUME NEW S, NEW T, S \subseteq T
    PROVE  /\ FramesOf(S) \subseteq FramesOf(T) /\ Seq(FramesOf(S)) \subseteq Seq(FramesOf(T))
           /\ HandlingOf(S) \subseteq HandlingOf(T)
<1>1. FramesOf(S) \subseteq FramesOf(T)
  BY SeqGrows DEF FramesOf
<1>2. Seq(FramesOf(S)) \subseteq Seq(FramesOf(T))
  BY <1>1, SeqGrows
<1>3. HandlingOf(S) \subseteq HandlingOf(T)
  BY <1>1 DEF HandlingOf
<1> QED
  BY <1>1, <1>2, <1>3

\* Lines that are written later take no line from anybody.
LEMMA HoldGrows == ASSUME NEW S, NEW T, S \subseteq T, Hold(S) PROVE Hold(T)
<1>1. /\ Seq(S) \subseteq Seq(T) /\ Seq(FramesOf(S)) \subseteq Seq(FramesOf(T))
      /\ HandlingOf(S) \subseteq HandlingOf(T)
  BY SeqGrows, FramesGrow
<1>2. Seq(Seq(S)) \subseteq Seq(Seq(T))
  BY <1>1, SeqGrows
<1>3. /\ hand \in [Conns -> Seq(T)]
      /\ socket \in [Conns -> Seq(FramesOf(T))] /\ handler \in [Conns -> HandlingOf(T)]
  BY <1>1 DEF Hold
<1> QED
  BY <1>1, <1>2, <1>3 DEF Hold

\* A frame, and the lines in it.
LEMMA FrameLines ==
    ASSUME NEW S, NEW f \in Seq(S)
    PROVE  Range(f) \subseteq S /\ DOMAIN f = 1..Len(f) /\ Len(f) \in Nat
           /\ (f # << >> => Len(f) > 0)
<1>1. \A k \in DOMAIN f : f[k] \in S
  OBVIOUS
<1> QED
  BY <1>1, RangeIff

LEMMA InFrames ==
    ASSUME NEW S, NEW frames \in Seq(Seq(S))
    PROVE  In(frames) \subseteq S
<1>1. \A k \in DOMAIN frames : Range(frames[k]) \subseteq S
  BY FrameLines
<1> QED
  BY <1>1, InIff

\* A frame of log lines is a frame.
LEMMA AnyFrames ==
    ASSUME NEW S
    PROVE  FramesOf(S) \subseteq Seq(S) /\ Seq(FramesOf(S)) \subseteq Seq(Seq(S))
<1>1. FramesOf(S) \subseteq Seq(S)
  BY DEF FramesOf
<1> QED
  BY <1>1, SeqGrows

\* What a handler may hold, and what is on the way to it.
LEMMA HandlerHolds ==
    ASSUME TypeOK, NEW c \in Conns
    PROVE  /\ handler[c] = Rest \/ handler[c] \in [step: {"insert"}, frame: LogFrames, base: Nat]
           /\ handler[c].step = "insert" => /\ handler[c].frame \in FramesOf(Lines)
                                            /\ handler[c].base \in Nat
           /\ handler[c].step # "insert" => handler[c] = Rest
           /\ handler[c].frame \in Seq(Lines)
           /\ hand[c] \in Seq(Lines)
           /\ socket[c] \in Seq(FramesOf(Lines)) /\ socket[c] \in Seq(Seq(Lines))
<1>1. handler[c] \in {Rest} \cup [step: {"insert"}, frame: LogFrames, base: Nat]
  BY DEF TypeOK
<1>2. LogFrames = FramesOf(Lines) /\ FramesOf(Lines) \subseteq Seq(Lines)
  BY AnyFrames DEF LogFrames, Frames, FramesOf
<1>3. /\ hand[c] \in Seq(Lines)
      /\ socket[c] \in Seq(FramesOf(Lines)) /\ socket[c] \in Seq(Seq(Lines))
  <2>1. Hold(Lines)
    BY TypeParts
  <2> QED
    BY <2>1, AnyFrames DEF Hold
<1>4. CASE handler[c] = Rest
  BY <1>3, <1>4 DEF Rest
<1>5. CASE handler[c] \in [step: {"insert"}, frame: LogFrames, base: Nat]
  BY <1>2, <1>3, <1>5
<1> QED
  BY <1>1, <1>4, <1>5

\* Every line is one that was written.
LEMMA LinesAreWritten ==
    ASSUME TypeOK
    PROVE  /\ Lines \subseteq Nat /\ Len(streams) \in Nat /\ (\A l \in Lines : l < Len(streams) + 1)
           /\ Waiting \subseteq Lines /\ Range(table) \subseteq Lines
           /\ dropped \subseteq Lines /\ lost \subseteq Lines
           /\ \A c \in Conns :
                 In(socket[c]) \cup Range(hand[c]) \cup Range(handler[c].frame) \subseteq Lines
<1>1. Hold(Lines)
  BY TypeParts
<1>2. Range(buffer) \subseteq Lines /\ In(outbox) \subseteq Lines
  BY <1>1, FrameLines, InFrames DEF Hold
<1>3. \A c \in Conns :
         In(socket[c]) \cup Range(hand[c]) \cup Range(handler[c].frame) \subseteq Lines
  BY HandlerHolds, FrameLines, InFrames
<1>4. Range(table) \subseteq Lines /\ dropped \subseteq Lines /\ lost \subseteq Lines
  BY <1>1, RangeIff DEF Hold, Stored
<1>5. Lines \subseteq Nat /\ Len(streams) \in Nat /\ \A l \in Lines : l < Len(streams) + 1
  BY DEF Lines, TypeOK
<1> QED
  BY <1>2, <1>3, <1>4, <1>5 DEF Waiting

-----------------------------------------------------------------------------
(***************************************************************************)
(* The agent: what it writes, gathers and sends, its buffers full or not.  *)
(***************************************************************************)
AllOrdered(frames) == \A k \in DOMAIN frames : Ordered(frames[k])

\* A batch is ordered in the streams that the next state has.
OrderedThen(f) == \A j, k \in DOMAIN f : j < k => f[j] < f[k] /\ streams'[f[j]] = streams'[f[k]]
AllOrderedThen(frames) == \A k \in DOMAIN frames : OrderedThen(frames[k])

LEMMA AllOrderedAppend ==
    ASSUME NEW S, NEW frames \in Seq(S), NEW f \in S
    PROVE  /\ AllOrdered(frames) /\ Ordered(f) => AllOrdered(Append(frames, f))
           /\ AllOrderedThen(frames) /\ OrderedThen(f) => AllOrderedThen(Append(frames, f))
<1>1. /\ \A k \in DOMAIN Append(frames, f) : k \in DOMAIN frames \/ k = Len(frames) + 1
      /\ \A k \in DOMAIN frames : Append(frames, f)[k] = frames[k]
      /\ Append(frames, f)[Len(frames) + 1] = f
  BY Appended
<1> QED
  BY <1>1 DEF AllOrdered, AllOrderedThen

LEMMA AllOrderedTail ==
    ASSUME NEW S, NEW frames \in Seq(S), frames # << >>
    PROVE  /\ AllOrdered(frames) => AllOrdered(Tail(frames)) /\ Ordered(Head(frames))
           /\ AllOrderedThen(frames) => AllOrderedThen(Tail(frames))
<1>1. /\ \A k \in DOMAIN Tail(frames) : k + 1 \in DOMAIN frames /\ Tail(frames)[k] = frames[k + 1]
      /\ 1 \in DOMAIN frames /\ Head(frames) = frames[1]
  BY Taken
<1> QED
  BY <1>1 DEF AllOrdered, AllOrderedThen

\* Lines that are written later change nothing about the ones there are.
LEMMA OrderedKept ==
    ASSUME NEW f \in Seq(Lines), \A l \in Lines : streams'[l] = streams[l], Ordered(f)
    PROVE  OrderedThen(f)
<1>1. \A k \in DOMAIN f : f[k] \in Lines
  OBVIOUS
<1> QED
  BY <1>1 DEF Ordered, OrderedThen

LEMMA AllOrderedKept ==
    ASSUME \A l \in Lines : streams'[l] = streams[l],
           NEW frames \in Seq(Seq(Lines)), AllOrdered(frames)
    PROVE  AllOrderedThen(frames)
<1>1. \A k \in DOMAIN frames : frames[k] \in Seq(Lines)
  OBVIOUS
<1> QED
  BY <1>1, OrderedKept DEF AllOrdered, AllOrderedThen

LEMMA NothingOrdered == Ordered(<< >>) /\ OrderedThen(<< >>)
<1>1. DOMAIN << >> = {}
  OBVIOUS
<1> QED
  BY <1>1 DEF Ordered, OrderedThen

\* Whatever Send does, the outbox keeps its bound and its order, and a line that is not in
\* it afterwards was dropped.
LEMMA Sent ==
    ASSUME NEW S, outbox \in Seq(Seq(S)), Len(outbox) <= Capacity, NEW f \in Seq(S), Send(f)
    PROVE  /\ outbox' \in Seq(Seq(S)) /\ Len(outbox') <= Capacity
           /\ dropped \subseteq dropped' /\ dropped' \subseteq dropped \cup In(outbox) \cup Range(f)
           /\ In(outbox) \cup Range(f) \subseteq In(outbox') \cup dropped'
           /\ In(outbox') \subseteq In(outbox) \cup Range(f)
           /\ Sorted(outbox) /\ Before(In(outbox), Range(f)) => Sorted(outbox')
           /\ AllOrderedThen(outbox) /\ OrderedThen(f) => AllOrderedThen(outbox')
<1> USE ConstantsAssumption
<1> DEFINE Goal(q, e) ==
              /\ Append(q, e) \in Seq(Seq(S)) /\ Len(Append(q, e)) <= Capacity
              /\ In(Append(q, e)) = In(q) \cup Range(e)
              /\ Sorted(outbox) /\ Before(In(outbox), Range(e)) => Sorted(Append(q, e))
              /\ AllOrderedThen(outbox) /\ OrderedThen(e) => AllOrderedThen(Append(q, e))
<1>1. ASSUME NEW q \in Seq(Seq(S)), NEW e \in Seq(S), Len(q) < Capacity,
             In(q) \subseteq In(outbox), Sorted(outbox) => Sorted(q),
             AllOrderedThen(outbox) => AllOrderedThen(q)
      PROVE  Goal(q, e)
  <2>1. Append(q, e) \in Seq(Seq(S)) /\ Len(Append(q, e)) <= Capacity
    BY <1>1
  <2>2. In(Append(q, e)) = In(q) \cup Range(e)
    BY InAppend
  <2>3. ASSUME Sorted(outbox), Before(In(outbox), Range(e)) PROVE Sorted(Append(q, e))
    BY <1>1, <2>3, SortedAppend DEF Before
  <2> QED
    BY <1>1, <2>1, <2>2, <2>3, AllOrderedAppend
<1>2. Other \in Seq(S) /\ Range(Other) = {} /\ OrderedThen(Other)
      /\ Before(In(outbox), Range(Other))
  BY NothingIn, NothingOrdered DEF Other, Before
<1>3. CASE ~Full
  <2>1. outbox' = Append(outbox, f) /\ dropped' = dropped
    BY <1>3 DEF Send
  <2>2. Len(outbox) < Capacity
    BY <1>3 DEF Full
  <2>3. Goal(outbox, f)
    BY <1>1, <2>2
  <2> QED
    BY <2>1, <2>3
<1>4. CASE Full
  <2>1. outbox # << >>
    BY <1>4 DEF Full
  <2>2. /\ Tail(outbox) \in Seq(Seq(S)) /\ Len(Tail(outbox)) < Capacity
        /\ In(outbox) = Range(Head(outbox)) \cup In(Tail(outbox))
    BY <2>1, InTail
  <2>3. PICK q \in Seq(Seq(S)) : q = Tail(outbox)
    BY <2>2
  <2>4. Goal(q, f) /\ Goal(q, Other)
    <3>1. Sorted(outbox) => Sorted(q)
      BY <2>1, <2>3, SortedTail
    <3>2. AllOrderedThen(outbox) => AllOrderedThen(q)
      BY <2>1, <2>3, AllOrderedTail
    <3> QED
      BY <1>1, <1>2, <2>2, <2>3, <3>1, <3>2
  <2>5. \/ /\ outbox' = Append(q, f)
           /\ dropped' = dropped \cup Range(Head(outbox))
        \/ /\ outbox' = Append(q, Other)
           /\ dropped' = dropped \cup Range(Head(outbox)) \cup Range(f)
    BY <1>4, <2>3 DEF Send
  <2> HIDE DEF Goal
  <2>6. CASE outbox' = Append(q, f) /\ dropped' = dropped \cup Range(Head(outbox))
    BY <2>2, <2>3, <2>4, <2>6 DEF Goal
  <2>7. CASE /\ outbox' = Append(q, Other)
             /\ dropped' = dropped \cup Range(Head(outbox)) \cup Range(f)
    BY <1>2, <2>2, <2>3, <2>4, <2>7 DEF Goal
  <2> QED
    BY <2>5, <2>6, <2>7
<1> QED
  BY <1>3, <1>4

\* The line that the coding agent writes.
LEMMA Written ==
    ASSUME TypeOK, NEW s \in Streams, WriteLine(s)
    PROVE  /\ Len(streams) \in Nat /\ Lines \subseteq Lines'
           /\ Lines' = Lines \cup {Len(streams) + 1}
           /\ streams' \in Seq(Streams) /\ Len(streams') = Len(streams) + 1
           /\ Len(streams') <= MaxLines
           /\ \A l \in Lines : streams'[l] = streams[l]
           /\ streams'[Len(streams) + 1] = s
<1> USE ConstantsAssumption
<1>1. /\ streams' = Append(streams, s) /\ streams \in Seq(Streams) /\ Len(streams) < MaxLines
  BY DEF WriteLine, TypeOK
<1>2. /\ Len(streams) \in Nat /\ Len(streams') = Len(streams) + 1 /\ streams' \in Seq(Streams)
      /\ \A l \in 1..Len(streams) : streams'[l] = streams[l]
      /\ streams'[Len(streams) + 1] = s
  BY <1>1, Appended
<1>3. 1..Len(streams) + 1 = (1..Len(streams)) \cup {Len(streams) + 1}
  BY <1>2
<1> QED
  BY <1>1, <1>2, <1>3 DEF Lines

\* A line joins a batch of its own stream only, as its last.
LEMMA BatchExtended ==
    ASSUME TypeOK, Ordered(buffer), NEW s \in Streams, WriteLine(s), SameStream(s)
    PROVE  OrderedThen(Batch)
<1> DEFINE line == Len(streams) + 1
           q    == Append(buffer, line)
<1>1. buffer \in Seq(Lines) /\ buffer \in Seq(Nat) /\ line \in Nat
  <2>1. Seq(Lines) \subseteq Seq(Nat)
    BY LinesAreWritten, SeqGrows
  <2> QED
    BY <2>1, LinesAreWritten DEF TypeOK
<1>2. /\ \A k \in DOMAIN q : k \in DOMAIN buffer \/ k = Len(buffer) + 1
      /\ \A k \in DOMAIN buffer : q[k] = buffer[k]
      /\ q[Len(buffer) + 1] = line
      /\ Len(buffer) \in Nat /\ DOMAIN buffer = 1..Len(buffer)
  <2>1. PICK l \in Nat : l = line
    BY <1>1
  <2>2. /\ \A k \in DOMAIN Append(buffer, l) : k \in DOMAIN buffer \/ k = Len(buffer) + 1
        /\ \A k \in DOMAIN buffer : Append(buffer, l)[k] = buffer[k]
        /\ Append(buffer, l)[Len(buffer) + 1] = l
        /\ Len(buffer) \in Nat /\ DOMAIN buffer = 1..Len(buffer)
    BY <1>1, Appended
  <2> QED
    BY <2>1, <2>2
<1>3. /\ \A l \in Lines : streams'[l] = streams[l]
      /\ streams'[line] = s /\ Len(streams) \in Nat
  BY Written
<1>4. \A k \in DOMAIN buffer : buffer[k] \in Lines
  BY <1>1
<1>5. \A k \in DOMAIN buffer : buffer[k] < line
  BY <1>3, <1>4 DEF Lines
<1>6. \A k \in DOMAIN buffer : streams[buffer[k]] = s
  <2> TAKE k \in DOMAIN buffer
  <2>1. Len(buffer) \in DOMAIN buffer /\ (k = Len(buffer) \/ k < Len(buffer)) /\ buffer # << >>
    BY <1>2
  <2>2. streams[buffer[Len(buffer)]] = s
    BY <2>1, <1>2 DEF SameStream, Last
  <2> QED
    BY <2>1, <2>2 DEF Ordered
<1> HIDE DEF line, q
<1>7. ASSUME NEW j \in DOMAIN q, NEW k \in DOMAIN q, j < k
      PROVE  q[j] < q[k] /\ streams'[q[j]] = streams'[q[k]]
  <2>1. j \in DOMAIN buffer
    BY <1>2, <1>7
  <2>2. CASE k \in DOMAIN buffer
    BY <1>2, <1>3, <1>4, <1>7, <2>1, <2>2 DEF Ordered
  <2>3. CASE k = Len(buffer) + 1
    BY <1>2, <1>3, <1>4, <1>5, <1>6, <2>1, <2>3
  <2> QED
    BY <1>2, <2>2, <2>3
<1> QED
  BY <1>7 DEF OrderedThen, Batch, q, line

\* The agent's steps, and what is in line at the agent: its frames and its buffer.
Gather == (\E s \in Streams : AppendLog(s) \/ DropLine(s)) \/ Flush \/ SendOther

InOrder == Sorted(outbox) /\ Before(In(outbox), Range(buffer))
Gathered ==
    /\ buffer' \in Seq(Lines') /\ Len(buffer') < BatchSize
    /\ outbox' \in Seq(Seq(Lines')) /\ Len(outbox') <= Capacity
    /\ dropped \subseteq dropped' /\ dropped' \subseteq Lines'
    /\ Waiting \cup (Lines' \ Lines) \subseteq Waiting' \cup dropped'
    /\ Waiting' \subseteq Waiting \cup (Lines' \ Lines)
    /\ InOrder => InOrder'
    /\ Ordered(buffer) /\ AllOrdered(outbox) => OrderedThen(buffer') /\ AllOrderedThen(outbox')

\* Some lines are sent, others stay; together they are those of the buffer and the new one.
LEMMA LinesSent ==
    ASSUME TypeOK, Lines \subseteq Lines', \A l \in Lines : streams'[l] = streams[l],
           NEW f \in Seq(Lines'), Send(f),
           buffer' \in Seq(Lines'), Len(buffer') < BatchSize,
           Range(f) \cup Range(buffer') = Range(buffer) \cup (Lines' \ Lines),
           \A j \in Lines, k \in Lines' \ Lines : j < k,
           InOrder => Before(Range(f), Range(buffer')),
           Ordered(buffer) => OrderedThen(f) /\ OrderedThen(buffer')
    PROVE  Gathered
<1>1. /\ outbox \in Seq(Seq(Lines)) /\ outbox \in Seq(Seq(Lines')) /\ Len(outbox) <= Capacity
      /\ In(outbox) \subseteq Lines /\ Range(buffer) \subseteq Lines /\ dropped \subseteq Lines
  <2>1. Hold(Lines) /\ Hold(Lines')
    BY TypeParts, HoldGrows
  <2> QED
    BY <2>1, LinesAreWritten DEF Hold, TypeOK, Waiting
<1>2. /\ outbox' \in Seq(Seq(Lines')) /\ Len(outbox') <= Capacity
      /\ dropped \subseteq dropped' /\ dropped' \subseteq dropped \cup In(outbox) \cup Range(f)
      /\ In(outbox) \cup Range(f) \subseteq In(outbox') \cup dropped'
      /\ In(outbox') \subseteq In(outbox) \cup Range(f)
      /\ Sorted(outbox) /\ Before(In(outbox), Range(f)) => Sorted(outbox')
      /\ AllOrderedThen(outbox) /\ OrderedThen(f) => AllOrderedThen(outbox')
  BY <1>1, Sent
<1>3. Range(f) \subseteq Lines' /\ dropped' \subseteq Lines'
  BY <1>1, <1>2, FrameLines
<1>4. InOrder => Before(In(outbox), Range(f)) /\ Before(In(outbox), Range(buffer'))
  BY <1>1 DEF InOrder, Before
<1>5. InOrder => Sorted(outbox') /\ Before(In(outbox'), Range(buffer'))
  BY <1>2, <1>4 DEF InOrder, Before
<1>6. InOrder => InOrder'
  BY <1>5 DEF InOrder, Sorted, Before, In, Range
<1>7. Ordered(buffer) /\ AllOrdered(outbox) => OrderedThen(buffer') /\ AllOrderedThen(outbox')
  BY <1>1, <1>2, AllOrderedKept
<1>8. /\ Waiting \cup (Lines' \ Lines) \subseteq Waiting' \cup dropped'
      /\ Waiting' \subseteq Waiting \cup (Lines' \ Lines)
  <2>1. Waiting = In(outbox) \cup Range(buffer) /\ Waiting' = In(outbox') \cup Range(buffer')
    BY DEF Waiting, In, Range
  <2> QED
    BY <1>2, <2>1
<1> QED
  BY <1>2, <1>3, <1>6, <1>7, <1>8 DEF Gathered

LEMMA GatherStep ==
    ASSUME TypeOK, Gather
    PROVE  /\ Gathered
           /\ UNCHANGED <<link, backend, calm, reader>>
           /\ streams' \in Seq(Streams) /\ Len(streams') <= MaxLines
           /\ Lines \subseteq Lines' /\ Lines' \subseteq Lines \cup {Len(streams) + 1}
           /\ \A l \in Lines : streams'[l] = streams[l]
<1> USE ConstantsAssumption DEF agent
<1> DEFINE line == Len(streams) + 1
<1>1. /\ buffer \in Seq(Lines) /\ Len(buffer) < BatchSize /\ Lines \subseteq Nat
      /\ outbox \in Seq(Seq(Lines)) /\ Len(outbox) <= Capacity /\ dropped \subseteq Lines
      /\ streams \in Seq(Streams) /\ Len(streams) <= MaxLines
      /\ In(outbox) \subseteq Lines /\ Range(buffer) \subseteq Lines
  BY LinesAreWritten DEF TypeOK, Frames, Waiting
<1>2. << >> \in Seq(Lines') /\ Len(<< >>) = 0
  OBVIOUS
<1>3. ASSUME UNCHANGED streams
      PROVE  /\ Lines' = Lines /\ streams' \in Seq(Streams) /\ Len(streams') <= MaxLines
             /\ Lines \subseteq Lines' /\ Lines' \subseteq Lines \cup {line}
             /\ \A l \in Lines : streams'[l] = streams[l]
  BY <1>1, <1>3 DEF Lines
<1>4. CASE Flush
  <2>1. buffer' = << >> /\ Send(buffer) /\ UNCHANGED <<streams, link, backend, calm, reader>>
    BY <1>4 DEF Flush
  <2>2. Gathered
    BY <1>1, <1>2, <1>3, <2>1, LinesSent, NothingIn, NothingOrdered, OrderedKept DEF Before
  <2> QED
    BY <1>3, <2>1, <2>2
<1>5. CASE SendOther
  <2>1. Send(Other) /\ UNCHANGED <<streams, buffer, link, backend, calm, reader>>
    BY <1>5 DEF SendOther
  <2>2. Other \in Seq(Lines') /\ Range(Other) = {} /\ OrderedThen(Other)
    BY <1>2, NothingIn, NothingOrdered DEF Other
  <2>3. Gathered
    BY <1>1, <1>3, <2>1, <2>2, LinesSent, OrderedKept DEF Before
  <2> QED
    BY <1>3, <2>1, <2>3
<1>6. ASSUME NEW s \in Streams, AppendLog(s) \/ DropLine(s)
      PROVE  /\ Gathered /\ UNCHANGED <<link, backend, calm, reader>>
             /\ streams' \in Seq(Streams) /\ Len(streams') <= MaxLines
             /\ Lines \subseteq Lines' /\ Lines' \subseteq Lines \cup {line}
             /\ \A l \in Lines : streams'[l] = streams[l]
  <2>1. WriteLine(s) /\ UNCHANGED <<link, backend, calm, reader>>
    BY <1>6 DEF AppendLog, DropLine
  <2>2. /\ streams' \in Seq(Streams) /\ Len(streams') <= MaxLines
        /\ Lines \subseteq Lines' /\ Lines' = Lines \cup {line}
        /\ \A l \in Lines : streams'[l] = streams[l]
    BY <2>1, Written
  <2>3. PICK l \in Nat : l = line
    BY LinesAreWritten
  <2>4. /\ Lines' \ Lines = {line} /\ l \in Lines' /\ \A j \in Lines : j < line
    BY <2>2, <2>3, LinesAreWritten
  <2>5. buffer \in Seq(Lines') /\ outbox \in Seq(Seq(Lines'))
    <3>1. Hold(Lines')
      BY <2>2, TypeParts, HoldGrows
    <3> QED
      BY <3>1 DEF Hold
  <2>6. /\ Batch \in Seq(Lines') /\ Range(Batch) = Range(buffer) \cup {line}
        /\ Len(Batch) \in Nat /\ Batch # << >>
    <3>1. Append(buffer, l) \in Seq(Lines') /\ Len(Append(buffer, l)) = Len(buffer) + 1
          /\ Len(buffer) \in Nat
      BY <2>4, <2>5
    <3>2. Range(Append(buffer, l)) = Range(buffer) \cup {l}
      BY <2>4, <2>5, RangeOfAppend
    <3> QED
      BY <2>3, <3>1, <3>2 DEF Batch
  <2>7. ASSUME ~SameStream(s), Send(buffer), buffer' = <<line>> PROVE Gathered
    <3>1. /\ <<l>> \in Seq(Lines') /\ Range(<<l>>) = {l} /\ Len(<<l>>) = 1
          /\ OrderedThen(<<l>>)
      BY <2>4, RangeIff DEF OrderedThen
    <3>2. BatchSize > 1
      <4>1. buffer # << >>
        BY <2>7 DEF SameStream
      <4> QED
        BY <1>1, <4>1
    <3> QED
      BY <1>1, <2>2, <2>3, <2>4, <2>5, <2>7, <3>1, <3>2, LinesSent, OrderedKept DEF Before
  <2>8. ASSUME SameStream(s), Send(Batch), buffer' = << >> PROVE Gathered
    <3>1. Range(buffer') = {} /\ OrderedThen(buffer') /\ Before(Range(Batch), Range(buffer'))
      BY <2>8, NothingIn, NothingOrdered DEF Before
    <3>2. Ordered(buffer) => OrderedThen(Batch)
      BY <2>1, <2>8, BatchExtended
    <3>3. buffer' \in Seq(Lines') /\ Len(buffer') < BatchSize
      BY <1>2, <2>8
    <3>4. Range(Batch) \cup Range(buffer') = Range(buffer) \cup (Lines' \ Lines)
      BY <2>4, <2>6, <3>1
    <3>5. \A j \in Lines, k \in Lines' \ Lines : j < k
      BY <2>4
    <3>6. /\ Batch \in Seq(Lines') /\ Send(Batch)
          /\ Lines \subseteq Lines' /\ \A j \in Lines : streams'[j] = streams[j]
          /\ InOrder => Before(Range(Batch), Range(buffer'))
          /\ Ordered(buffer) => OrderedThen(Batch) /\ OrderedThen(buffer')
      BY <2>2, <2>6, <2>8, <3>1, <3>2
    <3> QED
      BY <3>3, <3>4, <3>5, <3>6, LinesSent
  <2>9. ASSUME outbox' = outbox, Len(buffer') < BatchSize,
               \/ buffer' = buffer /\ dropped' = dropped \cup {line}
               \/ SameStream(s) /\ buffer' = Batch /\ dropped' = dropped
        PROVE  Gathered
    <3>1. /\ Waiting = In(outbox) \cup Range(buffer)
          /\ Waiting' = In(outbox) \cup Range(buffer')
      BY <2>9 DEF Waiting, In, Range
    <3>2. InOrder => InOrder'
      <4>1. InOrder => Before(In(outbox), Range(buffer'))
        BY <1>1, <2>4, <2>6, <2>9 DEF InOrder, Before
      <4> QED
        BY <2>9, <4>1 DEF InOrder, Before, In, Range, Sorted
    <3>3. Ordered(buffer) /\ AllOrdered(outbox) => OrderedThen(buffer') /\ AllOrderedThen(outbox')
      BY <1>1, <2>1, <2>2, <2>9, BatchExtended, OrderedKept, AllOrderedKept
    <3>4. buffer' \in Seq(Lines') /\ outbox' \in Seq(Seq(Lines')) /\ Len(outbox') <= Capacity
      BY <1>1, <2>5, <2>6, <2>9
    <3>5. dropped \subseteq dropped' /\ dropped' \subseteq Lines'
      BY <1>1, <2>2, <2>9
    <3>6. /\ Waiting \cup (Lines' \ Lines) \subseteq Waiting' \cup dropped'
          /\ Waiting' \subseteq Waiting \cup (Lines' \ Lines)
      BY <2>4, <2>6, <2>9, <3>1
    <3> QED
      BY <2>9, <3>2, <3>3, <3>4, <3>5, <3>6 DEF Gathered
  <2>10. ASSUME DropLine(s) PROVE Gathered
    <3>1. buffer' = buffer /\ outbox' = outbox /\ dropped' = dropped \cup {line}
      BY <2>10 DEF DropLine
    <3>2. Len(buffer') < BatchSize
      BY <1>1, <3>1
    <3> QED
      BY <2>9, <3>1, <3>2
  <2>11. ASSUME AppendLog(s) PROVE Gathered
    <3>1. \/ ~SameStream(s) /\ Send(buffer) /\ buffer' = <<line>>
          \/ SameStream(s) /\ Send(Batch) /\ buffer' = << >>
          \/ /\ SameStream(s) /\ Len(Batch) < BatchSize
             /\ buffer' = Batch /\ outbox' = outbox /\ dropped' = dropped
      BY <2>11, Zenon DEF AppendLog
    <3> QED
      BY <2>7, <2>8, <2>9, <3>1
  <2> QED
    BY <1>6, <2>1, <2>2, <2>10, <2>11
<1> QED
  BY <1>4, <1>5, <1>6 DEF Gather

-----------------------------------------------------------------------------
(***************************************************************************)
(* The connections, and the types of everything.                           *)
(***************************************************************************)
\* Of a lost connection some frames arrive, and those that do not are lost.
LEMMA Disconnected ==
    ASSUME TypeOK, NEW c \in Conns, Disconnect(c)
    PROVE  /\ socket' \in [Conns -> Seq(FramesOf(Lines))]
           /\ \A d \in Conns \ {c} : socket'[d] = socket[d]
           /\ In(socket[c]) \subseteq In(socket'[c]) \cup lost'
           /\ lost \subseteq lost' /\ lost' \subseteq Lines
           /\ AllOrdered(socket[c]) /\ Ordered(hand[c]) => AllOrdered(socket'[c])
<1> DEFINE writing == hand[c] # << >>
           sent    == IF writing THEN Append(socket[c], hand[c]) ELSE socket[c]
<1>1. PICK n \in 0..Len(sent) :
         /\ socket' = [socket EXCEPT ![c] = SubSeq(sent, 1, n)]
         /\ lost' = lost \cup UNION {Range(socket[c][k]) : k \in n + 1..Len(socket[c])}
  BY Zenon DEF Disconnect
<1>2. socket[c] \in Seq(FramesOf(Lines)) /\ hand[c] \in Seq(Lines)
      /\ socket \in [Conns -> Seq(FramesOf(Lines))]
  <2>1. Hold(Lines)
    BY TypeParts
  <2> QED
    BY <2>1, HandlerHolds DEF Hold
<1>3. /\ sent \in Seq(FramesOf(Lines))
      /\ DOMAIN socket[c] = 1..Len(socket[c]) /\ Len(socket[c]) \in Nat
      /\ DOMAIN socket[c] \subseteq DOMAIN sent
      /\ \A k \in DOMAIN socket[c] : sent[k] = socket[c][k]
      /\ AllOrdered(socket[c]) /\ Ordered(hand[c]) => AllOrdered(sent)
  <2>1. CASE ~writing
    BY <1>2, <2>1
  <2>2. CASE writing
    <3>1. hand[c] \in FramesOf(Lines)
      BY <1>2, <2>2 DEF FramesOf, Other
    <3> QED
      BY <1>2, <2>2, <3>1, Appended, AllOrderedAppend
  <2> QED
    BY <2>1, <2>2
<1> HIDE DEF sent
<1>4. /\ SubSeq(sent, 1, n) \in Seq(FramesOf(Lines))
      /\ DOMAIN SubSeq(sent, 1, n) = 1..n /\ 1..n \subseteq DOMAIN sent
      /\ \A k \in 1..n : SubSeq(sent, 1, n)[k] = sent[k]
  BY <1>3
<1>5. /\ socket'[c] = SubSeq(sent, 1, n)
      /\ \A d \in Conns \ {c} : socket'[d] = socket[d]
      /\ socket' \in [Conns -> Seq(FramesOf(Lines))]
  BY <1>1, <1>2, <1>4
<1>6. ASSUME NEW l \in In(socket[c]) PROVE l \in In(socket'[c]) \/ l \in lost'
  <2>1. PICK k \in DOMAIN socket[c] : l \in Range(socket[c][k])
    BY InIff
  <2>2. CASE k \in 1..n
    <3>1. k \in DOMAIN socket'[c] /\ socket'[c][k] = socket[c][k]
      BY <1>3, <1>4, <1>5, <2>2
    <3> QED
      BY <2>1, <3>1, InIff
  <2>3. CASE k \notin 1..n
    <3>1. k \in n + 1..Len(socket[c])
      BY <1>3, <2>3
    <3> QED
      BY <1>1, <2>1, <3>1
  <2> QED
    BY <2>2, <2>3
<1>7. lost' \subseteq Lines
  <2>1. \A k \in n + 1..Len(socket[c]) : Range(socket[c][k]) \subseteq In(socket[c])
    BY <1>3, InIff
  <2>2. In(socket[c]) \subseteq Lines /\ lost \subseteq Lines
    BY LinesAreWritten
  <2> QED
    BY <1>1, <2>1, <2>2, Zenon
<1>8. AllOrdered(sent) => AllOrdered(SubSeq(sent, 1, n))
  BY <1>4 DEF AllOrdered
<1> QED
  BY <1>1, <1>3, <1>5, <1>6, <1>7, <1>8

\* A frame leaves the outbox, another kind of frame with no lines, and is then written.
LEMMA FrameTaken ==
    ASSUME TypeOK, NEW c \in Conns, Take(c)
    PROVE  /\ outbox # << >> /\ outbox \in Seq(Seq(Lines)) /\ conn = c /\ hand[c] = << >>
           /\ outbox' = Tail(outbox) /\ outbox' \in Seq(Seq(Lines)) /\ Len(outbox') <= Capacity
           /\ hand'[c] = Head(outbox) /\ hand' \in [Conns -> Seq(Lines)]
           /\ \A d \in Conns \ {c} : hand'[d] = hand[d]
           /\ In(outbox) = Range(hand'[c]) \cup In(outbox')
           /\ UNCHANGED <<streams, buffer, conn, socket, handler, table, retries, dropped, lost,
                          calm, emptied, next, seen>>
<1> USE ConstantsAssumption
<1>1. /\ conn = c /\ hand[c] = << >> /\ outbox # << >> /\ outbox' = Tail(outbox)
      /\ hand' = [hand EXCEPT ![c] = Head(outbox)]
      /\ UNCHANGED <<streams, buffer, conn, socket, handler, table, retries, dropped, lost,
                     calm, emptied, next, seen>>
  BY DEF Take, agent, backend, reader
<1>2. outbox \in Seq(Seq(Lines)) /\ Len(outbox) <= Capacity /\ hand \in [Conns -> Seq(Lines)]
  BY DEF TypeOK, Frames
<1>3. Tail(outbox) \in Seq(Seq(Lines)) /\ Head(outbox) \in Seq(Lines)
      /\ Len(Tail(outbox)) <= Capacity
  BY <1>1, <1>2
<1>4. In(outbox) = Range(Head(outbox)) \cup In(Tail(outbox))
  BY <1>1, <1>2, InTail
<1> QED
  BY <1>1, <1>2, <1>3, <1>4

LEMMA FrameWritten ==
    ASSUME TypeOK, NEW c \in Conns, Write(c)
    PROVE  /\ hand[c] \in FramesOf(Lines) /\ conn = c
           /\ hand'[c] = << >> /\ hand' \in [Conns -> Seq(Lines)]
           /\ socket'[c] = Append(socket[c], hand[c]) /\ socket' \in [Conns -> Seq(FramesOf(Lines))]
           /\ \A d \in Conns \ {c} : hand'[d] = hand[d] /\ socket'[d] = socket[d]
           /\ In(socket'[c]) = In(socket[c]) \cup Range(hand[c])
           /\ UNCHANGED <<streams, buffer, outbox, conn, handler, table, retries, dropped, lost,
                          calm, emptied, next, seen>>
<1>1. /\ conn = c /\ hand[c] # << >>
      /\ socket' = [socket EXCEPT ![c] = Append(@, hand[c])]
      /\ hand' = [hand EXCEPT ![c] = << >>]
      /\ UNCHANGED <<streams, buffer, outbox, conn, handler, table, retries, dropped, lost,
                     calm, emptied, next, seen>>
  BY DEF Write, agent, backend, reader
<1>2. hand \in [Conns -> Seq(Lines)] /\ socket \in [Conns -> Seq(FramesOf(Lines))]
  BY TypeParts DEF Hold
<1>3. hand[c] \in FramesOf(Lines)
  BY <1>1, <1>2 DEF FramesOf, Other
<1>4. Append(socket[c], hand[c]) \in Seq(FramesOf(Lines))
      /\ In(Append(socket[c], hand[c])) = In(socket[c]) \cup Range(hand[c])
  BY <1>2, <1>3, InAppend
<1> QED
  BY <1>1, <1>2, <1>3, <1>4

LEMMA FrameRequeued ==
    ASSUME TypeOK, NEW c \in Conns, Requeue(c)
    PROVE  /\ conn # c /\ hand[c] # << >> /\ hand[c] \in Seq(Lines) /\ outbox \in Seq(Seq(Lines))
           /\ hand'[c] = << >> /\ hand' \in [Conns -> Seq(Lines)]
           /\ \A d \in Conns \ {c} : hand'[d] = hand[d]
           /\ \/ UNCHANGED outbox /\ dropped' = dropped \cup Range(hand[c])
              \/ /\ outbox' = Append(outbox, hand[c]) /\ UNCHANGED dropped
                 /\ In(outbox') = In(outbox) \cup Range(hand[c])
           /\ outbox' \in Seq(Seq(Lines)) /\ Len(outbox') <= Capacity
           /\ UNCHANGED <<streams, buffer, conn, socket, handler, table, retries, lost,
                          calm, emptied, next, seen>>
<1> USE ConstantsAssumption
<1>1. /\ conn # c /\ hand[c] # << >> /\ hand' = [hand EXCEPT ![c] = << >>]
      /\ \/ Full /\ UNCHANGED outbox /\ dropped' = dropped \cup Range(hand[c])
         \/ ~Full /\ outbox' = Append(outbox, hand[c]) /\ UNCHANGED dropped
      /\ UNCHANGED <<streams, buffer, conn, socket, handler, table, retries, lost,
                     calm, emptied, next, seen>>
  BY DEF Requeue, agent, backend, reader
<1>2. outbox \in Seq(Seq(Lines)) /\ Len(outbox) <= Capacity /\ hand \in [Conns -> Seq(Lines)]
  BY DEF TypeOK, Frames
<1>3. CASE Full
  BY <1>1, <1>2, <1>3
<1>4. CASE ~Full
  <2>1. Append(outbox, hand[c]) \in Seq(Seq(Lines)) /\ Len(Append(outbox, hand[c])) <= Capacity
    BY <1>2, <1>4 DEF Full
  <2>2. In(Append(outbox, hand[c])) = In(outbox) \cup Range(hand[c])
    BY <1>2, InAppend
  <2>3. outbox' = Append(outbox, hand[c]) /\ UNCHANGED dropped
    BY <1>1, <1>4
  <2> QED
    BY <1>1, <1>2, <2>1, <2>2, <2>3
<1> QED
  BY <1>3, <1>4

LEMMA TypeStep == TypeOK /\ Numbered /\ [Next]_vars => TypeOK'
<1> SUFFICES ASSUME TypeOK, Numbered, [Next]_vars PROVE Hold(Lines)' /\ Typed'
  BY FlagStep, TypeParts, Zenon DEF TypeOK, Hold, Typed, FramesOf, HandlingOf, Frames, LogFrames
<1> USE ConstantsAssumption DEF agent, link, backend, reader
<1>1. Hold(Lines) /\ Typed
  BY TypeParts
<1>2. /\ UNCHANGED streams => Lines' = Lines
      /\ UNCHANGED table => Stored' = Stored
  BY DEF Lines, Stored
<1>3. CASE Gather
  <2>1. /\ buffer' \in Seq(Lines') /\ Len(buffer') < BatchSize
        /\ outbox' \in Seq(Seq(Lines')) /\ Len(outbox') <= Capacity /\ dropped' \subseteq Lines'
        /\ UNCHANGED <<hand, conn, socket, retries, handler, table, lost, next, seen>>
        /\ streams' \in Seq(Streams) /\ Len(streams') <= MaxLines /\ Lines \subseteq Lines'
    BY <1>3, GatherStep DEF Gathered
  <2>2. PICK lines : lines = Lines'
    OBVIOUS
  <2>3. Hold(lines)
    BY <1>1, <2>1, <2>2, HoldGrows
  <2>4. Hold(Lines)'
    BY <1>2, <2>1, <2>2, <2>3 DEF Hold
  <2>5. Typed'
    BY <1>1, <1>2, <2>1 DEF Typed
  <2> QED
    BY <2>4, <2>5
<1>4. ASSUME NEW c \in Conns, Connect(c) PROVE Hold(Lines)' /\ Typed'
  BY <1>1, <1>2, <1>4 DEF Connect, Hold, Typed
<1>5. ASSUME NEW c \in Conns, Take(c) PROVE Hold(Lines)' /\ Typed'
  <2>1. /\ outbox' \in Seq(Seq(Lines)) /\ Len(outbox') <= Capacity
        /\ hand' \in [Conns -> Seq(Lines)]
        /\ UNCHANGED <<streams, buffer, conn, socket, handler, table, retries, dropped, lost,
                       next, seen>>
    BY <1>5, FrameTaken
  <2> QED
    BY <1>1, <1>2, <2>1 DEF Hold, Typed
<1>6. ASSUME NEW c \in Conns, Write(c) PROVE Hold(Lines)' /\ Typed'
  <2>1. /\ hand' \in [Conns -> Seq(Lines)] /\ socket' \in [Conns -> Seq(FramesOf(Lines))]
        /\ UNCHANGED <<streams, buffer, outbox, conn, handler, table, retries, dropped, lost,
                       next, seen>>
    BY <1>6, FrameWritten
  <2> QED
    BY <1>1, <1>2, <2>1 DEF Hold, Typed
<1>7. ASSUME NEW c \in Conns, Requeue(c) PROVE Hold(Lines)' /\ Typed'
  <2>1. /\ outbox' \in Seq(Seq(Lines)) /\ Len(outbox') <= Capacity
        /\ hand' \in [Conns -> Seq(Lines)] /\ hand[c] \in Seq(Lines)
        /\ dropped' = dropped \/ dropped' = dropped \cup Range(hand[c])
        /\ UNCHANGED <<streams, buffer, conn, socket, handler, table, retries, lost,
                       next, seen>>
    BY <1>7, FrameRequeued
  <2>2. Range(hand[c]) \subseteq Lines
    BY <2>1, FrameLines
  <2> QED
    BY <1>1, <1>2, <2>1, <2>2 DEF Hold, Typed
<1>8. ASSUME NEW c \in Conns, Disconnect(c) PROVE Hold(Lines)' /\ Typed'
  <2>1. socket' \in [Conns -> Seq(FramesOf(Lines))] /\ lost' \subseteq Lines
    BY <1>8, Disconnected
  <2>2. /\ UNCHANGED <<streams, buffer, outbox, hand, dropped, handler, table, next, seen>>
        /\ conn' = NoConn
        /\ retries' \in {retries, retries + 1} /\ (retries' # retries => retries < MaxRetries)
    BY <1>8, Zenon DEF Disconnect
  <2>3. retries' \in 0..MaxRetries
    BY <1>1, <2>2 DEF Typed
  <2> QED
    BY <1>1, <1>2, <2>1, <2>2, <2>3 DEF Hold, Typed
<1>9. ASSUME NEW c \in Conns, ReadMaxSeq(c) PROVE Hold(Lines)' /\ Typed'
  <2>1. socket[c] # << >> /\ socket[c] \in Seq(FramesOf(Lines)) /\ MaxSeq \in Nat
    BY <1>1, <1>9, EndOfTable DEF ReadMaxSeq, Hold, AtEnd
  <2>2. Head(socket[c]) \in FramesOf(Lines) /\ Tail(socket[c]) \in Seq(FramesOf(Lines))
    BY <2>1
  <2>3. [step |-> "insert", frame |-> Head(socket[c]), base |-> MaxSeq] \in HandlingOf(Lines)
    BY <2>1, <2>2 DEF HandlingOf
  <2>4. /\ handler' \in [Conns -> HandlingOf(Lines)]
        /\ socket' \in [Conns -> Seq(FramesOf(Lines))]
    BY <1>1, <1>9, <2>2, <2>3 DEF ReadMaxSeq, Hold
  <2> QED
    BY <1>1, <1>2, <1>9, <2>4 DEF ReadMaxSeq, Hold, Typed
<1>10. ASSUME NEW c \in Conns, AppendBatch(c) \/ AppendFails(c)
       PROVE  /\ handler[c].frame \in FramesOf(Lines) /\ handler[c].base \in Nat
              /\ handler' \in [Conns -> HandlingOf(Lines)]
              /\ \A k \in DOMAIN handler[c].frame : handler[c].frame[k] \in Lines
              /\ DOMAIN handler[c].frame \subseteq Nat \ {0}
  <2>1. handler[c].step = "insert" /\ handler' = [handler EXCEPT ![c] = Rest]
    BY <1>10 DEF AppendBatch, AppendFails
  <2>2. handler[c].frame \in FramesOf(Lines) /\ handler[c].base \in Nat
    BY <2>1, HandlerHolds
  <2>3. handler' \in [Conns -> HandlingOf(Lines)]
    BY <1>1, <2>1 DEF Hold, HandlingOf
  <2>4. /\ \A k \in DOMAIN handler[c].frame : handler[c].frame[k] \in Lines
        /\ DOMAIN handler[c].frame \subseteq Nat \ {0}
    BY <2>2 DEF FramesOf
  <2> QED
    BY <2>2, <2>3, <2>4
<1>11. ASSUME NEW c \in Conns, AppendBatch(c) PROVE Hold(Lines)' /\ Typed'
  <2> DEFINE h   == handler[c]
             new == {h.base + k : k \in DOMAIN h.frame}
  <2>1. /\ table' = [k \in Stored \cup new |-> IF k \in Stored THEN table[k]
                                               ELSE h.frame[k - h.base]]
        /\ lost' = lost \cup {h.frame[k - h.base] : k \in new \cap Stored}
        /\ UNCHANGED <<streams, buffer, outbox, hand, conn, socket, retries, dropped, next, seen>>
    BY <1>11, Zenon DEF AppendBatch
  <2>2. new \subseteq Nat \ {0}
    BY <1>10, <1>11
  <2>3. \A k \in new : h.frame[k - h.base] \in Lines
    <3> TAKE k \in new
    <3>1. PICK j \in DOMAIN h.frame : k = h.base + j
      OBVIOUS
    <3>2. k - h.base = j
      BY <1>10, <1>11, <3>1
    <3> QED
      BY <1>10, <1>11, <3>2
  <2> HIDE DEF new
  <2>4. Stored' = Stored \cup new
    BY <2>1 DEF Stored
  <2>5. \A k \in Stored' : table'[k] \in Lines
    BY <1>1, <2>1, <2>3, <2>4 DEF Hold
  <2>6. lost' \subseteq Lines
    BY <1>1, <2>1, <2>3 DEF Hold
  <2> QED
    BY <1>1, <1>2, <1>10, <1>11, <2>1, <2>2, <2>4, <2>5, <2>6 DEF Hold, Typed
<1>12. ASSUME NEW c \in Conns, AppendFails(c) PROVE Hold(Lines)' /\ Typed'
  <2>1. Range(handler[c].frame) \subseteq Lines
    BY <1>10, <1>12, FrameLines DEF FramesOf
  <2> QED
    BY <1>1, <1>2, <1>10, <1>12, <2>1 DEF AppendFails, Hold, Typed
<1>13. ASSUME NEW n \in Stored, DeleteOlderThan(n) PROVE Hold(Lines)' /\ Typed'
  <2> DEFINE old == {k \in Stored : k <= n}
  <2>1. /\ table' = [k \in Stored \ old |-> table[k]]
        /\ lost' = lost \cup {table[k] : k \in old}
        /\ UNCHANGED <<streams, buffer, outbox, hand, conn, socket, handler, retries, dropped, next, seen>>
    BY <1>13, Zenon DEF DeleteOlderThan
  <2>2. old \subseteq Stored
    OBVIOUS
  <2> HIDE DEF old
  <2>3. Stored' = Stored \ old /\ \A k \in Stored' : table'[k] = table[k]
    BY <2>1 DEF Stored
  <2>4. lost' \subseteq Lines
    BY <1>1, <2>1, <2>2 DEF Hold
  <2> QED
    BY <1>1, <1>2, <2>1, <2>3, <2>4 DEF Hold, Typed
<1>14. ASSUME NEW limit \in Limits, GetSessionLogs(limit) PROVE Hold(Lines)' /\ Typed'
  <2>1. Page(limit) \subseteq Nat /\ Max(Page(limit)) \in Nat
    BY <1>14, PageOfRows DEF GetSessionLogs
  <2> QED
    BY <1>1, <1>2, <1>14, <2>1 DEF GetSessionLogs, Hold, Typed, Stored
<1>15. CASE UNCHANGED vars
  BY <1>1, <1>2, <1>15 DEF vars, Hold, Typed, Stored
<1> QED
  BY <1>3, <1>4, <1>5, <1>6, <1>7, <1>8, <1>9, <1>11, <1>12, <1>13, <1>14, <1>15
     DEF Next, Gather, Connection, Handle


-----------------------------------------------------------------------------
(***************************************************************************)
(* No line vanishes.                                                       *)
(***************************************************************************)
\* What of a line is at a connection, on either side.
Carries(c, l) == l \in In(socket[c]) \/ l \in Range(hand[c]) \/ l \in Range(handler[c].frame)

\* Where a line is, and that there is no other place.
Somewhere(l) ==
    \/ l \in Waiting \/ \E c \in Conns : Carries(c, l)
    \/ l \in Range(table) \/ l \in dropped \/ l \in lost

LEMMA UnderwayIff == \A l : l \in Underway <=> l \in Waiting \/ \E c \in Conns : Carries(c, l)
<1> DEFINE held == UNION {Range(hand[c]) \cup In(socket[c]) \cup Range(handler[c].frame) : c \in Conns}
<1>1. \A l : l \in held <=>
         \E c \in Conns : l \in Range(hand[c]) \cup In(socket[c]) \cup Range(handler[c].frame)
  BY Zenon
<1>2. Underway = Range(buffer) \cup In(outbox) \cup held
  BY DEF Underway
<1> HIDE DEF held
<1> QED
  BY <1>1, <1>2 DEF Waiting, Carries

LEMMA UnderwayIffNext ==
    \A l : l \in Underway' <=> l \in Waiting' \/ \E c \in Conns : Carries(c, l)'
<1> DEFINE held == UNION {Range(hand'[c]) \cup In(socket'[c]) \cup Range(handler'[c].frame) :
                          c \in Conns}
<1>1. \A l : l \in held <=>
         \E c \in Conns : l \in Range(hand'[c]) \cup In(socket'[c]) \cup Range(handler'[c].frame)
  BY Zenon
<1>2. Underway' = Range(buffer') \cup In(outbox') \cup held
  BY DEF Underway, In, Range
<1>3. Waiting' = In(outbox') \cup Range(buffer')
  BY DEF Waiting, In, Range
<1> HIDE DEF held
<1> QED
  BY <1>1, <1>2, <1>3 DEF Carries

LEMMA AllLines == TypeOK => (NoLineVanishes <=> \A l \in Lines : Somewhere(l))
<1> SUFFICES ASSUME TypeOK PROVE NoLineVanishes <=> \A l \in Lines : Somewhere(l)
  OBVIOUS
<1>1. \A l : Somewhere(l) <=> l \in Underway \cup Range(table) \cup dropped \cup lost
  BY UnderwayIff DEF Somewhere
<1>2. \A l : Somewhere(l) => l \in Lines
  BY LinesAreWritten DEF Somewhere, Carries
<1> QED
  BY <1>1, <1>2 DEF NoLineVanishes

LEMMA AllLinesNext == TypeOK' => (NoLineVanishes' <=> (\A l \in Lines : Somewhere(l))')
BY AllLines, PTL

LEMMA VanishStep == TypeOK /\ TypeOK' /\ NoLineVanishes /\ [Next]_vars => NoLineVanishes'
<1> SUFFICES ASSUME TypeOK, TypeOK', NoLineVanishes, [Next]_vars,
                    NEW l \in Lines'
             PROVE  Somewhere(l)'
  BY AllLinesNext
<1> USE DEF agent, link, backend, reader
<1>1. l \in Lines => Somewhere(l)
  BY AllLines
<1>2. /\ UNCHANGED streams => Lines' = Lines
      /\ UNCHANGED <<buffer, outbox>> => Waiting' = Waiting
  BY DEF Lines, Waiting
<1>3. CASE Gather
  <2>1. l \in Waiting \/ l \notin Lines => l \in Waiting' \/ l \in dropped'
    BY <1>3, GatherStep DEF Gathered
  <2>2. dropped \subseteq dropped' /\ UNCHANGED <<hand, socket, handler, table, lost>>
    BY <1>3, GatherStep DEF Gathered
  <2> QED
    BY <1>1, <2>1, <2>2 DEF Somewhere, Carries
\* A line that goes from one place to another.
<1>4. ASSUME UNCHANGED <<streams, table>>, dropped \subseteq dropped', lost \subseteq lost',
             l \in Waiting => Somewhere(l)',
             \A c \in Conns : Carries(c, l) => Somewhere(l)'
      PROVE  Somewhere(l)'
  BY <1>1, <1>2, <1>4 DEF Somewhere
<1>5. ASSUME NEW c \in Conns, Take(c) PROVE Somewhere(l)'
  <2>1. /\ UNCHANGED <<streams, buffer, socket, handler, table, dropped, lost>>
        /\ In(outbox) = Range(hand'[c]) \cup In(outbox') /\ hand[c] = << >>
        /\ \A d \in Conns \ {c} : hand'[d] = hand[d]
    BY <1>5, FrameTaken
  <2>2. \A d \in Conns : Carries(d, l) => Carries(d, l)'
    BY <2>1, NothingIn DEF Carries
  <2>3. l \in Waiting => l \in Waiting' \/ Carries(c, l)'
    BY <2>1 DEF Waiting, Carries
  <2> QED
    BY <1>4, <2>1, <2>2, <2>3 DEF Somewhere
<1>6. ASSUME NEW c \in Conns, Write(c) PROVE Somewhere(l)'
  <2>1. /\ UNCHANGED <<streams, buffer, outbox, handler, table, dropped, lost>>
        /\ In(socket'[c]) = In(socket[c]) \cup Range(hand[c])
        /\ \A d \in Conns \ {c} : hand'[d] = hand[d] /\ socket'[d] = socket[d]
    BY <1>6, FrameWritten
  <2>2. \A d \in Conns : Carries(d, l) => Carries(d, l)'
    BY <2>1 DEF Carries
  <2> QED
    BY <1>2, <1>4, <2>1, <2>2 DEF Somewhere
<1>7. ASSUME NEW c \in Conns, Requeue(c) PROVE Somewhere(l)'
  <2>1. /\ UNCHANGED <<streams, buffer, socket, handler, table, lost>>
        /\ \A d \in Conns \ {c} : hand'[d] = hand[d]
        /\ \/ UNCHANGED outbox /\ dropped' = dropped \cup Range(hand[c])
           \/ UNCHANGED dropped /\ In(outbox') = In(outbox) \cup Range(hand[c])
    BY <1>7, FrameRequeued
  <2>2. \A d \in Conns : Carries(d, l) => Carries(d, l)' \/ l \in Waiting' \/ l \in dropped'
    BY <2>1 DEF Carries, Waiting
  <2>3. l \in Waiting => l \in Waiting'
    BY <2>1 DEF Waiting
  <2>4. dropped \subseteq dropped'
    BY <2>1
  <2> QED
    BY <1>4, <2>1, <2>2, <2>3, <2>4 DEF Somewhere
<1>8. ASSUME NEW c \in Conns, Disconnect(c) PROVE Somewhere(l)'
  <2>1. /\ In(socket[c]) \subseteq In(socket'[c]) \cup lost' /\ lost \subseteq lost'
        /\ \A d \in Conns \ {c} : socket'[d] = socket[d]
    BY <1>8, Disconnected
  <2>2. UNCHANGED <<streams, buffer, outbox, hand, dropped, handler, table>>
    BY <1>8, Zenon DEF Disconnect
  <2>3. \A d \in Conns : Carries(d, l) => Carries(d, l)' \/ l \in lost'
    BY <2>1, <2>2 DEF Carries
  <2> QED
    BY <1>2, <1>4, <2>1, <2>2, <2>3 DEF Somewhere
<1>9. ASSUME NEW c \in Conns, ReadMaxSeq(c) PROVE Somewhere(l)'
  <2>1. /\ handler[c] = Rest /\ socket[c] # << >>
        /\ handler' = [handler EXCEPT ![c] = [step |-> "insert", frame |-> Head(socket[c]),
                                              base |-> MaxSeq]]
        /\ socket' = [socket EXCEPT ![c] = Tail(@)]
        /\ UNCHANGED <<streams, buffer, outbox, hand, table, dropped, lost>>
    BY <1>9 DEF ReadMaxSeq
  <2>2. /\ handler'[c].frame = Head(socket[c]) /\ socket'[c] = Tail(socket[c])
        /\ \A d \in Conns \ {c} : handler'[d] = handler[d] /\ socket'[d] = socket[d]
    BY <2>1 DEF TypeOK
  <2>3. In(socket[c]) = Range(Head(socket[c])) \cup In(Tail(socket[c]))
    BY <2>1, InTail DEF TypeOK
  <2>4. Range(handler[c].frame) = {}
    BY <2>1, NothingIn DEF Rest
  <2>5. \A d \in Conns : Carries(d, l) => Carries(d, l)'
    BY <2>1, <2>2, <2>3, <2>4 DEF Carries
  <2> QED
    BY <1>2, <1>4, <2>1, <2>5 DEF Somewhere
<1>10. ASSUME NEW c \in Conns, handler' = [handler EXCEPT ![c] = Rest],
              l \in Range(handler[c].frame) => l \in Range(table') \/ l \in lost',
              l \in Range(table) => l \in Range(table'), lost \subseteq lost',
              UNCHANGED <<streams, buffer, outbox, hand, socket, dropped>>
       PROVE  Somewhere(l)'
  <2>1. \A d \in Conns \ {c} : handler'[d] = handler[d]
    BY <1>10 DEF TypeOK
  <2>2. \A d \in Conns : Carries(d, l) => Carries(d, l)' \/ l \in Range(table') \/ l \in lost'
    BY <1>10, <2>1 DEF Carries
  <2> QED
    BY <1>1, <1>2, <1>10, <2>2 DEF Somewhere
<1>11. ASSUME NEW c \in Conns, AppendFails(c) PROVE Somewhere(l)'
  BY <1>10, <1>11 DEF AppendFails
<1>12. ASSUME NEW c \in Conns, AppendBatch(c) PROVE Somewhere(l)'
  <2> DEFINE h   == handler[c]
             new == {h.base + k : k \in DOMAIN h.frame}
  <2>1. /\ h.step = "insert"
        /\ table' = [k \in Stored \cup new |-> IF k \in Stored THEN table[k]
                                               ELSE h.frame[k - h.base]]
        /\ lost' = lost \cup {h.frame[k - h.base] : k \in new \cap Stored}
        /\ handler' = [handler EXCEPT ![c] = Rest]
        /\ UNCHANGED <<streams, buffer, outbox, hand, socket, dropped>>
    BY <1>12, Zenon DEF AppendBatch
  <2>2. ASSUME l \in Range(h.frame) PROVE l \in Range(table') \/ l \in lost'
    <3>1. PICK j \in DOMAIN h.frame : l = h.frame[j]
      BY <2>2, RangeIff
    <3>2. h.base + j \in new /\ (h.base + j) - h.base = j
      <4>1. h.base \in Nat /\ h.frame \in Seq(Lines)
        BY <2>1, HandlerHolds
      <4>2. j \in Nat
        BY <4>1
      <4> QED
        BY <4>1, <4>2
    <3> HIDE DEF new, h
    <3>3. CASE h.base + j \in Stored
      BY <2>1, <3>1, <3>2, <3>3
    <3>4. CASE h.base + j \notin Stored
      <4>1. h.base + j \in DOMAIN table' /\ table'[h.base + j] = l
        BY <2>1, <3>1, <3>2, <3>4
      <4> QED
        BY <4>1, RangeIff
    <3> QED
      BY <3>3, <3>4
  <2>3. ASSUME l \in Range(table) PROVE l \in Range(table')
    <3>1. PICK k \in Stored : l = table[k]
      BY <2>3, RangeIff DEF Stored
    <3> HIDE DEF new, h
    <3>2. k \in DOMAIN table' /\ table'[k] = l
      BY <2>1, <3>1
    <3> QED
      BY <3>2, RangeIff
  <2> QED
    BY <1>10, <2>1, <2>2, <2>3
<1>13. ASSUME NEW n \in Stored, DeleteOlderThan(n) PROVE Somewhere(l)'
  <2> DEFINE old == {k \in Stored : k <= n}
  <2>1. /\ table' = [k \in Stored \ old |-> table[k]]
        /\ lost' = lost \cup {table[k] : k \in old}
        /\ UNCHANGED <<streams, buffer, outbox, hand, socket, handler, dropped>>
    BY <1>13, Zenon DEF DeleteOlderThan
  <2> HIDE DEF old
  <2>2. ASSUME l \in Range(table) PROVE l \in Range(table') \/ l \in lost'
    <3>1. PICK k \in Stored : l = table[k]
      BY <2>2, RangeIff DEF Stored
    <3>2. k \notin old => k \in DOMAIN table' /\ table'[k] = l
      BY <2>1, <3>1
    <3> QED
      BY <2>1, <3>1, <3>2, RangeIff
  <2>3. \A c \in Conns : Carries(c, l) => Carries(c, l)'
    BY <2>1 DEF Carries
  <2> QED
    BY <1>1, <1>2, <2>1, <2>2, <2>3 DEF Somewhere
<1>14. CASE UNCHANGED <<streams, buffer, outbox, hand, socket, handler, table, dropped, lost>>
  BY <1>1, <1>2, <1>14 DEF Somewhere, Carries
<1>15. (\E c \in Conns : Connect(c)) \/ (\E limit \in Limits : GetSessionLogs(limit))
       \/ UNCHANGED vars
       => UNCHANGED <<streams, buffer, outbox, hand, socket, handler, table, dropped, lost>>
  BY DEF Connect, GetSessionLogs, vars
<1> QED
  BY <1>3, <1>5, <1>6, <1>7, <1>8, <1>9, <1>11, <1>12, <1>13, <1>14, <1>15
     DEF Next, Gather, Connection, Handle

-----------------------------------------------------------------------------
(***************************************************************************)
(* Every batch has one stream, and its lines in order.                     *)
(***************************************************************************)
LEMMA BatchParts ==
    Batches <=> /\ Ordered(buffer) /\ AllOrdered(outbox)
                /\ \A c \in Conns : /\ Ordered(hand[c]) /\ AllOrdered(socket[c])
                                    /\ Ordered(handler[c].frame)
BY DEF Batches, AllOrdered

LEMMA BatchesStep == TypeOK /\ Batches /\ [Next]_vars => Batches'
<1> DEFINE OrderedAt(c) == /\ OrderedThen(hand'[c]) /\ AllOrderedThen(socket'[c])
                           /\ OrderedThen(handler'[c].frame)
           Goal         == /\ OrderedThen(buffer') /\ AllOrderedThen(outbox')
                           /\ \A c \in Conns : OrderedAt(c)
<1> SUFFICES ASSUME TypeOK, Batches, [Next]_vars
             PROVE  Goal
  BY DEF Batches, Ordered, OrderedThen, AllOrderedThen
<1> USE DEF agent, link, backend, reader
<1>1. /\ Ordered(buffer) /\ AllOrdered(outbox)
      /\ \A c \in Conns : /\ Ordered(hand[c]) /\ AllOrdered(socket[c])
                          /\ Ordered(handler[c].frame)
  BY BatchParts
<1>2. \A c \in Conns : /\ hand[c] \in Seq(Lines) /\ handler[c].frame \in Seq(Lines)
                       /\ socket[c] \in Seq(FramesOf(Lines)) /\ socket[c] \in Seq(Seq(Lines))
  BY HandlerHolds
<1>3. CASE Gather
  <2>1. /\ \A l \in Lines : streams'[l] = streams[l]
        /\ UNCHANGED <<hand, socket, handler>>
        /\ OrderedThen(buffer') /\ AllOrderedThen(outbox')
    BY <1>1, <1>3, GatherStep DEF Gathered
  <2>2. \A c \in Conns : OrderedAt(c)
    <3> TAKE c \in Conns
    <3>1. OrderedThen(hand[c]) /\ AllOrderedThen(socket[c]) /\ OrderedThen(handler[c].frame)
      BY <1>1, <1>2, <2>1, OrderedKept, AllOrderedKept
    <3> QED
      BY <2>1, <3>1
  <2> QED
    BY <2>1, <2>2
\* Without a new line it is enough to look at the queues.
<1>4. ASSUME UNCHANGED streams, Ordered(buffer'), AllOrdered(outbox'),
             \A c \in Conns : /\ Ordered(hand'[c]) /\ AllOrdered(socket'[c])
                              /\ Ordered(handler'[c].frame)
      PROVE  Goal
  BY <1>4 DEF AllOrdered, AllOrderedThen, Ordered, OrderedThen
<1>5. ASSUME NEW c \in Conns, Take(c) PROVE Goal
  <2>1. /\ outbox # << >> /\ outbox \in Seq(Seq(Lines)) /\ outbox' = Tail(outbox)
        /\ hand'[c] = Head(outbox) /\ \A d \in Conns \ {c} : hand'[d] = hand[d]
        /\ UNCHANGED <<streams, buffer, socket, handler>>
    BY <1>5, FrameTaken
  <2>2. AllOrdered(Tail(outbox)) /\ Ordered(Head(outbox))
    BY <1>1, <2>1, AllOrderedTail
  <2> QED
    BY <1>1, <1>4, <2>1, <2>2
<1>6. ASSUME NEW c \in Conns, Write(c) PROVE Goal
  <2>1. /\ hand[c] \in FramesOf(Lines) /\ hand'[c] = << >>
        /\ socket'[c] = Append(socket[c], hand[c])
        /\ \A d \in Conns \ {c} : hand'[d] = hand[d] /\ socket'[d] = socket[d]
        /\ UNCHANGED <<streams, buffer, outbox, handler>>
    BY <1>6, FrameWritten
  <2>2. AllOrdered(socket'[c])
    BY <1>1, <1>2, <2>1, AllOrderedAppend
  <2> QED
    BY <1>1, <1>4, <2>1, <2>2, NothingOrdered
<1>7. ASSUME NEW c \in Conns, Requeue(c) PROVE Goal
  <2>1. /\ hand[c] \in Seq(Lines) /\ outbox \in Seq(Seq(Lines)) /\ hand'[c] = << >>
        /\ outbox' = outbox \/ outbox' = Append(outbox, hand[c])
        /\ \A d \in Conns \ {c} : hand'[d] = hand[d]
        /\ UNCHANGED <<streams, buffer, socket, handler>>
    BY <1>7, FrameRequeued
  <2>2. AllOrdered(outbox')
    BY <1>1, <2>1, AllOrderedAppend
  <2> QED
    BY <1>1, <1>4, <2>1, <2>2, NothingOrdered
<1>8. ASSUME NEW c \in Conns, Disconnect(c) PROVE Goal
  <2>1. AllOrdered(socket'[c]) /\ \A d \in Conns \ {c} : socket'[d] = socket[d]
    BY <1>1, <1>8, Disconnected
  <2>2. UNCHANGED <<streams, buffer, outbox, hand, handler>>
    BY <1>8, Zenon DEF Disconnect
  <2> QED
    BY <1>1, <1>4, <2>1, <2>2
<1>9. ASSUME NEW c \in Conns, ReadMaxSeq(c) PROVE Goal
  <2>1. /\ socket[c] # << >>
        /\ handler' = [handler EXCEPT ![c] = [step |-> "insert", frame |-> Head(socket[c]),
                                              base |-> MaxSeq]]
        /\ socket' = [socket EXCEPT ![c] = Tail(@)]
        /\ UNCHANGED <<streams, buffer, outbox, hand>>
    BY <1>9 DEF ReadMaxSeq
  <2>2. AllOrdered(Tail(socket[c])) /\ Ordered(Head(socket[c]))
    BY <1>1, <1>2, <2>1, AllOrderedTail
  <2>3. /\ handler'[c].frame = Head(socket[c]) /\ socket'[c] = Tail(socket[c])
        /\ \A d \in Conns \ {c} : handler'[d] = handler[d] /\ socket'[d] = socket[d]
    BY <2>1 DEF TypeOK
  <2> QED
    BY <1>1, <1>4, <2>1, <2>2, <2>3
<1>10. ASSUME NEW c \in Conns, AppendBatch(c) \/ AppendFails(c) PROVE Goal
  <2>1. /\ handler' = [handler EXCEPT ![c] = Rest]
        /\ UNCHANGED <<streams, buffer, outbox, hand, socket>>
    BY <1>10 DEF AppendBatch, AppendFails
  <2>2. handler'[c].frame = << >> /\ \A d \in Conns \ {c} : handler'[d] = handler[d]
    BY <2>1 DEF TypeOK, Rest
  <2> QED
    BY <1>1, <1>4, <2>1, <2>2, NothingOrdered
<1>11. CASE UNCHANGED <<streams, buffer, outbox, hand, socket, handler>>
  BY <1>1, <1>4, <1>11
<1>12. (\E c \in Conns : Connect(c)) \/ (\E n \in Stored : DeleteOlderThan(n))
       \/ (\E limit \in Limits : GetSessionLogs(limit)) \/ UNCHANGED vars
       => UNCHANGED <<streams, buffer, outbox, hand, socket, handler>>
  BY DEF Connect, DeleteOlderThan, GetSessionLogs, vars
<1> QED
  BY <1>3, <1>5, <1>6, <1>7, <1>8, <1>9, <1>10, <1>11, <1>12 DEF Next, Gather, Connection, Handle

-----------------------------------------------------------------------------
(***************************************************************************)
(* Numbers of rows, and the reader.                                        *)
(***************************************************************************)
\* What the statement of a handler inserts: the numbers that follow its base.
LEMMA RowsInserted ==
    ASSUME TypeOK, NEW c \in Conns, AppendBatch(c)
    PROVE  \E b \in Nat, n \in Nat \ {0} :
              /\ handler[c].step = "insert" /\ handler[c].base = b
              /\ n = Len(handler[c].frame) /\ DOMAIN handler[c].frame = 1..n
              /\ handler[c].frame \in FramesOf(Lines)
              /\ Stored' = Stored \cup (b + 1..b + n)
              /\ \A k \in Stored : table'[k] = table[k]
              /\ \A k \in (b + 1..b + n) \ Stored : table'[k] = handler[c].frame[k - b]
              /\ lost' = lost \cup {handler[c].frame[k - b] : k \in (b + 1..b + n) \cap Stored}
              /\ handler' = [handler EXCEPT ![c] = Rest]
              /\ handler'[c] = Rest /\ \A d \in Conns \ {c} : handler'[d] = handler[d]
<1> DEFINE h   == handler[c]
           new == {h.base + k : k \in DOMAIN h.frame}
<1>1. /\ h.step = "insert"
      /\ table' = [k \in Stored \cup new |-> IF k \in Stored THEN table[k]
                                             ELSE h.frame[k - h.base]]
      /\ lost' = lost \cup {h.frame[k - h.base] : k \in new \cap Stored}
      /\ handler' = [handler EXCEPT ![c] = Rest]
  BY Zenon DEF AppendBatch
<1>2. PICK b \in Nat : h.base = b
  BY <1>1, HandlerHolds
<1>3. h.frame \in FramesOf(Lines)
  BY <1>1, HandlerHolds
<1>4. PICK n \in Nat \ {0} : n = Len(h.frame) /\ DOMAIN h.frame = 1..n
  BY <1>3 DEF FramesOf, Other
<1>5. new = b + 1..b + n
  <2>1. \A k \in b + 1..b + n : k - b \in 1..n /\ k = b + (k - b)
    BY <1>2, <1>4
  <2>2. \A k \in 1..n : b + k \in b + 1..b + n
    BY <1>2, <1>4
  <2>3. new = {b + k : k \in 1..n}
    BY <1>2, <1>4
  <2>4. b + 1..b + n \subseteq {b + k : k \in 1..n}
    BY <2>1
  <2>5. {b + k : k \in 1..n} \subseteq b + 1..b + n
    BY <2>2
  <2> QED
    BY <2>3, <2>4, <2>5
<1> HIDE DEF new
<1>6. /\ Stored' = Stored \cup new
      /\ \A k \in Stored : table'[k] = table[k]
      /\ \A k \in new \ Stored : table'[k] = h.frame[k - b]
  BY <1>1, <1>2 DEF Stored
<1>7. handler'[c] = Rest /\ \A d \in Conns \ {c} : handler'[d] = handler[d]
  BY <1>1 DEF TypeOK
<1> QED
  BY <1>1, <1>2, <1>3, <1>4, <1>5, <1>6, <1>7

\* What the retention job leaves.
LEMMA RowsDeleted ==
    ASSUME TypeOK, NEW n \in Stored, DeleteOlderThan(n)
    PROVE  /\ Stored' = {k \in Stored : k > n} /\ \A k \in Stored' : table'[k] = table[k]
           /\ lost' = lost \cup {table[k] : k \in {j \in Stored : j <= n}}
           /\ emptied' = (emptied \/ Stored' = {})
           /\ \A c \in Conns : handler[c].step = "insert" => handler[c].base >= n
           /\ UNCHANGED <<streams, buffer, outbox, hand, conn, socket, handler, retries, dropped, calm, next,
                          seen>>
<1> DEFINE old == {k \in Stored : k <= n}
<1>1. /\ table' = [k \in Stored \ old |-> table[k]]
      /\ lost' = lost \cup {table[k] : k \in old}
      /\ emptied' = (emptied \/ old = Stored)
      /\ \A c \in Conns : handler[c].step = "insert" => handler[c].base >= n
      /\ UNCHANGED <<streams, buffer, outbox, hand, conn, socket, handler, retries, dropped, calm, next,
                          seen>>
  BY Zenon DEF DeleteOlderThan, agent, link, reader
<1>2. Stored \ old = {k \in Stored : k > n} /\ old \subseteq Stored
  <2>1. \A k \in Stored : ~(k <= n) <=> k > n
    BY DEF TypeOK
  <2> QED
    BY <2>1
<1> HIDE DEF old
<1>3. Stored' = Stored \ old /\ \A k \in Stored' : table'[k] = table[k]
  BY <1>1 DEF Stored
<1>4. Stored' = {} <=> old = Stored
  BY <1>2, <1>3
<1>5. emptied' = (emptied \/ Stored' = {})
  BY <1>1, <1>4, Zenon
<1> QED
  BY <1>1, <1>2, <1>3, <1>5 DEF old

\* The last row of the next state: that of this one, or the last of a batch that reaches further.
LEMMA LastAfterInsert ==
    ASSUME TypeOK, AtEnd, TypeOK', NEW b \in Nat, NEW n \in Nat \ {0},
           Stored' = Stored \cup (b + 1..b + n)
    PROVE  HasLast' /\ AtEnd' /\ MaxSeq' = (IF MaxSeq < b + n THEN b + n ELSE MaxSeq)
<1> DEFINE m == IF MaxSeq < b + n THEN b + n ELSE MaxSeq
<1>1. MaxSeq \in Nat /\ (\A k \in Stored : k <= MaxSeq) /\ (Stored # {} => MaxSeq \in Stored)
      /\ Stored \subseteq Nat
  BY DEF AtEnd, TypeOK
<1>2. MaxSeq = 0 \/ Stored # {}
  BY DEF MaxSeq
<1>3. m \in Stored'
  BY <1>1, <1>2
<1>4. \A k \in Stored' : k <= m
  BY <1>1
<1>5. HasLast' /\ Stored' # {}
  BY <1>3, <1>4 DEF HasLast
<1>6. AtEnd'
  BY <1>5, LastRowNext
<1>7. MaxSeq' \in Stored' /\ \A k \in Stored' : k <= MaxSeq'
  BY <1>5, <1>6 DEF AtEnd
<1>8. Stored' \subseteq Nat
  BY DEF TypeOK
<1>9. m <= MaxSeq' /\ MaxSeq' <= m /\ m \in Nat /\ MaxSeq' \in Nat
  BY <1>3, <1>4, <1>7, <1>8
<1>10. MaxSeq' = m
  BY <1>9
<1> QED
  BY <1>5, <1>6, <1>10

\* Rows go from the front: the last one is the last one until the table is empty.
LEMMA LastAfterDelete ==
    ASSUME TypeOK, AtEnd, TypeOK', NEW n \in Stored, Stored' = {k \in Stored : k > n}
    PROVE  HasLast' /\ AtEnd' /\ (Stored' # {} => MaxSeq' = MaxSeq /\ MaxSeq > n)
<1>1. /\ MaxSeq \in Nat /\ MaxSeq \in Stored /\ Stored \subseteq Nat
      /\ \A k \in Stored : k <= MaxSeq
  BY DEF AtEnd, TypeOK
<1>2. ASSUME Stored' # {} PROVE MaxSeq \in Stored' /\ MaxSeq > n
  <2>1. PICK k \in Stored' : TRUE
    BY <1>2
  <2>2. k > n /\ k <= MaxSeq /\ k \in Nat /\ n \in Nat
    BY <1>1, <2>1
  <2> QED
    BY <1>1, <2>2
<1>3. HasLast'
  BY <1>1, <1>2 DEF HasLast
<1>4. AtEnd'
  BY <1>3, LastRowNext
<1>5. ASSUME Stored' # {} PROVE MaxSeq' = MaxSeq
  <2>1. MaxSeq' \in Stored' /\ MaxSeq <= MaxSeq' /\ MaxSeq' \in Nat
    BY <1>2, <1>4, <1>5 DEF AtEnd
  <2>2. MaxSeq' <= MaxSeq
    BY <1>1, <2>1
  <2> QED
    BY <1>1, <2>1, <2>2
<1> QED
  BY <1>2, <1>3, <1>4, <1>5

\* The handlers that are about to insert, and the reader, keep up with the table.
InReach == /\ next <= MaxSeq
           /\ \A c \in Conns : handler[c].step = "insert" =>
                 handler[c].base <= MaxSeq /\ handler[c].base + 1..MaxSeq \subseteq Stored

LEMMA NumberedParts == Numbered <=> HasLast /\ (emptied \/ InReach)
BY Zenon DEF Numbered, HasLast, InReach

LEMMA InReachStep ==
    ASSUME TypeOK, TypeOK', Numbered, InReach, [Next]_vars
    PROVE  emptied' \/ InReach'
<1> USE DEF agent, link, backend, reader
<1>1. AtEnd /\ Stored \subseteq Nat /\ MaxSeq \in Nat
  BY EndOfTable DEF TypeOK, AtEnd
<1>2. UNCHANGED table => Stored' = Stored /\ MaxSeq' = MaxSeq
  BY DEF Stored, MaxSeq
<1>3. ASSUME NEW c \in Conns, AppendBatch(c) PROVE InReach'
  <2>1. PICK b \in Nat, n \in Nat \ {0} :
           /\ handler[c].step = "insert" /\ handler[c].base = b
           /\ Stored' = Stored \cup (b + 1..b + n)
           /\ handler'[c] = Rest /\ \A d \in Conns \ {c} : handler'[d] = handler[d]
    BY <1>3, RowsInserted
  <2>2. b <= MaxSeq /\ next <= MaxSeq /\ next \in Nat
    BY <2>1 DEF InReach, TypeOK
  <2>3. MaxSeq' = (IF MaxSeq < b + n THEN b + n ELSE MaxSeq)
    BY <1>1, <2>1, LastAfterInsert
  <2>4. next' <= MaxSeq'
    BY <1>1, <1>3, <2>2, <2>3 DEF AppendBatch
  <2>5. ASSUME NEW d \in Conns, handler'[d].step = "insert"
        PROVE  handler'[d].base <= MaxSeq' /\ handler'[d].base + 1..MaxSeq' \subseteq Stored'
    <3>1. d # c /\ handler'[d] = handler[d]
      BY <2>1, <2>5 DEF Rest
    <3>2. PICK a \in Nat : a = handler[d].base
      BY <2>5, <3>1, HandlerHolds
    <3>3. a <= MaxSeq /\ a + 1..MaxSeq \subseteq Stored
      BY <2>5, <3>1, <3>2 DEF InReach
    <3>4. ASSUME NEW k \in a + 1..MaxSeq' PROVE k \in Stored'
      <4>1. CASE k <= MaxSeq
        <5>1. k \in a + 1..MaxSeq
          BY <1>1, <3>2, <4>1
        <5> QED
          BY <2>1, <3>3, <5>1
      <4>2. CASE ~(k <= MaxSeq)
        <5>1. MaxSeq' = b + n /\ k \in b + 1..b + n
          BY <1>1, <2>2, <2>3, <3>2, <3>4, <4>2
        <5> QED
          BY <2>1, <5>1
      <4> QED
        BY <4>1, <4>2
    <3>5. a <= MaxSeq'
      BY <1>1, <2>3, <3>2, <3>3
    <3> QED
      BY <3>1, <3>2, <3>4, <3>5
  <2> QED
    BY <2>4, <2>5 DEF InReach
<1>4. ASSUME NEW n \in Stored, DeleteOlderThan(n), ~emptied' PROVE InReach'
  <2>1. /\ Stored' = {k \in Stored : k > n} /\ Stored' # {}
        /\ \A c \in Conns : handler[c].step = "insert" => handler[c].base >= n
        /\ UNCHANGED <<handler, next>>
    BY <1>4, RowsDeleted
  <2>2. MaxSeq' = MaxSeq
    BY <1>1, <2>1, LastAfterDelete
  <2>3. ASSUME NEW c \in Conns, handler[c].step = "insert"
        PROVE  handler[c].base + 1..MaxSeq \subseteq Stored'
    <3>1. PICK a \in Nat : a = handler[c].base
      BY <2>3, HandlerHolds
    <3>2. a >= n /\ a + 1..MaxSeq \subseteq Stored /\ n \in Nat
      BY <1>1, <2>1, <2>3, <3>1 DEF InReach
    <3>3. \A k \in a + 1..MaxSeq : k > n
      BY <1>1, <3>2
    <3> QED
      BY <2>1, <3>1, <3>2, <3>3
  <2> QED
    BY <2>1, <2>2, <2>3 DEF InReach
<1>5. ASSUME NEW c \in Conns, ReadMaxSeq(c) PROVE InReach'
  <2>1. UNCHANGED <<table, next>> /\ handler'[c].base = MaxSeq
        /\ \A d \in Conns \ {c} : handler'[d] = handler[d]
    BY <1>5 DEF ReadMaxSeq, TypeOK
  <2>2. MaxSeq <= MaxSeq /\ MaxSeq + 1..MaxSeq \subseteq Stored
    BY <1>1
  <2> QED
    BY <1>2, <2>1, <2>2 DEF InReach
<1>6. ASSUME NEW c \in Conns, AppendFails(c) PROVE InReach'
  <2>1. UNCHANGED <<table, next>> /\ handler'[c] = Rest
        /\ \A d \in Conns \ {c} : handler'[d] = handler[d]
    BY <1>6 DEF AppendFails, TypeOK
  <2> QED
    BY <1>2, <2>1 DEF InReach, Rest
<1>7. ASSUME NEW limit \in Limits, GetSessionLogs(limit) PROVE InReach'
  <2>1. UNCHANGED <<table, handler>> /\ next' = Max(Page(limit)) /\ Following # {}
    BY <1>7 DEF GetSessionLogs
  <2>2. next' \in Stored
    BY <2>1, PageOfRows DEF Following
  <2>3. next' <= MaxSeq
    BY <1>1, <2>2 DEF AtEnd
  <2> QED
    BY <1>2, <2>1, <2>3 DEF InReach
<1>8. CASE UNCHANGED <<table, handler, next>>
  BY <1>2, <1>8 DEF InReach
<1>9. \/ \E c \in Conns : AppendBatch(c) \/ ReadMaxSeq(c) \/ AppendFails(c)
      \/ \E n \in Stored : DeleteOlderThan(n)
      \/ \E limit \in Limits : GetSessionLogs(limit)
      \/ UNCHANGED <<table, handler, next>>
  BY Zenon DEF Next, AppendLog, DropLine, Flush, SendOther, Connection, Connect, Take, Write,
     Disconnect, Requeue, Handle,
     vars
<1> QED
  BY <1>3, <1>4, <1>5, <1>6, <1>7, <1>8, <1>9

LEMMA NumberedStep == TypeOK /\ TypeOK' /\ Numbered /\ [Next]_vars => Numbered'
<1> SUFFICES ASSUME TypeOK, TypeOK', Numbered, [Next]_vars PROVE HasLast' /\ (emptied' \/ InReach')
  BY DEF Numbered, HasLast, InReach
<1>1. HasLast /\ AtEnd
  BY NumberedParts, EndOfTable
<1>2. emptied' \/ InReach'
  <2>1. CASE InReach
    BY <2>1, InReachStep
  <2>2. emptied => emptied'
    BY Zenon DEF Next, AppendLog, DropLine, Flush, SendOther, Connection, Connect, Take, Write,
     Disconnect, Requeue, Handle,
       ReadMaxSeq, AppendBatch, AppendFails, DeleteOlderThan, GetSessionLogs, vars, link, backend
  <2> QED
    BY <2>1, <2>2, NumberedParts
<1>3. HasLast'
  <2>1. ASSUME NEW c \in Conns, AppendBatch(c) PROVE HasLast'
    <3>1. PICK b \in Nat, n \in Nat \ {0} : Stored' = Stored \cup (b + 1..b + n)
      BY <2>1, RowsInserted
    <3> QED
      BY <1>1, <3>1, LastAfterInsert
  <2>2. ASSUME NEW n \in Stored, DeleteOlderThan(n) PROVE HasLast'
    <3>1. Stored' = {k \in Stored : k > n}
      BY <2>2, RowsDeleted
    <3> QED
      BY <1>1, <3>1, LastAfterDelete
  <2>3. CASE UNCHANGED table
    BY <1>1, <2>3 DEF HasLast, Stored
  <2>4. UNCHANGED table \/ (\E c \in Conns : AppendBatch(c)) \/ \E n \in Stored : DeleteOlderThan(n)
    BY Zenon DEF Next, AppendLog, DropLine, Flush, SendOther, Connection, Connect, Take, Write,
     Disconnect, Requeue, Handle,
       ReadMaxSeq, AppendFails, GetSessionLogs, vars, link, backend
  <2> QED
    BY <2>1, <2>2, <2>3, <2>4
<1> QED
  BY <1>2, <1>3

\* A page continues where the last one ended, and no row comes to be before its end.
LEMMA ReaderStep ==
    TypeOK /\ Numbered /\ ReaderSkipsNothing /\ [Next]_vars => ReaderSkipsNothing'
<1> SUFFICES ASSUME TypeOK, Numbered, ReaderSkipsNothing, [Next]_vars, ~emptied',
                    NEW k \in Stored', k <= next'
             PROVE  k \in seen'
  BY DEF ReaderSkipsNothing
<1> USE DEF agent, link, backend, reader
<1>1. ~emptied
  BY Zenon DEF Next, AppendLog, DropLine, Flush, SendOther, Connection, Connect, Take, Write,
     Disconnect, Requeue, Handle,
     ReadMaxSeq, AppendBatch, AppendFails, DeleteOlderThan, GetSessionLogs, vars
<1>2. InReach /\ AtEnd /\ next \in Nat /\ MaxSeq \in Nat /\ Stored \subseteq Nat
  BY <1>1, NumberedParts, EndOfTable DEF AtEnd, TypeOK
<1>3. \A j \in Stored : j <= next => j \in seen
  BY <1>1 DEF ReaderSkipsNothing
<1>4. ASSUME NEW c \in Conns, AppendBatch(c) PROVE k \in seen'
  <2>1. PICK b \in Nat, n \in Nat \ {0} :
           /\ handler[c].step = "insert" /\ handler[c].base = b
           /\ Stored' = Stored \cup (b + 1..b + n)
    BY <1>4, RowsInserted
  <2>2. b + 1..MaxSeq \subseteq Stored /\ next <= MaxSeq /\ UNCHANGED <<next, seen>>
    BY <1>2, <1>4, <2>1 DEF InReach, AppendBatch
  <2>3. k \in Stored
    <3>1. CASE k \in b + 1..b + n
      <4>1. k \in b + 1..MaxSeq
        BY <1>2, <2>1, <2>2, <3>1
      <4> QED
        BY <2>2, <4>1
    <3> QED
      BY <2>1, <3>1
  <2> QED
    BY <1>3, <2>2, <2>3
<1>5. ASSUME NEW n \in Stored, DeleteOlderThan(n) PROVE k \in seen'
  BY <1>3, <1>5, RowsDeleted
<1>6. ASSUME NEW limit \in Limits, GetSessionLogs(limit) PROVE k \in seen'
  <2>1. /\ UNCHANGED table /\ Following # {} /\ next' = Max(Page(limit))
        /\ seen' = seen \cup Page(limit)
    BY <1>6 DEF GetSessionLogs
  <2>2. k \in Stored /\ k \in Nat
    BY <1>2, <2>1 DEF Stored
  <2>3. CASE k <= next
    BY <1>3, <2>1, <2>2, <2>3
  <2>4. CASE ~(k <= next)
    <3>1. k \in Following
      BY <1>2, <2>2, <2>4 DEF Following
    <3> QED
      BY <2>1, <3>1, PageOfRows
  <2> QED
    BY <2>3, <2>4
<1>7. CASE UNCHANGED <<table, next, seen>>
  BY <1>3, <1>7 DEF Stored
<1>8. \/ \E c \in Conns : AppendBatch(c)
      \/ \E n \in Stored : DeleteOlderThan(n)
      \/ \E limit \in Limits : GetSessionLogs(limit)
      \/ UNCHANGED <<table, next, seen>>
  BY Zenon DEF Next, AppendLog, DropLine, Flush, SendOther, Connection, Connect, Take, Write,
     Disconnect, Requeue, Handle,
     ReadMaxSeq, AppendFails, vars
<1> QED
  BY <1>4, <1>5, <1>6, <1>7, <1>8

-----------------------------------------------------------------------------
(***************************************************************************)
(* Without a fault, lines keep their order.                                *)
(***************************************************************************)
Arrived == Range(table) \cup lost

\* The lines at a connection, from its handler back to those that wait for it.
Flows(c) ==
    /\ Before(Range(hand[c]), Waiting)
    /\ Sorted(socket[c]) /\ Before(In(socket[c]), Range(hand[c]) \cup Waiting)
    /\ Before(Range(handler[c].frame), In(socket[c]) \cup Range(hand[c]) \cup Waiting)
    /\ handler[c].step = "insert" => \A k \in Stored : k <= handler[c].base
Unused(c) == socket[c] = << >> /\ hand[c] = << >> /\ handler[c] = Rest

InLine ==
    /\ \A c \in Conns \ {conn} : Unused(c)
    /\ Before(Arrived, Underway)
    /\ InOrder
    /\ \A c \in Conns : Flows(c)

LEMMA InLineIff == InSequence <=> (calm => InLine)
BY Zenon DEF InSequence, InLine, InOrder, Flows, Unused, Arrived

LEMMA InLineIffNext == InSequence' <=> (calm' => InLine')
BY InLineIff, PTL

LEMMA InLineStep ==
    ASSUME TypeOK, TypeOK', Numbered, InLine, [Next]_vars, calm'
    PROVE  InLine'
<1> USE DEF agent, link, backend, reader, Before
<1>1. /\ \A c \in Conns \ {conn} : Unused(c)
      /\ Before(Arrived, Underway)
      /\ Sorted(outbox) /\ Before(In(outbox), Range(buffer))
      /\ \A c \in Conns :
            /\ Before(Range(hand[c]), Waiting)
            /\ Sorted(socket[c]) /\ Before(In(socket[c]), Range(hand[c]) \cup Waiting)
            /\ Before(Range(handler[c].frame), In(socket[c]) \cup Range(hand[c]) \cup Waiting)
            /\ handler[c].step = "insert" => \A k \in Stored : k <= handler[c].base
  BY DEF InLine, InOrder, Flows
<1>2. /\ UNCHANGED table => Stored' = Stored
      /\ UNCHANGED <<outbox, buffer>> => Waiting' = Waiting /\ (InOrder => InOrder')
      /\ UNCHANGED <<table, lost>> => Arrived' = Arrived
  BY DEF Stored, Waiting, InOrder, Arrived
<1>3. Waiting = In(outbox) \cup Range(buffer) /\ Waiting' = In(outbox') \cup Range(buffer')
  BY DEF Waiting, In, Range
\* No line comes to be under way but at the end, and none arrives.
<1>4. ASSUME UNCHANGED <<table, lost>>,
             \A l \in Underway' : l \in Underway \/ \A k \in Lines : k < l
      PROVE  Before(Arrived', Underway')
  <2>1. Arrived' = Arrived /\ Arrived \subseteq Lines
    BY <1>2, <1>4, LinesAreWritten DEF Arrived
  <2> QED
    BY <1>1, <1>4, <2>1
<1>5. CASE Gather
  <2>1. /\ Waiting' \subseteq Waiting \cup {Len(streams) + 1} /\ InOrder'
        /\ UNCHANGED <<conn, hand, socket, handler, table, lost>>
    BY <1>1, <1>5, GatherStep DEF Gathered, InOrder
  <2>2. \A l \in Waiting' : l \in Waiting \/ \A k \in Lines : k < l
    BY <2>1, LinesAreWritten
  <2>3. \A c \in Conns : Flows(c)'
    <3> TAKE c \in Conns
    <3>1. In(socket[c]) \cup Range(hand[c]) \cup Range(handler[c].frame) \subseteq Lines
      BY LinesAreWritten
    <3>2. Before(Range(hand[c]), Waiting')
      BY <1>1, <2>2, <3>1
    <3>3. Before(In(socket[c]), Range(hand[c]) \cup Waiting')
      BY <1>1, <2>2, <3>1
    <3>4. Before(Range(handler[c].frame), In(socket[c]) \cup Range(hand[c]) \cup Waiting')
      BY <1>1, <2>2, <3>1
    <3> QED
      BY <1>1, <1>2, <2>1, <3>2, <3>3, <3>4 DEF Flows
  <2>4. \A l \in Underway' : l \in Underway \/ \A k \in Lines : k < l
    BY <2>1, <2>2, UnderwayIff, UnderwayIffNext DEF Carries
  <2>5. Before(Arrived', Underway')
    BY <1>4, <2>1, <2>4
  <2> QED
    BY <1>1, <2>1, <2>3, <2>5 DEF InLine, Unused
<1>6. ASSUME NEW c \in Conns, Connect(c) PROVE InLine'
  <2>1. UNCHANGED <<buffer, outbox, hand, socket, handler, table, lost>> /\ c = conn'
        /\ \A d \in Conns : Unused(d)
    BY <1>1, <1>6, ConstantsAssumption DEF Connect
  <2>2. \A l \in Underway' : l \in Underway
    BY <1>2, <2>1, UnderwayIff, UnderwayIffNext DEF Carries
  <2>3. Before(Arrived', Underway')
    BY <1>4, <2>1, <2>2
  <2> QED
    BY <1>1, <1>2, <2>1, <2>3 DEF InLine, InOrder, Flows, Unused
<1>7. ASSUME NEW c \in Conns, Take(c) PROVE InLine'
  <2>1. /\ outbox # << >> /\ outbox \in Seq(Seq(Lines)) /\ conn = c /\ hand[c] = << >>
        /\ outbox' = Tail(outbox) /\ hand'[c] = Head(outbox)
        /\ \A d \in Conns \ {c} : hand'[d] = hand[d]
        /\ In(outbox) = Range(hand'[c]) \cup In(outbox')
        /\ UNCHANGED <<buffer, conn, socket, handler, table, lost>>
    BY <1>7, FrameTaken
  <2>2. Sorted(outbox') /\ Before(Range(hand'[c]), In(outbox'))
    BY <1>1, <2>1, SortedTail
  <2>3. Waiting = Range(hand'[c]) \cup Waiting' /\ Range(hand[c]) = {}
    BY <1>3, <2>1, NothingIn
  <2>4. InOrder'
    <3>1. Before(In(outbox'), Range(buffer'))
      BY <1>1, <2>1
    <3> QED
      BY <2>2, <3>1 DEF InOrder, Sorted, In, Range
  <2>5. Before(Range(hand'[c]), Waiting')
    BY <1>1, <1>3, <2>1, <2>2
  <2>6. ASSUME NEW d \in Conns PROVE Flows(d)'
    <3>1. CASE d = c
      BY <1>1, <1>2, <2>1, <2>3, <2>5, <3>1 DEF Flows
    <3>2. CASE d # c
      BY <1>1, <1>2, <2>1, <2>3, <3>2 DEF Flows
    <3> QED
      BY <3>1, <3>2
  <2>7. \A l \in Underway' : l \in Underway
    BY <2>1, <2>3, UnderwayIff, UnderwayIffNext DEF Carries
  <2>8. Before(Arrived', Underway')
    BY <1>4, <2>1, <2>7
  <2> QED
    BY <1>1, <2>1, <2>4, <2>6, <2>8 DEF InLine, Unused
<1>8. ASSUME NEW c \in Conns, Write(c) PROVE InLine'
  <2>1. /\ hand[c] \in FramesOf(Lines) /\ conn = c /\ hand'[c] = << >>
        /\ socket'[c] = Append(socket[c], hand[c])
        /\ \A d \in Conns \ {c} : hand'[d] = hand[d] /\ socket'[d] = socket[d]
        /\ In(socket'[c]) = In(socket[c]) \cup Range(hand[c])
        /\ UNCHANGED <<buffer, outbox, conn, handler, table, lost>>
    BY <1>8, FrameWritten
  <2>2. Range(hand'[c]) = {}
    BY <2>1, NothingIn
  <2>3. Sorted(socket'[c])
    <3>1. socket[c] \in Seq(FramesOf(Lines)) /\ Before(In(socket[c]), Range(hand[c]))
      BY <1>1, HandlerHolds
    <3> QED
      BY <1>1, <2>1, <3>1, SortedAppend
  <2>4. ASSUME NEW d \in Conns PROVE Flows(d)'
    <3>1. CASE d = c
      BY <1>1, <1>2, <2>1, <2>2, <2>3, <3>1 DEF Flows
    <3>2. CASE d # c
      BY <1>1, <1>2, <2>1, <3>2 DEF Flows
    <3> QED
      BY <3>1, <3>2
  <2>5. \A l \in Underway' : l \in Underway
    BY <1>2, <2>1, <2>2, UnderwayIff, UnderwayIffNext DEF Carries
  <2>6. Before(Arrived', Underway')
    BY <1>4, <2>1, <2>5
  <2>7. InOrder'
    BY <1>1, <1>2, <2>1 DEF InOrder
  <2> QED
    BY <1>1, <2>1, <2>4, <2>6, <2>7 DEF InLine, Unused
<1>9. ASSUME NEW c \in Conns, Requeue(c) PROVE InLine'
  <2>1. conn # c /\ hand[c] # << >>
    BY <1>9 DEF Requeue
  <2> QED
    BY <1>1, <2>1 DEF Unused
<1>10. ASSUME NEW c \in Conns, ReadMaxSeq(c) PROVE InLine'
  <2>1. /\ socket[c] # << >> /\ socket[c] \in Seq(FramesOf(Lines)) /\ handler[c] = Rest
        /\ handler' = [handler EXCEPT ![c] = [step |-> "insert", frame |-> Head(socket[c]),
                                              base |-> MaxSeq]]
        /\ socket' = [socket EXCEPT ![c] = Tail(@)]
        /\ UNCHANGED <<conn, buffer, outbox, hand, table, lost>>
    BY <1>10, HandlerHolds DEF ReadMaxSeq
  <2>2. /\ handler'[c].frame = Head(socket[c]) /\ handler'[c].base = MaxSeq
        /\ socket'[c] = Tail(socket[c])
        /\ \A d \in Conns \ {c} : handler'[d] = handler[d] /\ socket'[d] = socket[d]
    BY <2>1 DEF TypeOK
  <2>3. c = conn
    BY <1>1, <2>1 DEF Unused
  <2>4. Sorted(socket'[c]) /\ Before(Range(Head(socket[c])), In(socket'[c]))
    BY <1>1, <2>1, <2>2, SortedTail
  <2>5. In(socket[c]) = Range(Head(socket[c])) \cup In(socket'[c])
    BY <2>1, <2>2, InTail
  <2>6. \A k \in Stored : k <= MaxSeq
    BY EndOfTable DEF AtEnd
  <2>7. ASSUME NEW d \in Conns PROVE Flows(d)'
    <3>1. CASE d = c
      BY <1>1, <1>2, <2>1, <2>2, <2>4, <2>5, <2>6, <3>1 DEF Flows
    <3>2. CASE d # c
      BY <1>1, <1>2, <2>1, <2>2, <3>2 DEF Flows
    <3> QED
      BY <3>1, <3>2
  <2>8. \A l \in Underway' : l \in Underway
    BY <1>2, <2>1, <2>2, <2>5, UnderwayIff, UnderwayIffNext DEF Carries
  <2>9. Before(Arrived', Underway')
    BY <1>4, <2>1, <2>8
  <2>10. InOrder'
    BY <1>1, <1>2, <2>1 DEF InOrder
  <2> QED
    BY <1>1, <2>1, <2>2, <2>3, <2>7, <2>9, <2>10 DEF InLine, Unused
<1>11. ASSUME NEW c \in Conns, AppendBatch(c) PROVE InLine'
  <2>1. PICK b \in Nat, n \in Nat \ {0} :
           /\ handler[c].step = "insert" /\ handler[c].base = b
           /\ DOMAIN handler[c].frame = 1..n
           /\ Stored' = Stored \cup (b + 1..b + n)
           /\ \A k \in Stored : table'[k] = table[k]
           /\ \A k \in (b + 1..b + n) \ Stored : table'[k] = handler[c].frame[k - b]
           /\ lost' = lost \cup {handler[c].frame[k - b] : k \in (b + 1..b + n) \cap Stored}
           /\ handler'[c] = Rest /\ \A d \in Conns \ {c} : handler'[d] = handler[d]
    BY <1>11, RowsInserted
  <2>2. UNCHANGED <<conn, hand, socket, buffer, outbox>>
    BY <1>11 DEF AppendBatch
  <2>3. /\ \A d \in Conns \ {c} : Unused(d)
        /\ c = conn
    BY <1>1, <2>1 DEF Rest, Unused
  <2>4. \A k \in b + 1..b + n : handler[c].frame[k - b] \in Range(handler[c].frame)
    <3> TAKE k \in b + 1..b + n
    <3>1. k - b \in 1..n
      OBVIOUS
    <3> QED
      BY <2>1, <3>1, RangeIff
  <2>5. \A l \in Arrived' : l \in Arrived \/ l \in Range(handler[c].frame)
    <3>1. \A l \in lost' : l \in lost \/ l \in Range(handler[c].frame)
      BY <2>1, <2>4
    <3>2. ASSUME NEW k \in Stored'
          PROVE  table'[k] \in Range(table) \/ table'[k] \in Range(handler[c].frame)
      <4>1. CASE k \in Stored
        BY <2>1, <4>1, RangeIff DEF Stored
      <4>2. CASE k \notin Stored
        BY <2>1, <2>4, <4>2
      <4> QED
        BY <4>1, <4>2
    <3> QED
      BY <3>1, <3>2, RangeIff DEF Arrived, Stored
  <2>6. Range(Rest.frame) = {} /\ In(<< >>) = {} /\ Range(<< >>) = {}
    BY NothingIn DEF Rest
  <2>7. \A l \in Underway' :
           l \in Underway /\ l \in In(socket[c]) \cup Range(hand[c]) \cup Waiting
    <3>1. \A d \in Conns : \A l :
            Carries(d, l)' => Carries(d, l) /\ l \in In(socket[c]) \cup Range(hand[c])
      BY <2>1, <2>2, <2>3, <2>6 DEF Carries, Unused
    <3> QED
      BY <1>2, <2>2, <3>1, UnderwayIff, UnderwayIffNext
  <2>8. Before(Arrived', Underway')
    BY <1>1, <2>5, <2>7
  <2>9. ASSUME NEW d \in Conns PROVE Flows(d)'
    <3>1. handler'[d] = Rest /\ Range(handler'[d].frame) = {} /\ handler'[d].step # "insert"
      BY <2>1, <2>3, <2>6 DEF Rest, Unused
    <3> QED
      BY <1>1, <1>2, <2>2, <3>1 DEF Flows
  <2>10. InOrder' /\ \A d \in Conns \ {conn'} : Unused(d)'
    BY <1>1, <1>2, <2>1, <2>2, <2>3 DEF InOrder, Unused
  <2> QED
    BY <2>8, <2>9, <2>10 DEF InLine
<1>12. ASSUME NEW n \in Stored, DeleteOlderThan(n) PROVE InLine'
  <2>1. /\ Stored' = {k \in Stored : k > n} /\ \A k \in Stored' : table'[k] = table[k]
        /\ lost' = lost \cup {table[k] : k \in {j \in Stored : j <= n}}
        /\ UNCHANGED <<buffer, outbox, hand, conn, socket, handler>>
    BY <1>12, RowsDeleted
  <2>2. \A l \in Arrived' : l \in Arrived
    <3>1. \A k \in Stored : table[k] \in Range(table)
      BY RangeIff DEF Stored
    <3>2. \A l \in lost' : l \in lost \/ l \in Range(table)
      BY <2>1, <3>1
    <3>3. \A l \in Range(table') : l \in Range(table)
      BY <2>1, <3>1, RangeIff DEF Stored
    <3> QED
      BY <3>2, <3>3 DEF Arrived
  <2>3. \A l \in Underway' : l \in Underway
    BY <1>2, <2>1, UnderwayIff, UnderwayIffNext DEF Carries
  <2>4. Before(Arrived', Underway')
    BY <1>1, <2>2, <2>3
  <2>5. \A d \in Conns : Flows(d)'
    BY <1>1, <1>2, <2>1 DEF Flows
  <2>6. InOrder' /\ \A d \in Conns \ {conn'} : Unused(d)'
    BY <1>1, <1>2, <2>1 DEF InOrder, Unused
  <2> QED
    BY <2>4, <2>5, <2>6 DEF InLine
<1>13. CASE UNCHANGED <<conn, buffer, outbox, hand, socket, handler, table, lost>>
  <2>1. \A l \in Underway' : l \in Underway
    BY <1>2, <1>13, UnderwayIff, UnderwayIffNext DEF Carries
  <2>2. Before(Arrived', Underway')
    BY <1>4, <1>13, <2>1
  <2> QED
    BY <1>1, <1>2, <1>13, <2>2 DEF InLine, InOrder, Flows, Unused
<1>14. \/ UNCHANGED <<conn, buffer, outbox, hand, socket, handler, table, lost>>
       \/ Gather
       \/ \E c \in Conns : \/ Connect(c) \/ Take(c) \/ Write(c) \/ Requeue(c)
                           \/ ReadMaxSeq(c) \/ AppendBatch(c)
       \/ \E n \in Stored : DeleteOlderThan(n)
  BY Zenon DEF Next, Gather, Connection, Disconnect, Handle, AppendFails, GetSessionLogs, vars
<1> QED
  BY <1>5, <1>6, <1>7, <1>8, <1>9, <1>10, <1>11, <1>12, <1>13, <1>14

\* A fault is not forgotten.
LEMMA CalmEnds == [Next]_vars /\ calm' => calm
BY Zenon DEF Next, AppendLog, DropLine, Flush, SendOther, Connection, Connect, Take, Write,
       Disconnect, Requeue, Handle, ReadMaxSeq, AppendBatch, AppendFails, DeleteOlderThan,
       GetSessionLogs, vars, link, backend

LEMMA InSequenceStep == TypeOK /\ TypeOK' /\ Numbered /\ InSequence /\ [Next]_vars => InSequence'
BY InLineIff, InLineIffNext, InLineStep, CalmEnds, Zenon

\* Without a fault a batch is stored behind every line that has arrived, and its lines in order.
LEMMA CalmStep ==
    TypeOK /\ Batches /\ InSequence /\ CalmTranscript /\ [Next]_vars => CalmTranscript'
<1> SUFFICES ASSUME TypeOK, Batches, InSequence, CalmTranscript, [Next]_vars, calm'
             PROVE  /\ \A j, k \in Stored' : j < k => table'[j] < table'[k]
                    /\ \A l \in lost' : \A k \in Stored' : l < table'[k]
  BY DEF CalmTranscript
<1>1. calm /\ InLine
  BY CalmEnds, InLineIff
<1>2. /\ \A j, k \in Stored : j < k => table[j] < table[k]
      /\ \A l \in lost : \A k \in Stored : l < table[k]
      /\ Stored \subseteq Nat
  BY <1>1 DEF CalmTranscript, TypeOK
<1> DEFINE Goal == /\ \A j, k \in Stored' : j < k => table'[j] < table'[k]
                   /\ \A l \in lost' : \A k \in Stored' : l < table'[k]
<1>3. ASSUME NEW c \in Conns, AppendBatch(c) PROVE Goal
  <2>1. PICK b \in Nat, n \in Nat \ {0} :
           /\ handler[c].step = "insert" /\ handler[c].base = b
           /\ DOMAIN handler[c].frame = 1..n
           /\ Stored' = Stored \cup (b + 1..b + n)
           /\ \A k \in Stored : table'[k] = table[k]
           /\ \A k \in (b + 1..b + n) \ Stored : table'[k] = handler[c].frame[k - b]
           /\ lost' = lost \cup {handler[c].frame[k - b] : k \in (b + 1..b + n) \cap Stored}
    BY <1>3, RowsInserted
  <2> DEFINE new == b + 1..b + n
  <2>2. \A k \in Stored : k <= b
    BY <1>1, <2>1 DEF InLine, Flows
  <2>3. new \cap Stored = {}
    BY <1>2, <2>2
  <2>4. lost' = lost
    BY <2>1, <2>3
  <2>5. \A k \in new : k - b \in 1..n /\ k \notin Stored /\ table'[k] = handler[c].frame[k - b]
    BY <2>1, <2>3
  <2>6. \A k \in new : table'[k] \in Underway
    BY <2>1, <2>5, RangeIff, UnderwayIff DEF Carries
  <2>7. \A l \in Arrived : \A k \in new : l < table'[k]
    BY <1>1, <2>6 DEF InLine, Before
  <2>8. \A j \in Stored : table'[j] = table[j] /\ table[j] \in Arrived
    BY <2>1, RangeIff DEF Stored, Arrived
  <2>9. ASSUME NEW j \in Stored', NEW k \in Stored', j < k PROVE table'[j] < table'[k]
    <3>1. CASE j \in Stored /\ k \in Stored
      BY <1>2, <2>8, <2>9, <3>1
    <3>2. CASE j \in Stored /\ k \in new
      BY <2>7, <2>8, <3>2
    <3>3. CASE j \in new /\ k \in Stored
      BY <1>2, <2>2, <2>9, <3>3
    <3>4. CASE j \in new /\ k \in new
      <4>1. Ordered(handler[c].frame)
        BY BatchParts
      <4>2. j - b \in 1..n /\ k - b \in 1..n /\ j - b < k - b
        BY <2>5, <2>9, <3>4
      <4>3. handler[c].frame[j - b] < handler[c].frame[k - b]
        BY <2>1, <4>1, <4>2 DEF Ordered
      <4> QED
        BY <2>5, <3>4, <4>3
    <3> QED
      BY <2>1, <3>1, <3>2, <3>3, <3>4
  <2>10. ASSUME NEW l \in lost', NEW k \in Stored' PROVE l < table'[k]
    BY <1>2, <2>1, <2>4, <2>7, <2>8 DEF Arrived
  <2> QED
    BY <2>9, <2>10
<1>4. ASSUME NEW n \in Stored, DeleteOlderThan(n) PROVE Goal
  <2>1. /\ Stored' = {k \in Stored : k > n} /\ \A k \in Stored' : table'[k] = table[k]
        /\ lost' = lost \cup {table[k] : k \in {j \in Stored : j <= n}}
    BY <1>4, RowsDeleted
  <2>2. ASSUME NEW i \in Stored, i <= n, NEW k \in Stored' PROVE table[i] < table'[k]
    <3>1. i < k /\ k \in Stored
      BY <1>2, <2>1, <2>2
    <3> QED
      BY <1>2, <2>1, <3>1
  <2> QED
    BY <1>2, <2>1, <2>2
<1>5. CASE UNCHANGED <<table, lost>>
  BY <1>2, <1>5 DEF Stored
<1>6. \/ UNCHANGED <<table, lost>>
      \/ \E c \in Conns : AppendBatch(c)
      \/ \E n \in Stored : DeleteOlderThan(n)
  BY Zenon DEF Next, AppendLog, DropLine, Flush, SendOther, Connection, Connect, Take, Write,
     Disconnect, Requeue, Handle,
     ReadMaxSeq, AppendFails, GetSessionLogs, vars, agent, link, backend, reader
<1> QED
  BY <1>3, <1>4, <1>5, <1>6

-----------------------------------------------------------------------------
LEMMA InitLogs == Init => IInv /\ CalmTranscript /\ ReaderSkipsNothing
<1> SUFFICES ASSUME Init PROVE IInv /\ CalmTranscript /\ ReaderSkipsNothing
  OBVIOUS
<1> USE ConstantsAssumption DEF Init
<1>1. Stored = {} /\ DOMAIN << >> = {} /\ Lines = {}
  BY DEF Stored, Lines
<1>2. Hold(Lines) /\ Typed
  BY <1>1 DEF Hold, Typed, HandlingOf
<1>3. TypeOK
  BY <1>2, TypeParts
<1>4. NoLineVanishes
  BY <1>1, <1>3, AllLines
<1>5. Batches
  BY <1>1 DEF Batches, Ordered, Rest
<1>6. Numbered
  BY <1>1 DEF Numbered, MaxSeq, Rest
<1>7. InSequence
  <2>1. /\ In(outbox) = {} /\ Range(buffer) = {} /\ Waiting = {}
        /\ \A c \in Conns : /\ In(socket[c]) = {} /\ Range(hand[c]) = {}
                            /\ Range(handler[c].frame) = {}
    BY NothingIn DEF Rest, Waiting
  <2>2. Underway = {}
    BY <2>1, UnderwayIff DEF Carries
  <2> QED
    BY <1>1, <2>1, <2>2 DEF InSequence, Sorted, Before, Rest
<1>8. CalmTranscript /\ ReaderSkipsNothing
  BY <1>1 DEF CalmTranscript, ReaderSkipsNothing
<1> QED
  BY <1>3, <1>4, <1>5, <1>6, <1>7, <1>8 DEF IInv

\* Whatever connections, statements, jobs and full buffers do, no line vanishes without one of
\* the reasons NoLineVanishes names, batches keep their order, and rows are numbered on from the
\* end of the table.
THEOREM LogsAreAccountedFor == Spec => []IInv
<1>1. Init => IInv
  BY InitLogs
<1>2. IInv /\ [Next]_vars => IInv'
  BY TypeStep, VanishStep, BatchesStep, NumberedStep, InSequenceStep DEF IInv
<1> QED
  BY <1>1, <1>2, PTL DEF Spec

\* While no connection is lost and no statement fails, the rows are in the order of the lines,
\* each line once, and what is missing was dropped by a full buffer or removed for its age.
THEOREM TranscriptIsFaithful == Spec => []CalmTranscript
<1>1. Init => CalmTranscript
  BY InitLogs
<1>2. IInv /\ CalmTranscript /\ [Next]_vars => CalmTranscript'
  BY CalmStep DEF IInv
<1> QED
  BY <1>1, <1>2, LogsAreAccountedFor, PTL DEF Spec

\* A reader that goes on where its last page ended skips no row.
THEOREM ReaderMissesNothing == Spec => []ReaderSkipsNothing
<1>1. Init => ReaderSkipsNothing
  BY InitLogs
<1>2. IInv /\ ReaderSkipsNothing /\ [Next]_vars => ReaderSkipsNothing'
  BY ReaderStep DEF IInv
<1> QED
  BY <1>1, <1>2, LogsAreAccountedFor, PTL DEF Spec

=============================================================================
