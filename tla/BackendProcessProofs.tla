-------------------------- MODULE BackendProcessProofs --------------------------
(***************************************************************************)
(* Proofs about BackendProcess, for any number of instances and releases.  *)
(***************************************************************************)
EXTENDS BackendProcess, FiniteSetTheorems, TLAPS

USE DEF Database, Redis, Services, Http

\* Nothing runs in the beginning, and the schema is empty.
LEMMA Initially == Init => IInv
<1> SUFFICES ASSUME Init PROVE IInv
  OBVIOUS
<1> USE ConstantsAssumption DEF Init
<1>1. TypeOK
  BY DEF TypeOK, Lives
<1>2. recorded = 1..Cardinality(recorded)
  <2>1. Cardinality(recorded) = 0
    BY FS_EmptySet
  <2> QED
    BY <2>1
<1>3. SchemaIsWhole /\ MigratesInOrder /\ LockSerialises
  BY <1>2 DEF SchemaIsWhole, MigratesInOrder, LockSerialises
<1>4. InPhase
  BY DEF InPhase, InTime
<1> QED
  BY <1>1, <1>3, <1>4 DEF IInv

\* The end of a process leaves the database and the key in Redis as they are, and nothing
\* else of it.
LEMMA GoneStep ==
    ASSUME IInv, NEW i \in Instances, Gone(i)
    PROVE  IInv'
<1> USE ConstantsAssumption DEF IInv, TypeOK, Gone, Lives
<1>1. TypeOK'
  OBVIOUS
<1>2. SchemaIsWhole' /\ MigratesInOrder' /\ LockSerialises'
  BY DEF SchemaIsWhole, MigratesInOrder, LockSerialises
<1>3. InPhase'
  BY DEF InPhase, InTime
<1> QED
  BY <1>1, <1>2, <1>3

\* The versions that are recorded are those up to some number.
LEMMA RecordedUpTo ==
    ASSUME IInv
    PROVE  /\ Cardinality(recorded) \in Nat
           /\ recorded = 1..Cardinality(recorded)
<1>1. IsFiniteSet(recorded)
  <2>1. recorded \subseteq 1..MaxVersion
    BY DEF IInv, TypeOK, Versions
  <2>2. IsFiniteSet(1..MaxVersion)
    BY ConstantsAssumption, FS_Interval
  <2> QED
    BY <2>1, <2>2, FS_Subset
<1> QED
  BY <1>1, FS_CardinalityType DEF IInv, SchemaIsWhole

\* A version that is next for an instance and not in the schema comes after all that were
\* applied, whatever others have applied since the instance looked.
LEMMA NextVersion ==
    ASSUME IInv, NEW i \in Instances, migrate[i] = "apply",
           NEW version \in Versions, IsNext(i, version), version \notin schema
    PROVE  version = Cardinality(recorded) + 1
<1> DEFINE n == Cardinality(recorded)
<1>1. n \in Nat /\ recorded = 1..n
  BY RecordedUpTo
<1>2. Embeds[i] \in Nat /\ version \in 1..Embeds[i] /\ version \notin 1..n
  BY <1>1, ConstantsAssumption DEF IsNext, Pending, IInv, SchemaIsWhole
<1>3. n + 1 \in 1..Embeds[i] /\ n + 1 <= version
  BY <1>1, <1>2
<1>4. n + 1 \in Pending(i)
  BY <1>1, <1>3 DEF Pending, IInv, MigratesInOrder
<1>5. version <= n + 1
  BY <1>4 DEF IsNext
<1> QED
  BY <1>1, <1>2, <1>3, <1>5

\* A COMMIT adds the version after the last one, in the schema and in the table.
LEMMA CommitStep ==
    ASSUME IInv, NEW i \in Instances, Commit(i)
    PROVE  IInv'
<1> DEFINE n == Cardinality(recorded)
<1>1. n \in Nat /\ recorded = 1..n
  BY RecordedUpTo
<1>2. migrate[i] = "commit" /\ open[i] = n + 1
  BY DEF Commit, Migrating, IInv, MigratesInOrder
<1>3. recorded' = 1..(n + 1) /\ schema' = recorded'
  BY <1>1, <1>2 DEF Commit, IInv, SchemaIsWhole
<1>4. Cardinality(recorded') = n + 1
  <2>1. Cardinality(1..(n + 1)) = n + 1
    BY <1>1, FS_Interval
  <2> QED
    BY <1>3, <2>1
<1>5. TypeOK'
  <2>1. open[i] \in Versions
    BY <1>1, <1>2 DEF IInv, TypeOK
  <2>2. UNCHANGED <<process, advisory, request, sweeping, redis>>
    BY DEF Commit
  <2>3. migrate' \in [Instances -> {"rest", "lock", "read", "apply", "commit", "unlock",
                                   "failed"}]
    BY DEF Commit, Goto, IInv, TypeOK
  <2> QED
    BY <2>1, <2>2, <2>3, ConstantsAssumption DEF Commit, IInv, TypeOK, process, sweeping
<1>6. SchemaIsWhole'
  BY <1>3, <1>4 DEF SchemaIsWhole
<1>7. \A j \in Instances \ {i} : migrate[j] # "commit"  \/ open[j] # n + 1
  BY <1>2 DEF IInv, MigratesInOrder
<1>8. \A j \in Instances \ {i} : migrate[j] # "commit"
  BY <1>7 DEF IInv, MigratesInOrder
<1>9. /\ migrate'[i] \in {"apply", "failed"} /\ open'[i] = 0
      /\ applied'[i] = applied[i] \cup {n + 1}
      /\ \A j \in Instances \ {i} : /\ migrate'[j] = migrate[j]
                                     /\ open'[j] = open[j]
                                     /\ applied'[j] = applied[j]
  BY <1>2 DEF Commit, Goto, IInv, TypeOK
<1>10. MigratesInOrder'
  <2>1. recorded \subseteq recorded' /\ n + 1 \in recorded'
    BY <1>1, <1>3
  <2>2. applied[i] \subseteq recorded
    BY <1>2 DEF IInv, MigratesInOrder
  <2> QED
    BY <1>8, <1>9, <2>1, <2>2 DEF IInv, MigratesInOrder
<1>11. LockSerialises'
  <2> SUFFICES ASSUME ~Pooled PROVE LockSerialises'
    BY DEF LockSerialises
  <2>1. advisory = i /\ applied[i] = recorded
    BY <1>2 DEF IInv, LockSerialises
  <2>2. \A j \in Instances \ {i} :
            migrate[j] \notin {"read", "apply", "commit", "unlock"}
    BY <2>1 DEF IInv, LockSerialises
  <2>3. advisory' = advisory /\ recorded' = recorded \cup {n + 1}
    BY <1>2 DEF Commit
  <2> QED
    BY <1>9, <2>1, <2>2, <2>3 DEF LockSerialises
<1>12. InPhase'
  <2>1. UNCHANGED <<process, request, sweeping, redis>>
    BY DEF Commit
  <2> QED
    BY <1>2, <1>9, <2>1 DEF IInv, InPhase, InTime, process, sweeping
<1> QED
  BY <1>5, <1>6, <1>10, <1>11, <1>12 DEF IInv

\* The migrator: the transaction of an instance is at the version after the last, and
\* whoever holds the advisory lock knows what was applied.
LEMMA MigrationStep ==
    ASSUME IInv, NEW i \in Instances, Up(i) \/ MigrationFails(i)
    PROVE  IInv'
<1> USE ConstantsAssumption DEF IInv, TypeOK, Migrating, Goto, process, sweeping
<1> USE DEF SchemaIsWhole, LockSerialises, InPhase, InTime
<1>1. CASE Lock(i)
  BY <1>1 DEF Lock, MigratesInOrder
<1>2. CASE ReadVersions(i)
  BY <1>2 DEF ReadVersions, MigratesInOrder
<1>3. CASE Apply(i)
  <2>1. PICK version \in Versions :
            /\ IsNext(i, version)
            /\ \/ /\ version \in schema
                  /\ migrate' = [migrate EXCEPT ![i] = "failed"]
                  /\ UNCHANGED open
               \/ /\ version \notin schema
                  /\ \A j \in Instances : open[j] # version
                  /\ open' = [open EXCEPT ![i] = version]
                  /\ migrate' = [migrate EXCEPT ![i] = "commit"]
    BY <1>3 DEF Apply
  <2>2. migrate[i] = "apply"
        /\ UNCHANGED <<process, applied, advisory, schema, recorded, request, sweeping,
                       redis>>
    BY <1>3 DEF Apply
  <2>3. CASE version \in schema
    <3>1. migrate' = [migrate EXCEPT ![i] = "failed"] /\ UNCHANGED open
      BY <2>1, <2>3
    <3> QED
      BY <2>2, <3>1 DEF MigratesInOrder
  <2>4. CASE version \notin schema
    <3>1. version = Cardinality(recorded) + 1
      BY <2>1, <2>2, <2>4, NextVersion
    <3>2. /\ open' = [open EXCEPT ![i] = version]
          /\ migrate' = [migrate EXCEPT ![i] = "commit"]
          /\ \A j \in Instances : open[j] # version
      BY <2>1, <2>4
    <3>3. TypeOK' /\ SchemaIsWhole' /\ LockSerialises' /\ InPhase'
      BY <2>2, <3>2
    <3>4. version # 0
      BY DEF Versions
    <3>5. MigratesInOrder'
      BY <2>2, <3>1, <3>2, <3>4 DEF MigratesInOrder
    <3> QED
      BY <3>3, <3>5
  <2> QED
    BY <2>3, <2>4
<1>4. CASE Commit(i)
  BY <1>4, CommitStep
<1>5. CASE UpToDate(i)
  BY <1>5 DEF UpToDate, MigratesInOrder
<1>6. CASE Unlock(i)
  BY <1>6 DEF Unlock, Lives, MigratesInOrder
<1>7. CASE MigrationFails(i)
  BY <1>7 DEF MigrationFails, MigratesInOrder
<1> QED
  BY <1>1, <1>2, <1>3, <1>4, <1>5, <1>6, <1>7 DEF Up

\* The supervisor: components start in order and stop in reverse, each when what uses it
\* is done.
LEMMA SupervisorStep ==
    ASSUME IInv, NEW i \in Instances,
           \/ Begin(i) \/ Start(i) \/ StartFails(i) \/ Migrated(i) \/ Signal(i)
           \/ Deadline(i) \/ Shutdown(i) \/ Crash(i)
    PROVE  IInv'
<1> USE ConstantsAssumption
    DEF IInv, TypeOK, Lives, SchemaIsWhole, MigratesInOrder, LockSerialises, InPhase, InTime, Migrating, Goto, Stopping,
        process, migration, sweeping
<1>1. CASE Begin(i)
  <2>1. TypeOK' /\ SchemaIsWhole' /\ LockSerialises' /\ InPhase'
    BY <1>1 DEF Begin
  <2>2. migrate[i] = "rest" /\ open[i] = 0
    BY <1>1 DEF Begin
  <2>3. /\ migrate' = [migrate EXCEPT ![i] = "lock"]
        /\ UNCHANGED <<applied, open, advisory, schema, recorded>>
    BY <1>1 DEF Begin
  <2>4. MigratesInOrder'
    <3> HIDE DEF LockSerialises, SchemaIsWhole, InPhase
    <3> QED
      BY <2>2, <2>3
  <2> QED
    BY <2>1, <2>4
<1>2. CASE StartNext(i)
  <2>1. up'[i] = up[i] + 1 /\ up'[i] \in 1..4 /\ up' \in [Instances -> 0..4]
    <3>1. up[i] \in 0..3 /\ up' = [up EXCEPT ![i] = up[i] + 1]
      BY <1>2 DEF StartNext
    <3>2. up[i] + 1 \in 1..4
      BY <3>1
    <3> QED
      BY <3>1, <3>2
  <2>2. \A j \in Instances \ {i} : up'[j] = up[j]
    BY <1>2 DEF StartNext
  <2>3. UNCHANGED <<life, signal, late, migration, request, sweeping, redis>>
    BY <1>2 DEF StartNext
  <2>4. TypeOK' /\ SchemaIsWhole' /\ MigratesInOrder' /\ LockSerialises'
    BY <2>1, <2>3
  <2>5. life[i] = "starting" /\ migrate[i] = "rest" /\ up[i] < 4
    BY <1>2 DEF StartNext
  <2>6. InPhase'
    BY <2>1, <2>2, <2>3, <2>5
  <2> QED
    BY <2>4, <2>6
<1>3. CASE AllStarted(i)
  BY <1>3 DEF AllStarted
<1>4. CASE StartFails(i) \/ Migrated(i)
  <2>1. /\ life' = [life EXCEPT ![i] = "stopping"] /\ migrate[i] = "rest"
        /\ UNCHANGED <<up, signal, late, migration, request, sweeping, redis>>
    BY <1>4 DEF StartFails, Migrated
  <2> QED
    BY <2>1
<1>5. CASE Signal(i)
  BY <1>5 DEF Signal
<1>6. CASE BeginShutdown(i)
  BY <1>6 DEF BeginShutdown
<1>7. CASE Deadline(i)
  BY <1>7 DEF Deadline
<1>8. CASE StopHttp(i)
  BY <1>8 DEF StopHttp, StopNext
<1>9. CASE StopServices(i) \/ StopRedis(i)
  <2>1. up[i] \in {2, 3} /\ up' = [up EXCEPT ![i] = up[i] - 1]
    BY <1>9 DEF StopServices, StopRedis, StopNext
  <2>2. up'[i] \in {1, 2} /\ \A j \in Instances \ {i} : up'[j] = up[j]
    BY <2>1
  <2>3. UNCHANGED <<life, signal, late, migration, request, sweeping, redis>>
    BY <1>9 DEF StopServices, StopRedis, StopNext
  <2>4. TypeOK' /\ SchemaIsWhole' /\ MigratesInOrder' /\ LockSerialises'
    BY <2>1, <2>2, <2>3
  <2>5. life[i] = "stopping"
    BY <1>9 DEF StopServices, StopRedis, StopNext
  <2>6. InPhase'
    BY <2>1, <2>2, <2>3, <2>5
  <2> QED
    BY <2>4, <2>6
<1>10. CASE StopDatabase(i)
  BY <1>10 DEF StopDatabase, StopNext
<1>11. CASE Exit(i) \/ Crash(i)
  BY <1>11, GoneStep DEF Exit, Crash
<1> QED
  BY <1>1, <1>2, <1>3, <1>4, <1>5, <1>6, <1>7, <1>8, <1>9, <1>10, <1>11
     DEF Start, Shutdown

\* Requests, the job and Redis.
LEMMA WorkStep ==
    ASSUME IInv,
           \/ \E i \in Instances : Serve(i) \/ Sweep(i)
           \/ Expire \/ RedisFails \/ RedisReturns
    PROVE  IInv'
<1> USE ConstantsAssumption
    DEF IInv, TypeOK, SchemaIsWhole, MigratesInOrder, LockSerialises, InPhase, InTime,
        JobsAllowed, process, migration, sweeping
<1>1. ASSUME NEW i \in Instances, Accept(i) PROVE IInv'
  BY <1>1 DEF Accept
<1>2. ASSUME NEW i \in Instances, Answer(i) PROVE IInv'
  BY <1>2 DEF Answer
<1>3. ASSUME NEW i \in Instances, Acquire(i) PROVE IInv'
  <2>1. TypeOK' /\ SchemaIsWhole' /\ MigratesInOrder' /\ LockSerialises'
    BY <1>3 DEF Acquire
  <2>2. InPhase'
    <3>1. /\ up[i] >= 3 /\ job'[i] = "sweep"
          /\ \A j \in Instances \ {i} : job'[j] = job[j]
          /\ UNCHANGED <<process, migration, request, overrun, redis>>
      BY <1>3 DEF Acquire
    <3>2. redis # "absent" => lock' = i /\ \A j \in Instances : ~InTime(j)
      BY <1>3 DEF Acquire
    <3>3. life[i] # "off"
      BY <3>1
    <3> QED
      BY <3>1, <3>2, <3>3
  <2> QED
    BY <2>1, <2>2
<1>4. ASSUME NEW i \in Instances, EndSweep(i) PROVE IInv'
  BY <1>4 DEF EndSweep
<1>5. ASSUME NEW i \in Instances, Query(i) \/ EndQuery(i) PROVE IInv'
  <2>1. PICK step \in {"sweep", "query"} :
            /\ job[i] \in {"sweep", "query"} /\ job' = [job EXCEPT ![i] = step]
            /\ step = "query" => up[i] >= 3
            /\ UNCHANGED <<process, migration, request, overrun, lock, redis>>
    BY <1>5 DEF Query, EndQuery
  <2>2. job' \in [Instances -> {"rest", "sweep", "query", "release"}]
    BY <2>1
  <2>3. TypeOK' /\ SchemaIsWhole' /\ MigratesInOrder' /\ LockSerialises'
    BY <2>1, <2>2
  <2>4. InPhase'
    <3>1. life[i] # "off"
      BY <2>1
    <3>2. \A j \in Instances : InTime(j)' = InTime(j)
      BY <2>1
    <3>3. ASSUME NEW j \in Instances, job'[j] = "query" PROVE up[j] >= 1
      <4>1. CASE j = i
        <5>1. job'[i] = step /\ up[i] \in 0..4
          BY <2>1
        <5> QED
          BY <2>1, <3>3, <4>1, <5>1
      <4>2. CASE j # i
        <5>1. job[j] = "query"
          BY <2>1, <3>3, <4>2
        <5> QED
          BY <5>1
      <4> QED
        BY <4>1, <4>2
    <3> QED
      BY <2>1, <3>1, <3>2, <3>3
  <2> QED
    BY <2>3, <2>4
<1>6. ASSUME NEW i \in Instances, Release(i) PROVE IInv'
  BY <1>6 DEF Release
<1>7. CASE Expire
  <2>1. TypeOK' /\ SchemaIsWhole' /\ MigratesInOrder' /\ LockSerialises'
    BY <1>7 DEF Expire
  <2>2. InPhase'
    <3>1. redis # "absent" => \A j \in Instances : InTime(j)' => FALSE
      BY <1>7 DEF Expire
    <3> QED
      BY <1>7, <3>1 DEF Expire
  <2> QED
    BY <2>1, <2>2
<1>8. CASE RedisFails \/ RedisReturns
  BY <1>8 DEF RedisFails, RedisReturns
<1> HIDE DEF IInv, TypeOK, SchemaIsWhole, MigratesInOrder, LockSerialises, InPhase, InTime,
             JobsAllowed, process, migration, sweeping
<1> QED
  BY <1>1, <1>2, <1>3, <1>4, <1>5, <1>6, <1>7, <1>8 DEF Serve, Sweep

\* No step breaks the invariant.
LEMMA Step == IInv /\ [Next]_vars => IInv'
<1>1. ASSUME IInv, UNCHANGED vars PROVE IInv'
  BY <1>1 DEF vars, IInv, TypeOK, SchemaIsWhole, MigratesInOrder, LockSerialises, InPhase,
             InTime
<1> QED
  BY <1>1, MigrationStep, SupervisorStep, WorkStep DEF Next

\* The invariant of the backend_process run: the schema is what the version table says,
\* through every interleaving, failure and crash of any number of instances.
THEOREM SchemaStaysKnown == Spec => []IInv
BY Initially, Step, PTL DEF Spec

\* Within the TTL of the key one instance at most runs the job.
THEOREM OneInstanceSweeps == Spec => []OneSweeper
<1>1. IInv => OneSweeper
  BY DEF IInv, InPhase, OneSweeper
<1> QED
  BY <1>1, SchemaStaysKnown, PTL

=============================================================================
