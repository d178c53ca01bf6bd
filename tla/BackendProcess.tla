----------------------------- MODULE BackendProcess -----------------------------
(***************************************************************************)
(* The life of the backend's instances: the supervisor that starts and     *)
(* stops their components (shared/lifecycle/lifecycle.go, wired in         *)
(* backend/cmd/server/main.go), the migrations an instance with            *)
(* auto_migrate runs while it starts (adapter/postgres/migrate.go), and    *)
(* the periodic job that one instance at a time is to run, under a lock    *)
(* in Redis (adapter/redis/pubsub.go).                                     *)
(*                                                                         *)
(* Components are numbered in the order of their start: the database pool, *)
(* the Redis client, the services with their goroutines, the HTTP server.  *)
(***************************************************************************)
EXTENDS Integers, FiniteSets

CONSTANTS
    Instances,
    Embeds,     \* the newest migration that is compiled into each instance
    MaxVersion,
    Requires,   \* the instances that are configured with redis.required
    Pooled,     \* the database is reached through a transaction pooler (port 6543)
    None

ASSUME ConstantsAssumption ==
    /\ IsFiniteSet(Instances) /\ None \notin Instances
    /\ MaxVersion \in Nat
    /\ Embeds \in [Instances -> 1..MaxVersion]
    /\ Requires \subseteq Instances
    /\ Pooled \in BOOLEAN

VARIABLES
    life,     \* off, starting, running or stopping
    up,       \* how many components have been started and not stopped
    signal,   \* SIGTERM came: the context of Run is cancelled
    late,     \* the shutdown grace is over
    migrate,  \* Up: its next step
    applied,  \* Up: the versions it found or has applied
    open,     \* Up: the version its open transaction has run the statements of, or 0
    advisory, \* the instance that took the advisory lock last, while it is held
    schema,   \* the versions whose statements are in effect
    recorded, \* the rows of schema_migrations
    request,  \* an HTTP request is being handled
    job,      \* the maintenance job
    overrun,  \* its lock has expired
    lock,     \* the key in Redis: whose token it holds
    redis     \* up, down, or absent: no URL is configured

process   == <<life, up, signal, late>>
migration == <<migrate, applied, open, advisory, schema, recorded>>
sweeping  == <<job, overrun, lock>>
vars == <<life, up, signal, late, migrate, applied, open, advisory, schema, recorded,
          request, job, overrun, lock, redis>>

Database == 1
Redis    == 2
Services == 3
Http     == 4

Versions == 1..MaxVersion
Lives    == {"off", "starting", "running", "stopping"}

-----------------------------------------------------------------------------
(***************************************************************************)
(* Up, as part of the start of the database component.                     *)
(***************************************************************************)
Migrating(i, from) == migrate[i] = from
Goto(i, step) == migrate' = [migrate EXCEPT ![i] = step]
Pending(i) == 1..Embeds[i] \ applied[i]

\* loadMigrations sorts them.
IsNext(i, version) ==
    version \in Pending(i) /\ \A v \in Pending(i) : version <= v

\* Faulty: pg_try_advisory_lock, without a look at its answer.
TryLock(i) ==
    /\ Migrating(i, "lock") /\ ~signal[i]
    /\ advisory' = IF advisory = None THEN i ELSE advisory
    /\ Goto(i, "read")
    /\ UNCHANGED <<process, applied, open, schema, recorded, request, sweeping, redis>>

\* pg_advisory_lock waits.  A pooler runs the statement on any of its sessions, and one
\* that holds the lock, taken for another instance, gets it once more.
Lock(i) ==
    /\ Migrating(i, "lock") /\ ~signal[i]
    /\ advisory = None \/ Pooled
    /\ advisory' = i
    /\ Goto(i, "read")
    /\ UNCHANGED <<process, applied, open, schema, recorded, request, sweeping, redis>>

ReadVersions(i) ==
    /\ Migrating(i, "read") /\ ~signal[i]
    /\ applied' = [applied EXCEPT ![i] = recorded]
    /\ Goto(i, "apply")
    /\ UNCHANGED <<process, open, advisory, schema, recorded, request, sweeping, redis>>

\* Faulty: the statements run outside the transaction.
ApplyAtOnce(i) ==
    /\ Migrating(i, "apply") /\ ~signal[i]
    /\ \E version \in Versions :
           /\ IsNext(i, version)
           /\ IF version \in schema
              THEN Goto(i, "failed") /\ UNCHANGED <<open, schema>>
              ELSE /\ open' = [open EXCEPT ![i] = version]
                   /\ schema' = schema \cup {version}
                   /\ Goto(i, "commit")
    /\ UNCHANGED <<process, applied, advisory, recorded, request, sweeping, redis>>

\* The statements of one version, in a transaction.  They fail if they are in the schema
\* already, and wait for another transaction that runs them.
Apply(i) ==
    /\ Migrating(i, "apply") /\ ~signal[i]
    /\ \E version \in Versions :
           /\ IsNext(i, version)
           /\ IF version \in schema
              THEN Goto(i, "failed") /\ UNCHANGED open
              ELSE /\ \A j \in Instances : open[j] # version
                   /\ open' = [open EXCEPT ![i] = version]
                   /\ Goto(i, "commit")
    /\ UNCHANGED <<process, applied, advisory, schema, recorded, request, sweeping, redis>>

\* The record of the version, and the COMMIT.  The answer to it may be lost.
Commit(i) ==
    /\ Migrating(i, "commit") /\ ~signal[i]
    /\ schema' = schema \cup {open[i]}
    /\ recorded' = recorded \cup {open[i]}
    /\ applied' = [applied EXCEPT ![i] = @ \cup {open[i]}]
    /\ open' = [open EXCEPT ![i] = 0]
    /\ Goto(i, "apply") \/ Goto(i, "failed")
    /\ UNCHANGED <<process, advisory, request, sweeping, redis>>

UpToDate(i) ==
    /\ Migrating(i, "apply")
    /\ Pending(i) = {}
    /\ Goto(i, "unlock")
    /\ UNCHANGED <<process, applied, open, advisory, schema, recorded, request, sweeping,
                   redis>>

\* A statement fails, or the context is cancelled; the transaction is rolled back.
MigrationFails(i) ==
    /\ migrate[i] \in {"lock", "read", "apply", "commit"}
    /\ Goto(i, "failed")
    /\ open' = [open EXCEPT ![i] = 0]
    /\ UNCHANGED <<process, applied, advisory, schema, recorded, request, sweeping, redis>>

\* Faulty: the lock is released on another connection of the pool, which does not hold
\* it.
UnlockElsewhere(i) ==
    /\ migrate[i] \in {"unlock", "failed"}
    /\ LET failed == Migrating(i, "failed")
       IN  /\ advisory' = IF advisory = i /\ failed THEN None ELSE advisory
           /\ life' = [life EXCEPT ![i] = IF failed THEN "stopping" ELSE @]
           /\ up' = [up EXCEPT ![i] = IF failed THEN 0 ELSE Database]
    /\ migrate' = [migrate EXCEPT ![i] = "rest"]
    /\ applied' = [applied EXCEPT ![i] = {}]
    /\ UNCHANGED <<signal, late, open, schema, recorded, request, sweeping, redis>>

\* The deferred unlock uses the same context: once that is cancelled the session keeps
\* the lock until it ends.  A failed Up closes the pool, with the session.  Through a
\* pooler either may concern a session that does not hold the lock.
Unlock(i) ==
    /\ migrate[i] \in {"unlock", "failed"}
    /\ LET failed == Migrating(i, "failed")
       IN  /\ \E elsewhere \in {FALSE, Pooled} :
                 advisory' = IF advisory = i /\ (failed \/ ~signal[i]) /\ ~elsewhere
                             THEN None ELSE advisory
           /\ life' = [life EXCEPT ![i] = IF failed THEN "stopping" ELSE @]
           /\ up' = [up EXCEPT ![i] = IF failed THEN 0 ELSE Database]
    /\ migrate' = [migrate EXCEPT ![i] = "rest"]
    /\ applied' = [applied EXCEPT ![i] = {}]
    /\ UNCHANGED <<signal, late, open, schema, recorded, request, sweeping, redis>>

-----------------------------------------------------------------------------
(***************************************************************************)
(* The supervisor.                                                         *)
(***************************************************************************)
Stopping(i) == life' = [life EXCEPT ![i] = "stopping"]

\* The pool connects and, with auto_migrate, brings the schema up to date.
Begin(i) ==
    /\ life[i] = "off"
    /\ life' = [life EXCEPT ![i] = "starting"]
    /\ Goto(i, "lock")
    /\ UNCHANGED <<up, signal, late, applied, open, advisory, schema, recorded, request,
                   sweeping, redis>>

\* A client that cannot reach Redis, or has none to reach, starts nevertheless, unless
\* redis.required.
Reaches(i) == redis = "up" /\ ~signal[i]
RedisStarts(i) == i \in Requires => Reaches(i)

StartNext(i) ==
    /\ life[i] = "starting" /\ Migrating(i, "rest")
    /\ up[i] + 1 = Redis => RedisStarts(i)
    /\ up[i] < Http
    /\ up' = [up EXCEPT ![i] = @ + 1]
    /\ UNCHANGED <<life, signal, late, migration, request, sweeping, redis>>

\* What has been started is stopped again.
StartFails(i) ==
    /\ life[i] = "starting" /\ Migrating(i, "rest")
    /\ up[i] < Http
    /\ up[i] + 1 = Redis => i \in Requires
    /\ Stopping(i)
    /\ UNCHANGED <<up, signal, late, migration, request, sweeping, redis>>

\* A process that was started with -migrate is done with the database.
Migrated(i) ==
    /\ life[i] = "starting" /\ Migrating(i, "rest")
    /\ up[i] = Database
    /\ Stopping(i)
    /\ UNCHANGED <<up, signal, late, migration, request, sweeping, redis>>

AllStarted(i) ==
    /\ life[i] = "starting" /\ up[i] = Http
    /\ life' = [life EXCEPT ![i] = "running"]
    /\ UNCHANGED <<up, signal, late, migration, request, sweeping, redis>>

Signal(i) ==
    /\ life[i] \in {"starting", "running"} /\ ~signal[i]
    /\ signal' = [signal EXCEPT ![i] = TRUE]
    /\ UNCHANGED <<life, up, late, migration, request, sweeping, redis>>

BeginShutdown(i) ==
    /\ life[i] = "running" /\ signal[i]
    /\ Stopping(i)
    /\ UNCHANGED <<up, signal, late, migration, request, sweeping, redis>>

Deadline(i) ==
    /\ life[i] = "stopping" /\ ~late[i] /\ up[i] > 0
    /\ late' = [late EXCEPT ![i] = TRUE]
    /\ UNCHANGED <<life, up, signal, migration, request, sweeping, redis>>

\* The component that was started last is the next to stop, while there is time; one
\* whose turn comes later is left as it is.
StopNext(i, c) ==
    /\ life[i] = "stopping" /\ up[i] = c /\ ~late[i]
    /\ up' = [up EXCEPT ![i] = c - 1]
    /\ UNCHANGED <<life, signal, late, migration, request, sweeping, redis>>

\* Faulty: the listener is closed, and that is all.
StopHttpAtOnce(i) == StopNext(i, Http)

\* The server waits for the requests it has accepted.
StopHttp(i) == ~request[i] /\ StopNext(i, Http)

\* The contexts of the subscriptions and jobs are cancelled; nothing waits for them.
StopServices(i) == StopNext(i, Services)

StopRedis(i) == StopNext(i, Redis)

\* Close waits until every connection is back: for a statement of the job, not for the
\* job.
StopDatabase(i) == job[i] # "query" /\ StopNext(i, Database)

\* Run returns, and with it the process: no goroutine, no session of it is left, but for
\* the sessions of a pooler.
Gone(i) ==
    /\ life' = [life EXCEPT ![i] = "off"]
    /\ up' = [up EXCEPT ![i] = 0]
    /\ signal' = [signal EXCEPT ![i] = FALSE]
    /\ late' = [late EXCEPT ![i] = FALSE]
    /\ migrate' = [migrate EXCEPT ![i] = "rest"]
    /\ applied' = [applied EXCEPT ![i] = {}]
    /\ open' = [open EXCEPT ![i] = 0]
    /\ advisory' = IF advisory = i /\ ~Pooled THEN None ELSE advisory
    /\ request' = [request EXCEPT ![i] = FALSE]
    /\ job' = [job EXCEPT ![i] = "rest"]
    /\ overrun' = [overrun EXCEPT ![i] = FALSE]
    /\ UNCHANGED <<schema, recorded, lock, redis>>

\* Faulty: shutdown waits for every component.
ExitWhenStopped(i) == life[i] = "stopping" /\ up[i] = 0 /\ Gone(i)

Exit(i)  == life[i] = "stopping" /\ (up[i] = 0 \/ late[i]) /\ Gone(i)
Crash(i) == life[i] # "off" /\ Gone(i)

-----------------------------------------------------------------------------
(***************************************************************************)
(* What the components do.                                                 *)
(***************************************************************************)
Accept(i) ==
    /\ up[i] = Http /\ life[i] # "stopping" /\ ~request[i]
    /\ request' = [request EXCEPT ![i] = TRUE]
    /\ UNCHANGED <<process, migration, sweeping, redis>>

Answer(i) ==
    /\ request[i]
    /\ request' = [request EXCEPT ![i] = FALSE]
    /\ UNCHANGED <<process, migration, sweeping, redis>>

\* jobCtx lives from the start of the services to their stop.
JobsAllowed(i) == up[i] >= Services

\* Acquire: without a client the lock is nobody's and everybody's; SET NX needs an
\* answer of Redis.
Acquire(i) ==
    /\ JobsAllowed(i) /\ job[i] = "rest"
    /\ \/ redis = "absent" /\ UNCHANGED lock
       \/ redis = "up" /\ lock = None /\ lock' = i
    /\ job' = [job EXCEPT ![i] = "sweep"]
    /\ UNCHANGED <<process, migration, request, overrun, redis>>

\* SweepStale and ReconcilePending take a connection for each statement; with a cancelled
\* context there is none for the next.
Query(i) ==
    /\ job[i] = "sweep" /\ JobsAllowed(i)
    /\ job' = [job EXCEPT ![i] = "query"]
    /\ UNCHANGED <<process, migration, request, overrun, lock, redis>>

EndQuery(i) ==
    /\ job[i] = "query"
    /\ job' = [job EXCEPT ![i] = "sweep"]
    /\ UNCHANGED <<process, migration, request, overrun, lock, redis>>

\* They are done, or a statement failed.
EndSweep(i) ==
    /\ job[i] = "sweep"
    /\ job' = [job EXCEPT ![i] = "release"]
    /\ UNCHANGED <<process, migration, request, overrun, lock, redis>>

\* Faulty: DEL.
ReleaseBlindly(i) ==
    /\ job[i] = "release"
    /\ lock' = IF redis = "up" /\ JobsAllowed(i) THEN None ELSE lock
    /\ job' = [job EXCEPT ![i] = "rest"]
    /\ overrun' = [overrun EXCEPT ![i] = FALSE]
    /\ UNCHANGED <<process, migration, request, redis>>

\* The script deletes the key if it still has the job's token; with a cancelled context,
\* or no Redis, it does not run.
Release(i) ==
    /\ job[i] = "release"
    /\ lock' = IF lock = i /\ redis = "up" /\ JobsAllowed(i) THEN None ELSE lock
    /\ job' = [job EXCEPT ![i] = "rest"]
    /\ overrun' = [overrun EXCEPT ![i] = FALSE]
    /\ UNCHANGED <<process, migration, request, redis>>

\* The TTL of the key.
Expire ==
    /\ lock # None
    /\ overrun' = [overrun EXCEPT ![lock] = job[lock] # "rest"]
    /\ lock' = None
    /\ UNCHANGED <<process, migration, request, job, redis>>

RedisFails ==
    /\ redis = "up"
    /\ redis' = "down"
    /\ UNCHANGED <<process, migration, request, sweeping>>

RedisReturns ==
    /\ redis = "down"
    /\ redis' = "up"
    /\ UNCHANGED <<process, migration, request, sweeping>>

-----------------------------------------------------------------------------
Init ==
    /\ life = [i \in Instances |-> "off"]
    /\ up = [i \in Instances |-> 0]
    /\ signal = [i \in Instances |-> FALSE]
    /\ late = [i \in Instances |-> FALSE]
    /\ migrate = [i \in Instances |-> "rest"]
    /\ applied = [i \in Instances |-> {}]
    /\ open = [i \in Instances |-> 0]
    /\ advisory = None
    /\ schema = {}
    /\ recorded = {}
    /\ request = [i \in Instances |-> FALSE]
    /\ job = [i \in Instances |-> "rest"]
    /\ overrun = [i \in Instances |-> FALSE]
    /\ lock = None
    /\ redis \in {"up", "absent"}

Up(i) ==
    \/ Lock(i) \/ ReadVersions(i) \/ Apply(i) \/ Commit(i)
    \/ UpToDate(i) \/ Unlock(i)
Start(i) == StartNext(i) \/ AllStarted(i)
Shutdown(i) ==
    \/ BeginShutdown(i)
    \/ StopHttp(i) \/ StopServices(i) \/ StopRedis(i) \/ StopDatabase(i)
    \/ Exit(i)
Sweep(i) == Acquire(i) \/ Query(i) \/ EndQuery(i) \/ EndSweep(i) \/ Release(i)
Serve(i) == Accept(i) \/ Answer(i)

Next ==
    \/ \E i \in Instances :
          \/ Begin(i) \/ Up(i) \/ MigrationFails(i)
          \/ Start(i) \/ StartFails(i) \/ Migrated(i)
          \/ Signal(i) \/ Shutdown(i) \/ Deadline(i) \/ Crash(i)
          \/ Serve(i) \/ Sweep(i)
    \/ Expire \/ RedisFails \/ RedisReturns

Spec == Init /\ [][Next]_vars

(***************************************************************************)
(* The supervisor's goroutine runs and its context and deadline are those  *)
(* of the clock; PostgreSQL answers an instance that migrates, and grants  *)
(* an advisory lock (of a direct connection) in the order it was asked     *)
(* for.  Nothing is promised of requests, of the job's statements or of    *)
(* Redis.                                                                  *)
(***************************************************************************)
FairSpec ==
    /\ Spec
    /\ \A i \in Instances :
          /\ SF_vars(Lock(i))
          /\ WF_vars(Up(i))
          /\ WF_vars(signal[i] /\ MigrationFails(i))
          /\ WF_vars(Start(i) \/ StartFails(i))
          /\ WF_vars(Shutdown(i))
          /\ WF_vars(Deadline(i))

-----------------------------------------------------------------------------
(***************************************************************************)
(* Properties.                                                             *)
(***************************************************************************)
\* Type invariant.
TypeOK ==
    /\ life \in [Instances -> Lives]
    /\ up \in [Instances -> 0..Http]
    /\ signal \in [Instances -> BOOLEAN]
    /\ late \in [Instances -> BOOLEAN]
    /\ migrate \in [Instances -> {"rest", "lock", "read", "apply", "commit", "unlock",
                                  "failed"}]
    /\ applied \in [Instances -> SUBSET Versions]
    /\ open \in [Instances -> Versions \cup {0}]
    /\ advisory \in Instances \cup {None}
    /\ schema \subseteq Versions
    /\ recorded \subseteq Versions
    /\ request \in [Instances -> BOOLEAN]
    /\ job \in [Instances -> {"rest", "sweep", "query", "release"}]
    /\ overrun \in [Instances -> BOOLEAN]
    /\ lock \in Instances \cup {None}
    /\ redis \in {"up", "down", "absent"}

\* However many instances migrate at once, and wherever they fail, lose an answer or die,
\* the schema is exactly what the version table says and no version is missing below
\* another: it is never half applied, not even without the lock.
SchemaIsWhole ==
    /\ schema = recorded
    /\ recorded = 1..Cardinality(recorded)

\* What an instance that migrates goes by: it has seen no version that is not recorded,
\* and its transaction is at the lowest one it has not seen, for itself alone.
MigratesInOrder ==
    \A i \in Instances :
        /\ migrate[i] \in {"apply", "commit", "unlock"} => applied[i] \subseteq recorded
        /\ (open[i] # 0) = (migrate[i] = "commit")
        /\ migrate[i] = "commit" =>
              /\ open[i] = Cardinality(recorded) + 1
              /\ \A j \in Instances : open[j] = open[i] => i = j

\* With a session of its own for the lock one instance migrates at a time and knows all
\* that was applied, so no start fails on what another instance has migrated.
LockSerialises ==
    ~Pooled => \A i \in Instances :
        /\ migrate[i] \in {"read", "apply", "commit", "unlock"} => advisory = i
        /\ migrate[i] \in {"apply", "commit", "unlock"} => applied[i] = recorded

\* With Redis configured at most one instance runs the job within the TTL of the lock,
\* whatever overran jobs, crashes and failed releases leave behind.
InTime(i) == job[i] # "rest" /\ ~overrun[i]
OneSweeper == redis # "absent" => \A i, j \in Instances : InTime(i) /\ InTime(j) => i = j

\* What is there at each stage of an instance's life: migrations run before the first
\* component counts as started, and nothing outlives the process; a request keeps the
\* HTTP server from being stopped, a statement of the job the pool; and a job within the
\* TTL has the key.
InPhase ==
    \A i \in Instances :
        /\ migrate[i] # "rest" => life[i] = "starting" /\ up[i] = 0
        /\ life[i] = "off" => up[i] = 0 /\ job[i] = "rest"
        /\ request[i] => up[i] = Http
        /\ job[i] = "query" => up[i] >= Database
        /\ redis # "absent" /\ InTime(i) => lock = i

IInv == TypeOK /\ SchemaIsWhole /\ MigratesInOrder /\ LockSerialises /\ InPhase

\* A start comes to an end: an instance that waits for the advisory lock gets its turn,
\* whatever those before it fail at, and is stopped or killed with.
StartEnds == \A i \in Instances : life[i] = "starting" ~> life[i] # "starting"

\* A signal ends the process, whether it comes during the migrations, during the start,
\* or while requests and statements hang.
ShutdownEnds == \A i \in Instances : signal[i] ~> life[i] = "off"

(***************************************************************************)
(* What the documentation says and the code does not do.                   *)
(***************************************************************************)
\* migrate.go:53 "the advisory lock means one runs them and the rest wait, then observe
\* there is nothing to do", with the pooler that config.example.yaml:31 asks for.
OneMigrates ==
    \A i, j \in Instances :
        migrate[i] \in {"apply", "commit"} /\ migrate[j] \in {"apply", "commit"} => i = j

\* pubsub.go:245 "With Redis degraded this reports acquired": an instance that runs on
\* while Redis is down goes on with its periodic job.
SweepsWhenDegraded ==
    \A i \in Instances :
        <>[](redis = "down" /\ life[i] = "running") => []<>(job[i] # "rest")

=============================================================================
