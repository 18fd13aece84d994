---------------------------- MODULE RuntimeConfig ----------------------------
(***************************************************************************)
(* How an approved setting reaches a process (packages/core/config/        *)
(* settings.py): the runtime_config table is the source of truth, every    *)
(* process reads it through a cache with a time to live, and a counter in  *)
(* Redis, bumped after each write, lets the cache notice a write early.    *)
(*                                                                         *)
(* The value of the table is the number of writes it has seen, 0 for none. *)
(* Processes share nothing but the table and the counter, so one process   *)
(* with several threads is modelled; the API serves requests from threads. *)
(***************************************************************************)
EXTENDS Integers, FiniteSets

CONSTANTS Threads,     \* threads of the process that call load_runtime_config
          MaxWrites,   \* bound: writes of runtime_config
          MaxFaults,   \* bound: reads of the table that fail
          MaxResets,   \* bound: losses of the Redis counter
          NULL

ASSUME ConfigAssumption ==
  MaxWrites \in Nat /\ MaxFaults \in Nat /\ MaxResets \in Nat /\ NULL \notin Nat

VARIABLES
  db,         \* runtime_config: the number of the last write
  owed,       \* writes committed whose writer has yet to bump the counter
  version,    \* the counter in Redis
  config,     \* _RuntimeConfigCache._config: the write it holds, 0 when empty
  fresh,      \* _ts + ttl > now
  seen,       \* _seen_version, NULL at first
  thread,     \* per thread: where it is in get, and its local variables
  faults,     \* history: failed reads
  resets,     \* history: losses of the counter
  overlapped  \* history: two threads have been inside get at the same time

configVars == <<db, owed, version, config, fresh, seen, thread, faults, resets, overlapped>>

\* A thread in get: the version and the mapping it has read.
Thread(at, ver, val) == [pc |-> at, ver |-> ver, val |-> val]

Outside == Thread("out", NULL, 0)

ThreadStates == [pc : {"out", "read", "store", "mark"},
                 ver : Nat \cup {NULL}, val : 0 .. MaxWrites]

ConfigTypeOK ==
  /\ db \in 0 .. MaxWrites
  /\ owed \in Nat
  /\ version \in Nat
  /\ config \in 0 .. MaxWrites
  /\ fresh \in BOOLEAN
  /\ seen \in Nat \cup {NULL}
  /\ thread \in [Threads -> ThreadStates]
  /\ faults \in Nat
  /\ resets \in Nat
  /\ overlapped \in BOOLEAN

ConfigInit ==
  /\ db = 0
  /\ owed = 0
  /\ version = 0
  /\ config = 0
  /\ fresh = FALSE
  /\ seen = NULL
  /\ thread = [t \in Threads |-> Outside]
  /\ faults = 0
  /\ resets = 0
  /\ overlapped = FALSE

-----------------------------------------------------------------------------
(* Writers                                                                   *)

\* The transaction of a writer commits its value.
Commit ==
  /\ db < MaxWrites
  /\ db' = db + 1
  /\ owed' = owed + 1
  /\ UNCHANGED <<version, config, fresh, seen, thread, faults, resets, overlapped>>

\* invalidate_runtime_config_cache: a PATCH /admin/config served by this process.
Invalidate ==
  /\ owed > 0
  /\ config' = 0
  /\ fresh' = FALSE
  /\ UNCHANGED <<db, owed, version, seen, thread, faults, resets, overlapped>>

\* bump_config_version; the counter stays behind when Redis is unreachable or
\* the writer dies after its commit.
Bump ==
  /\ owed > 0
  /\ owed' = owed - 1
  /\ version' \in {version, version + 1}
  /\ UNCHANGED <<db, config, fresh, seen, thread, faults, resets, overlapped>>

\* Redis starts again without its data: a missing key reads as 0.
CounterLost ==
  /\ resets < MaxResets
  /\ resets' = resets + 1
  /\ version' = 0
  /\ UNCHANGED <<db, owed, config, fresh, seen, thread, faults, overlapped>>

-----------------------------------------------------------------------------
(* _RuntimeConfigCache.get                                                   *)

TtlElapses ==
  /\ fresh
  /\ fresh' = FALSE
  /\ UNCHANGED <<db, owed, version, config, seen, thread, faults, resets, overlapped>>

\* Fault: the counter alone decides.
NeedsReadByVersion(ver) == (ver # NULL /\ ver # seen) \/ config = 0

\* The negation of "not stale and self._ts + ttl > now and self._config".
NeedsRead(ver) == (ver # NULL /\ ver # seen) \/ ~fresh \/ config = 0

\* _get_remote_config_version: the counter, or None when Redis is not
\* configured, not reachable or behind an open circuit.
CheckVersion(t) ==
  /\ thread[t].pc = "out"
  /\ \E ver \in {version, NULL} :
       /\ NeedsRead(ver)
       /\ thread' = [thread EXCEPT ![t] = Thread("read", ver, 0)]
  /\ overlapped' = (overlapped \/ \E u \in Threads : thread[u].pc # "out")
  /\ UNCHANGED <<db, owed, version, config, fresh, seen, faults, resets>>

\* The early return: the cached mapping is used as it is.
ServeFromCache(t) ==
  /\ thread[t].pc = "out"
  /\ \E ver \in {version, NULL} : ~NeedsRead(ver)
  /\ UNCHANGED configVars

\* SELECT key, value FROM runtime_config ...
ReadTable(t) ==
  /\ thread[t].pc = "read"
  /\ thread' = [thread EXCEPT ![t] = Thread("store", @.ver, db)]
  /\ UNCHANGED <<db, owed, version, config, fresh, seen, faults, resets, overlapped>>

\* ... or an exception, which leaves an empty mapping.
ReadFails(t) ==
  /\ thread[t].pc = "read"
  /\ faults < MaxFaults
  /\ faults' = faults + 1
  /\ thread' = [thread EXCEPT ![t] = Thread("store", @.ver, 0)]
  /\ UNCHANGED <<db, owed, version, config, fresh, seen, resets, overlapped>>

\* self._ts = now; self._config = config
StoreConfig(t) ==
  /\ thread[t].pc = "store"
  /\ config' = thread[t].val
  /\ fresh' = TRUE
  /\ thread' = [thread EXCEPT ![t] = Thread("mark", @.ver, @.val)]
  /\ UNCHANGED <<db, owed, version, seen, faults, resets, overlapped>>

\* Fault: the counter is read when the cache has been filled.
MarkLatest(t) ==
  /\ thread[t].pc = "mark"
  /\ seen' = version
  /\ thread' = [thread EXCEPT ![t] = Outside]
  /\ UNCHANGED <<db, owed, version, config, fresh, faults, resets, overlapped>>

\* self._seen_version = remote_version, if there was one
MarkSeen(t) ==
  /\ thread[t].pc = "mark"
  /\ seen' = IF thread[t].ver = NULL THEN seen ELSE thread[t].ver
  /\ thread' = [thread EXCEPT ![t] = Outside]
  /\ UNCHANGED <<db, owed, version, config, fresh, faults, resets, overlapped>>

Get(t) ==
  \/ CheckVersion(t) \/ ServeFromCache(t)
  \/ ReadTable(t) \/ ReadFails(t) \/ StoreConfig(t) \/ MarkSeen(t)

\* Everything but the writers' transactions.
Propagate ==
  \/ Invalidate \/ Bump \/ CounterLost \/ TtlElapses
  \/ \E t \in Threads : Get(t)

ConfigNext == Commit \/ Propagate

ConfigSpec == ConfigInit /\ [][ConfigNext]_configVars

\* Requests keep coming, so every thread calls get again; time passes; a writer
\* that has committed goes on to its bump.
ConfigFairness ==
  /\ \A t \in Threads : WF_configVars(Get(t))
  /\ WF_configVars(TtlElapses)
  /\ WF_configVars(Bump)

FairConfigSpec == ConfigSpec /\ ConfigFairness

-----------------------------------------------------------------------------
(* Properties                                                                *)

\* A process that has taken note of the n-th bump of the counter works with the
\* n-th write or a later one: reading the counter before the table means that no
\* write is ever marked as seen while the old value is cached.  It needs the
\* counter to have kept its value and the process's reads not to have overlapped.
SeenBringsChange ==
  resets = 0 /\ ~overlapped /\ seen # NULL /\ config # 0 => config >= seen

\* "guaranteed visible to every process": once writes end every process settles
\* on the last one, whatever became of the bumps, of the counter and of reads
\* that failed or overlapped.
ConfigConverges == <>[](config = db)
=============================================================================
