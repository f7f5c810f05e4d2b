---------------------------- MODULE ConfigCache ----------------------------
(***************************************************************************)
(* The app_config row and the cache each process keeps of it.  A call of   *)
(* load_config looks into the cache, selects the row without any lock and  *)
(* then publishes what it fetched; a call of save_config commits and then  *)
(* invalidates the cache of its own process.  On boot every process may    *)
(* fold its legacy file into the row, once for all of them.                *)
(*                                                                         *)
(* The row is its version number, 0 while it is empty.  The two seconds of *)
(* the TTL are over whenever ConfigExpires says so.                        *)
(***************************************************************************)
EXTENDS Naturals, FiniteSets

CONSTANTS
    ConfigMachine,  \* the app processes
    ConfigCall,     \* calls in progress at a time, per process
    MaxVersion,     \* bound on the writes of the row
    MaxLoads,       \* bound on the calls of load_config
    Empty

ASSUME ConfigCacheAssumption ==
    /\ MaxVersion \in Nat /\ MaxLoads \in Nat /\ Empty \notin Nat \cup ConfigMachine

VARIABLES
    row,            \* the committed version of app_config
    configCache,    \* per process: the cached version, or Empty
    generation,     \* per process: _config_generation
    call,           \* per process and call: its state
    legacy,         \* per process: its legacy file's migration
    legacyLock,     \* who holds LEGACY_CONFIG_MIGRATION_LOCK_KEY
    ownWrites,      \* history, per process: the last version whose save returned
    migrations,     \* history: how many migrations wrote the row
    loads

configVars == <<row, configCache, generation, call, legacy, legacyLock, ownWrites,
                migrations, loads>>

IdleCall == [at |-> "idle", captured |-> 0, got |-> Empty, due |-> 0]

\* due: what the process had written, as far as anybody could know, when the load began.
Began(m, at, got) ==
    [at |-> at, captured |-> generation[m], got |-> got, due |-> ownWrites[m]]

SetCall(m, c, to) == call' = [call EXCEPT ![m][c] = to]

\* The first critical section: a live entry answers, unless the caller wants it fresh.
BeginLoad(m, c, fresh) ==
    /\ call[m][c].at = "idle" /\ loads < MaxLoads
    /\ loads' = loads + 1
    /\ SetCall(m, c, IF ~fresh /\ configCache[m] # Empty
                      THEN Began(m, "returned", configCache[m]) ELSE Began(m, "select", Empty))
    /\ UNCHANGED <<row, configCache, generation, legacy, legacyLock, ownWrites, migrations>>

SelectRow(m, c) ==
    /\ call[m][c].at = "select"
    /\ SetCall(m, c, [call[m][c] EXCEPT !.at = "publish", !.got = row])
    /\ UNCHANGED <<row, configCache, generation, legacy, legacyLock, ownWrites, migrations, loads>>

\* Mutant of MayPublish: the generation is not looked at.
PublishAlways(m, c) == TRUE

\* No write landed on this process while the read was in flight.
MayPublish(m, c) == call[m][c].captured = generation[m]

\* The second critical section.
Publish(m, c) ==
    /\ call[m][c].at = "publish"
    /\ configCache' = IF MayPublish(m, c) THEN [configCache EXCEPT ![m] = call[m][c].got]
                      ELSE configCache
    /\ SetCall(m, c, [call[m][c] EXCEPT !.at = "returned"])
    /\ UNCHANGED <<row, generation, legacy, legacyLock, ownWrites, migrations, loads>>

\* The caller has its copy, or the select raised and it has nothing.
EndLoad(m, c) ==
    /\ call[m][c].at \in {"select", "returned"}
    /\ SetCall(m, c, IdleCall)
    /\ UNCHANGED <<row, configCache, generation, legacy, legacyLock, ownWrites, migrations, loads>>

ConfigExpires(m) ==
    /\ configCache[m] # Empty /\ configCache' = [configCache EXCEPT ![m] = Empty]
    /\ UNCHANGED <<row, generation, call, legacy, legacyLock, ownWrites, migrations, loads>>

-----------------------------------------------------------------------------

\* The upsert of save_config and its commit.
CommitConfig(m, c) ==
    /\ call[m][c].at = "idle" /\ row < MaxVersion
    /\ row' = row + 1
    /\ SetCall(m, c, [IdleCall EXCEPT !.at = "invalidate", !.got = row + 1])
    /\ UNCHANGED <<configCache, generation, legacy, legacyLock, ownWrites, migrations, loads>>

Newer(a, b) == IF a > b THEN a ELSE b

\* invalidate_config_cache: with this the save returns.
Invalidate(m, c) ==
    /\ call[m][c].at = "invalidate"
    /\ generation' = [generation EXCEPT ![m] = @ + 1]
    /\ configCache' = [configCache EXCEPT ![m] = Empty]
    /\ ownWrites' = [ownWrites EXCEPT ![m] = Newer(@, call[m][c].got)]
    /\ SetCall(m, c, IdleCall)
    /\ UNCHANGED <<row, legacy, legacyLock, migrations, loads>>

-----------------------------------------------------------------------------
(* migrate_legacy_config_file. *)

SetLegacy(m, at) == legacy' = [legacy EXCEPT ![m] = at]

\* The unlocked read: every boot after the migrating one ends here.
CheckUnlocked(m) ==
    /\ legacy[m] = "file"
    /\ SetLegacy(m, IF row # 0 THEN "done" ELSE "waiting")
    /\ UNCHANGED <<row, configCache, generation, call, legacyLock, ownWrites, migrations, loads>>

LockMigration(m) ==
    /\ legacy[m] = "waiting" /\ legacyLock = Empty
    /\ legacyLock' = m /\ SetLegacy(m, "locked")
    /\ UNCHANGED <<row, configCache, generation, call, ownWrites, migrations, loads>>

\* Mutant of FoundEmpty: the second read is left out.
FoundEmptyBefore == TRUE

\* The read under the lock.
FoundEmpty == row = 0

CheckLocked(m) ==
    /\ legacy[m] = "locked"
    /\ IF FoundEmpty THEN SetLegacy(m, "writing") /\ UNCHANGED legacyLock
       ELSE SetLegacy(m, "done") /\ legacyLock' = Empty
    /\ UNCHANGED <<row, configCache, generation, call, ownWrites, migrations, loads>>

\* The upsert, its commit, which releases the lock, and the invalidation.
Migrate(m) ==
    /\ legacy[m] = "writing" /\ row < MaxVersion
    /\ row' = row + 1 /\ migrations' = migrations + 1
    /\ legacyLock' = Empty /\ SetLegacy(m, "done")
    /\ generation' = [generation EXCEPT ![m] = @ + 1]
    /\ configCache' = [configCache EXCEPT ![m] = Empty]
    /\ UNCHANGED <<call, ownWrites, loads>>

\* The process dies, or its file is malformed and fails the boot: it boots again.
Reboot(m) ==
    /\ legacy[m] # "none" /\ SetLegacy(m, "file")
    /\ legacyLock' = IF legacyLock = m THEN Empty ELSE legacyLock
    /\ call' = [call EXCEPT ![m] = [c \in ConfigCall |-> IdleCall]]
    /\ configCache' = [configCache EXCEPT ![m] = Empty]
    /\ generation' = [generation EXCEPT ![m] = 0]
    /\ ownWrites' = [ownWrites EXCEPT ![m] = 0]
    /\ UNCHANGED <<row, migrations, loads>>

ConfigInit ==
    /\ row = 0 /\ configCache = [m \in ConfigMachine |-> Empty]
    /\ generation = [m \in ConfigMachine |-> 0]
    /\ call = [m \in ConfigMachine |-> [c \in ConfigCall |-> IdleCall]]
    /\ legacy \in [ConfigMachine -> {"file", "none"}] /\ legacyLock = Empty
    /\ ownWrites = [m \in ConfigMachine |-> 0] /\ migrations = 0 /\ loads = 0

\* A process answers requests once its boot is past the migration.
ConfigNext ==
    \E m \in ConfigMachine :
        \/ /\ legacy[m] \in {"done", "none"}
           /\ \/ \E c \in ConfigCall :
                   \/ \E fresh \in BOOLEAN : BeginLoad(m, c, fresh)
                   \/ SelectRow(m, c) \/ Publish(m, c) \/ EndLoad(m, c)
                   \/ CommitConfig(m, c) \/ Invalidate(m, c)
              \/ ConfigExpires(m)
        \/ CheckUnlocked(m) \/ LockMigration(m) \/ CheckLocked(m) \/ Migrate(m) \/ Reboot(m)

ConfigSpec == ConfigInit /\ [][ConfigNext]_configVars

-----------------------------------------------------------------------------

\* A load that began after a save returned on the same process never answers with an
\* older row, neither from the cache nor from a read that was under way (the comment in
\* save_config: the GET that follows the POST reads that cache).
ReadsItsWrites ==
    \A m \in ConfigMachine, c \in ConfigCall :
        call[m][c].at = "returned" => call[m][c].got >= call[m][c].due

\* However many processes boot at once, one legacy file is folded into the row, and none
\* again on a later boot, over what was saved since.
MigratedOnce == migrations <= 1
=============================================================================
