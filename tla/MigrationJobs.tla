--------------------------- MODULE MigrationJobs ---------------------------
(***************************************************************************)
(* MigrateVirtualSystem and its job (Xen_VirtualSystemMigrationService.c,  *)
(* migrate_task): a machine with a key-value channel is taken off its      *)
(* private network, moved, and put back (kvpservice/kvpd.py).  All jobs    *)
(* are about one machine.                                                  *)
(***************************************************************************)
EXTENDS JobWorker

VARIABLES
    channel,    \* the keys of the channel in the machine's other_config
    kvpNeedsReenabling, error,  \* the local variables
    moved       \* history: the jobs that have moved the machine

migrationVars == <<channel, kvpNeedsReenabling, error, moved>>

Keys == {"kvp_enabled", "kvpmigration_active"}

MigrationInit ==
    /\ channel \in {{}, {"kvp_enabled"}}
    /\ kvpNeedsReenabling = FALSE /\ error = FALSE
    /\ moved = {}

MigrateVirtualSystem(j) == Submit(j, "migrate") /\ UNCHANGED migrationVars

\* The daemon's _clearup and _setup; the latter needs the guest.
SetupChannel ==
    /\ channel' \in {channel \cup {"kvp_enabled"}} \cup
                    (IF faults THEN {channel, channel \ {"kvp_enabled"}} ELSE {})
    /\ UNCHANGED <<workerVars, kvpNeedsReenabling, error, moved>>

\* What a command does to the keys, and whether its answer is 200.
Done(keys, answer) == [keys |-> keys, answer |-> answer]

PrepareMigration ==
    IF "kvp_enabled" \notin channel
      THEN {Done(channel, FALSE)}
      ELSE IF "kvpmigration_active" \in channel    \* a duplicate key
        THEN {Done({"kvpmigration_active"}, FALSE)}
        ELSE {Done({"kvpmigration_active"}, TRUE)} \cup
             (IF faults THEN {Done(channel, FALSE), Done({}, FALSE),
                              Done({"kvpmigration_active"}, FALSE)} ELSE {})

\* Mutant: the key of the channel is not written again.
FinishMigration_Forgets ==
    IF "kvpmigration_active" \notin channel
      THEN {Done(channel, FALSE)}
      ELSE {Done(channel \ {"kvpmigration_active"}, TRUE)}

FinishMigration ==
    IF "kvpmigration_active" \notin channel
      THEN {Done(channel, FALSE)}
      ELSE {Done({"kvp_enabled"}, TRUE)} \cup
           (IF faults THEN {Done(channel, FALSE), Done(channel \ {"kvpmigration_active"}, FALSE),
                            Done({}, FALSE), Done({"kvp_enabled"}, FALSE)} ELSE {})

\* xen_utils_cmd_kvp_channel: the address is asked of xapi, on the job's session,
\* and the command is posted to the daemon there.
Command(outcomes, answer) ==
    \/ /\ ~ok \/ faults
       /\ ok' = FALSE /\ answer = FALSE
       /\ UNCHANGED channel
    \/ /\ ok /\ ok' = TRUE
       /\ \E d \in outcomes : channel' = d.keys /\ answer = d.answer

\* The uuid and the other_config of the machine.
ReadChannel ==
    /\ pc = "migrate"
    /\ Reads
    /\ error' = ~ok'
    /\ kvpNeedsReenabling' = (ok' /\ "kvp_enabled" \in channel)
    /\ Step("migrate", IF error' THEN "migrated"
                       ELSE IF kvpNeedsReenabling' THEN "prepare" ELSE "pool_migrate")
    /\ UNCHANGED <<channel, moved, rc>>

PrepareChannel ==
    /\ pc = "prepare"
    /\ \E answer \in BOOLEAN :
         /\ Command(PrepareMigration, answer)
         /\ error' = ~answer
    /\ Step("prepare", IF error' THEN "migrated" ELSE "pool_migrate")
    /\ UNCHANGED <<kvpNeedsReenabling, moved, rc>>

\* Mutant: a migration that fails ends the job without a report.
PoolMigrate_Returns ==
    /\ pc = "pool_migrate"
    /\ \/ Performs /\ moved' = moved \cup {current}
       \/ Fails /\ UNCHANGED moved
    /\ error' = ~ok'
    /\ Step("pool_migrate", IF error' THEN "free" ELSE "migrated")
    /\ UNCHANGED <<channel, kvpNeedsReenabling, rc>>

PoolMigrate ==
    /\ pc = "pool_migrate"
    /\ \/ Performs /\ moved' = moved \cup {current}
       \/ Fails /\ UNCHANGED moved
    /\ error' = ~ok'
    /\ Step("pool_migrate", "migrated")
    /\ UNCHANGED <<channel, kvpNeedsReenabling, rc>>

\* The result of the migration; then the channel is put back, on the session of
\* a migration that may have failed, and that result counts too.
FinishChannel ==
    /\ pc = "migrated"
    /\ IF kvpNeedsReenabling
         THEN \E answer \in BOOLEAN :
                /\ Command(FinishMigration, answer)
                /\ rc' = IF error \/ ~answer THEN "Failed" ELSE "NoError"
         ELSE rc' = (IF error THEN "Failed" ELSE "NoError") /\ UNCHANGED <<ok, channel>>
    /\ Step("migrated", "report")
    /\ UNCHANGED <<kvpNeedsReenabling, error, moved>>

MigrationStep == ReadChannel \/ PrepareChannel \/ PoolMigrate \/ FinishChannel

MigrationTypeOK ==
    /\ channel \subseteq Keys
    /\ kvpNeedsReenabling \in BOOLEAN /\ error \in BOOLEAN
    /\ moved \subseteq Jobs
=============================================================================
