------------------------------- MODULE Backup -------------------------------
(***************************************************************************)
(* The backup sets of the archive: a snapshot of a database that is being  *)
(* written, its compression, the companions, the manifest, the pruning of  *)
(* older sets, and the restore of one of them to a new file.               *)
(* src/python/jester/backup.py, cli.py (cmd_backup)                        *)
(***************************************************************************)
EXTENDS Naturals, FiniteSets

CONSTANTS SetBound,      \* backups taken; a stamp is the number of its backup
          Keep,          \* --keep
          WriterBound, RotBound, KillBound, RestoreBound

ASSUME BackupAssumption == {SetBound, Keep} \subseteq Nat \ {0}

VARIABLES live,      \* the archive: a version, moved by its writers
          sets,      \* the files of a stamp
          taking,    \* the backup under way
          taken,     \* backups begun
          dest,      \* the file a restore writes
          restoring, \* the restore under way, and what it said
          snapped, finished, \* ghosts: the version a stamp is of; whether one was ever verified
          writers, rots, kills, restores

backupVars == <<live, sets, taking, taken, dest, restoring, snapped, finished,
                writers, rots, kills, restores>>
backupBounds == <<writers, rots, kills, restores>>

Stamps == 1..SetBound

(* What a file holds: nothing, a part of it, or a version; damage does not
   change what a database counts, nor always its integrity.                 *)
Absent == [is |-> "absent", of |-> 0, damaged |-> FALSE]
Partial == [is |-> "partial", of |-> 0, damaged |-> FALSE]
Whole(v) == [is |-> "whole", of |-> v, damaged |-> FALSE]
NoSet == [plain |-> Absent, gz |-> Absent, companion |-> Absent, manifest |-> Absent]
NoTaking == [step |-> "idle", stamp |-> 0]
NoRestore == [step |-> "idle", stamp |-> 0, matches |-> FALSE]

BackupInit ==
    /\ live = 1 /\ sets = [s \in Stamps |-> NoSet] /\ taking = NoTaking /\ taken = 0
    /\ dest = Absent /\ restoring = NoRestore
    /\ snapped = [s \in Stamps |-> 0] /\ finished = FALSE
    /\ writers = 0 /\ rots = 0 /\ kills = 0 /\ restores = 0

(* The archive of a set is its .gz, or the database it was made of; the one
   that `drill` takes is the last by name.                                  *)
Main(s) == IF sets[s].gz # Absent THEN sets[s].gz ELSE sets[s].plain
Files(s) == {f \in DOMAIN NoSet : sets[s][f] # Absent}
OnDisk == {s \in Stamps : Files(s) # {}}

WriteArchive ==
    /\ writers < WriterBound /\ writers' = writers + 1
    /\ live' = live + 1
    /\ UNCHANGED <<sets, taking, taken, dest, restoring, snapped, finished, rots, kills, restores>>

(* A bit of a file flips while nobody is writing or reading it. *)
Rot(s, f) ==
    /\ rots < RotBound /\ rots' = rots + 1
    /\ sets[s][f].is = "whole" /\ ~sets[s][f].damaged /\ taking.stamp # s /\ restoring.stamp # s
    /\ sets' = [sets EXCEPT ![s][f].damaged = TRUE]
    /\ UNCHANGED <<live, taking, taken, dest, restoring, snapped, finished, writers, kills, restores>>

-----------------------------------------------------------------------------
(* jester backup                                                           *)

Step(from, to) == taking.step = from /\ taking' = [taking EXCEPT !.step = to]
Put(f, what) == sets' = [sets EXCEPT ![taking.stamp][f] = what]
TakingOnly == UNCHANGED <<live, taken, dest, restoring, snapped, finished, backupBounds>>

StartBackup ==
    /\ taking.step = "idle" /\ taken < SetBound
    /\ taken' = taken + 1
    /\ taking' = [step |-> "snapshot", stamp |-> taken + 1]
    /\ sets' = [sets EXCEPT ![taken + 1].plain = Partial]
    /\ UNCHANGED <<live, dest, restoring, snapped, finished, backupBounds>>

(* The online backup is of one moment, whoever writes meanwhile; a failed
   one leaves no file, and ends the command.                                *)
Snapshot ==
    /\ Step("snapshot", "compress") /\ Put("plain", Whole(live))
    /\ snapped' = [snapped EXCEPT ![taking.stamp] = live]
    /\ UNCHANGED <<live, taken, dest, restoring, finished, backupBounds>>
SnapshotFails ==
    /\ taking.step = "snapshot" /\ taking' = NoTaking
    /\ Put("plain", Absent) /\ TakingOnly

(* A failed compression keeps the database, and what it wrote of the .gz;
   --no-compress keeps the database alone.                                *)
KeepPlain == Step("compress", "companion") /\ UNCHANGED sets /\ TakingOnly
BeginCompress == Step("compress", "gzip") /\ Put("gz", Partial) /\ TakingOnly
Compress ==
    /\ Step("gzip", "unlink") /\ Put("gz", sets[taking.stamp].plain) /\ TakingOnly
CompressFails == Step("gzip", "companion") /\ UNCHANGED sets /\ TakingOnly
UnlinkPlain == Step("unlink", "companion") /\ Put("plain", Absent) /\ TakingOnly

(* A companion that cannot be copied is reported, and fails nothing. *)
CopyCompanion ==
    /\ Step("companion", "manifest")
    /\ \/ Put("companion", Whole(live))
       \/ UNCHANGED sets
    /\ TakingOnly

(* The manifest names the file that was returned, its hash and its counts:
   the .gz, or the database when it was kept.                               *)
Returned == IF sets[taking.stamp].plain # Absent THEN sets[taking.stamp].plain ELSE sets[taking.stamp].gz
WriteManifest == Step("manifest", "verify") /\ Put("manifest", Returned) /\ TakingOnly

(* The command proves what it has written before it prunes. *)
VerifyBackup ==
    /\ taking.step = "verify"
    /\ IF Returned.is = "whole" THEN taking' = [taking EXCEPT !.step = "prune"] /\ finished' = TRUE
       ELSE taking' = NoTaking /\ UNCHANGED finished
    /\ UNCHANGED <<live, sets, taken, dest, restoring, snapped, backupBounds>>

(* The newest stamps stay, whatever is left of them. *)
Prune ==
    /\ taking.step = "prune" /\ taking' = NoTaking
    /\ LET kept == {s \in OnDisk : Cardinality({t \in OnDisk : t > s}) < Keep} IN
       sets' = [s \in Stamps |-> IF s \in kept THEN sets[s] ELSE NoSet]
    /\ TakingOnly

BackupKilled ==
    /\ taking.step # "idle" /\ kills < KillBound /\ kills' = kills + 1
    /\ taking' = NoTaking
    /\ UNCHANGED <<live, sets, taken, dest, restoring, snapped, finished, writers, rots, restores>>

-----------------------------------------------------------------------------
(* jester backup restore                                                   *)

RestoreOnly == UNCHANGED <<live, sets, taking, taken, snapped, finished, writers, rots, kills>>
(* The hash the manifest has for this file. *)
Hashed(s) == sets[s].manifest.is = "whole" /\ (sets[s].gz = Absent \/ sets[s].plain = Absent)
SameBytesMutant(s) == TRUE
SameBytes(s) == Hashed(s) => Main(s) = [sets[s].manifest EXCEPT !.damaged = FALSE]

(* An existing file is refused.  A database is copied, a .gz is unpacked: of a
   damaged or partial one nothing comes, and what was written goes.         *)
StartRestore(s) ==
    /\ restoring.step = "idle" /\ restores < RestoreBound /\ restores' = restores + 1
    /\ Main(s) # Absent /\ dest = Absent /\ SameBytes(s)
    /\ restoring' = [NoRestore EXCEPT !.step = "copy", !.stamp = s]
    /\ dest' = Partial
    /\ RestoreOnly
CopyOut ==
    /\ restoring.step = "copy"
    /\ LET from == Main(restoring.stamp)
           unpacks == from.is = "whole" /\ (sets[restoring.stamp].gz # Absent => ~from.damaged) IN
       IF unpacks \/ (from = Partial /\ sets[restoring.stamp].gz = Absent)
       THEN dest' = from /\ restoring' = [restoring EXCEPT !.step = "prove"]
       ELSE dest' = Absent /\ restoring' = NoRestore
    /\ UNCHANGED restores /\ RestoreOnly

(* Integrity, and the counts when the manifest has them for this file.  A
   partial database may be an empty one, which is sound.                    *)
Prove(sound) ==
    /\ restoring.step = "prove"
    /\ dest.is = "whole" /\ ~dest.damaged => sound
    /\ LET s == restoring.stamp IN
       IF sound /\ (Hashed(s) => dest.of = sets[s].manifest.of)
       THEN /\ restoring' = [restoring EXCEPT !.step = "said", !.matches = Hashed(s)]
            /\ UNCHANGED dest
       ELSE dest' = Absent /\ restoring' = NoRestore
    /\ UNCHANGED restores /\ RestoreOnly

(* The restored file is put in place by hand. *)
MovedAway ==
    /\ restoring.step = "said" /\ restoring' = NoRestore /\ dest' = Absent
    /\ UNCHANGED restores /\ RestoreOnly
RestoreKilled ==
    /\ restoring.step \in {"copy", "prove"} /\ kills < KillBound /\ kills' = kills + 1
    /\ restoring' = NoRestore
    /\ UNCHANGED <<live, sets, taking, taken, dest, snapped, finished, writers, rots, restores>>

BackupNext ==
    \/ WriteArchive
    \/ \E s \in Stamps, f \in DOMAIN NoSet : Rot(s, f)
    \/ StartBackup \/ Snapshot \/ SnapshotFails \/ KeepPlain \/ BeginCompress \/ Compress \/ CompressFails
    \/ UnlinkPlain \/ CopyCompanion \/ WriteManifest \/ VerifyBackup \/ Prune \/ BackupKilled
    \/ \E s \in Stamps : StartRestore(s)
    \/ CopyOut \/ MovedAway \/ RestoreKilled
    \/ \E sound \in BOOLEAN : Prove(sound)

BackupSpec == BackupInit /\ [][BackupNext]_backupVars

(* A restore that says it matches the manifest has produced the archive as it
   was at the moment of the snapshot, whatever was written, killed, damaged or
   pruned since.                                                              *)
RestoredIsSnapshot ==
    restoring.step = "said" /\ restoring.matches => dest = Whole(snapped[restoring.stamp])

(* Once a backup was verified, some set on disk holds a whole archive, however
   many later ones fail or are killed: only a verified backup prunes, and it
   is the newest (cmd_backup, prune_backup_sets).                             *)
OneGoodSet ==
    finished => \E s \in Stamps : sets[s].gz.is = "whole" \/ sets[s].plain.is = "whole"

(* A backup is there when it is needed, and is what it is taken for. *)
BackupsAreGood == RestoredIsSnapshot /\ OneGoodSet
=============================================================================
