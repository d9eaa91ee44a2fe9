------------------------- MODULE MCRestoreLifecycle -------------------------
(***************************************************************************)
(* Small instances of RestoreLifecycle for TLC: what an Instance and a     *)
(* Restore may name as their source.                                       *)
(***************************************************************************)
EXTENDS RestoreLifecycle

BackupSources == {BackupSource(b) : b \in Backup}

(* Not the Instance's own stream: that one is never usable for a new       *)
(* cluster.                                                                *)
SeedSources == {NoSource, StreamSource("other")} \cup BackupSources

NoDataSource == {NoSource}

OwnStream == {StreamSource("self")}

AllSources == Sources

=============================================================================
