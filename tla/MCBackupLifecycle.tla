------------------------- MODULE MCBackupLifecycle -------------------------
(***************************************************************************)
(* Small instances of BackupLifecycle for TLC.                             *)
(***************************************************************************)
EXTENDS BackupLifecycle, TLC

(* Every list of storages without repetition.                              *)
AllLists ==
  {l \in UNION {[1 .. m -> Storage] : m \in 0 .. Cardinality(Storage)} : IsInjective(l)}

Symmetry == Permutations(Storage) \cup Permutations(Name)

=============================================================================
