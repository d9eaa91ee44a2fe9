--------------------------- MODULE MCBackupRepos ---------------------------
(***************************************************************************)
(* Small instances of BackupRepos for TLC: names are model values, and the *)
(* sets of names are symmetric in the safety runs.                         *)
(***************************************************************************)
EXTENDS BackupRepos, TLC

Symmetry == Permutations(Storage) \cup Permutations(Backup)

(* Storage lists without repetition, by length.                            *)
ListsUpTo(n) ==
  {l \in UNION {[1 .. m -> Storage] : m \in 0 .. n} : IsInjective(l)}

ShortLists == ListsUpTo(1)

FullLists == ListsUpTo(MaxRepos)

NoDataSource == {NoStorage}

SomeDataSource == {NoStorage, Unresolved}

=============================================================================
