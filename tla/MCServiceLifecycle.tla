------------------------ MODULE MCServiceLifecycle ------------------------
(* Small instances of ServiceLifecycle for TLC. *)
EXTENDS ServiceLifecycle, TLC

\* "YARN" depends on "HDFS" in defaultDeps.
Chain == {<<"YARN", "HDFS">>}

NoDeps == {}

Symmetry == Permutations(Requests)
=============================================================================
