------------------------------- MODULE MCCli -------------------------------
(* Cli.tla on small sets, for TLC.                                         *)
EXTENDS Cli, FiniteSets, TLC

Symmetry == Permutations(Commands) \cup Permutations(Devices)

Requesting(c) == pc[c] \in Asking \/ lease[c] # None

\* States that differ only in a device no step and no property looks at again
\* are one.
Seen ==
    <<account, server, content, pc, due, forgotten, cut, even,
      [c \in Commands |->
          IF Requesting(c) \/ pc[c] \in {"gone", "left"} THEN aim[c] ELSE None],
      [c \in Commands |->
          IF pc[c] \in {"idle", "login", "left"} THEN None ELSE dev[c]]>>

\* Once all the devices are enrolled, one request at a time.
Few ==
    (\A d \in Devices : token[d] # "none") =>
        Cardinality({c \in Commands : Requesting(c)}) <= 1
=============================================================================
