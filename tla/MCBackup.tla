------------------------------ MODULE MCBackup ------------------------------
(* Backup.tla, and with it Files.tla, on small sets, for TLC.              *)
EXTENDS Backup, FiniteSets, TLC

Symmetry == Permutations(Uuids) \cup Permutations(Removals)

Asked(S, how) == {x \in S : how[x].pc # "new"}

\* Either one file under all the removals and downloads, or both, of the greatest
\* length, uploaded one after the other and then removed, no more than one of them:
\* files share nothing but the snapshot they are pulled into.
Few ==
    \/ \E f \in Uuids : up[f] = "new"
    \/ /\ \A f \in Uuids : body[f] = Limit
       /\ Cardinality(Asked(Removals, del) \cup {f \in Uuids : Uploading(f)}) <= 1
       /\ Asked(Downloads, get) = {}
=============================================================================
