---------------------------- MODULE MCPrefixLog -----------------------------
(* PrefixLog with two processes and three keys, two of which collide. *)
EXTENDS PrefixLog, TLC

MCEntries == {<<1, 3>>, <<2, 1>>, <<3, 1>>}
MCHash    == [k \in Keys |-> IF k = 3 THEN 2 ELSE 1]

Symmetry == Permutations(Procs)

\* States that differ only in the numbers of the inodes are the same.
View ==
  <<name = durableName, [i \in {1, 2} |-> LET n == IF i = 1 THEN name ELSE durableName
                                          IN  <<file[n], disk[n]>>],
    [p \in Procs |-> <<fd[p] = 0, fd[p] = name>>], lock, pc, curVars, cacheVars, boundVars,
    mishaps, history>>
=============================================================================
