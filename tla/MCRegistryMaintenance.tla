------------------------ MODULE MCRegistryMaintenance ------------------------
(***************************************************************************)
(* Instances of RegistryMaintenance for TLC.                               *)
(***************************************************************************)
EXTENDS RegistryMaintenance, TLC

CONSTANTS s1, s2, r1, o1, b1

OneServer == {s1}
TwoServers == {s1, s2}
NoProcs == {}
OneRefresher == {r1}
OneOperator == {o1}
OneObserver == {b1}
ServerSymmetry == Permutations(Servers)

Once == [p \in Procs |-> 1]
\* Three refreshes: only with the third can an empty digest come back.
Thrice == [p \in Procs |-> IF p \in Refreshers THEN 3 ELSE 1]

NoTasks == {}
\* With one attempt of an operator nothing restores a backup it has taken.
RestoreOrIndex == {"restore", "index"}
AllTasks == {"backup", "restore", "index"}

=============================================================================
