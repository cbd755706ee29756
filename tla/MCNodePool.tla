------------------------------ MODULE MCNodePool ------------------------------
(* Small instances of the node pool for TLC: two machines and one device.       *)
EXTENDS NodePoolHistory

CONSTANTS n1, n2, d1, j1, j2, j3, c1

MCNodes == {n1, n2, d1}
MCNodeInfo == [n \in MCNodes |-> IF n = d1
                THEN [os |-> "android", version |-> "7", slave |-> "s1"]
                ELSE [os |-> "debian", version |-> "12", slave |-> None]]

Vm(num) == [os |-> "debian", version |-> "12", slave |-> None, num |-> num]
Device(slave) == [os |-> "android", version |-> "12", slave |-> slave, num |-> 1]

\* Two jobs with distinct build names that compete for machines.  The third has no
\* name and wants a device, of slave s1 or, by mistake, of no slave.
MCJobName == [j \in {j1, j2, j3} |-> CASE j = j1 -> "a:1" [] j = j2 -> "b:1" [] OTHER -> None]
MCTwoVms == [j \in {j1, j2, j3} |-> CASE j = j1 -> Vm(2) [] j = j2 -> Vm(1)
                                      [] OTHER -> Device(None)]
MCOneVm == [j \in {j1, j2, j3} |-> IF j = j3 THEN Device("s1") ELSE Vm(1)]

MCBuildNames == {"a:1", "b:1"}
===============================================================================
