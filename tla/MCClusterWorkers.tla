--------------------------- MODULE MCClusterWorkers ---------------------------
(* Instances of ClusterWorkers for TLC.                                       *)
EXTENDS ClusterWorkers, TLC

CONSTANTS owner, kim, lab, a1, a2, host, cpu, gpu

OneOwner == lab :> owner
OwnerOnly == {<<lab, owner>>}
BothMembers == {<<lab, owner>>, <<lab, kim>>}

\* All computers are one user's agents on one machine, report what is in
\* Devices and share it.
OwnedByOwner == [a \in Agents |-> owner]
OwnedByMember == [a \in Agents |-> kim]
InLab == [a \in Agents |-> lab]
SameAddress == [a \in Agents |-> "alpha"]
SameInventory == [a \in Agents |-> {[host |-> host, devices |-> Devices]}]
SharesAll == [a \in Agents |-> Devices]
SharesCpu == [a \in Agents |-> {cpu}]

\* Job 1 is placed on the CPU, job 2 on the GPU, with a port each.
OnePlacement ==
  \A j \in Jobs : \A x \in job[j].spec :
    /\ x.device = IF j = 1 THEN cpu ELSE gpu
    /\ job[j].url[2] = 29499 + j

ComputerSymmetry == Permutations({a1, a2})
===============================================================================
