--------------------------- MODULE MCClusterControl ---------------------------
(* Instances of ClusterControl for TLC.                                       *)
EXTENDS ClusterControl, TLC

CONSTANTS owner, kim,   \* users
          lab,          \* the cluster
          a1, a2,       \* agents
          host, moved,  \* machine identities
          cpu, gpu,
          j1, j2,
          k1, k2

OneOwner == lab :> owner
OneContributor == a1 :> owner @@ a2 :> owner
TwoContributors == a1 :> owner @@ a2 :> kim
OneCluster == a1 :> lab @@ a2 :> lab
Addresses == a1 :> "alpha" @@ a2 :> "beta"
OwnerOnly == {<<lab, owner>>}
BothMembers == {<<lab, owner>>, <<lab, kim>>}

\* One CPU each, on one machine.
OneCpuEach == [a \in Agents |-> {[host |-> host, devices |-> {cpu}]}]

\* The agents see the same GPU, and kim's can come back with another machine
\* identity.
SameGpu == a1 :> {[host |-> host, devices |-> {gpu}]}
        @@ a2 :> {[host |-> host, devices |-> {gpu}], [host |-> moved, devices |-> {gpu}]}

JobSymmetry == Permutations({j1, j2})
===============================================================================
