---------------------------- MODULE MCProducerPath ----------------------------
(***************************************************************************)
(* Small workloads for TLC: up to two job requests with one job each, and  *)
(* topic requests.                                                         *)
(***************************************************************************)
EXTENDS ProducerPath, TLC

CONSTANTS r1, r2, j1, j2

\* One topic shared by every job request; each request carries its own job.
MCTopicOf == [r \in JobRequests |-> "a"]
MCJobsOf == [r \in JobRequests |-> {IF r = r1 THEN j1 ELSE j2}]
MCJobHash == [j \in Jobs |-> IF j = j1 THEN 1 ELSE 2]

\* The jobs of r1 carry another topic than the payload that holds them.
MCOtherTopicOf == [r \in JobRequests |-> IF r = r1 THEN NoTopic ELSE "a"]

\* r2 goes to a second topic.
MCTwoTopicOf == [r \in JobRequests |-> IF r = r2 THEN "b" ELSE "a"]

\* Of two requests to the same topic it does not matter which is which, if their
\* jobs are exchanged with them.
RequestSymmetry ==
    {p \in Permutations(JobRequests \union Jobs) :
        \A r \in JobRequests : p[r] \in JobRequests /\ JobsOf[p[r]] = {p[j] : j \in JobsOf[r]}}

=============================================================================
