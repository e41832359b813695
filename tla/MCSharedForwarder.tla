-------------------------- MODULE MCSharedForwarder --------------------------
(***************************************************************************)
(* The settings SharedForwarder is checked in: verification sent after     *)
(* consensus by the workers themselves, with state-aware fallback and a    *)
(* planned subgraph; and verification sent ahead of consensus, racing the  *)
(* workers on the forwarding table, with round-robin fallback.             *)
(***************************************************************************)
EXTENDS SharedForwarder

MCDeployments ==
    {[mode |-> "PrimaryPostSeparation", policy |-> "LSDS", subgraphs |-> {{2, 3}}, txns |-> 4],
     [mode |-> "PrimaryPreSeparation", policy |-> "RSDS", subgraphs |-> {}, txns |-> 3]}

=============================================================================
