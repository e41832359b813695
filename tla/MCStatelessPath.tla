--------------------------- MODULE MCStatelessPath ---------------------------
(***************************************************************************)
(* The deployments that the runs of StatelessPath look at.                 *)
(***************************************************************************)
EXTENDS StatelessPath

(***************************************************************************)
(* Every separation mode and every stateless mode.  Two transactions, of   *)
(* which one has no shared objects where the primary separates             *)
(* verification from execution; in the other modes such a transaction      *)
(* panics the proxy, so they get none.                                     *)
(***************************************************************************)
AllModes ==
    {[mode |-> "PrimaryPreSeparation", owned |-> {2}, stateless_mode |-> "Ed25519"],
     [mode |-> "PrimaryPostSeparation", owned |-> {2}, stateless_mode |-> "Bls"]}
      \cup [mode : {"NoSeparation", "ProxySeparation"}, owned : {{}},
            stateless_mode : StatelessModes]

\* Shared-object transactions only, verified after consensus ...
PostOnly == {[mode |-> "PrimaryPostSeparation", owned |-> {}, stateless_mode |-> "Synthetic"]}

\* ... or before it.
PreOnly == {[mode |-> "PrimaryPreSeparation", owned |-> {}, stateless_mode |-> "Synthetic"]}

\* The default mode with a transaction that has no shared objects.
DefaultWithOwned == {[mode |-> "NoSeparation", owned |-> {1}, stateless_mode |-> "Synthetic"]}

=============================================================================
