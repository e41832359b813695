----------------------------- MODULE MCProxyCore -----------------------------
(***************************************************************************)
(* ProxyCore up to the names of the proxies.  Nothing in ProxyCore tells   *)
(* one proxy from another, so a behaviour may be renamed until the proxies *)
(* are first used in the order 0, 1, 2, ...; only these are explored.      *)
(***************************************************************************)
EXTENDS ProxyCore

UsedInOrder ==
    \A t \in TxnId : IsForwarded(t) /\ ProxyOf(t) # 0 =>
        \E u \in TxnId : IsForwarded(u) /\ ProxyOf(u) = ProxyOf(t) - 1

MCNext == PXNext /\ UsedInOrder'

MCFairness ==
    /\ WF_pxVars(Forwarding /\ UsedInOrder')
    /\ WF_pxVars(\E t \in TxnId : TxnStep(t))
    /\ WF_pxVars(MigrationStep)

MCSpec == PXInit /\ [][MCNext]_pxVars /\ MCFairness

=============================================================================
