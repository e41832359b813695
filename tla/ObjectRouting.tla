---------------------------- MODULE ObjectRouting ----------------------------
(***************************************************************************)
(* What the primary promises the proxies about shared-object transactions, *)
(* whatever the scheduling policy: every transaction is forwarded to one   *)
(* proxy, never before the transactions it conflicts with, and with each   *)
(* required state it names the proxy that will produce that state - the    *)
(* one the predecessor on the object was sent to - unless that is the      *)
(* destination itself or nobody touched the object before.                 *)
(***************************************************************************)
EXTENDS VersionAssignment, Integers

CONSTANT NumProxies

ASSUME NumProxiesAssumption == NumProxies \in Nat \ {0}

\* Proxy identifiers; the code indexes vectors with them.
Proxy == 0..(NumProxies - 1)

NoProxy == -1

VARIABLE forwarded   \* transaction -> the message sent for it

orVars == <<vaVars, forwarded>>

TxnId == 1..MaxTxns

NotForwarded == [proxy |-> NoProxy, owner |-> << >>]

IsForwarded(t) == forwarded[t] # NotForwarded

(***************************************************************************)
(* The previous owner that goes with object o of transaction t sent to p.  *)
(***************************************************************************)
PreviousOwner(t, p, o) ==
    IF \E i \in 1..(t - 1) : Predecessor(i, t, o) /\ forwarded[i].proxy # p
    THEN forwarded[CHOOSE i \in 1..(t - 1) : Predecessor(i, t, o)].proxy
    ELSE NoProxy

ORInit == VAInit /\ forwarded = [t \in TxnId |-> NotForwarded]

Forward(t, p) ==
    /\ t \in Txns
    /\ ~ IsForwarded(t)
    /\ \A i \in 1..(t - 1) : Conflicts(i, t) => IsForwarded(i)
    /\ forwarded' = [forwarded EXCEPT ![t] =
          [proxy |-> p, owner |-> [o \in Objects(t) |-> PreviousOwner(t, p, o)]]]
    /\ UNCHANGED vaVars

ORNext ==
    \/ \E S \in SUBSET Object : AssignSharedObjectVersions(S) /\ UNCHANGED forwarded
    \/ \E t \in TxnId, p \in Proxy : Forward(t, p)

ORSpec == ORInit /\ [][ORNext]_orVars

=============================================================================
