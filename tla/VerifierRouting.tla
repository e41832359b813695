--------------------------- MODULE VerifierRouting ---------------------------
(***************************************************************************)
(* What the proxies may rely on about the two messages the primary sends   *)
(* for a transaction when stateless verification is separated from         *)
(* execution: the verification request (StatelessTxn) and the transaction  *)
(* (Txn or CombinedTxn), which names the proxy that verifies it.           *)
(*                                                                         *)
(*   - an owned-object transaction follows its request to one proxy; in    *)
(*     PrimaryPreSeparation it has, like every transaction that enters     *)
(*     consensus, a second request sent to any proxy;                      *)
(*   - without separation at the primary, the executing proxy verifies;    *)
(*   - in PrimaryPostSeparation the request leaves first, to the named     *)
(*     proxy;                                                              *)
(*   - in PrimaryPreSeparation the two are sent by different workers: the  *)
(*     transaction names where the request went, or proxy 0 if that is not *)
(*     on record yet.                                                      *)
(*                                                                         *)
(* How a deployment is configured and which of its transactions have no    *)
(* shared objects does not change while it runs.                           *)
(***************************************************************************)
EXTENDS StatelessCrypto, Integers

CONSTANTS
    TxnId,       \* transactions
    NumProxies,
    Deployments  \* what is deployed: a separation mode, the transactions without
                 \* shared objects, a mode of stateless verification

Modes == {"NoSeparation", "ProxySeparation",
          "PrimaryPreSeparation", "PrimaryPostSeparation"}

ASSUME VRAssumption ==
    /\ NumProxies \in Nat \ {0}
    /\ Deployments \subseteq [mode : Modes, owned : SUBSET TxnId, stateless_mode : StatelessModes]

Proxy == 0..(NumProxies - 1)
NoProxy == -1

VARIABLES
    mode,            \* SeparationMode
    owned,           \* transactions without shared objects
    stateless_mode,  \* StatelessVerificationMode
    stateless_sent,  \* StatelessTxns sent: transaction, proxy, which forwarder
    txn_sent         \* transaction -> message that carries the transaction

deploymentVars == <<mode, owned, stateless_mode>>

vrVars == <<deploymentVars, stateless_sent, txn_sent>>

IsPrimarySeparation == mode \in {"PrimaryPreSeparation", "PrimaryPostSeparation"}
IsProxySeparation == IsPrimarySeparation \/ mode = "ProxySeparation"

NotSent == [kind |-> "none", proxy |-> NoProxy, stateless |-> NoProxy]

VRInit ==
    /\ \E d \in Deployments : mode = d.mode /\ owned = d.owned /\ stateless_mode = d.stateless_mode
    /\ stateless_sent = {}
    /\ txn_sent = [t \in TxnId |-> NotSent]

Forwarders == {"owned", "shared"}

\* Where a forwarder has sent the verification request of t, if it has.
RequestedAt(t, by) == {m.proxy : m \in {m \in stateless_sent : m.txn = t /\ m.by = by}}

(***************************************************************************)
(* The owned-object forwarder sends a request in every mode; the stateless *)
(* forwarder, in PrimaryPreSeparation, for whatever enters consensus; the  *)
(* shared-object forwarder, in PrimaryPostSeparation, for what it handles. *)
(***************************************************************************)
SendStatelessTxn(t, p, by) ==
    /\ \/ by = "owned" /\ t \in owned
       \/ by = "shared" /\ mode = "PrimaryPreSeparation"
       \/ by = "shared" /\ mode = "PrimaryPostSeparation" /\ t \notin owned
    /\ RequestedAt(t, by) = {}
    /\ stateless_sent' = stateless_sent \cup {[txn |-> t, proxy |-> p, by |-> by]}
    /\ UNCHANGED <<deploymentVars, txn_sent>>

\* The verifiers a message that takes t to p may name.
Verifiers(t, p) ==
    CASE t \in owned -> RequestedAt(t, "owned") \cap {p}
      [] t \notin owned /\ mode = "PrimaryPostSeparation" -> RequestedAt(t, "shared")
      [] t \notin owned /\ mode = "PrimaryPreSeparation" -> RequestedAt(t, "shared") \cup {0}
      [] OTHER -> {p}

SendTxn(t, p) ==
    /\ txn_sent[t] = NotSent
    /\ \E s \in Verifiers(t, p) :
          txn_sent' = [txn_sent EXCEPT ![t] =
              [kind |-> IF t \in owned \/ IsPrimarySeparation THEN "Txn" ELSE "CombinedTxn",
               proxy |-> p, stateless |-> s]]
    /\ UNCHANGED <<deploymentVars, stateless_sent>>

VRNext ==
    \E t \in TxnId, p \in Proxy :
        \/ \E by \in Forwarders : SendStatelessTxn(t, p, by)
        \/ SendTxn(t, p)

VRSpec == VRInit /\ [][VRNext]_vrVars

=============================================================================
