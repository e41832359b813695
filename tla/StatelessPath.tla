---------------------------- MODULE StatelessPath ----------------------------
(***************************************************************************)
(* The proxies' handling of stateless verification in every separation     *)
(* mode: the verification request starts a task; the transaction waits for *)
(* its result in the local controller, or asks the proxy it names.         *)
(*                                                                         *)
(* A proxy runs one primary message processor and one peer message         *)
(* processor, each taking one message at a time, and a task per request.   *)
(* Messages arrive in any order.  A request is what the executor makes of  *)
(* the transaction's digest in the stateless mode of the deployment, and   *)
(* its result travels along the channels and in the replies.               *)
(***************************************************************************)
EXTENDS VerifierRouting, OneshotDependencyController, StatelessCrypto, FiniteSets

VARIABLES
    oneshots,      \* proxy -> its controller
    delivered,     \* results sent: channel and verdict
    verification,  \* request -> "none", "running", "finished"
    verify_tx,     \* request -> sender held by its verification task
    handling,      \* transaction -> progress of its Txn at its proxy
    waits_on,      \* transaction -> receiver its task awaits
    requests,      \* transactions whose result has been asked for
    serving,       \* transaction -> receiver the peer awaits for it
    replies,       \* results on their way back: transaction and verdict
    panicked       \* processors that are gone

controllerVars == <<oneshots, delivered>>
verifyVars == <<verification, verify_tx>>
taskVars == <<handling, waits_on>>
peerVars == <<requests, serving, replies>>

spVars == <<vrVars, controllerVars, verifyVars, taskVars, peerVars, panicked>>

\* A verification request is known by its transaction and who sent it.
Request == TxnId \X Forwarders

\* What make_verification_request makes of t, and what its check says.
Verdict(t) == verify_transaction(make_verification_request(stateless_mode, t))

Home(t) == txn_sent[t].proxy
Verifier(t) == txn_sent[t].stateless

SPInit ==
    /\ VRInit
    /\ oneshots = [p \in Proxy |-> NewOneshots(TxnId)]
    /\ delivered = {}
    /\ verification = [r \in Request |-> "none"]
    /\ verify_tx = [r \in Request |-> NoChannel]
    /\ handling = [t \in TxnId |-> "none"]
    /\ waits_on = [t \in TxnId |-> NoChannel]
    /\ requests = {}
    /\ serving = [t \in TxnId |-> NoChannel]
    /\ replies = {}
    /\ panicked = {}

\* The channel created at p by the named operation for a transaction or a
\* request; each creates one at most.
Channel(op, p, x) == <<op, p, x>>

\* The primary message processor of p can take its next message.
Idle(p) ==
    /\ <<"primary", p>> \notin panicked
    /\ \A t \in TxnId : Home(t) = p => handling[t] # "requested"

Primary ==
    /\ VRNext
    /\ UNCHANGED <<controllerVars, verifyVars, taskVars, peerVars, panicked>>

-----------------------------------------------------------------------------
(* PrimaryMessageProcessor.                                                *)

\* A message of a kind that the mode does not know panics the processor.
UnexpectedMessage(p) ==
    /\ panicked' = panicked \cup {<<"primary", p>>}
    /\ UNCHANGED <<vrVars, controllerVars, verifyVars, taskVars, peerVars>>

\* process_stateless_transaction, for a StatelessTxn.
HandleStatelessTxn(m) ==
    LET p == m.proxy
        r == <<m.txn, m.by>>
        set == set_local_dependency(oneshots[p], m.txn, Channel("local", p, r))
    IN
    /\ Idle(p)
    /\ verification[r] = "none"
    /\ IF IsPrimarySeparation
       THEN /\ oneshots' = [oneshots EXCEPT ![p] = set.map]
            /\ verify_tx' = [verify_tx EXCEPT ![r] = set.tx]
            /\ verification' = [verification EXCEPT ![r] = "running"]
            /\ UNCHANGED <<vrVars, delivered, taskVars, peerVars, panicked>>
       ELSE UnexpectedMessage(p)

\* The spawned verification task ends; a send nobody waits for changes nothing.
VerifyTransaction(r) ==
    /\ verification[r] = "running"
    /\ delivered' = delivered \cup {<<verify_tx[r], Verdict(r[1])>>}
    /\ verify_tx' = [verify_tx EXCEPT ![r] = NoChannel]
    /\ verification' = [verification EXCEPT ![r] = "finished"]
    /\ UNCHANGED <<vrVars, oneshots, taskVars, peerVars, panicked>>

\* A transaction whose verification failed is skipped.
Outcome(verified) == IF verified THEN "verified" ELSE "refused"

\* What the task of t awaits; without a receiver it goes ahead, after a check
\* of its own unless verification is separated.
WaitFor(t, rx) ==
    /\ waits_on' = [waits_on EXCEPT ![t] = rx]
    /\ handling' = [handling EXCEPT ![t] =
          IF rx # NoChannel THEN "waiting" ELSE Outcome(IsProxySeparation \/ Verdict(t))]

\* The result comes from this proxy.
HandleTxnLocal(t) ==
    LET p == Home(t)
        got == get_dependency(oneshots[p], t, Channel("get", p, t))
    IN
    /\ txn_sent[t].kind = "Txn"
    /\ handling[t] = "none"
    /\ Idle(p)
    /\ IF IsPrimarySeparation
       THEN /\ Verifier(t) = p
            /\ oneshots' = [oneshots EXCEPT ![p] = got.map]
            /\ WaitFor(t, got.rx)
            /\ UNCHANGED <<vrVars, delivered, verifyVars, peerVars, panicked>>
       ELSE UnexpectedMessage(p)

\* The result comes from another proxy: ask it ...
HandleTxnRemote(t) ==
    /\ txn_sent[t].kind = "Txn"
    /\ handling[t] = "none"
    /\ Idle(Home(t))
    /\ IsPrimarySeparation
    /\ Verifier(t) # Home(t)
    /\ requests' = requests \cup {t}
    /\ handling' = [handling EXCEPT ![t] = "requested"]
    /\ UNCHANGED <<vrVars, controllerVars, verifyVars, waits_on, serving, replies, panicked>>

\* ... and then leave the sender where the reply will look for it.
SetRemote(t) ==
    LET p == Home(t)
        c == Channel("remote", p, t)
    IN
    /\ handling[t] = "requested"
    /\ oneshots' = [oneshots EXCEPT ![p] = set_remote_dependency(@, t, c)]
    /\ WaitFor(t, c)
    /\ UNCHANGED <<vrVars, delivered, verifyVars, peerVars, panicked>>

(***************************************************************************)
(* A CombinedTxn: start the verification here and wait for it, or, without *)
(* separation, leave the verification to the transaction's own task.       *)
(***************************************************************************)
HandleCombinedTxn(t) ==
    LET p == Home(t)
        r == <<t, "shared">>
        set == set_local_dependency(oneshots[p], t, Channel("local", p, r))
        got == get_dependency(set.map, t, Channel("get", p, t))
    IN
    /\ txn_sent[t].kind = "CombinedTxn"
    /\ handling[t] = "none"
    /\ Idle(p)
    /\ IF IsProxySeparation
       THEN /\ oneshots' = [oneshots EXCEPT ![p] = got.map]
            /\ verify_tx' = [verify_tx EXCEPT ![r] = set.tx]
            /\ verification' = [verification EXCEPT ![r] = "running"]
            /\ WaitFor(t, got.rx)
       ELSE /\ verification' = [verification EXCEPT ![r] = "finished"]
            /\ WaitFor(t, NoChannel)
            /\ UNCHANGED <<oneshots, verify_tx>>
    /\ UNCHANGED <<vrVars, delivered, peerVars, panicked>>

\* The transaction's task gets the result and clears the entry.
AwaitVerification(t) ==
    /\ handling[t] = "waiting"
    /\ \E verified \in BOOLEAN :
          /\ <<waits_on[t], verified>> \in delivered
          /\ handling' = [handling EXCEPT ![t] = Outcome(verified)]
    /\ oneshots' = [oneshots EXCEPT ![Home(t)] = forget_dependency(@, t)]
    /\ waits_on' = [waits_on EXCEPT ![t] = NoChannel]
    /\ UNCHANGED <<vrVars, delivered, verifyVars, peerVars, panicked>>

-----------------------------------------------------------------------------
(* ProxyMessageProcessor.                                                  *)

\* handle_stateless_request; it unwraps the receiver.
HandleStatelessRequest(t) ==
    LET p == Verifier(t)
        got == get_dependency(oneshots[p], t, Channel("get", p, t))
    IN
    /\ t \in requests
    /\ <<"peer", p>> \notin panicked
    /\ requests' = requests \ {t}
    /\ oneshots' = [oneshots EXCEPT ![p] = got.map]
    /\ serving' = [serving EXCEPT ![t] = got.rx]
    /\ panicked' = IF got.rx = NoChannel THEN panicked \cup {<<"peer", p>>} ELSE panicked
    /\ UNCHANGED <<vrVars, delivered, verifyVars, taskVars, replies>>

\* The task it spawned: await the result, clear the entry, reply.
ReplyStateless(t) ==
    /\ \E verified \in BOOLEAN :
          /\ <<serving[t], verified>> \in delivered
          /\ replies' = replies \cup {<<t, verified>>}
    /\ oneshots' = [oneshots EXCEPT ![Verifier(t)] = forget_dependency(@, t)]
    /\ serving' = [serving EXCEPT ![t] = NoChannel]
    /\ UNCHANGED <<vrVars, delivered, verifyVars, taskVars, requests, panicked>>

\* Mutant: the sender is used without looking whether there is one.
HandleStatelessReply_Unchecked(t) ==
    LET taken == take_signal(oneshots[Home(t)], t)
    IN
    \E verified \in BOOLEAN :
    /\ <<t, verified>> \in replies
    /\ replies' = replies \ {<<t, verified>>}
    /\ delivered' = delivered \cup {<<taken.tx, verified>>}
    /\ oneshots' = [oneshots EXCEPT ![Home(t)] = taken.map]
    /\ UNCHANGED <<vrVars, verifyVars, taskVars, requests, serving, panicked>>

\* handle_stateless_reply: a reply that finds no sender is dropped.
HandleStatelessReply(t) ==
    LET p == Home(t)
        taken == take_signal(oneshots[p], t)
    IN
    \E verified \in BOOLEAN :
    /\ <<t, verified>> \in replies
    /\ <<"peer", p>> \notin panicked
    /\ replies' = replies \ {<<t, verified>>}
    /\ delivered' = IF taken.tx = NoChannel THEN delivered
                                            ELSE delivered \cup {<<taken.tx, verified>>}
    /\ oneshots' = [oneshots EXCEPT ![p] = forget_dependency(taken.map, t)]
    /\ UNCHANGED <<vrVars, verifyVars, taskVars, requests, serving, panicked>>

-----------------------------------------------------------------------------

ProxyStep(t) ==
    \/ \E m \in stateless_sent : m.txn = t /\ HandleStatelessTxn(m)
    \/ \E by \in Forwarders : VerifyTransaction(<<t, by>>)
    \/ HandleTxnLocal(t)
    \/ HandleTxnRemote(t)
    \/ SetRemote(t)
    \/ HandleCombinedTxn(t)
    \/ AwaitVerification(t)
    \/ HandleStatelessRequest(t)
    \/ ReplyStateless(t)
    \/ HandleStatelessReply(t)

SPNext == Primary \/ \E t \in TxnId : ProxyStep(t)

(***************************************************************************)
(* The runtime polls every task that can run and the network delivers; a   *)
(* transaction takes finitely many steps.  The primary owes nothing.       *)
(***************************************************************************)
SPSpec == SPInit /\ [][SPNext]_spVars /\ \A t \in TxnId : WF_spVars(ProxyStep(t))

-----------------------------------------------------------------------------

Channels ==
    {Channel(op, p, t) : op \in {"get", "remote"}, p \in Proxy, t \in TxnId}
      \cup {Channel("local", p, r) : p \in Proxy, r \in Request}

(* The types of the variables. Every channel end, stored or held by a task, is of
   a channel that set_local, get or set_remote_dependency can create. *)
SPTypeOK ==
    /\ [mode |-> mode, owned |-> owned, stateless_mode |-> stateless_mode] \in Deployments
    /\ stateless_sent \subseteq [txn : TxnId, proxy : Proxy, by : Forwarders]
    /\ txn_sent \in [TxnId -> {NotSent} \cup
                       [kind : {"Txn", "CombinedTxn"}, proxy : Proxy, stateless : Proxy]]
    /\ oneshots \in [Proxy -> [TxnId -> {Vacant} \cup
                       {Entry(rx, tx) : rx, tx \in {NoChannel} \cup Channels}]]
    /\ delivered \subseteq Channels \X BOOLEAN
    /\ verification \in [Request -> {"none", "running", "finished"}]
    /\ verify_tx \in [Request -> {NoChannel} \cup Channels]
    /\ handling \in [TxnId -> {"none", "requested", "waiting", "verified", "refused"}]
    /\ waits_on \in [TxnId -> {NoChannel} \cup Channels]
    /\ serving \in [TxnId -> {NoChannel} \cup Channels]
    /\ requests \subseteq TxnId /\ replies \subseteq TxnId \X BOOLEAN
    /\ panicked \subseteq {"primary", "peer"} \X Proxy

(***************************************************************************)
(* No transaction passes verification before its verification has run,     *)
(* whichever proxy runs it and whatever order the two messages, the        *)
(* request and the reply arrive in; and none is skipped because of it,     *)
(* since the requests the program makes are ones it accepts, in every      *)
(* stateless mode and over every path their result can take.               *)
(***************************************************************************)
VerifiedFirst ==
    \A t \in TxnId :
        /\ handling[t] = "verified" => \E by \in Forwarders : verification[<<t, by>>] = "finished"
        /\ handling[t] # "refused"

(***************************************************************************)
(* Receivers are awaited with rx.await.unwrap(): the task panics when the  *)
(* sender is dropped.  Every receiver somebody awaits has its result, or   *)
(* its sender is still in a controller or with a verification task.        *)
(***************************************************************************)
SenderAlive(c) ==
    \/ \E r \in Request : verify_tx[r] = c
    \/ \E p \in Proxy, t \in TxnId : oneshots[p][t].tx = c

ReceiversNotAbandoned ==
    \A t \in TxnId : \A c \in {waits_on[t], serving[t]} \ {NoChannel} :
        (\E verified \in BOOLEAN : <<c, verified>> \in delivered) \/ SenderAlive(c)

(***************************************************************************)
(* The controllers do not grow: once a transaction that was verified once, *)
(* by the proxy its message named, is through with its messages, no proxy  *)
(* keeps an entry for it.                                                  *)
(***************************************************************************)
VerifiedBy(t) == {m.proxy : m \in {m \in stateless_sent : m.txn = t}}

NoEntryLeft ==
    \A t \in TxnId :
        /\ handling[t] = "verified"
        /\ t \notin requests /\ \A reply \in replies : reply[1] # t
        /\ serving[t] = NoChannel
        /\ VerifiedBy(t) \subseteq {Verifier(t)}
        /\ ~ (t \in owned /\ mode = "PrimaryPreSeparation")
        => \A p \in Proxy : oneshots[p][t] = Vacant

(***************************************************************************)
(* handle_primary_message panics with "received unexpected message" and    *)
(* handle_stateless_request unwraps: no processor ever gets there.         *)
(***************************************************************************)
NoProcessorPanics == panicked = {}

(***************************************************************************)
(* core.rs, process_stateful_transaction: "Send stateless request to the   *)
(* appropriate proxy": the one the verification request was sent to.       *)
(***************************************************************************)
RequestToAppropriateProxy == \A t \in requests : VerifiedBy(t) \subseteq {Verifier(t)}

\* Whatever has to be sent for t has been sent; for the second of these, the
\* proxy that executes t is asked to verify it.
BothSent(t) ==
    \/ txn_sent[t].kind = "CombinedTxn"
    \/ txn_sent[t].kind = "Txn" /\ VerifiedBy(t) # {}

VerifiedAtHome(t) ==
    \/ txn_sent[t].kind = "CombinedTxn"
    \/ txn_sent[t].kind = "Txn" /\ Verifier(t) = Home(t) /\ Home(t) \in VerifiedBy(t)

(***************************************************************************)
(* The receiver "is used to notify the task that it has been completed"    *)
(* (oneshot_dependency_controller.rs): a transaction whose two messages    *)
(* were sent is verified in the end.                                       *)
(***************************************************************************)
EveryTxnVerified == []<>(\A t \in TxnId : BothSent(t) => handling[t] = "verified")

(***************************************************************************)
(* The promise is kept where the executing proxy verifies as well: owned-  *)
(* object transactions, combined messages, and shared-object transactions  *)
(* that happen to meet their verifier, whichever message comes first, even *)
(* if the verification is requested twice, and whatever becomes of the     *)
(* results that other proxies owe.                                         *)
(***************************************************************************)
EveryLocalTxnVerified ==
    []<>(\A t \in TxnId : VerifiedAtHome(t) => handling[t] = "verified")

=============================================================================
