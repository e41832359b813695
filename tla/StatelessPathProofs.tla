------------------------- MODULE StatelessPathProofs -------------------------
(***************************************************************************)
(* Stateless verification at the proxies, for any number of transactions   *)
(* and proxies and every deployment: no transaction passes unverified, no  *)
(* awaited receiver loses its sender, and the controllers do not grow.     *)
(*                                                                         *)
(* A step of a proxy is about one transaction, so the inductive invariant  *)
(* is one predicate on a transaction, TxnInv(t): it holds of the others    *)
(* because nothing of theirs changes, and per action of the one that moves.*)
(***************************************************************************)
EXTENDS StatelessPath, TLAPS

-----------------------------------------------------------------------------
(* Channels and entries.                                                   *)

\* The channels that proxy p can create for the result of t.
ChannelsOf(p, t) ==
    {Channel("get", p, t), Channel("remote", p, t)}
      \cup {Channel("local", p, <<t, by>>) : by \in Forwarders}

EndsOf(p, t) == {NoChannel} \cup ChannelsOf(p, t)

Entries == {Vacant} \cup {Entry(rx, tx) : rx, tx \in {NoChannel} \cup Channels}

\* A channel tells which proxy created it and for which transaction.
LEMMA ChannelFacts ==
    ASSUME NEW p \in Proxy, NEW t \in TxnId
    PROVE  /\ NoChannel \notin ChannelsOf(p, t)
           /\ ChannelsOf(p, t) \subseteq Channels
           /\ Channel("get", p, t) \in ChannelsOf(p, t)
           /\ Channel("remote", p, t) \in ChannelsOf(p, t)
           /\ \A by \in Forwarders : Channel("local", p, <<t, by>>) \in ChannelsOf(p, t)
<1>1. NoChannel \notin ChannelsOf(p, t)
  BY DEF NoChannel, ChannelsOf, Channel
<1>2. \A by \in Forwarders : <<t, by>> \in Request
  BY DEF Request
<1>3. ChannelsOf(p, t) \subseteq Channels
  <2>1. \A op \in {"get", "remote"} : Channel(op, p, t) \in Channels
    BY DEF Channels
  <2>2. \A r \in Request : Channel("local", p, r) \in Channels
    BY DEF Channels
  <2>3. QED
    BY <1>2, <2>1, <2>2 DEF ChannelsOf
<1>4. QED
  BY <1>1, <1>3 DEF ChannelsOf

\* Channels of different proxies or transactions are different.
LEMMA ChannelsDiffer ==
    ASSUME NEW p, NEW t, NEW q, NEW u, NEW c, c \in ChannelsOf(p, t), c \in ChannelsOf(q, u)
    PROVE  p = q /\ t = u
  BY DEF ChannelsOf, Channel

\* An entry holds what was put into it, and is not a vacant one.
LEMMA EntryFacts ==
    /\ \A rx, tx : /\ Entry(rx, tx).rx = rx /\ Entry(rx, tx).tx = tx
                   /\ Entry(rx, tx).present = TRUE
                   /\ Entry(rx, tx) # Vacant
    /\ Vacant.rx = NoChannel /\ Vacant.tx = NoChannel /\ Vacant.present = FALSE
  BY DEF Entry, Vacant

\* Taking the sender out of an entry leaves the receiver.
LEMMA EntryWithoutSender ==
    ASSUME NEW e, e = Entry(e.rx, e.tx)
    PROVE  [e EXCEPT !.tx = NoChannel] = Entry(e.rx, NoChannel)
<1> DEFINE f == [e EXCEPT !.tx = NoChannel]
           g == Entry(e.rx, NoChannel)
<1>1. /\ DOMAIN f = {"present", "rx", "tx"}
      /\ f["present"] = TRUE /\ f["rx"] = e.rx /\ f["tx"] = NoChannel
      /\ f = [i \in DOMAIN f |-> f[i]]
  BY DEF Entry
<1>2. /\ DOMAIN g = {"present", "rx", "tx"}
      /\ g["present"] = TRUE /\ g["rx"] = e.rx /\ g["tx"] = NoChannel
      /\ g = [i \in DOMAIN g |-> g[i]]
  BY DEF Entry
<1> HIDE DEF f, g
<1>3. \A i \in DOMAIN f : f[i] = g[i]
  BY <1>1, <1>2
<1>4. f = g
  BY <1>1, <1>2, <1>3
<1>5. QED
  BY <1>4 DEF f, g

\* A positive result is not a negative one.
LEMMA OnlyTrueAdded ==
    ASSUME NEW S, NEW c, NEW d, <<d, FALSE>> \in S \cup {<<c, TRUE>>} PROVE <<d, FALSE>> \in S
<1>1. <<d, FALSE>> # <<c, TRUE>>
  OBVIOUS
<1>2. QED
  BY <1>1, Zenon

\* An entry of p for t: vacant, or with ends of channels that p created for t.
Good(e, p, t) ==
    \/ e = Vacant
    \/ e = Entry(e.rx, e.tx) /\ e.rx \in EndsOf(p, t) /\ e.tx \in EndsOf(p, t)

\* Nobody has asked for the result yet: the verifier's receiver, or nothing.
Fresh(e) == e = Vacant \/ (e = Entry(e.rx, NoChannel) /\ e.rx # NoChannel)

\* Good entries have the type of entries.
LEMMA GoodEntries ==
    ASSUME NEW p \in Proxy, NEW t \in TxnId, NEW e, Good(e, p, t) PROVE e \in Entries
  BY ChannelFacts DEF Good, Entries, EndsOf

\* What is made from two ends is good.
LEMMA GoodEntry ==
    ASSUME NEW p, NEW t, NEW rx \in EndsOf(p, t), NEW tx \in EndsOf(p, t)
    PROVE  Good(Entry(rx, tx), p, t)
  BY EntryFacts DEF Good

\* A step that puts e into the controller of p for t.
Puts(p, t, e) ==
    /\ oneshots' \in [Proxy -> [TxnId -> Entries]]
    /\ oneshots'[p][t] = e
    /\ \A q \in Proxy, u \in TxnId : q # p \/ u # t => oneshots'[q][u] = oneshots[q][u]

\* Replacing one entry of one controller is such a step.
LEMMA PutsEntry ==
    ASSUME oneshots \in [Proxy -> [TxnId -> Entries]],
           NEW p \in Proxy, NEW t \in TxnId, NEW e \in Entries,
           oneshots' = [oneshots EXCEPT ![p] = [oneshots[p] EXCEPT ![t] = e]]
    PROVE  Puts(p, t, e)
  BY DEF Puts

\* set_local_dependency takes the sender that waits, or creates a channel.
TakesOrCreates(map, t, c) ==
    \/ /\ map[t].tx # NoChannel /\ map[t] # Vacant
       /\ set_local_dependency(map, t, c).tx = map[t].tx
       /\ set_local_dependency(map, t, c).map = [map EXCEPT ![t] = Entry(map[t].rx, NoChannel)]
    \/ /\ map[t].tx = NoChannel
       /\ set_local_dependency(map, t, c).tx = c
       /\ set_local_dependency(map, t, c).map = [map EXCEPT ![t] = Entry(c, NoChannel)]

\* What the verifier's call does.
LEMMA SetLocalEffect ==
    ASSUME NEW map \in [TxnId -> Entries], NEW t \in TxnId, NEW c,
           map[t] = Vacant \/ map[t] = Entry(map[t].rx, map[t].tx)
    PROVE  TakesOrCreates(map, t, c)
<1>1. CASE map[t].tx # NoChannel
  <2>1. map[t] = Entry(map[t].rx, map[t].tx) /\ map[t] # Vacant
    BY <1>1, EntryFacts
  <2>2. [map[t] EXCEPT !.tx = NoChannel] = Entry(map[t].rx, NoChannel)
    BY <2>1, EntryWithoutSender
  <2>3. [map EXCEPT ![t].tx = NoChannel] = [map EXCEPT ![t] = Entry(map[t].rx, NoChannel)]
    BY <2>2
  <2>4. QED
    BY <1>1, <2>1, <2>3 DEF set_local_dependency, TakesOrCreates
<1>2. CASE map[t].tx = NoChannel
  BY <1>2 DEF set_local_dependency, TakesOrCreates
<1>3. QED
  BY <1>1, <1>2

\* What the waiting side's call does to an entry nobody has asked for yet.
LEMMA GetFreshEffect ==
    ASSUME NEW map, NEW t, NEW c, Fresh(map[t])
    PROVE  LET got == get_dependency(map, t, c)
           IN  \/ /\ map[t] = Vacant
                  /\ got.rx = c
                  /\ got.map = [map EXCEPT ![t] = Entry(NoChannel, c)]
               \/ /\ map[t] = Entry(map[t].rx, NoChannel) /\ map[t].rx # NoChannel
                  /\ got.rx = map[t].rx
                  /\ got.map = [map EXCEPT ![t] = Vacant]
<1>1. CASE map[t] = Vacant
  BY <1>1, EntryFacts DEF get_dependency
<1>2. CASE map[t] = Entry(map[t].rx, NoChannel) /\ map[t].rx # NoChannel
  <2>1. map[t].tx = NoChannel /\ map[t].present = TRUE
    BY <1>2, EntryFacts
  <2>2. QED
    BY <1>2, <2>1 DEF get_dependency
<1>3. QED
  BY <1>1, <1>2 DEF Fresh

-----------------------------------------------------------------------------
(* The inductive invariant.                                                *)

Sent(t) == txn_sent[t] # NotSent

\* The result of t comes from another proxy.
Remote(t) == txn_sent[t].kind = "Txn" /\ IsPrimarySeparation /\ Verifier(t) # Home(t)

Finished(t) == \E by \in Forwarders : verification[<<t, by>>] = "finished"

\* At most one verification request is sent for t.
Single(t) == ~ (t \in owned /\ mode = "PrimaryPreSeparation")

\* What the primary sends: who requests what, in which kind of message.
MessagesOK ==
    /\ \A m, n \in stateless_sent : m.txn = n.txn /\ m.by = n.by => m = n
    /\ \A m \in stateless_sent :
          \/ m.by = "owned" /\ m.txn \in owned
          \/ m.by = "shared" /\ mode = "PrimaryPreSeparation"
          \/ m.by = "shared" /\ mode = "PrimaryPostSeparation" /\ m.txn \notin owned
    /\ \A t \in TxnId : Sent(t) =>
          /\ txn_sent[t].kind = (IF t \in owned \/ IsPrimarySeparation THEN "Txn" ELSE "CombinedTxn")
          /\ t \in owned \/ ~ IsPrimarySeparation => Home(t) = Verifier(t)

\* How far t has got, and which channel ends are held for it.
Progress(t) ==
    /\ handling[t] # "none" => Sent(t)
    /\ handling[t] = "requested" => Remote(t)
    /\ \/ t \in requests
       \/ serving[t] # NoChannel
       \/ \E verified \in BOOLEAN : <<t, verified>> \in replies
       => handling[t] # "none" /\ Remote(t)
    /\ handling[t] = "waiting" => waits_on[t] \in ChannelsOf(Home(t), t)
    /\ handling[t] # "waiting" => waits_on[t] = NoChannel
    /\ serving[t] # NoChannel => serving[t] \in ChannelsOf(Verifier(t), t) /\ t \notin requests

\* Which verifications of t have started, and the senders they hold.
Verifications(t) ==
    \A by \in Forwarders :
        /\ verification[<<t, by>>] = "running" =>
              \E p \in Proxy : verify_tx[<<t, by>>] \in ChannelsOf(p, t)
        /\ verification[<<t, by>>] # "running" => verify_tx[<<t, by>>] = NoChannel
        /\ verification[<<t, by>>] # "none" =>
              \/ IsPrimarySeparation /\ \E m \in stateless_sent : m.txn = t /\ m.by = by
              \/ by = "shared" /\ ~ IsPrimarySeparation /\ handling[t] # "none"

\* The entries for t: nobody waits in one that t's side has not reached yet.
Slots(t) ==
    \A p \in Proxy :
        /\ Good(oneshots[p][t], p, t)
        /\ handling[t] = "none" => Fresh(oneshots[p][t])
        /\ t \in requests /\ p = Verifier(t) => Fresh(oneshots[p][t])

\* A result says that t was verified, wherever it is.
Results(t) ==
    /\ \A p \in Proxy : \A c \in ChannelsOf(p, t) :
          <<c, FALSE>> \notin delivered /\ (<<c, TRUE>> \in delivered => Finished(t))
    /\ <<t, FALSE>> \notin replies /\ (<<t, TRUE>> \in replies => Finished(t))
    /\ handling[t] = "verified" => Finished(t)
    /\ handling[t] # "refused"

HasResult(c) == \E verified \in BOOLEAN : <<c, verified>> \in delivered

\* The result of t is in channel c, or a verification task will put it there.
UnderWay(c, t) == HasResult(c) \/ \E by \in Forwarders : verify_tx[<<t, by>>] = c

\* The sender of channel c still exists, or has been used.
Live(c, t) == UnderWay(c, t) \/ \E p \in Proxy : oneshots[p][t].tx = c

\* No receiver of t is without a sender.
Ends(t) ==
    /\ \A p \in Proxy : oneshots[p][t].rx # NoChannel => UnderWay(oneshots[p][t].rx, t)
    /\ \A c \in {waits_on[t], serving[t]} \ {NoChannel} : Live(c, t)

\* Where entries for t can be, and where they no longer are.
Left(t) ==
    /\ \A p \in Proxy : oneshots[p][t] # Vacant =>
          p \in VerifiedBy(t) \/ (handling[t] # "none" /\ p \in {Home(t), Verifier(t)})
    /\ Single(t) /\ handling[t] # "none" /\ Verifier(t) # Home(t)
         /\ t \notin requests /\ serving[t] = NoChannel
       => Finished(t) /\ oneshots[Verifier(t)][t] = Vacant
    /\ Single(t) /\ handling[t] = "verified" /\ VerifiedBy(t) \subseteq {Verifier(t)}
       => oneshots[Home(t)][t] = Vacant

TxnInv(t) ==
    Progress(t) /\ Verifications(t) /\ Slots(t) /\ Results(t) /\ Ends(t) /\ Left(t)

SPInv == SPTypeOK /\ MessagesOK /\ \A t \in TxnId : TxnInv(t)

\* A step that leaves everything about t as it was.
Untouched(t) ==
    /\ handling'[t] = handling[t] /\ waits_on'[t] = waits_on[t] /\ serving'[t] = serving[t]
    /\ t \in requests' <=> t \in requests
    /\ \A v \in BOOLEAN : <<t, v>> \in replies' <=> <<t, v>> \in replies
    /\ \A by \in Forwarders : /\ verification'[<<t, by>>] = verification[<<t, by>>]
                              /\ verify_tx'[<<t, by>>] = verify_tx[<<t, by>>]
    /\ \A p \in Proxy : oneshots'[p][t] = oneshots[p][t]
    /\ \A p \in Proxy : \A c \in ChannelsOf(p, t) : \A v \in BOOLEAN :
          <<c, v>> \in delivered' => <<c, v>> \in delivered

\* The parts of the type invariant: the messages', the controllers' and the tasks'.
MessageTypes ==
    /\ [mode |-> mode, owned |-> owned, stateless_mode |-> stateless_mode] \in Deployments
    /\ stateless_sent \subseteq [txn : TxnId, proxy : Proxy, by : Forwarders]
    /\ txn_sent \in [TxnId -> {NotSent} \cup
                       [kind : {"Txn", "CombinedTxn"}, proxy : Proxy, stateless : Proxy]]

ControllerTypes == oneshots \in [Proxy -> [TxnId -> Entries]]

TaskTypes ==
    /\ delivered \subseteq Channels \X BOOLEAN
    /\ verification \in [Request -> {"none", "running", "finished"}]
    /\ verify_tx \in [Request -> {NoChannel} \cup Channels]
    /\ handling \in [TxnId -> {"none", "requested", "waiting", "verified", "refused"}]
    /\ waits_on \in [TxnId -> {NoChannel} \cup Channels]
    /\ serving \in [TxnId -> {NoChannel} \cup Channels]
    /\ requests \subseteq TxnId /\ replies \subseteq TxnId \X BOOLEAN
    /\ panicked \subseteq {"primary", "peer"} \X Proxy

\* The type invariant in parts.
LEMMA TypeParts == SPTypeOK => ControllerTypes /\ TaskTypes
<1> SUFFICES ASSUME SPTypeOK PROVE ControllerTypes /\ TaskTypes
  OBVIOUS
<1>1. ControllerTypes
  BY DEF SPTypeOK, ControllerTypes, Entries
<1>2. TaskTypes
  BY DEF SPTypeOK, TaskTypes
<1>3. QED
  BY <1>1, <1>2

\* The parts make the whole, after a step.
LEMMA PartsMakeTypes ==
    ASSUME MessageTypes', ControllerTypes', TaskTypes' PROVE SPTypeOK'
<1>1. oneshots' \in [Proxy -> [TxnId -> {Vacant} \cup
                       {Entry(rx, tx) : rx, tx \in {NoChannel} \cup Channels}]]
  BY DEF ControllerTypes, Entries
<1>2. TaskTypes' /\ MessageTypes'
  OBVIOUS
<1>3. QED
  BY <1>1, <1>2 DEF SPTypeOK, MessageTypes, TaskTypes

\* The types of the messages do not change with a proxy's step.
LEMMA SameTypes ==
    ASSUME SPTypeOK, UNCHANGED vrVars, ControllerTypes', TaskTypes' PROVE SPTypeOK'
<1>1. MessageTypes'
  BY DEF SPTypeOK, MessageTypes, vrVars, deploymentVars
<1>2. QED
  BY <1>1, PartsMakeTypes

\* The types, with the sets of channel ends and entries named.
LEMMA Types ==
    ASSUME SPTypeOK
    PROVE  /\ mode \in Modes /\ stateless_mode \in StatelessModes
           /\ stateless_sent \subseteq [txn : TxnId, proxy : Proxy, by : Forwarders]
           /\ oneshots \in [Proxy -> [TxnId -> Entries]]
           /\ \A t \in TxnId : Sent(t) => Home(t) \in Proxy /\ Verifier(t) \in Proxy
           /\ \A t \in TxnId : ~ Sent(t) => txn_sent[t].kind = "none"
<1>1. mode \in Modes /\ stateless_mode \in StatelessModes
  BY VRAssumption DEF SPTypeOK
<1>2. oneshots \in [Proxy -> [TxnId -> Entries]]
  BY DEF SPTypeOK, Entries
<1>3. QED
  BY <1>1, <1>2 DEF SPTypeOK, Sent, Home, Verifier, NotSent

\* What holds of a transaction that a proxy's step does not touch holds after it.
LEMMA UntouchedInv ==
    ASSUME SPTypeOK, NEW t \in TxnId, TxnInv(t), Untouched(t), UNCHANGED vrVars, delivered \subseteq delivered'
    PROVE  TxnInv(t)'
<1>1. /\ Home(t)' = Home(t) /\ Verifier(t)' = Verifier(t) /\ Sent(t)' = Sent(t)
      /\ Single(t)' = Single(t) /\ Remote(t)' = Remote(t) /\ Finished(t)' = Finished(t)
      /\ VerifiedBy(t)' = VerifiedBy(t)
      /\ UNCHANGED <<mode, owned, stateless_mode, stateless_sent, txn_sent>>
      /\ IsPrimarySeparation' = IsPrimarySeparation
  BY DEF vrVars, deploymentVars, Home, Verifier, Sent, Single, Remote, Finished, VerifiedBy,
         IsPrimarySeparation, Untouched
<1>2. Progress(t)'
  BY <1>1 DEF TxnInv, Progress, Untouched
<1>3. Verifications(t)'
  BY <1>1 DEF TxnInv, Verifications, Untouched
<1>4. Slots(t)'
  BY <1>1 DEF TxnInv, Slots, Untouched
<1>5. Results(t)'
  BY <1>1 DEF TxnInv, Results, Untouched
<1>6. ASSUME NEW c, UnderWay(c, t) PROVE UnderWay(c, t)'
  BY <1>6 DEF UnderWay, HasResult, Untouched
<1>7. Ends(t)'
  BY <1>6 DEF TxnInv, Ends, Live, Untouched
<1>8. Left(t)'
  <2>1. handling[t] # "none" => Home(t) \in Proxy /\ Verifier(t) \in Proxy
    BY Types DEF TxnInv, Progress
  <2>2. QED
    BY <1>1, <2>1 DEF TxnInv, Left, Untouched
<1>9. QED
  BY <1>2, <1>3, <1>4, <1>5, <1>7, <1>8 DEF TxnInv

\* A step that is about t only.
Only(t) ==
    /\ UNCHANGED vrVars
    /\ delivered \subseteq delivered'
    /\ \A u \in TxnId \ {t} : Untouched(u)

\* Such a step keeps the invariant if it keeps the types and what holds of t.
LEMMA OnlyInv ==
    ASSUME SPInv, SPTypeOK', NEW t \in TxnId, Only(t), TxnInv(t)'
    PROVE  SPInv'
<1>1. \A u \in TxnId \ {t} : TxnInv(u)'
  BY UntouchedInv DEF SPInv, Only
<1>2. MessagesOK'
  BY DEF SPInv, Only, vrVars, deploymentVars, MessagesOK, Sent, Home, Verifier, IsPrimarySeparation
<1>3. QED
  BY <1>1, <1>2 DEF SPInv

\* The requests that the program makes are ones that it accepts.
LEMMA VerdictTrue ==
    ASSUME SPTypeOK, NEW t \in TxnId PROVE Verdict(t) = TRUE
<1>1. CASE stateless_mode = "Synthetic"
  BY <1>1 DEF Verdict, verify_transaction, make_verification_request
<1>2. CASE stateless_mode # "Synthetic"
  BY <1>2 DEF Verdict, verify_transaction, make_verification_request, SignedRequest,
              verify_request, Verifies, Signature, PublicKey
<1>3. QED
  BY <1>1, <1>2

\* The parts of the invariant that do not change with the messages sent.
LEMMA SameMessages ==
    ASSUME UNCHANGED vrVars, NEW t
    PROVE  /\ Home(t)' = Home(t) /\ Verifier(t)' = Verifier(t)
           /\ Sent(t)' <=> Sent(t)
           /\ Single(t)' <=> Single(t)
           /\ Remote(t)' <=> Remote(t)
           /\ VerifiedBy(t)' = VerifiedBy(t)
           /\ IsPrimarySeparation' <=> IsPrimarySeparation
           /\ UNCHANGED <<mode, owned, stateless_mode, stateless_sent, txn_sent>>
  BY DEF vrVars, deploymentVars, Home, Verifier, Sent, Single, Remote, VerifiedBy,
         IsPrimarySeparation

\* A verification task ends: its result is in the channel it held the sender of.
LEMMA VerifyInv ==
    ASSUME SPInv, NEW t \in TxnId, NEW by \in Forwarders, VerifyTransaction(<<t, by>>)
    PROVE  SPInv'
<1> DEFINE r == <<t, by>>
           c == verify_tx[r]
<1>1. r \in Request /\ \A u \in TxnId, b \in Forwarders : <<u, b>> = r <=> u = t /\ b = by
  BY DEF Request
<1>2. PICK p \in Proxy : c \in ChannelsOf(p, t)
  BY DEF VerifyTransaction, SPInv, TxnInv, Verifications
<1>3. c \in Channels /\ c # NoChannel
  BY <1>2, ChannelFacts
<1>4. /\ verification[r] = "running"
      /\ delivered' = delivered \cup {<<c, TRUE>>}
      /\ verify_tx' = [verify_tx EXCEPT ![r] = NoChannel]
      /\ verification' = [verification EXCEPT ![r] = "finished"]
      /\ UNCHANGED <<vrVars, oneshots, taskVars, peerVars, panicked>>
  <2>1. Verdict(t) = TRUE
    BY VerdictTrue DEF SPInv
  <2>2. QED
    BY <2>1 DEF VerifyTransaction
<1>5. UNCHANGED <<vrVars, oneshots, handling, waits_on, requests, serving, replies, panicked>>
  BY <1>4 DEF taskVars, peerVars
<1>6. /\ verification \in [Request -> {"none", "running", "finished"}]
      /\ verify_tx \in [Request -> {NoChannel} \cup Channels]
  BY DEF SPInv, SPTypeOK
<1> HIDE DEF r, c
<1>7. SPTypeOK'
  <2>1. ControllerTypes /\ TaskTypes
    BY TypeParts DEF SPInv
  <2>2. delivered' \subseteq Channels \X BOOLEAN
    <3>1. <<c, TRUE>> \in Channels \X BOOLEAN
      BY <1>3, Zenon
    <3>2. delivered \subseteq Channels \X BOOLEAN
      BY <2>1 DEF TaskTypes
    <3>3. QED
      BY <1>4, <3>1, <3>2, Zenon
  <2>3. TaskTypes'
    BY <1>1, <1>4, <1>5, <2>1, <2>2 DEF TaskTypes
  <2>4. ControllerTypes'
    BY <1>5, <2>1 DEF ControllerTypes
  <2>5. QED
    BY <1>5, <2>3, <2>4, SameTypes DEF SPInv
<1>8. Only(t)
  <2> SUFFICES ASSUME NEW u \in TxnId \ {t} PROVE Untouched(u)
    BY <1>4, <1>5 DEF Only
  <2>1. \A b \in Forwarders : <<u, b>> \in Request /\ <<u, b>> # r
    BY <1>1 DEF Request
  <2>2. \A q \in Proxy : c \notin ChannelsOf(q, u)
    BY <1>2, ChannelsDiffer
  <2>3. QED
    BY <1>4, <1>5, <1>6, <2>1, <2>2 DEF Untouched
<1>9. TxnInv(t)'
  <2>1. Finished(t)'
    BY <1>1, <1>4, <1>6 DEF Finished, r
  <2>2. \A b \in Forwarders :
           /\ <<t, b>> \in Request
           /\ b # by => /\ verification'[<<t, b>>] = verification[<<t, b>>]
                        /\ verify_tx'[<<t, b>>] = verify_tx[<<t, b>>]
    BY <1>1, <1>4, <1>6 DEF Request
  <2>3. verification'[<<t, by>>] = "finished" /\ verify_tx'[<<t, by>>] = NoChannel
    BY <1>1, <1>4, <1>6 DEF r
  <2>4. Progress(t)'
    BY <1>5, SameMessages DEF SPInv, TxnInv, Progress
  <2>5. Verifications(t)'
    <3>1. verification[<<t, by>>] # "none"
      BY <1>4 DEF r
    <3>2. QED
      BY <1>5, <2>2, <2>3, <3>1, SameMessages DEF SPInv, TxnInv, Verifications
  <2>6. Slots(t)'
    BY <1>5, SameMessages DEF SPInv, TxnInv, Slots
  <2>7. Results(t)'
    <3>1. \A d : <<d, FALSE>> \in delivered' => <<d, FALSE>> \in delivered
      BY <1>4, OnlyTrueAdded
    <3>2. QED
      BY <1>5, <2>1, <3>1 DEF SPInv, TxnInv, Results
  <2>8. Ends(t)'
    <3>1. ASSUME NEW d, UnderWay(d, t) PROVE UnderWay(d, t)'
      BY <1>4, <2>2, <3>1 DEF UnderWay, HasResult, r, c
    <3>2. QED
      BY <1>5, <3>1 DEF SPInv, TxnInv, Ends, Live
  <2>9. Left(t)'
    BY <1>5, <2>1, SameMessages DEF SPInv, TxnInv, Left
  <2>10. QED
    BY <2>4, <2>5, <2>6, <2>7, <2>8, <2>9 DEF TxnInv
<1>10. QED
  BY <1>7, <1>8, <1>9, OnlyInv

\* A sender in a controller is of a channel that this proxy created.
LEMMA SenderAtHome ==
    ASSUME NEW t \in TxnId, Slots(t), NEW p \in Proxy, NEW q \in Proxy,
           NEW c \in ChannelsOf(q, t), oneshots[p][t].tx = c
    PROVE  p = q
<1>1. c # NoChannel
  BY ChannelFacts
<1>2. c \in ChannelsOf(p, t)
  BY <1>1, EntryFacts DEF Slots, Good, EndsOf
<1>3. QED
  BY <1>2, ChannelsDiffer

\* A step that puts an entry into one controller costs no sender of another's channels.
LEMMA LiveElsewhere ==
    ASSUME NEW t \in TxnId, Slots(t), NEW p \in Proxy, NEW q \in Proxy, p # q,
           NEW e, Puts(p, t, e), NEW d \in ChannelsOf(q, t), Live(d, t),
           UnderWay(d, t) => UnderWay(d, t)'
    PROVE  Live(d, t)'
<1>1. \A n \in Proxy : oneshots[n][t].tx = d => oneshots'[n][t].tx = d
  BY SenderAtHome DEF Puts
<1>2. QED
  BY <1>1 DEF Live

\* The results that t can find are positive, and of a verification that has run.
LEMMA ResultFound ==
    ASSUME NEW t \in TxnId, Results(t), NEW p \in Proxy, NEW c \in ChannelsOf(p, t),
           NEW verified \in BOOLEAN, <<c, verified>> \in delivered
    PROVE  verified = TRUE /\ Finished(t)
<1>1. CASE verified = TRUE
  BY <1>1 DEF Results
<1>2. CASE verified = FALSE
  BY <1>2 DEF Results
<1>3. QED
  BY <1>1, <1>2

\* The transaction's task gets the result, which is positive, and clears the entry.
LEMMA AwaitInv ==
    ASSUME SPInv, NEW t \in TxnId, AwaitVerification(t)
    PROVE  SPInv'
<1> DEFINE p == Home(t)
<1>1. TxnInv(t) /\ SPTypeOK /\ ControllerTypes /\ TaskTypes
  BY TypeParts DEF SPInv
<1>2. handling[t] = "waiting" /\ waits_on[t] \in ChannelsOf(p, t) /\ p \in Proxy
  BY <1>1, Types DEF AwaitVerification, TxnInv, Progress
<1>3. /\ Finished(t)
      /\ handling' = [handling EXCEPT ![t] = "verified"]
  <2>1. PICK verified \in BOOLEAN :
           /\ <<waits_on[t], verified>> \in delivered
           /\ handling' = [handling EXCEPT ![t] = Outcome(verified)]
    BY DEF AwaitVerification
  <2>2. verified = TRUE /\ Finished(t)
    BY <1>1, <1>2, <2>1, ResultFound DEF TxnInv
  <2>3. QED
    BY <2>1, <2>2 DEF Outcome
<1>4. /\ waits_on' = [waits_on EXCEPT ![t] = NoChannel]
      /\ UNCHANGED <<vrVars, delivered, verification, verify_tx, requests, serving, replies, panicked>>
  BY DEF AwaitVerification, verifyVars, peerVars
<1>5. Puts(p, t, Vacant)
  <2>1. oneshots' = [oneshots EXCEPT ![p] = [oneshots[p] EXCEPT ![t] = Vacant]]
    BY <1>1, <1>2 DEF AwaitVerification, forget_dependency, ControllerTypes
  <2>2. Vacant \in Entries
    BY DEF Entries
  <2>3. QED
    BY <1>1, <1>2, <2>1, <2>2, PutsEntry DEF ControllerTypes
<1> HIDE DEF p
<1>6. SPTypeOK'
  <2>1. TaskTypes'
    BY <1>1, <1>3, <1>4 DEF TaskTypes
  <2>2. QED
    BY <1>1, <1>4, <1>5, <2>1, SameTypes DEF Puts, ControllerTypes
<1>7. Only(t)
  BY <1>1, <1>2, <1>3, <1>4, <1>5 DEF Only, Untouched, Puts, TaskTypes
<1>8. TxnInv(t)'
  <2>1. /\ handling'[t] = "verified" /\ waits_on'[t] = NoChannel
        /\ Finished(t)'
    BY <1>1, <1>3, <1>4 DEF TaskTypes, Finished
  <2>2. Progress(t)'
    BY <1>1, <1>2, <1>4, <2>1, SameMessages DEF TxnInv, Progress
  <2>3. Verifications(t)'
    BY <1>1, <1>2, <1>4, <2>1, SameMessages DEF TxnInv, Verifications
  <2>4. Slots(t)'
    BY <1>1, <1>4, <1>5, <2>1, SameMessages DEF TxnInv, Slots, Puts, Good, Fresh
  <2>5. Results(t)'
    BY <1>1, <1>4, <2>1 DEF TxnInv, Results
  <2>6. Ends(t)'
    <3>1. ASSUME NEW d, UnderWay(d, t) PROVE UnderWay(d, t)'
      BY <1>4, <3>1 DEF UnderWay, HasResult
    <3>3. ASSUME NEW q \in Proxy, NEW d, oneshots'[q][t].rx = d, d # NoChannel PROVE UnderWay(d, t)'
      BY <1>1, <1>5, <3>1, <3>3, EntryFacts DEF TxnInv, Ends, Puts
    <3>4. ASSUME NEW d, serving[t] = d, d # NoChannel PROVE Live(d, t)'
      <4>1. d \in ChannelsOf(Verifier(t), t) /\ Verifier(t) # p /\ Verifier(t) \in Proxy
        BY <1>1, <3>4, Types DEF TxnInv, Progress, Remote, p
      <4>2. Live(d, t)
        BY <1>1, <3>4 DEF TxnInv, Ends
      <4>3. QED
        BY <1>1, <1>2, <1>5, <3>1, <4>1, <4>2, LiveElsewhere DEF TxnInv
    <3>5. QED
      BY <1>4, <2>1, <3>3, <3>4 DEF Ends
  <2>7. Left(t)'
    <3>1. Verifier(t) \in Proxy
      BY <1>1, <1>2, Types DEF TxnInv, Progress
    <3>2. QED
      BY <1>1, <1>2, <1>4, <1>5, <2>1, <3>1, SameMessages DEF TxnInv, Left, Puts, p
  <2>8. QED
    BY <2>2, <2>3, <2>4, <2>5, <2>6, <2>7 DEF TxnInv
<1>9. QED
  BY <1>6, <1>7, <1>8, OnlyInv

\* The request for the result is out; the sender is left for the reply.
LEMMA SetRemoteInv ==
    ASSUME SPInv, NEW t \in TxnId, SetRemote(t)
    PROVE  SPInv'
<1> DEFINE p == Home(t)
           c == Channel("remote", p, t)
<1>1. TxnInv(t) /\ SPTypeOK /\ ControllerTypes /\ TaskTypes
  BY TypeParts DEF SPInv
<1>2. handling[t] = "requested" /\ Remote(t) /\ p \in Proxy /\ Verifier(t) \in Proxy
      /\ Verifier(t) # p /\ waits_on[t] = NoChannel
  BY <1>1, Types DEF SetRemote, TxnInv, Progress, Remote
<1>3. c \in ChannelsOf(p, t) /\ c \in Channels /\ c # NoChannel
  BY <1>2, ChannelFacts
<1>4. /\ handling' = [handling EXCEPT ![t] = "waiting"]
      /\ waits_on' = [waits_on EXCEPT ![t] = c]
      /\ UNCHANGED <<vrVars, delivered, verification, verify_tx, requests, serving, replies, panicked>>
  BY <1>3 DEF SetRemote, WaitFor, verifyVars, peerVars
<1>5. Good(Entry(NoChannel, c), p, t)
  BY <1>3, GoodEntry DEF EndsOf
<1>6. Puts(p, t, Entry(NoChannel, c))
  <2>1. oneshots' = [oneshots EXCEPT ![p] = [oneshots[p] EXCEPT ![t] = Entry(NoChannel, c)]]
    BY <1>1, <1>2 DEF SetRemote, set_remote_dependency, ControllerTypes
  <2>2. QED
    BY <1>1, <1>2, <1>5, <2>1, GoodEntries, PutsEntry DEF ControllerTypes
<1> HIDE DEF p, c
<1>7. SPTypeOK'
  <2>1. TaskTypes'
    BY <1>1, <1>3, <1>4 DEF TaskTypes
  <2>2. QED
    BY <1>1, <1>4, <1>6, <2>1, SameTypes DEF Puts, ControllerTypes
<1>8. Only(t)
  BY <1>1, <1>2, <1>4, <1>6 DEF Only, Untouched, Puts, TaskTypes
<1>9. TxnInv(t)'
  <2>1. handling'[t] = "waiting" /\ waits_on'[t] = c /\ Finished(t)' = Finished(t)
    BY <1>1, <1>4 DEF TaskTypes, Finished
  <2>2. Home(t)' = p /\ Verifier(t)' = Verifier(t)
    BY <1>4, SameMessages DEF p
  <2>3. Progress(t)'
    BY <1>1, <1>2, <1>3, <1>4, <2>1, <2>2, SameMessages DEF TxnInv, Progress
  <2>4. Verifications(t)'
    BY <1>1, <1>2, <1>4, <2>1, SameMessages DEF TxnInv, Verifications
  <2>5. Slots(t)'
    BY <1>1, <1>2, <1>4, <1>5, <1>6, <2>1, <2>2 DEF TxnInv, Slots, Puts
  <2>6. Results(t)'
    BY <1>1, <1>4, <2>1 DEF TxnInv, Results
  <2>7. Ends(t)'
    <3>1. ASSUME NEW d, UnderWay(d, t) PROVE UnderWay(d, t)'
      BY <1>4, <3>1 DEF UnderWay, HasResult
    <3>2. ASSUME NEW q \in Proxy, NEW d, oneshots'[q][t].rx = d, d # NoChannel PROVE UnderWay(d, t)'
      BY <1>1, <1>6, <3>1, <3>2, EntryFacts DEF TxnInv, Ends, Puts
    <3>3. ASSUME NEW d, serving[t] = d, d # NoChannel PROVE Live(d, t)'
      <4>1. d \in ChannelsOf(Verifier(t), t) /\ Live(d, t)
        BY <1>1, <3>3 DEF TxnInv, Progress, Ends
      <4>2. QED
        BY <1>1, <1>2, <1>6, <3>1, <4>1, LiveElsewhere DEF TxnInv
    <3>4. ASSUME NEW d, c = d PROVE Live(d, t)'
      BY <1>2, <1>6, <3>4, EntryFacts DEF Live, Puts
    <3>5. QED
      BY <1>4, <2>1, <3>2, <3>3, <3>4 DEF Ends
  <2>8. Left(t)'
    BY <1>1, <1>2, <1>4, <1>6, <2>1, <2>2, SameMessages DEF TxnInv, Left, Puts
  <2>9. QED
    BY <2>3, <2>4, <2>5, <2>6, <2>7, <2>8 DEF TxnInv
<1>10. QED
  BY <1>7, <1>8, <1>9, OnlyInv

\* NoChannel is no channel.
LEMMA NoChannelNotInChannels == NoChannel \notin Channels
  BY DEF NoChannel, Channels, Channel

\* The peer's task has the result: it clears the entry and replies.
LEMMA ReplyInv ==
    ASSUME SPInv, NEW t \in TxnId, ReplyStateless(t)
    PROVE  SPInv'
<1> DEFINE p == Verifier(t)
<1>1. TxnInv(t) /\ SPTypeOK /\ ControllerTypes /\ TaskTypes
  BY TypeParts DEF SPInv
<1>2. PICK verified \in BOOLEAN :
         <<serving[t], verified>> \in delivered /\ replies' = replies \cup {<<t, verified>>}
  BY DEF ReplyStateless
<1>3. serving[t] # NoChannel
  BY <1>1, <1>2, NoChannelNotInChannels DEF TaskTypes
<1>4. /\ serving[t] \in ChannelsOf(p, t) /\ t \notin requests
      /\ handling[t] # "none" /\ Remote(t) /\ p \in Proxy /\ Home(t) \in Proxy /\ Home(t) # p
  BY <1>1, <1>3, Types DEF TxnInv, Progress, Remote
<1>5. verified = TRUE /\ Finished(t)
  BY <1>1, <1>2, <1>4, ResultFound DEF TxnInv
<1>6. /\ replies' = replies \cup {<<t, TRUE>>}
      /\ serving' = [serving EXCEPT ![t] = NoChannel]
      /\ UNCHANGED <<vrVars, delivered, verification, verify_tx, handling, waits_on, requests, panicked>>
  BY <1>2, <1>5 DEF ReplyStateless, verifyVars, taskVars
<1>7. Puts(p, t, Vacant)
  <2>1. oneshots' = [oneshots EXCEPT ![p] = [oneshots[p] EXCEPT ![t] = Vacant]]
    BY <1>1, <1>4 DEF ReplyStateless, forget_dependency, ControllerTypes
  <2>2. Vacant \in Entries
    BY DEF Entries
  <2>3. QED
    BY <1>1, <1>4, <2>1, <2>2, PutsEntry DEF ControllerTypes
<1> HIDE DEF p
<1>8. SPTypeOK'
  <2>1. replies' \subseteq TxnId \X BOOLEAN
    <3>1. <<t, TRUE>> \in TxnId \X BOOLEAN
      BY Zenon
    <3>2. replies \subseteq TxnId \X BOOLEAN
      BY <1>1 DEF TaskTypes
    <3>3. QED
      BY <1>6, <3>1, <3>2, Zenon
  <2>2. TaskTypes'
    BY <1>1, <1>6, <2>1 DEF TaskTypes
  <2>3. QED
    BY <1>1, <1>6, <1>7, <2>2, SameTypes DEF Puts, ControllerTypes
<1>9. Only(t)
  <2>1. \A u \in TxnId \ {t} : \A v \in BOOLEAN : <<u, v>> \in replies' <=> <<u, v>> \in replies
    BY <1>6
  <2>2. QED
    BY <1>1, <1>4, <1>6, <1>7, <2>1 DEF Only, Untouched, Puts, TaskTypes
<1>10. TxnInv(t)'
  <2>1. serving'[t] = NoChannel /\ Finished(t)'
    BY <1>1, <1>5, <1>6 DEF TaskTypes, Finished
  <2>2. Verifier(t)' = p /\ Home(t)' = Home(t)
    BY <1>6, SameMessages DEF p
  <2>3. Progress(t)'
    BY <1>1, <1>4, <1>6, <2>1, <2>2, SameMessages DEF TxnInv, Progress
  <2>4. Verifications(t)'
    BY <1>1, <1>6, SameMessages DEF TxnInv, Verifications
  <2>5. Slots(t)'
    BY <1>1, <1>4, <1>6, <1>7, <2>2 DEF TxnInv, Slots, Puts, Good, Fresh
  <2>6. Results(t)'
    <3>1. <<t, FALSE>> \notin replies'
      BY <1>1, <1>6, OnlyTrueAdded DEF TxnInv, Results
    <3>2. QED
      BY <1>1, <1>6, <2>1, <3>1 DEF TxnInv, Results
  <2>7. Ends(t)'
    <3>1. ASSUME NEW d, UnderWay(d, t) PROVE UnderWay(d, t)'
      BY <1>6, <3>1 DEF UnderWay, HasResult
    <3>2. ASSUME NEW q \in Proxy, NEW d, oneshots'[q][t].rx = d, d # NoChannel PROVE UnderWay(d, t)'
      BY <1>1, <1>7, <3>1, <3>2, EntryFacts DEF TxnInv, Ends, Puts
    <3>3. ASSUME NEW d, waits_on[t] = d, d # NoChannel PROVE Live(d, t)'
      <4>1. d \in ChannelsOf(Home(t), t) /\ Live(d, t)
        BY <1>1, <3>3 DEF TxnInv, Progress, Ends
      <4>2. QED
        BY <1>1, <1>4, <1>7, <3>1, <4>1, LiveElsewhere DEF TxnInv
    <3>4. QED
      BY <1>6, <2>1, <3>2, <3>3 DEF Ends
  <2>8. Left(t)'
    BY <1>1, <1>4, <1>6, <1>7, <2>1, <2>2, SameMessages DEF TxnInv, Left, Puts
  <2>9. QED
    BY <2>3, <2>4, <2>5, <2>6, <2>7, <2>8 DEF TxnInv
<1>11. QED
  BY <1>8, <1>9, <1>10, OnlyInv

\* The reply comes in: it finds the sender, or is dropped.
LEMMA HandleReplyInv ==
    ASSUME SPInv, NEW t \in TxnId, HandleStatelessReply(t)
    PROVE  SPInv'
<1> DEFINE p == Home(t)
           e == oneshots[p][t]
<1>1. TxnInv(t) /\ SPTypeOK /\ ControllerTypes /\ TaskTypes
  BY TypeParts DEF SPInv
<1>2. PICK verified \in BOOLEAN :
         /\ <<t, verified>> \in replies
         /\ replies' = replies \ {<<t, verified>>}
         /\ delivered' = IF take_signal(oneshots[p], t).tx = NoChannel THEN delivered
                         ELSE delivered \cup {<<take_signal(oneshots[p], t).tx, verified>>}
         /\ oneshots' = [oneshots EXCEPT ![p] = forget_dependency(take_signal(oneshots[p], t).map, t)]
         /\ UNCHANGED <<vrVars, verifyVars, taskVars, requests, serving, panicked>>
  BY DEF HandleStatelessReply
<1>3. /\ handling[t] # "none" /\ Remote(t) /\ p \in Proxy /\ Verifier(t) \in Proxy
      /\ Verifier(t) # p
  BY <1>1, <1>2, Types DEF TxnInv, Progress, Remote
<1>4. verified = TRUE /\ Finished(t)
  <2>1. CASE verified = TRUE
    BY <1>1, <1>2, <2>1 DEF TxnInv, Results
  <2>2. CASE verified = FALSE
    BY <1>1, <1>2, <2>2 DEF TxnInv, Results
  <2>3. QED
    BY <2>1, <2>2
<1>5. /\ replies' \subseteq replies
      /\ delivered' = IF e.tx = NoChannel THEN delivered ELSE delivered \cup {<<e.tx, TRUE>>}
      /\ UNCHANGED <<vrVars, verification, verify_tx, handling, waits_on, requests, serving, panicked>>
  BY <1>2, <1>4 DEF take_signal, verifyVars, taskVars
<1>6. Puts(p, t, Vacant)
  <2>1. oneshots' = [oneshots EXCEPT ![p] = [oneshots[p] EXCEPT ![t] = Vacant]]
    BY <1>1, <1>2, <1>3 DEF forget_dependency, take_signal, ControllerTypes
  <2>2. Vacant \in Entries
    BY DEF Entries
  <2>3. QED
    BY <1>1, <1>3, <2>1, <2>2, PutsEntry DEF ControllerTypes
<1>7. e.tx # NoChannel => e.tx \in ChannelsOf(p, t) /\ e.tx \in Channels
  BY <1>1, <1>3, EntryFacts, ChannelFacts DEF TxnInv, Slots, Good, EndsOf
<1>8. PICK sent : sent = e.tx
  OBVIOUS
<1> HIDE DEF p, e
<1>9. SPTypeOK'
  <2>1. delivered' \subseteq Channels \X BOOLEAN
    <3>1. sent # NoChannel => <<sent, TRUE>> \in Channels \X BOOLEAN
      BY <1>7, <1>8, Zenon
    <3>2. delivered \subseteq Channels \X BOOLEAN
      BY <1>1 DEF TaskTypes
    <3>3. QED
      BY <1>5, <1>8, <3>1, <3>2, Zenon
  <2>2. TaskTypes'
    BY <1>1, <1>5, <2>1 DEF TaskTypes
  <2>3. QED
    BY <1>1, <1>5, <1>6, <2>2, SameTypes DEF Puts, ControllerTypes
<1>10. Only(t)
  <2> SUFFICES ASSUME NEW u \in TxnId \ {t} PROVE Untouched(u)
    BY <1>5 DEF Only
  <2>1. \A v \in BOOLEAN : <<u, v>> \in replies' <=> <<u, v>> \in replies
    BY <1>2
  <2>2. \A q \in Proxy : sent # NoChannel => sent \notin ChannelsOf(q, u)
    BY <1>7, <1>8, ChannelsDiffer
  <2>3. \A q \in Proxy : \A c \in ChannelsOf(q, u) : \A v \in BOOLEAN :
           <<c, v>> \in delivered' => <<c, v>> \in delivered
    BY <1>5, <1>8, <2>2
  <2>4. QED
    BY <1>3, <1>5, <1>6, <2>1, <2>3 DEF Untouched, Puts
<1>11. TxnInv(t)'
  <2>1. Finished(t)'
    BY <1>4, <1>5 DEF Finished
  <2>2. Home(t)' = p /\ Verifier(t)' = Verifier(t)
    BY <1>5, SameMessages DEF p
  <2>3. Progress(t)'
    BY <1>1, <1>3, <1>5, <2>2, SameMessages DEF TxnInv, Progress, p
  <2>4. Verifications(t)'
    BY <1>1, <1>5, SameMessages DEF TxnInv, Verifications
  <2>5. Slots(t)'
    BY <1>1, <1>3, <1>5, <1>6, <2>2 DEF TxnInv, Slots, Puts, Good, Fresh
  <2>6. Results(t)'
    <3>1. \A d : <<d, FALSE>> \in delivered' => <<d, FALSE>> \in delivered
      BY <1>5, <1>8, OnlyTrueAdded
    <3>2. QED
      BY <1>1, <1>5, <2>1, <3>1 DEF TxnInv, Results
  <2>7. Ends(t)'
    <3>1. ASSUME NEW d, UnderWay(d, t) PROVE UnderWay(d, t)'
      BY <1>5, <3>1 DEF UnderWay, HasResult
    <3>2. ASSUME NEW q \in Proxy, NEW d, oneshots'[q][t].rx = d, d # NoChannel PROVE UnderWay(d, t)'
      BY <1>1, <1>6, <3>1, <3>2, EntryFacts DEF TxnInv, Ends, Puts
    <3>3. ASSUME NEW d, serving[t] = d, d # NoChannel PROVE Live(d, t)'
      <4>1. d \in ChannelsOf(Verifier(t), t) /\ Live(d, t)
        BY <1>1, <3>3 DEF TxnInv, Progress, Ends
      <4>2. QED
        BY <1>1, <1>3, <1>6, <3>1, <4>1, LiveElsewhere DEF TxnInv
    <3>4. ASSUME NEW d, waits_on[t] = d, d # NoChannel PROVE Live(d, t)'
      <4>1. d \in ChannelsOf(p, t) /\ Live(d, t)
        BY <1>1, <3>4 DEF TxnInv, Progress, Ends, p
      <4>2. CASE UnderWay(d, t)
        BY <3>1, <4>2 DEF Live
      <4>3. CASE \E q \in Proxy : oneshots[q][t].tx = d
        <5>1. sent = d
          BY <1>1, <1>3, <1>8, <4>1, <4>3, SenderAtHome DEF TxnInv, e
        <5>2. <<d, TRUE>> \in delivered'
          BY <1>5, <1>8, <3>4, <5>1
        <5>3. QED
          BY <5>2 DEF Live, UnderWay, HasResult
      <4>4. QED
        BY <4>1, <4>2, <4>3 DEF Live
    <3>5. QED
      BY <1>5, <3>2, <3>3, <3>4 DEF Ends
  <2>8. Left(t)'
    BY <1>1, <1>3, <1>5, <1>6, <2>1, <2>2, SameMessages DEF TxnInv, Left, Puts
  <2>9. QED
    BY <2>3, <2>4, <2>5, <2>6, <2>7, <2>8 DEF TxnInv
<1>12. QED
  BY <1>9, <1>10, <1>11, OnlyInv

\* What get_dependency returns for an entry nobody has asked for, and leaves.
Got(p, t, rx, e) ==
    \/ rx = Channel("get", p, t) /\ e = Entry(NoChannel, rx)
    \/ rx = oneshots[p][t].rx /\ e = Vacant

\* It returns a receiver, of a channel of this proxy whose sender exists.
LEMMA GetFresh ==
    ASSUME ControllerTypes, NEW p \in Proxy, NEW t \in TxnId,
           Slots(t), Fresh(oneshots[p][t])
    PROVE  \E rx \in ChannelsOf(p, t) : \E e \in Entries :
              /\ get_dependency(oneshots[p], t, Channel("get", p, t)).rx = rx
              /\ get_dependency(oneshots[p], t, Channel("get", p, t)).map
                   = [oneshots[p] EXCEPT ![t] = e]
              /\ Good(e, p, t) /\ Got(p, t, rx, e)
<1> DEFINE c == Channel("get", p, t)
           got == get_dependency(oneshots[p], t, c)
<1>1. c \in ChannelsOf(p, t) /\ c \in EndsOf(p, t) /\ NoChannel \in EndsOf(p, t)
  BY ChannelFacts DEF EndsOf
<1>2. CASE /\ got.rx = c
           /\ got.map = [oneshots[p] EXCEPT ![t] = Entry(NoChannel, c)]
  <2>1. Good(Entry(NoChannel, c), p, t)
    BY <1>1, GoodEntry
  <2>2. QED
    BY <1>1, <1>2, <2>1, GoodEntries DEF Got
<1>3. CASE /\ oneshots[p][t].rx # NoChannel
           /\ got.rx = oneshots[p][t].rx
           /\ got.map = [oneshots[p] EXCEPT ![t] = Vacant]
  <2>1. oneshots[p][t].rx \in ChannelsOf(p, t)
    BY <1>3, EntryFacts DEF Slots, Good, EndsOf
  <2>2. Good(Vacant, p, t) /\ Vacant \in Entries
    BY DEF Good, Entries
  <2>3. QED
    BY <1>3, <2>1, <2>2 DEF Got
<1>4. QED
  BY <1>2, <1>3, GetFreshEffect

\* The peer is asked: there is a receiver for it, and the task awaits that.
LEMMA HandleRequestInv ==
    ASSUME SPInv, NEW t \in TxnId, HandleStatelessRequest(t)
    PROVE  SPInv' /\ panicked' = panicked
<1> DEFINE p == Verifier(t)
<1>1. TxnInv(t) /\ SPTypeOK /\ ControllerTypes /\ TaskTypes
  BY TypeParts DEF SPInv
<1>2. /\ t \in requests /\ handling[t] # "none" /\ Remote(t) /\ serving[t] = NoChannel
      /\ p \in Proxy /\ Home(t) \in Proxy /\ Home(t) # p
  BY <1>1, Types DEF HandleStatelessRequest, TxnInv, Progress, Remote
<1>3. PICK rx \in ChannelsOf(p, t), e \in Entries :
         /\ get_dependency(oneshots[p], t, Channel("get", p, t)).rx = rx
         /\ get_dependency(oneshots[p], t, Channel("get", p, t)).map = [oneshots[p] EXCEPT ![t] = e]
         /\ Good(e, p, t) /\ Got(p, t, rx, e)
  <2>1. Fresh(oneshots[p][t])
    BY <1>1, <1>2 DEF TxnInv, Slots
  <2>2. QED
    BY <1>1, <1>2, <2>1, GetFresh DEF TxnInv
<1>4. rx # NoChannel /\ rx \in Channels
  BY <1>2, ChannelFacts
<1>5. /\ requests' = requests \ {t}
      /\ serving' = [serving EXCEPT ![t] = rx]
      /\ UNCHANGED <<vrVars, delivered, verification, verify_tx, handling, waits_on, replies, panicked>>
  BY <1>3, <1>4 DEF HandleStatelessRequest, verifyVars, taskVars
<1>6. Puts(p, t, e)
  <2>1. oneshots' = [oneshots EXCEPT ![p] = [oneshots[p] EXCEPT ![t] = e]]
    BY <1>3 DEF HandleStatelessRequest
  <2>2. QED
    BY <1>1, <1>2, <2>1, PutsEntry DEF ControllerTypes
<1> HIDE DEF p
<1>7. SPTypeOK'
  <2>1. TaskTypes'
    BY <1>1, <1>4, <1>5 DEF TaskTypes
  <2>2. QED
    BY <1>1, <1>5, <1>6, <2>1, SameTypes DEF Puts, ControllerTypes
<1>8. Only(t)
  BY <1>1, <1>2, <1>5, <1>6 DEF Only, Untouched, Puts, TaskTypes
<1>9. TxnInv(t)'
  <2>1. serving'[t] = rx /\ t \notin requests' /\ Finished(t)' = Finished(t)
    BY <1>1, <1>5 DEF TaskTypes, Finished
  <2>2. Verifier(t)' = p /\ Home(t)' = Home(t)
    BY <1>5, SameMessages DEF p
  <2>3. Progress(t)'
    BY <1>1, <1>2, <1>5, <2>1, <2>2, SameMessages DEF TxnInv, Progress
  <2>4. Verifications(t)'
    BY <1>1, <1>5, SameMessages DEF TxnInv, Verifications
  <2>5. Slots(t)'
    BY <1>1, <1>2, <1>3, <1>5, <1>6, <2>1 DEF TxnInv, Slots, Puts
  <2>6. Results(t)'
    BY <1>1, <1>5, <2>1 DEF TxnInv, Results
  <2>7. Ends(t)'
    <3>1. ASSUME NEW d, UnderWay(d, t) PROVE UnderWay(d, t)'
      BY <1>5, <3>1 DEF UnderWay, HasResult
    <3>2. e.rx = NoChannel
      BY <1>3, EntryFacts DEF Got
    <3>3. ASSUME NEW q \in Proxy, NEW d, oneshots'[q][t].rx = d, d # NoChannel PROVE UnderWay(d, t)'
      BY <1>1, <1>6, <3>1, <3>2, <3>3 DEF TxnInv, Ends, Puts
    <3>4. ASSUME NEW d, waits_on[t] = d, d # NoChannel PROVE Live(d, t)'
      <4>1. d \in ChannelsOf(Home(t), t) /\ Live(d, t)
        BY <1>1, <3>4 DEF TxnInv, Progress, Ends
      <4>2. QED
        BY <1>1, <1>2, <1>6, <3>1, <4>1, LiveElsewhere DEF TxnInv
    <3>5. Live(rx, t)'
      <4>1. CASE e = Entry(NoChannel, rx)
        BY <1>2, <1>6, <4>1, EntryFacts DEF Live, Puts
      <4>2. CASE rx = oneshots[p][t].rx
        BY <1>1, <1>2, <1>4, <3>1, <4>2 DEF TxnInv, Ends, Live
      <4>3. QED
        BY <1>3, <4>1, <4>2 DEF Got
    <3>6. QED
      BY <1>5, <2>1, <3>3, <3>4, <3>5 DEF Ends
  <2>8. Left(t)'
    BY <1>1, <1>2, <1>4, <1>5, <1>6, <2>1, <2>2, SameMessages DEF TxnInv, Left, Puts
  <2>9. QED
    BY <2>3, <2>4, <2>5, <2>6, <2>7, <2>8 DEF TxnInv
<1>10. QED
  BY <1>5, <1>7, <1>8, <1>9, OnlyInv

\* The transaction asks the proxy that verifies it.
LEMMA RemoteInv ==
    ASSUME SPInv, NEW t \in TxnId, HandleTxnRemote(t)
    PROVE  SPInv'
<1>1. TxnInv(t) /\ SPTypeOK /\ ControllerTypes /\ TaskTypes
  BY TypeParts DEF SPInv
<1>2. Remote(t) /\ handling[t] = "none" /\ Sent(t) /\ serving[t] = NoChannel
  BY <1>1, Types DEF HandleTxnRemote, TxnInv, Progress, Remote
<1>3. /\ requests' = requests \cup {t}
      /\ handling' = [handling EXCEPT ![t] = "requested"]
      /\ UNCHANGED <<vrVars, oneshots, delivered, verification, verify_tx, waits_on, serving,
                     replies, panicked>>
  BY DEF HandleTxnRemote, controllerVars, verifyVars
<1>4. SPTypeOK'
  <2>1. TaskTypes'
    BY <1>1, <1>3 DEF TaskTypes
  <2>2. QED
    BY <1>1, <1>3, <2>1, SameTypes DEF ControllerTypes
<1>5. Only(t)
  BY <1>1, <1>3 DEF Only, Untouched, TaskTypes
<1>6. TxnInv(t)'
  <2>1. handling'[t] = "requested" /\ Finished(t)' = Finished(t)
    BY <1>1, <1>3 DEF TaskTypes, Finished
  <2>2. Progress(t)'
    BY <1>1, <1>2, <1>3, <2>1, SameMessages DEF TxnInv, Progress
  <2>3. Verifications(t)'
    BY <1>1, <1>3, <2>1, SameMessages DEF TxnInv, Verifications
  <2>4. Slots(t)'
    BY <1>1, <1>2, <1>3, <2>1 DEF TxnInv, Slots
  <2>5. Results(t)'
    BY <1>1, <1>3, <2>1 DEF TxnInv, Results
  <2>6. ASSUME NEW d, UnderWay(d, t) PROVE UnderWay(d, t)'
    BY <1>3, <2>6 DEF UnderWay, HasResult
  <2>7. Ends(t)'
    BY <1>1, <1>3, <2>6 DEF TxnInv, Ends, Live
  <2>8. Left(t)'
    BY <1>1, <1>2, <1>3, <2>1, SameMessages DEF TxnInv, Left
  <2>9. QED
    BY <2>2, <2>3, <2>4, <2>5, <2>7, <2>8 DEF TxnInv
<1>7. QED
  BY <1>4, <1>5, <1>6, OnlyInv

\* A processor that is gone changes nothing else.
LEMMA PanicInv ==
    ASSUME SPInv, NEW p \in Proxy, UnexpectedMessage(p)
    PROVE  SPInv'
<1>1. SPTypeOK /\ ControllerTypes /\ TaskTypes
  BY TypeParts DEF SPInv
<1>2. /\ panicked' = panicked \cup {<<"primary", p>>}
      /\ UNCHANGED <<vrVars, oneshots, delivered, verification, verify_tx, handling, waits_on,
                     requests, serving, replies>>
  BY DEF UnexpectedMessage, controllerVars, verifyVars, taskVars, peerVars
<1>3. SPTypeOK'
  BY <1>1, <1>2, SameTypes DEF TaskTypes, ControllerTypes
<1>4. \A t \in TxnId : Untouched(t)
  BY <1>2 DEF Untouched
<1>5. \A t \in TxnId : TxnInv(t)'
  BY <1>1, <1>2, <1>4, UntouchedInv DEF SPInv
<1>6. MessagesOK'
  BY <1>2 DEF SPInv, vrVars, deploymentVars, MessagesOK, Sent, Home, Verifier, IsPrimarySeparation
<1>7. QED
  BY <1>3, <1>5, <1>6 DEF SPInv

\* The proxy verifies the transaction itself: the task waits for the result.
LEMMA LocalInv ==
    ASSUME SPInv, NEW t \in TxnId, HandleTxnLocal(t), IsPrimarySeparation
    PROVE  SPInv' /\ panicked' = panicked
<1> DEFINE p == Home(t)
<1>1. TxnInv(t) /\ SPTypeOK /\ ControllerTypes /\ TaskTypes
  BY TypeParts DEF SPInv
<1>2. /\ handling[t] = "none" /\ Sent(t) /\ serving[t] = NoChannel /\ t \notin requests
      /\ p \in Proxy /\ Verifier(t) = p
  BY <1>1, Types DEF HandleTxnLocal, TxnInv, Progress, Remote
<1>3. PICK rx \in ChannelsOf(p, t), e \in Entries :
         /\ get_dependency(oneshots[p], t, Channel("get", p, t)).rx = rx
         /\ get_dependency(oneshots[p], t, Channel("get", p, t)).map = [oneshots[p] EXCEPT ![t] = e]
         /\ Good(e, p, t) /\ Got(p, t, rx, e)
  <2>1. Fresh(oneshots[p][t])
    BY <1>1, <1>2 DEF TxnInv, Slots
  <2>2. QED
    BY <1>1, <1>2, <2>1, GetFresh DEF TxnInv
<1>4. rx # NoChannel /\ rx \in Channels
  BY <1>2, ChannelFacts
<1>5. /\ handling' = [handling EXCEPT ![t] = "waiting"]
      /\ waits_on' = [waits_on EXCEPT ![t] = rx]
      /\ UNCHANGED <<vrVars, delivered, verification, verify_tx, requests, serving, replies, panicked>>
  BY <1>3, <1>4 DEF HandleTxnLocal, WaitFor, verifyVars, peerVars
<1>6. Puts(p, t, e)
  <2>1. oneshots' = [oneshots EXCEPT ![p] = [oneshots[p] EXCEPT ![t] = e]]
    BY <1>3 DEF HandleTxnLocal
  <2>2. QED
    BY <1>1, <1>2, <2>1, PutsEntry DEF ControllerTypes
<1> HIDE DEF p
<1>7. SPTypeOK'
  <2>1. TaskTypes'
    BY <1>1, <1>4, <1>5 DEF TaskTypes
  <2>2. QED
    BY <1>1, <1>5, <1>6, <2>1, SameTypes DEF Puts, ControllerTypes
<1>8. Only(t)
  BY <1>1, <1>2, <1>5, <1>6 DEF Only, Untouched, Puts, TaskTypes
<1>9. TxnInv(t)'
  <2>1. handling'[t] = "waiting" /\ waits_on'[t] = rx /\ Finished(t)' = Finished(t)
    BY <1>1, <1>5 DEF TaskTypes, Finished
  <2>2. Home(t)' = p /\ Verifier(t)' = p
    BY <1>2, <1>5, SameMessages DEF p
  <2>3. Progress(t)'
    BY <1>1, <1>2, <1>5, <2>1, <2>2, SameMessages DEF TxnInv, Progress
  <2>4. Verifications(t)'
    BY <1>1, <1>5, <2>1, SameMessages DEF TxnInv, Verifications
  <2>5. Slots(t)'
    BY <1>1, <1>2, <1>3, <1>5, <1>6, <2>1 DEF TxnInv, Slots, Puts
  <2>6. Results(t)'
    BY <1>1, <1>5, <2>1 DEF TxnInv, Results
  <2>7. Ends(t)'
    <3>1. ASSUME NEW d, UnderWay(d, t) PROVE UnderWay(d, t)'
      BY <1>5, <3>1 DEF UnderWay, HasResult
    <3>2. e.rx = NoChannel
      BY <1>3, EntryFacts DEF Got
    <3>3. ASSUME NEW q \in Proxy, NEW d, oneshots'[q][t].rx = d, d # NoChannel PROVE UnderWay(d, t)'
      BY <1>1, <1>6, <3>1, <3>2, <3>3 DEF TxnInv, Ends, Puts
    <3>4. Live(rx, t)'
      <4>1. CASE e = Entry(NoChannel, rx)
        BY <1>2, <1>6, <4>1, EntryFacts DEF Live, Puts
      <4>2. CASE rx = oneshots[p][t].rx
        BY <1>1, <1>2, <1>4, <3>1, <4>2 DEF TxnInv, Ends, Live
      <4>3. QED
        BY <1>3, <4>1, <4>2 DEF Got
    <3>5. QED
      BY <1>2, <1>5, <2>1, <3>3, <3>4 DEF Ends
  <2>8. Left(t)'
    BY <1>1, <1>2, <1>5, <1>6, <2>1, <2>2, SameMessages DEF TxnInv, Left, Puts
  <2>9. QED
    BY <2>3, <2>4, <2>5, <2>6, <2>7, <2>8 DEF TxnInv
<1>10. QED
  BY <1>5, <1>7, <1>8, <1>9, OnlyInv

\* A CombinedTxn is the only message of its transaction.
LEMMA CombinedAlone ==
    ASSUME SPInv, NEW t \in TxnId, txn_sent[t].kind = "CombinedTxn", handling[t] = "none"
    PROVE  /\ Sent(t) /\ ~ IsPrimarySeparation /\ Home(t) = Verifier(t) /\ Home(t) \in Proxy
           /\ serving[t] = NoChannel /\ t \notin requests
           /\ VerifiedBy(t) = {}
           /\ \A p \in Proxy : oneshots[p][t] = Vacant
           /\ \A by \in Forwarders : verification[<<t, by>>] = "none" /\ verify_tx[<<t, by>>] = NoChannel
<1>1. SPTypeOK /\ MessagesOK /\ TxnInv(t)
  BY DEF SPInv
<1>2. Sent(t)
  BY <1>1, Types
<1>3. /\ ~ IsPrimarySeparation /\ t \notin owned
      /\ Home(t) = Verifier(t) /\ Home(t) \in Proxy
  BY <1>1, <1>2, Types DEF MessagesOK
<1>4. VerifiedBy(t) = {}
  BY <1>1, <1>3 DEF VerifiedBy, MessagesOK, IsPrimarySeparation
<1>5. serving[t] = NoChannel /\ t \notin requests
  BY <1>1 DEF TxnInv, Progress
<1>6. \A p \in Proxy : oneshots[p][t] = Vacant
  BY <1>1, <1>4 DEF TxnInv, Left
<1>7. \A by \in Forwarders : verification[<<t, by>>] = "none" /\ verify_tx[<<t, by>>] = NoChannel
  BY <1>1, <1>3 DEF TxnInv, Verifications
<1>8. QED
  BY <1>2, <1>3, <1>4, <1>5, <1>6, <1>7

\* What a CombinedTxn starts: a verification and a wait for it, or neither.
CombinedStarts(t, p, r, c) ==
    /\ Puts(p, t, Vacant)
    /\ \/ /\ handling' = [handling EXCEPT ![t] = "waiting"]
          /\ waits_on' = [waits_on EXCEPT ![t] = c]
          /\ verify_tx' = [verify_tx EXCEPT ![r] = c]
          /\ verification' = [verification EXCEPT ![r] = "running"]
       \/ /\ handling' = [handling EXCEPT ![t] = "verified"]
          /\ waits_on' = [waits_on EXCEPT ![t] = NoChannel]
          /\ verify_tx' = [verify_tx EXCEPT ![r] = NoChannel]
          /\ verification' = [verification EXCEPT ![r] = "finished"]

\* Verification and waiting start together, or the transaction's task verifies.
LEMMA CombinedInv ==
    ASSUME SPInv, NEW t \in TxnId, HandleCombinedTxn(t)
    PROVE  SPInv'
<1> DEFINE p == Home(t)
           r == <<t, "shared">>
           c == Channel("local", p, r)
<1>1. TxnInv(t) /\ SPTypeOK /\ ControllerTypes /\ TaskTypes
  BY TypeParts DEF SPInv
<1>2. /\ Sent(t) /\ ~ IsPrimarySeparation /\ Verifier(t) = p /\ p \in Proxy
      /\ serving[t] = NoChannel /\ t \notin requests
      /\ \A q \in Proxy : oneshots[q][t] = Vacant
      /\ \A by \in Forwarders : verification[<<t, by>>] = "none" /\ verify_tx[<<t, by>>] = NoChannel
      /\ handling[t] = "none"
  BY CombinedAlone DEF HandleCombinedTxn
<1>3. r \in Request /\ "shared" \in Forwarders
      /\ \A u \in TxnId, b \in Forwarders : <<u, b>> \in Request /\ (<<u, b>> = r <=> u = t /\ b = "shared")
  BY DEF Request, Forwarders
<1>4. c \in ChannelsOf(p, t) /\ c # NoChannel /\ c \in Channels
  BY <1>2, <1>3, ChannelFacts
<1>5. UNCHANGED <<vrVars, delivered, requests, serving, replies, panicked>>
  BY DEF HandleCombinedTxn, peerVars
<1>6. CombinedStarts(t, p, r, c)
  <2>1. CASE IsProxySeparation
    <3> DEFINE set == set_local_dependency(oneshots[p], t, c)
               get == Channel("get", p, t)
    <3>1. /\ set.tx = c
          /\ set.map = [oneshots[p] EXCEPT ![t] = Entry(c, NoChannel)]
      <4>1. oneshots[p][t].tx = NoChannel
        BY <1>2, EntryFacts
      <4>2. QED
        BY <4>1 DEF set_local_dependency
    <3>2. PICK map : map = set.map
      OBVIOUS
    <3>3. map = [oneshots[p] EXCEPT ![t] = Entry(c, NoChannel)] /\ map[t] = Entry(c, NoChannel)
      BY <1>1, <1>2, <3>1, <3>2 DEF ControllerTypes
    <3>4. Fresh(map[t]) /\ map[t] # Vacant /\ map[t].rx = c
      BY <1>4, <3>3, EntryFacts DEF Fresh
    <3>5. /\ get_dependency(map, t, get).rx = c
          /\ get_dependency(map, t, get).map = [map EXCEPT ![t] = Vacant]
      <4> HIDE DEF c, get
      <4>1. \/ /\ map[t] = Vacant
               /\ get_dependency(map, t, get).rx = get
               /\ get_dependency(map, t, get).map = [map EXCEPT ![t] = Entry(NoChannel, get)]
            \/ /\ map[t] = Entry(map[t].rx, NoChannel) /\ map[t].rx # NoChannel
               /\ get_dependency(map, t, get).rx = map[t].rx
               /\ get_dependency(map, t, get).map = [map EXCEPT ![t] = Vacant]
        BY <3>4, GetFreshEffect, Zenon
      <4>2. QED
        BY <3>4, <4>1
    <3>6. oneshots' = [oneshots EXCEPT ![p] = [oneshots[p] EXCEPT ![t] = Vacant]]
      <4>1. oneshots' = [oneshots EXCEPT ![p] = [map EXCEPT ![t] = Vacant]]
        BY <2>1, <3>2, <3>5 DEF HandleCombinedTxn
      <4>2. [map EXCEPT ![t] = Vacant] = [oneshots[p] EXCEPT ![t] = Vacant]
        BY <3>3
      <4>3. QED
        BY <4>1, <4>2
    <3>7. Puts(p, t, Vacant)
      <4>1. Vacant \in Entries
        BY DEF Entries
      <4>2. QED
        BY <1>1, <1>2, <3>6, <4>1, PutsEntry DEF ControllerTypes
    <3>8. /\ verify_tx' = [verify_tx EXCEPT ![r] = c]
          /\ verification' = [verification EXCEPT ![r] = "running"]
      BY <2>1, <3>1 DEF HandleCombinedTxn
    <3>9. WaitFor(t, c)
      BY <2>1, <3>2, <3>5 DEF HandleCombinedTxn
    <3>10. QED
      BY <1>4, <3>7, <3>8, <3>9 DEF WaitFor, CombinedStarts
  <2>2. CASE ~ IsProxySeparation
    <3>1. /\ verification' = [verification EXCEPT ![r] = "finished"]
          /\ WaitFor(t, NoChannel)
          /\ UNCHANGED <<oneshots, verify_tx>>
      BY <2>2 DEF HandleCombinedTxn
    <3>2. handling' = [handling EXCEPT ![t] = "verified"]
      <4>1. (IsProxySeparation \/ Verdict(t)) = TRUE
        BY <1>1, VerdictTrue
      <4>2. Outcome(IsProxySeparation \/ Verdict(t)) = "verified"
        BY <4>1 DEF Outcome
      <4>3. QED
        BY <3>1, <4>2 DEF WaitFor
    <3>3. waits_on' = [waits_on EXCEPT ![t] = NoChannel]
      BY <3>1 DEF WaitFor
    <3>4. verify_tx' = [verify_tx EXCEPT ![r] = NoChannel]
      BY <1>1, <1>2, <1>3, <3>1 DEF TaskTypes
    <3>5. Puts(p, t, Vacant)
      BY <1>1, <1>2, <3>1 DEF Puts, ControllerTypes
    <3>6. QED
      BY <3>1, <3>2, <3>3, <3>4, <3>5 DEF CombinedStarts
  <2>3. QED
    BY <2>1, <2>2
<1>7. Puts(p, t, Vacant)
  BY <1>6 DEF CombinedStarts
<1> HIDE DEF p, c, r
<1>8. SPTypeOK'
  <2>1. TaskTypes'
    BY <1>1, <1>3, <1>4, <1>5, <1>6 DEF TaskTypes, CombinedStarts
  <2>2. QED
    BY <1>1, <1>5, <1>7, <2>1, SameTypes DEF Puts, ControllerTypes
<1>9. Only(t)
  BY <1>1, <1>2, <1>3, <1>5, <1>6, <1>7 DEF Only, Untouched, Puts, TaskTypes, CombinedStarts
<1>10. TxnInv(t)'
  <2>1. \/ /\ handling'[t] = "waiting" /\ waits_on'[t] = c
           /\ verify_tx'[r] = c /\ verification'[r] = "running"
        \/ /\ handling'[t] = "verified" /\ waits_on'[t] = NoChannel
           /\ verify_tx'[r] = NoChannel /\ verification'[r] = "finished"
    BY <1>1, <1>3, <1>6 DEF TaskTypes, CombinedStarts
  <2>2. \A by \in Forwarders :
           \/ <<t, by>> = r
           \/ verification'[<<t, by>>] = "none" /\ verify_tx'[<<t, by>>] = NoChannel
    BY <1>1, <1>2, <1>3, <1>6 DEF TaskTypes, CombinedStarts
  <2>3. Home(t)' = p /\ Verifier(t)' = p /\ Sent(t)' /\ ~ IsPrimarySeparation'
    BY <1>2, <1>5, SameMessages DEF p
  <2>4. \A q \in Proxy : oneshots'[q][t] = Vacant
    BY <1>2, <1>7 DEF Puts
  <2>5. Progress(t)'
    BY <1>1, <1>2, <1>4, <1>5, <2>1, <2>3 DEF TxnInv, Progress
  <2>6. Verifications(t)'
    BY <1>2, <1>3, <1>4, <2>1, <2>2, <2>3 DEF Verifications
  <2>7. Slots(t)'
    BY <2>4 DEF Slots, Good, Fresh
  <2>8. Results(t)'
    <3>1. ~ Finished(t)
      BY <1>2 DEF Finished
    <3>2. handling'[t] = "verified" => Finished(t)'
      BY <1>3, <2>1 DEF Finished, r
    <3>3. QED
      BY <1>1, <1>5, <2>1, <3>1, <3>2 DEF TxnInv, Results
  <2>9. Ends(t)'
    <3>1. ASSUME NEW d, d = c, waits_on'[t] = c PROVE UnderWay(d, t)'
      BY <1>3, <1>4, <2>1, <3>1 DEF UnderWay, r
    <3>2. QED
      BY <1>2, <1>5, <2>1, <2>4, <3>1, EntryFacts DEF Ends, Live
  <2>10. Left(t)'
    BY <1>2, <2>3, <2>4 DEF Left
  <2>11. QED
    BY <2>5, <2>6, <2>7, <2>8, <2>9, <2>10 DEF TxnInv
<1>11. QED
  BY <1>8, <1>9, <1>10, OnlyInv

\* Where one request at most is sent, the requests of a transaction are the same.
LEMMA SingleRequest ==
    ASSUME SPTypeOK, MessagesOK, NEW t \in TxnId, Single(t),
           NEW m \in stateless_sent, NEW n \in stateless_sent, m.txn = t, n.txn = t
    PROVE  m = n
<1>1. m.by = n.by
  BY DEF MessagesOK, Single
<1>2. QED
  BY <1>1 DEF MessagesOK

\* A request that has not been handled is not of a verification that has run.
LEMMA UnhandledUnfinished ==
    ASSUME SPInv, IsPrimarySeparation, NEW t \in TxnId, Single(t),
           NEW m \in stateless_sent, m.txn = t, verification[<<t, m.by>>] = "none"
    PROVE  ~ Finished(t)
<1> SUFFICES ASSUME NEW by \in Forwarders, verification[<<t, by>>] = "finished" PROVE FALSE
  BY DEF Finished
<1>1. PICK n \in stateless_sent : n.txn = t /\ n.by = by
  BY DEF SPInv, TxnInv, Verifications
<1>2. m = n
  BY <1>1, SingleRequest DEF SPInv
<1>3. QED
  BY <1>1, <1>2

\* A verification starts: it takes the sender that waits, or leaves a receiver.
LEMMA StatelessTxnInv ==
    ASSUME SPInv, NEW t \in TxnId, NEW m \in stateless_sent, m.txn = t,
           HandleStatelessTxn(m), IsPrimarySeparation
    PROVE  SPInv' /\ panicked' = panicked
<1> DEFINE p == m.proxy
           r == <<t, m.by>>
           c == Channel("local", p, r)
           set == set_local_dependency(oneshots[p], t, c)
<1>1. TxnInv(t) /\ SPTypeOK /\ ControllerTypes /\ TaskTypes
  BY TypeParts DEF SPInv
<1>2. p \in Proxy /\ m.by \in Forwarders /\ r \in Request
      /\ \A u \in TxnId, b \in Forwarders : <<u, b>> \in Request /\ (<<u, b>> = r <=> u = t /\ b = m.by)
  BY <1>1, Types DEF Request
<1>3. c \in ChannelsOf(p, t) /\ c \in EndsOf(p, t) /\ NoChannel \in EndsOf(p, t)
  BY <1>2, ChannelFacts DEF EndsOf
<1>4. /\ verification[r] = "none" /\ verify_tx[r] = NoChannel
      /\ oneshots' = [oneshots EXCEPT ![p] = set.map]
      /\ verify_tx' = [verify_tx EXCEPT ![r] = set.tx]
      /\ verification' = [verification EXCEPT ![r] = "running"]
      /\ UNCHANGED <<vrVars, delivered, handling, waits_on, requests, serving, replies, panicked>>
  BY <1>1, <1>2 DEF HandleStatelessTxn, taskVars, peerVars, TxnInv, Verifications
<1>5. PICK old : old = oneshots[p][t]
  OBVIOUS
<1>6. Good(old, p, t)
  BY <1>1, <1>2, <1>5 DEF TxnInv, Slots
<1>7. \/ /\ old.tx # NoChannel /\ old # Vacant /\ set.tx = old.tx
         /\ set.map = [oneshots[p] EXCEPT ![t] = Entry(old.rx, NoChannel)]
      \/ /\ old.tx = NoChannel /\ set.tx = c
         /\ set.map = [oneshots[p] EXCEPT ![t] = Entry(c, NoChannel)]
  <2>1. PICK map : map = oneshots[p]
    OBVIOUS
  <2>2. map \in [TxnId -> Entries] /\ map[t] = old
    BY <1>1, <1>2, <1>5, <2>1 DEF ControllerTypes
  <2>3. map[t] = Vacant \/ map[t] = Entry(map[t].rx, map[t].tx)
    BY <1>6, <2>2 DEF Good
  <2> HIDE DEF c
  <2>4. TakesOrCreates(map, t, c)
    BY <2>2, <2>3, SetLocalEffect
  <2>5. set = set_local_dependency(map, t, c)
    BY <2>1
  <2> HIDE DEF set
  <2>6. QED
    BY <2>1, <2>2, <2>4, <2>5 DEF TakesOrCreates
<1>8. PICK tx, rx :
         /\ tx = set.tx /\ tx \in ChannelsOf(p, t) /\ rx \in EndsOf(p, t)
         /\ set.map = [oneshots[p] EXCEPT ![t] = Entry(rx, NoChannel)]
         /\ \/ old.tx = tx /\ tx # NoChannel /\ old # Vacant /\ rx = old.rx
            \/ old.tx = NoChannel /\ tx = c /\ rx = c
  <2>1. CASE old.tx # NoChannel /\ old # Vacant /\ set.tx = old.tx
             /\ set.map = [oneshots[p] EXCEPT ![t] = Entry(old.rx, NoChannel)]
    <3>1. old.tx \in ChannelsOf(p, t) /\ old.rx \in EndsOf(p, t)
      BY <1>6, <2>1 DEF Good, EndsOf
    <3>2. QED
      BY <2>1, <3>1
  <2>2. CASE old.tx = NoChannel /\ set.tx = c
             /\ set.map = [oneshots[p] EXCEPT ![t] = Entry(c, NoChannel)]
    BY <1>3, <2>2
  <2>3. QED
    BY <1>7, <2>1, <2>2
<1>9. Good(Entry(rx, NoChannel), p, t) /\ Entry(rx, NoChannel) \in Entries
  BY <1>2, <1>3, <1>8, GoodEntry, GoodEntries
<1>10. Puts(p, t, Entry(rx, NoChannel))
  BY <1>1, <1>2, <1>4, <1>8, <1>9, PutsEntry DEF ControllerTypes
<1>11. tx \in Channels /\ tx # NoChannel /\ c # NoChannel
  BY <1>2, <1>3, <1>8, ChannelFacts
<1>12. verify_tx' = [verify_tx EXCEPT ![r] = tx]
  BY <1>4, <1>8
<1> HIDE DEF p, r, c, set
<1>13. SPTypeOK'
  <2>1. TaskTypes'
    BY <1>1, <1>2, <1>4, <1>11, <1>12 DEF TaskTypes
  <2>2. QED
    BY <1>1, <1>4, <1>10, <2>1, SameTypes DEF Puts, ControllerTypes
<1>14. Only(t)
  <2> SUFFICES ASSUME NEW u \in TxnId \ {t} PROVE Untouched(u)
    BY <1>4 DEF Only
  <2>1. \A b \in Forwarders : <<u, b>> \in Request /\ <<u, b>> # r
    BY <1>2
  <2>2. QED
    BY <1>1, <1>2, <1>4, <1>10, <1>12, <2>1 DEF Untouched, Puts, TaskTypes
<1>15. TxnInv(t)'
  <2>1. /\ verification'[r] = "running" /\ verify_tx'[r] = tx
        /\ \A b \in Forwarders :
              \/ <<t, b>> = r /\ b = m.by
              \/ /\ verification'[<<t, b>>] = verification[<<t, b>>]
                 /\ verify_tx'[<<t, b>>] = verify_tx[<<t, b>>]
    BY <1>1, <1>2, <1>4, <1>12 DEF TaskTypes
  <2>2. Finished(t) => Finished(t)'
    BY <1>4, <2>1 DEF Finished
  <2>3. p \in VerifiedBy(t)
    BY DEF VerifiedBy, p
  <2>4. Progress(t)'
    BY <1>1, <1>4, SameMessages DEF TxnInv, Progress
  <2>5. Verifications(t)'
    BY <1>1, <1>2, <1>4, <1>8, <2>1, SameMessages DEF TxnInv, Verifications
  <2>6. Slots(t)'
    <3>1. Fresh(old) => Fresh(Entry(rx, NoChannel))
      BY <1>8, <1>11, EntryFacts DEF Fresh
    <3>2. QED
      BY <1>1, <1>2, <1>4, <1>5, <1>9, <1>10, <3>1, SameMessages DEF TxnInv, Slots, Puts
  <2>7. Results(t)'
    BY <1>1, <1>4, <2>2 DEF TxnInv, Results
  <2>8. Ends(t)'
    <3>1. ASSUME NEW d, d # NoChannel, UnderWay(d, t) PROVE UnderWay(d, t)'
      BY <1>4, <2>1, <3>1 DEF UnderWay, HasResult
    <3>2. UnderWay(tx, t)'
      BY <1>2, <2>1 DEF UnderWay, r
    <3>3. rx # NoChannel => UnderWay(rx, t)'
      BY <1>1, <1>2, <1>5, <1>8, <3>1, <3>2 DEF TxnInv, Ends
    <3>4. ASSUME NEW q \in Proxy, NEW d, oneshots'[q][t].rx = d, d # NoChannel PROVE UnderWay(d, t)'
      BY <1>1, <1>10, <3>1, <3>3, <3>4, EntryFacts DEF TxnInv, Ends, Puts
    <3>5. ASSUME NEW d, d # NoChannel, Live(d, t) PROVE Live(d, t)'
      <4>1. CASE UnderWay(d, t)
        BY <3>1, <3>5, <4>1 DEF Live
      <4>2. CASE oneshots[p][t].tx = d
        BY <1>5, <1>8, <3>2, <3>5, <4>2 DEF Live
      <4>3. CASE \E q \in Proxy : q # p /\ oneshots[q][t].tx = d
        BY <1>10, <4>3 DEF Live, Puts
      <4>4. QED
        BY <3>5, <4>1, <4>2, <4>3 DEF Live
    <3>6. QED
      BY <1>1, <1>4, <3>4, <3>5 DEF TxnInv, Ends
  <2>9. Left(t)'
    <3>1. ~ (Single(t) /\ Finished(t))
      BY <1>4, UnhandledUnfinished DEF r
    <3>2. handling[t] # "verified" \/ ~ Single(t)
      BY <1>1, <3>1 DEF TxnInv, Results
    <3>3. ~ (Single(t) /\ handling[t] # "none" /\ Verifier(t) # Home(t)
              /\ t \notin requests /\ serving[t] = NoChannel)
      BY <1>1, <3>1 DEF TxnInv, Left
    <3>4. \A q \in Proxy : oneshots'[q][t] # Vacant =>
             q \in VerifiedBy(t) \/ (handling[t] # "none" /\ q \in {Home(t), Verifier(t)})
      BY <1>1, <1>2, <1>10, <2>3 DEF TxnInv, Left, Puts
    <3>5. QED
      BY <1>4, <3>2, <3>3, <3>4, SameMessages DEF Left
  <2>10. QED
    BY <2>4, <2>5, <2>6, <2>7, <2>8, <2>9 DEF TxnInv
<1>16. QED
  BY <1>4, <1>13, <1>14, <1>15, OnlyInv

\* The types, when only messages were sent.
LEMMA SendTypes ==
    ASSUME SPTypeOK, MessageTypes',
           UNCHANGED <<controllerVars, verifyVars, taskVars, peerVars, panicked>>
    PROVE  SPTypeOK'
<1>1. UNCHANGED <<oneshots, delivered, verification, verify_tx, handling, waits_on, requests,
                  serving, replies, panicked>>
  BY DEF controllerVars, verifyVars, taskVars, peerVars
<1>2. ControllerTypes' /\ TaskTypes'
  BY <1>1, TypeParts DEF ControllerTypes, TaskTypes
<1>3. QED
  BY <1>2, PartsMakeTypes

\* A verification request is sent.
LEMMA SendStatelessInv ==
    ASSUME SPInv, NEW t \in TxnId, NEW p \in Proxy, NEW by \in Forwarders,
           SendStatelessTxn(t, p, by),
           UNCHANGED <<controllerVars, verifyVars, taskVars, peerVars, panicked>>
    PROVE  SPInv'
<1> DEFINE m0 == [txn |-> t, proxy |-> p, by |-> by]
<1>1. SPTypeOK /\ MessagesOK /\ \A u \in TxnId : TxnInv(u)
  BY DEF SPInv
<1>2. /\ UNCHANGED <<oneshots, delivered, verification, verify_tx, handling, waits_on, requests,
                     serving, replies, panicked>>
      /\ UNCHANGED <<mode, owned, stateless_mode, txn_sent>>
      /\ stateless_sent' = stateless_sent \cup {m0}
  BY DEF controllerVars, verifyVars, taskVars, peerVars, SendStatelessTxn, deploymentVars
<1>3. \A n \in stateless_sent : ~ (n.txn = t /\ n.by = by)
  BY DEF SendStatelessTxn, RequestedAt
<1>4. m0.txn = t /\ m0.by = by /\ m0.proxy = p /\ m0 \in [txn : TxnId, proxy : Proxy, by : Forwarders]
  OBVIOUS
<1> HIDE DEF m0
<1>5. SPTypeOK'
  <2>1. MessageTypes'
    BY <1>1, <1>2, <1>4 DEF SPTypeOK, MessageTypes
  <2>2. QED
    BY <1>1, <2>1, SendTypes
<1>6. MessagesOK'
  <2>1. \A m, n \in stateless_sent' : m.txn = n.txn /\ m.by = n.by => m = n
    BY <1>1, <1>2, <1>3, <1>4 DEF MessagesOK
  <2>2. \A m \in stateless_sent' :
          \/ m.by = "owned" /\ m.txn \in owned
          \/ m.by = "shared" /\ mode = "PrimaryPreSeparation"
          \/ m.by = "shared" /\ mode = "PrimaryPostSeparation" /\ m.txn \notin owned
    BY <1>1, <1>2, <1>4 DEF MessagesOK, SendStatelessTxn
  <2>3. QED
    BY <1>1, <1>2, <2>1, <2>2 DEF MessagesOK, Sent, Home, Verifier, IsPrimarySeparation
<1>7. ASSUME NEW u \in TxnId PROVE TxnInv(u)'
  <2>1. TxnInv(u)
    BY <1>1
  <2>2. /\ Home(u)' = Home(u) /\ Verifier(u)' = Verifier(u)
        /\ Sent(u)' <=> Sent(u)
        /\ Single(u)' <=> Single(u)
        /\ Remote(u)' <=> Remote(u)
        /\ Finished(u)' <=> Finished(u)
        /\ VerifiedBy(u) \subseteq VerifiedBy(u)'
        /\ IsPrimarySeparation' <=> IsPrimarySeparation
    BY <1>2 DEF Home, Verifier, Sent, Single, Remote, VerifiedBy, IsPrimarySeparation, Finished
  <2>3. Progress(u)'
    BY <1>2, <2>1, <2>2 DEF TxnInv, Progress
  <2>4. Verifications(u)'
    BY <1>2, <2>1, <2>2 DEF TxnInv, Verifications
  <2>5. Slots(u)'
    BY <1>2, <2>1, <2>2 DEF TxnInv, Slots
  <2>6. Results(u)'
    BY <1>2, <2>1, <2>2 DEF TxnInv, Results
  <2>7. Ends(u)'
    BY <1>2, <2>1 DEF TxnInv, Ends, Live, UnderWay, HasResult
  <2>8. Left(u)'
    BY <1>2, <2>1, <2>2 DEF TxnInv, Left
  <2>9. QED
    BY <2>3, <2>4, <2>5, <2>6, <2>7, <2>8 DEF TxnInv
<1>8. QED
  BY <1>5, <1>6, <1>7 DEF SPInv

\* A transaction is sent.
LEMMA SendTxnInv ==
    ASSUME SPInv, NEW t \in TxnId, NEW p \in Proxy, SendTxn(t, p),
           UNCHANGED <<controllerVars, verifyVars, taskVars, peerVars, panicked>>
    PROVE  SPInv'
<1>1. SPTypeOK /\ MessagesOK /\ \A u \in TxnId : TxnInv(u)
  BY DEF SPInv
<1>2. PICK s \in Verifiers(t, p) :
         txn_sent' = [txn_sent EXCEPT ![t] =
              [kind |-> IF t \in owned \/ IsPrimarySeparation THEN "Txn" ELSE "CombinedTxn",
               proxy |-> p, stateless |-> s]]
  BY DEF SendTxn
<1>3. /\ UNCHANGED <<oneshots, delivered, verification, verify_tx, handling, waits_on, requests,
                     serving, replies, panicked>>
      /\ UNCHANGED <<mode, owned, stateless_mode, stateless_sent>>
      /\ ~ Sent(t)
  BY DEF controllerVars, verifyVars, taskVars, peerVars, SendTxn, deploymentVars, Sent
<1>4. s \in Proxy /\ (t \in owned \/ ~ IsPrimarySeparation => s = p)
  <2>1. \A by : RequestedAt(t, by) \subseteq Proxy
    BY <1>1, Types DEF RequestedAt
  <2>2. 0 \in Proxy
    BY VRAssumption DEF Proxy
  <2>3. CASE t \in owned
    BY <2>1, <2>3 DEF Verifiers
  <2>4. CASE t \notin owned /\ mode = "PrimaryPostSeparation"
    BY <2>1, <2>4 DEF Verifiers, IsPrimarySeparation
  <2>5. CASE t \notin owned /\ mode = "PrimaryPreSeparation"
    BY <2>1, <2>2, <2>5 DEF Verifiers, IsPrimarySeparation
  <2>6. CASE t \notin owned /\ ~ IsPrimarySeparation
    BY <2>6 DEF Verifiers, IsPrimarySeparation
  <2>7. QED
    BY <2>3, <2>4, <2>5, <2>6 DEF IsPrimarySeparation
<1>5. PICK kind \in {"Txn", "CombinedTxn"} :
         kind = (IF t \in owned \/ IsPrimarySeparation THEN "Txn" ELSE "CombinedTxn")
  OBVIOUS
<1>6. txn_sent' = [txn_sent EXCEPT ![t] = [kind |-> kind, proxy |-> p, stateless |-> s]]
      /\ txn_sent \in [TxnId -> {NotSent} \cup
                         [kind : {"Txn", "CombinedTxn"}, proxy : Proxy, stateless : Proxy]]
  BY <1>1, <1>2, <1>5 DEF SPTypeOK
<1>7. /\ txn_sent'[t] = [kind |-> kind, proxy |-> p, stateless |-> s]
      /\ txn_sent'[t].kind = kind /\ txn_sent'[t].proxy = p /\ txn_sent'[t].stateless = s
      /\ \A u \in TxnId \ {t} : txn_sent'[u] = txn_sent[u]
  BY <1>6
<1>8. SPTypeOK'
  <2>1. MessageTypes'
    BY <1>1, <1>3, <1>4, <1>6 DEF SPTypeOK, MessageTypes
  <2>2. QED
    BY <1>1, <2>1, SendTypes
<1>9. MessagesOK'
  BY <1>1, <1>3, <1>4, <1>5, <1>7 DEF MessagesOK, Sent, Home, Verifier, IsPrimarySeparation
<1>10. TxnInv(t)'
  <2>1. TxnInv(t) /\ handling[t] = "none" /\ t \notin requests /\ serving[t] = NoChannel
        /\ \A v \in BOOLEAN : <<t, v>> \notin replies
    BY <1>1, <1>3 DEF TxnInv, Progress, Remote
  <2>2. VerifiedBy(t)' = VerifiedBy(t) /\ (Finished(t)' <=> Finished(t))
        /\ (IsPrimarySeparation' <=> IsPrimarySeparation)
    BY <1>3 DEF VerifiedBy, Finished, IsPrimarySeparation
  <2>3. Progress(t)'
    BY <1>3, <2>1 DEF TxnInv, Progress
  <2>4. Verifications(t)'
    BY <1>3, <2>1, <2>2 DEF TxnInv, Verifications
  <2>5. Slots(t)'
    BY <1>3, <2>1 DEF TxnInv, Slots
  <2>6. Results(t)'
    BY <1>3, <2>1, <2>2 DEF TxnInv, Results
  <2>7. Ends(t)'
    BY <1>3, <2>1 DEF TxnInv, Ends, Live, UnderWay, HasResult
  <2>8. Left(t)'
    BY <1>3, <2>1, <2>2 DEF TxnInv, Left
  <2>9. QED
    BY <2>3, <2>4, <2>5, <2>6, <2>7, <2>8 DEF TxnInv
<1>11. ASSUME NEW u \in TxnId \ {t} PROVE TxnInv(u)'
  <2>1. TxnInv(u)
    BY <1>1
  <2>2. /\ Home(u)' = Home(u) /\ Verifier(u)' = Verifier(u)
        /\ Sent(u)' <=> Sent(u)
        /\ Single(u)' <=> Single(u)
        /\ Remote(u)' <=> Remote(u)
        /\ Finished(u)' <=> Finished(u)
        /\ VerifiedBy(u)' = VerifiedBy(u)
        /\ IsPrimarySeparation' <=> IsPrimarySeparation
    BY <1>3, <1>7 DEF Home, Verifier, Sent, Single, Remote, VerifiedBy, IsPrimarySeparation, Finished
  <2>3. Progress(u)'
    BY <1>3, <2>1, <2>2 DEF TxnInv, Progress
  <2>4. Verifications(u)'
    BY <1>3, <2>1, <2>2 DEF TxnInv, Verifications
  <2>5. Slots(u)'
    BY <1>3, <2>1, <2>2 DEF TxnInv, Slots
  <2>6. Results(u)'
    BY <1>3, <2>1, <2>2 DEF TxnInv, Results
  <2>7. Ends(u)'
    BY <1>3, <2>1 DEF TxnInv, Ends, Live, UnderWay, HasResult
  <2>8. Left(u)'
    BY <1>3, <2>1, <2>2 DEF TxnInv, Left
  <2>9. QED
    BY <2>3, <2>4, <2>5, <2>6, <2>7, <2>8 DEF TxnInv
<1>12. QED
  BY <1>8, <1>9, <1>10, <1>11 DEF SPInv

-----------------------------------------------------------------------------
(* The theorems.                                                           *)

\* At the start nothing has been sent and nobody waits.
LEMMA SPInitInv == SPInit => SPInv
<1> SUFFICES ASSUME SPInit PROVE SPInv
  OBVIOUS
<1>1. PICK d \in Deployments : mode = d.mode /\ owned = d.owned /\ stateless_mode = d.stateless_mode
  BY DEF SPInit, VRInit
<1>2. /\ stateless_sent = {} /\ txn_sent = [t \in TxnId |-> NotSent]
      /\ oneshots = [p \in Proxy |-> [t \in TxnId |-> Vacant]]
      /\ delivered = {} /\ verification = [r \in Request |-> "none"]
      /\ verify_tx = [r \in Request |-> NoChannel]
      /\ handling = [t \in TxnId |-> "none"] /\ waits_on = [t \in TxnId |-> NoChannel]
      /\ requests = {} /\ serving = [t \in TxnId |-> NoChannel] /\ replies = {} /\ panicked = {}
  BY DEF SPInit, VRInit, NewOneshots
<1>3. SPTypeOK
  <2>1. MessageTypes
    <3>1. d \in [mode : Modes, owned : SUBSET TxnId, stateless_mode : StatelessModes]
      BY VRAssumption
    <3>2. [mode |-> d.mode, owned |-> d.owned, stateless_mode |-> d.stateless_mode] = d
      BY <3>1
    <3>3. QED
      BY <1>1, <1>2, <3>2 DEF MessageTypes
  <2>2. TaskTypes
    BY <1>2 DEF TaskTypes
  <2>3. oneshots \in [Proxy -> [TxnId -> {Vacant} \cup
                       {Entry(rx, tx) : rx, tx \in {NoChannel} \cup Channels}]]
    BY <1>2
  <2>4. QED
    BY <2>1, <2>2, <2>3 DEF SPTypeOK, MessageTypes, TaskTypes
<1>4. MessagesOK
  BY <1>2 DEF MessagesOK, Sent
<1>5. ASSUME NEW t \in TxnId PROVE TxnInv(t)
  <2>1. \A by \in Forwarders : <<t, by>> \in Request
    BY DEF Request
  <2>2. Progress(t)
    BY <1>2 DEF Progress
  <2>3. Verifications(t)
    BY <1>2, <2>1 DEF Verifications
  <2>4. Slots(t)
    BY <1>2 DEF Slots, Good, Fresh
  <2>5. Results(t)
    BY <1>2 DEF Results
  <2>6. Ends(t)
    BY <1>2, EntryFacts DEF Ends
  <2>7. Left(t)
    BY <1>2 DEF Left
  <2>8. QED
    BY <2>2, <2>3, <2>4, <2>5, <2>6, <2>7 DEF TxnInv
<1>6. QED
  BY <1>3, <1>4, <1>5 DEF SPInv

\* A message of an unexpected kind comes only where the primary does not separate.
LEMMA UnexpectedInv ==
    ASSUME SPInv, ~ IsPrimarySeparation, NEW t \in TxnId,
           \/ HandleTxnLocal(t)
           \/ \E m \in stateless_sent : m.txn = t /\ HandleStatelessTxn(m)
    PROVE  SPInv' /\ t \in owned
<1>1. SPTypeOK /\ MessagesOK
  BY DEF SPInv
<1>2. CASE HandleTxnLocal(t)
  <2>1. Sent(t) /\ UnexpectedMessage(Home(t))
    BY <1>1, <1>2, Types DEF HandleTxnLocal
  <2>2. Home(t) \in Proxy /\ t \in owned
    BY <1>1, <1>2, <2>1, Types DEF HandleTxnLocal, MessagesOK
  <2>3. QED
    BY <2>1, <2>2, PanicInv
<1>3. CASE \E m \in stateless_sent : m.txn = t /\ HandleStatelessTxn(m)
  <2>1. PICK m \in stateless_sent : m.txn = t /\ UnexpectedMessage(m.proxy)
    BY <1>3 DEF HandleStatelessTxn
  <2>2. m.proxy \in Proxy /\ t \in owned
    BY <1>1, <2>1, Types DEF MessagesOK, IsPrimarySeparation
  <2>3. QED
    BY <2>1, <2>2, PanicInv
<1>4. QED
  BY <1>2, <1>3

\* Every step keeps the invariant.
LEMMA SPStepInv == SPInv /\ [SPNext]_spVars => SPInv'
<1> SUFFICES ASSUME SPInv, [SPNext]_spVars PROVE SPInv'
  OBVIOUS
<1>1. CASE Primary
  BY <1>1, SendStatelessInv, SendTxnInv DEF Primary, VRNext
<1>2. ASSUME NEW t \in TxnId, ProxyStep(t) PROVE SPInv'
  <2>1. CASE \E m \in stateless_sent : m.txn = t /\ HandleStatelessTxn(m)
    BY <2>1, StatelessTxnInv, UnexpectedInv
  <2>2. CASE HandleTxnLocal(t)
    BY <2>2, LocalInv, UnexpectedInv
  <2>3. QED
    BY <1>2, <2>1, <2>2, VerifyInv, RemoteInv, SetRemoteInv, CombinedInv, AwaitInv,
       HandleRequestInv, ReplyInv, HandleReplyInv DEF ProxyStep
<1>3. CASE UNCHANGED spVars
  <2>1. UNCHANGED vrVars
        /\ UNCHANGED <<oneshots, delivered, verification, verify_tx, handling, waits_on, requests,
                       serving, replies, panicked>>
    BY <1>3 DEF spVars, controllerVars, verifyVars, taskVars, peerVars
  <2>2. SPTypeOK'
    BY <2>1, TypeParts, SameTypes DEF SPInv, ControllerTypes, TaskTypes
  <2>3. \A t \in TxnId : TxnInv(t)'
    BY <2>1, UntouchedInv DEF SPInv, Untouched
  <2>4. MessagesOK'
    BY <2>1 DEF SPInv, vrVars, deploymentVars, MessagesOK, Sent, Home, Verifier, IsPrimarySeparation
  <2>5. QED
    BY <2>2, <2>3, <2>4 DEF SPInv
<1>4. QED
  BY <1>1, <1>2, <1>3 DEF SPNext

\* The invariant holds of every behaviour.
THEOREM StatelessInvariant == SPSpec => []SPInv
  BY SPInitInv, SPStepInv, PTL DEF SPSpec

(***************************************************************************)
(* The variables of the proxies' stateless path keep their types; every    *)
(* channel end that a controller or a task holds is one of a channel that  *)
(* a dependency call created.                                              *)
(***************************************************************************)
THEOREM SPTypeCorrect == SPSpec => []SPTypeOK
<1>1. SPInv => SPTypeOK
  BY DEF SPInv
<1>2. QED
  BY <1>1, StatelessInvariant, PTL

(***************************************************************************)
(* A transaction passes verification only after a verification of it has   *)
(* run, and none is skipped, in every separation mode and stateless mode   *)
(* and whatever order messages, requests and replies arrive in.            *)
(***************************************************************************)
THEOREM NeverUnverified == SPSpec => []VerifiedFirst
<1>1. SPInv => VerifiedFirst
  BY DEF SPInv, TxnInv, Results, Finished, VerifiedFirst
<1>2. QED
  BY <1>1, StatelessInvariant, PTL

(***************************************************************************)
(* rx.await.unwrap() of the transaction's task and of the peer's task never*)
(* panics: no awaited receiver has lost its sender without a result, even  *)
(* when a verification is requested twice or a reply overtakes the sender. *)
(***************************************************************************)
THEOREM NoReceiverAbandoned == SPSpec => []ReceiversNotAbandoned
<1>1. SPInv => ReceiversNotAbandoned
  <2> SUFFICES ASSUME SPInv, NEW t \in TxnId, NEW c \in {waits_on[t], serving[t]} \ {NoChannel}
               PROVE  (\E verified \in BOOLEAN : <<c, verified>> \in delivered) \/ SenderAlive(c)
    BY DEF ReceiversNotAbandoned
  <2>1. Live(c, t)
    BY DEF SPInv, TxnInv, Ends
  <2>2. \A by \in Forwarders : <<t, by>> \in Request
    BY DEF Request
  <2>3. QED
    BY <2>1, <2>2 DEF Live, UnderWay, HasResult, SenderAlive
<1>2. QED
  BY <1>1, StatelessInvariant, PTL

(***************************************************************************)
(* The controllers do not grow: a transaction that was verified once, by   *)
(* the proxy its message named, leaves no entry anywhere.                  *)
(***************************************************************************)
THEOREM EntriesCleared == SPSpec => []NoEntryLeft
<1>1. SPInv => NoEntryLeft
  <2> SUFFICES ASSUME SPInv, NEW t \in TxnId,
                      handling[t] = "verified", t \notin requests, serving[t] = NoChannel,
                      VerifiedBy(t) \subseteq {Verifier(t)},
                      ~ (t \in owned /\ mode = "PrimaryPreSeparation"),
                      NEW p \in Proxy
               PROVE  oneshots[p][t] = Vacant
    BY DEF NoEntryLeft
  <2>1. Left(t) /\ Single(t)
    BY DEF SPInv, TxnInv, Single
  <2>2. QED
    BY <2>1 DEF Left
<1>2. QED
  BY <1>1, StatelessInvariant, PTL

\* Where the primary does not separate, no transaction is without shared objects.
OwnedOnlySeparated ==
    \A d \in Deployments :
        d.owned # {} => d.mode \in {"PrimaryPreSeparation", "PrimaryPostSeparation"}

(***************************************************************************)
(* In a deployment that sends owned-object transactions only where the     *)
(* primary separates verification, no processor panics: none receives a    *)
(* message of a kind that its mode does not know, and the unwrap of        *)
(* handle_stateless_request always finds a receiver.                       *)
(***************************************************************************)
THEOREM ProcessorsSurvive ==
    ASSUME OwnedOnlySeparated PROVE SPSpec => []NoProcessorPanics
<1> DEFINE I == SPInv /\ NoProcessorPanics
<1>1. SPInit => I
  BY SPInitInv DEF SPInit, NoProcessorPanics
<1>2. I /\ [SPNext]_spVars => I'
  <2> SUFFICES ASSUME SPInv, NoProcessorPanics, [SPNext]_spVars PROVE panicked' = panicked
    BY SPStepInv DEF NoProcessorPanics
  <2>1. IsPrimarySeparation \/ owned = {}
    <3>1. [mode |-> mode, owned |-> owned, stateless_mode |-> stateless_mode] \in Deployments
      BY DEF SPInv, SPTypeOK
    <3>2. QED
      BY <3>1 DEF OwnedOnlySeparated, IsPrimarySeparation
  <2>2. CASE Primary
    BY <2>2 DEF Primary
  <2>3. ASSUME NEW t \in TxnId, ProxyStep(t) PROVE panicked' = panicked
    <3>1. CASE \E m \in stateless_sent : m.txn = t /\ HandleStatelessTxn(m)
      BY <2>1, <3>1, StatelessTxnInv, UnexpectedInv
    <3>2. CASE HandleTxnLocal(t)
      BY <2>1, <3>2, LocalInv, UnexpectedInv
    <3>3. CASE HandleStatelessRequest(t)
      BY <3>3, HandleRequestInv
    <3>4. QED
      BY <2>3, <3>1, <3>2, <3>3 DEF ProxyStep, VerifyTransaction, HandleTxnRemote, SetRemote,
         HandleCombinedTxn, AwaitVerification, ReplyStateless, HandleStatelessReply
  <2>4. CASE UNCHANGED spVars
    BY <2>4 DEF spVars
  <2>5. QED
    BY <2>2, <2>3, <2>4 DEF SPNext
<1>3. QED
  BY <1>1, <1>2, PTL DEF SPSpec

=============================================================================
