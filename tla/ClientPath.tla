----------------------------- MODULE ClientPath ------------------------------
(***************************************************************************)
(* The way of a transaction from the load generator to a proxy: over a     *)
(* client's connection to the primary, through the consensus engine, and   *)
(* over the primary's connection to the proxy.  The engine's n-th arrival  *)
(* is the n-th transaction put into its channel.                           *)
(*                                                                         *)
(* The forwarders between consensus and proxy have modules of their own,   *)
(* which show that each transaction is forwarded once; here they forward   *)
(* in the committed order.                                                 *)
(***************************************************************************)
EXTENDS MockConsensus, LoadGenerator

CONSTANTS
    Proxy,        \* the link from the primary to the proxy
    ChannelSize,  \* DEFAULT_CHANNEL_SIZE
    MaxFaults     \* bound: oversized frames, and connections that fail or break

ASSUME CPAssumption ==
    /\ Link = Client \cup {Proxy} /\ Proxy \notin Client
    /\ Kept = Client
    /\ MaxArrivals = NumTxns
    /\ Oversized \subseteq Txn

VARIABLES
    rx_client_transactions, \* all that was put into the primary's channel
    rx_transactions,        \* all that was put into the proxy's channel
    forwarded,              \* committed transactions forwarded so far
    faults

cpVars == <<mcVars, nwVars, lgVars, rx_client_transactions, rx_transactions, forwarded, faults>>
pathVars == <<rx_client_transactions, rx_transactions, forwarded, faults>>

CPInit ==
    /\ MCInit /\ NWInit /\ LGInit
    /\ rx_client_transactions = << >>
    /\ rx_transactions = << >>
    /\ forwarded = 0
    /\ faults = Cardinality(oversized)

\* The primary and the proxy open their ports when they start.
StartServers ==
    /\ Listen(Client) \/ Listen({Proxy})
    /\ UNCHANGED <<mcVars, lgVars, pathVars>>

CommittedTxns == FlattenSeq(committed)

\* The load generator.
Generate ==
    /\ \/ \E c \in Client : ConnectClient(c) \/ SubmitTransaction(c)
       \/ StartRun
       \/ Exit
    /\ UNCHANGED <<mcVars, pathVars>>

\* The two ends of the connections.
Transfer ==
    /\ \/ \E l \in Link : Write(l) \/ Read(l)
       \/ Connect(Proxy)
    /\ UNCHANGED <<mcVars, lgVars, pathVars>>

\* A frame from a client goes into the channel of the engine, when there is
\* room; once the engine has stopped the channel is closed and it is dropped.
HandOnToPrimary(c) ==
    \E i \in DOMAIN frames[c] :
        /\ TakeFrame(c, i)
        /\ \/ /\ running
              /\ Len(rx_client_transactions) - arrived < ChannelSize
              /\ rx_client_transactions' = Append(rx_client_transactions, frames[c][i])
           \/ ~ running /\ UNCHANGED rx_client_transactions
        /\ UNCHANGED <<mcVars, lgVars, rx_transactions, forwarded, faults>>

\* A frame from the primary goes into the channel of the proxy.
HandOnToProxy ==
    \E i \in DOMAIN frames[Proxy] :
        /\ TakeFrame(Proxy, i)
        /\ rx_transactions' = Append(rx_transactions, frames[Proxy][i])
        /\ UNCHANGED <<mcVars, lgVars, rx_client_transactions, forwarded, faults>>

\* The consensus engine, on what is in its channel.
Consensus ==
    /\ \/ arrived < Len(rx_client_transactions) /\ ReceiveTransaction
       \/ TimerFires
       \/ \E batch \in waiter : DeliverCommit(batch)
    /\ UNCHANGED <<nwVars, lgVars, pathVars>>

\* The forwarder sends a committed transaction; a failure is a warning.
Forward ==
    /\ forwarded < Len(CommittedTxns)
    /\ forwarded' = forwarded + 1
    /\ IF Accepts(Proxy)
       THEN Enqueue(Proxy, rx_client_transactions[CommittedTxns[forwarded + 1]])
       ELSE UNCHANGED outgoing
    /\ UNCHANGED <<oversized, listening, stream, sender, writer, wire, reader, frames,
                   mcVars, lgVars, rx_client_transactions, rx_transactions, faults>>

\* What may go wrong: a socket, a connection, or a thread of the primary.
Fault ==
    /\ faults < MaxFaults
    /\ faults' = faults + 1
    /\ \/ \E c \in Client : FailClient(c) /\ UNCHANGED mcVars
       \/ \E l \in Link : Break(l) /\ UNCHANGED <<mcVars, lgVars>>
       \/ DropReceiver /\ UNCHANGED <<nwVars, lgVars>>
    /\ UNCHANGED <<rx_client_transactions, rx_transactions, forwarded>>

CPStep ==
    \/ StartServers \/ Generate \/ Transfer
    \/ \E c \in Client : HandOnToPrimary(c)
    \/ HandOnToProxy \/ Consensus \/ Forward

CPNext == CPStep \/ Fault

(***************************************************************************)
(* Tasks and threads that can move are run, ports are opened, and every    *)
(* delay ends.  No step repeats, so it is enough that some step is taken.  *)
(***************************************************************************)
CPSpec == CPInit /\ [][CPNext]_cpVars /\ WF_cpVars(CPStep)

-----------------------------------------------------------------------------

\* How often a transaction occurs in a sequence.
Occurs(t, s) == Cardinality({i \in DOMAIN s : s[i] = t})

UpTo(l) == FlattenSeq(<<outgoing[l], wire[l], frames[l]>>)

(***************************************************************************)
(* No transaction is ever in two places: not in two clients' hands, not    *)
(* twice under way, not delivered twice, whatever breaks.  And none is     *)
(* lost between the client threads and the primary's channel as long as    *)
(* nothing breaks and the load generator has not exited.                   *)
(***************************************************************************)
NeverTwice ==
    \A t \in Txn :
        LET places == Occurs(t, rx_client_transactions)
                + FoldFunction(LAMBDA s, n : Occurs(t, s) + n, 0,
                               [c \in Client |-> chunks[c] \o UpTo(c)])
        IN  /\ places <= 1
            /\ generator = "running" /\ faults = 0 => places = 1
            /\ Occurs(t, rx_transactions) + Occurs(t, UpTo(Proxy))
                 <= Occurs(t, rx_client_transactions)

(***************************************************************************)
(* What a client has written is read, and what arrives at the primary      *)
(* reaches the proxy, although the proxy drops the connection it is told   *)
(* of, although the load generator may exit before anything is read, and   *)
(* although batches overtake each other.  A fault excuses only what it     *)
(* hits: a reader that met a frame too long leaves the rest of its own     *)
(* connection unread, and only a broken connection to the proxy or an      *)
(* engine that has stopped keeps arrivals from the proxy.                  *)
(***************************************************************************)
WrittenReachesProxy ==
    []<>(/\ \A c \in Client :
              /\ frames[c] = << >>
              /\ wire[c] = << >> \/ (oversized # {} /\ reader[c] = "done")
         /\ \/ stream[Proxy] = "broken"
            \/ ~ running
            \/ \A t \in Range(rx_client_transactions) : Occurs(t, rx_transactions) = 1)

=============================================================================
