---------------------------- MODULE LoadGenerator ----------------------------
(***************************************************************************)
(* The load generator: it opens its connections one after the other, deals *)
(* the transactions out to them in equal chunks, submits every chunk from  *)
(* a thread of its own, and ends when all threads have submitted.          *)
(*                                                                         *)
(* When a transaction is submitted, and whether in the slow warm-up or     *)
(* after it, is left open.                                                 *)
(***************************************************************************)
EXTENDS Network

CONSTANTS
    NumClients,   \* NUM_CLIENTS
    NumTxns       \* transactions to submit

ASSUME LGAssumption ==
    /\ NumClients \in Nat \ {0}
    /\ NumTxns \in Nat \ {0}
    /\ 1..NumClients \subseteq Link

VARIABLES
    attempts,     \* connections tried so far
    senders,      \* the clients that are connected, in order
    chunks,       \* client -> what it has still to submit
    generator     \* "connecting", "running" or "exited"

lgVars == <<attempts, senders, chunks, generator>>

Client == 1..NumClients
Txn == 1..NumTxns

LGInit ==
    /\ attempts = 0
    /\ senders = << >>
    /\ chunks = [c \in Client |-> << >>]
    /\ generator = "connecting"

\* Ceiling division; the last chunk may be short or missing.
split_transactions ==
    LET size == (NumTxns + NumClients - 1) \div NumClients
        End(i) == IF i * size < NumTxns THEN i * size ELSE NumTxns
    IN  [i \in Client |-> [n \in 1..(End(i) - End(i - 1)) |-> End(i - 1) + n]]

\* The next client connects; without a socket it is left out.
ConnectClient(c) ==
    /\ generator = "connecting"
    /\ c = attempts + 1
    /\ attempts' = c
    /\ Connect(c)
    /\ senders' = Append(senders, c)
    /\ UNCHANGED <<chunks, generator>>

FailClient(c) ==
    /\ generator = "connecting"
    /\ c = attempts + 1
    /\ attempts' = c
    /\ UNCHANGED <<nwVars, senders, chunks, generator>>

\* real_run zips senders and chunks: the i-th sender gets the i-th chunk.
Dealt(c) ==
    IF \E i \in DOMAIN senders : senders[i] = c
    THEN split_transactions[CHOOSE i \in DOMAIN senders : senders[i] = c]
    ELSE << >>

\* A thread drops its sender when it is through; a sender without a chunk goes at once.
DropSenders == sender' = [l \in Link |-> IF l \in Client THEN chunks'[l] # << >> ELSE sender[l]]

StartRun ==
    /\ generator = "connecting"
    /\ attempts = NumClients
    /\ generator' = "running"
    /\ chunks' = [c \in Client |-> Dealt(c)]
    /\ DropSenders
    /\ UNCHANGED <<oversized, listening, stream, outgoing, writer, wire, reader, frames, attempts, senders>>

\* submit_transactions: one transaction; an error ends the thread.
SubmitTransaction(c) ==
    /\ generator = "running"
    /\ chunks[c] # << >>
    /\ IF Accepts(c)
       THEN /\ Enqueue(c, Head(chunks[c]))
            /\ chunks' = [chunks EXCEPT ![c] = Tail(@)]
       ELSE /\ outgoing' = outgoing
            /\ chunks' = [chunks EXCEPT ![c] = << >>]
    /\ DropSenders
    /\ UNCHANGED <<oversized, listening, stream, writer, wire, reader, frames, attempts, senders, generator>>

\* main returns: what the writers have not written is lost with the process.
Exit ==
    /\ generator = "running"
    /\ \A c \in Client : ~ sender[c]
    /\ generator' = "exited"
    /\ writer' = [l \in Link |-> IF l \in Client THEN "done" ELSE writer[l]]
    /\ outgoing' = [l \in Link |-> IF l \in Client THEN << >> ELSE outgoing[l]]
    /\ UNCHANGED <<oversized, listening, stream, sender, wire, reader, frames,
                   attempts, senders, chunks>>

=============================================================================
