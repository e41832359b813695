------------------------------- MODULE Network -------------------------------
(***************************************************************************)
(* The TCP layer between load generator, primary and proxies.  A link is   *)
(* one connection, seen in the direction in which messages flow: the       *)
(* queue of the connecting side, its writer, the bytes under way, and the  *)
(* accepting side's reader, which hands the messages to a channel.  The    *)
(* accepting side never writes: either its application keeps the           *)
(* connection and stays silent, or it drops it and the write half ends.    *)
(*                                                                         *)
(* A message is one frame.  A connection can break; nobody reconnects.     *)
(***************************************************************************)
EXTENDS Naturals, Sequences, SequencesExt

CONSTANTS
    Link,
    Kept,           \* links whose accepting application keeps its connections
    Oversized,      \* messages that may be longer than MAX_MESSAGE_SIZE
    MAX_BATCH_SIZE  \* messages taken from the queue for one write

ASSUME NWAssumption == Kept \subseteq Link /\ MAX_BATCH_SIZE \in Nat \ {0}

VARIABLES
    oversized,   \* messages that are longer than that
    listening,   \* link -> the accept loop: "no", "yes", or "stopped"
    stream,      \* link -> "none", "up" or "broken"
    outgoing,    \* link -> rx_outgoing: the queue of the connecting side
    sender,      \* link -> somebody can still put a message into that queue
    writer,      \* link -> "off", "on" or "done": the connecting side's write half
    wire,        \* link -> frames written and not yet read
    reader,      \* link -> "off", "on" or "done": the accepting side's read half
    frames       \* link -> frames of the last read, not yet handed on

nwVars == <<oversized, listening, stream, outgoing, sender, writer, wire, reader, frames>>

NWInit ==
    /\ oversized \in SUBSET Oversized
    /\ listening = [l \in Link |-> "no"]
    /\ stream = [l \in Link |-> "none"]
    /\ outgoing = [l \in Link |-> << >>]
    /\ sender = [l \in Link |-> TRUE]
    /\ writer = [l \in Link |-> "off"]
    /\ wire = [l \in Link |-> << >>]
    /\ reader = [l \in Link |-> "off"]
    /\ frames = [l \in Link |-> << >>]

\* NetworkServer::run binds its address, at which the links L arrive.
Listen(L) ==
    /\ \A l \in L : listening[l] = "no"
    /\ listening' = [l \in Link |-> IF l \in L THEN "yes" ELSE listening[l]]
    /\ UNCHANGED <<oversized, stream, outgoing, sender, writer, wire, reader, frames>>

(***************************************************************************)
(* The client, which tries once a second, meets a listening server.  The   *)
(* server starts a worker, then gives the connection to its application;   *)
(* where nobody takes it, the accept loop ends after this one connection,  *)
(* and the worker's write half ends too.                                   *)
(***************************************************************************)
Connect(l) ==
    /\ listening[l] = "yes"
    /\ stream[l] = "none"
    /\ stream' = [stream EXCEPT ![l] = "up"]
    /\ writer' = [writer EXCEPT ![l] = "on"]
    /\ reader' = [reader EXCEPT ![l] = "on"]
    /\ listening' = IF l \in Kept THEN listening ELSE [listening EXCEPT ![l] = "stopped"]
    /\ UNCHANGED <<oversized, outgoing, sender, wire, frames>>

-----------------------------------------------------------------------------
(* The connecting side.                                                    *)

\* The application puts a message into the queue; this fails once the writer is gone.
Accepts(l) == writer[l] # "done"

Enqueue(l, m) == outgoing' = [outgoing EXCEPT ![l] = Append(@, m)]

\* Mutant: buffer.clear() forgotten; what was written is written again.
Dequeued_Kept(l, k) == SubSeq(outgoing[l], k, Len(outgoing[l]))

\* The queue after recv_many took k messages.
Dequeued(l, k) == SubSeq(outgoing[l], k + 1, Len(outgoing[l]))

(***************************************************************************)
(* handle_write_stream: write a batch, or end when no sender is left.  On  *)
(* a broken stream the write fails and the queue goes with the writer.     *)
(***************************************************************************)
Write(l) ==
    /\ writer[l] = "on"
    /\ \/ /\ outgoing[l] # << >> /\ stream[l] = "up"
          /\ \E k \in 1..MAX_BATCH_SIZE :
                /\ k <= Len(outgoing[l])
                /\ wire' = [wire EXCEPT ![l] = @ \o SubSeq(outgoing[l], 1, k)]
                /\ outgoing' = [outgoing EXCEPT ![l] = Dequeued(l, k)]
          /\ writer' = writer
       \/ /\ outgoing[l] # << >> /\ stream[l] = "broken"
          /\ writer' = [writer EXCEPT ![l] = "done"]
          /\ outgoing' = [outgoing EXCEPT ![l] = << >>]
          /\ wire' = wire
       \/ /\ outgoing[l] = << >> /\ ~ sender[l]
          /\ writer' = [writer EXCEPT ![l] = "done"]
          /\ UNCHANGED <<outgoing, wire>>
    /\ UNCHANGED <<oversized, listening, stream, sender, reader, frames>>

-----------------------------------------------------------------------------
(* The accepting side.                                                     *)

\* Mutant: select! instead of join!; the reader ends with the writer.
ReaderRuns_Select(l) == reader[l] = "on" /\ l \in Kept

\* join! keeps the read half going when the write half has ended.
ReaderRuns(l) == reader[l] = "on"

(***************************************************************************)
(* handle_read_stream, when all frames of the last read are handed on: a   *)
(* read returns what has arrived, the end of the stream or an error.  A    *)
(* frame that is too long ends the reader, and takes with it the frames    *)
(* that came before it in the same read.                                   *)
(***************************************************************************)
Read(l) ==
    /\ ReaderRuns(l)
    /\ frames[l] = << >>
    /\ \/ /\ stream[l] = "up"
          /\ \E k \in 1..Len(wire[l]) :
                LET got == SubSeq(wire[l], 1, k)
                    tooLong == \E i \in 1..k : got[i] \in oversized
                IN  /\ wire' = [wire EXCEPT ![l] = SubSeq(@, k + 1, Len(@))]
                    /\ frames' = [frames EXCEPT ![l] = IF tooLong THEN << >> ELSE got]
                    /\ reader' = IF tooLong THEN [reader EXCEPT ![l] = "done"] ELSE reader
       \/ /\ \/ stream[l] = "broken"
             \/ wire[l] = << >> /\ writer[l] = "done"
          /\ reader' = [reader EXCEPT ![l] = "done"]
          /\ UNCHANGED <<wire, frames>>
    /\ UNCHANGED <<oversized, listening, stream, outgoing, sender, writer>>

\* Up to MAX_BATCH_SIZE frames are handed on concurrently: frame i is next.
TakeFrame(l, i) ==
    /\ i \in DOMAIN frames[l]
    /\ i <= MAX_BATCH_SIZE
    /\ frames' = [frames EXCEPT ![l] = RemoveAt(@, i)]
    /\ UNCHANGED <<oversized, listening, stream, outgoing, sender, writer, wire, reader>>

\* The connection is lost, with the bytes under way.
Break(l) ==
    /\ stream[l] = "up"
    /\ reader[l] = "on"
    /\ stream' = [stream EXCEPT ![l] = "broken"]
    /\ wire' = [wire EXCEPT ![l] = << >>]
    /\ UNCHANGED <<oversized, listening, outgoing, sender, writer, reader, frames>>

=============================================================================
