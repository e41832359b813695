--------------------- MODULE OneshotDependencyController ---------------------
(***************************************************************************)
(* The map from a transaction to the two ends of the oneshot channel that  *)
(* carries its verification result.  Whoever comes first - the verifier or *)
(* the one who wants the result - creates the channel, keeps one end and   *)
(* leaves the other in the map.                                            *)
(*                                                                         *)
(* A map is a function from transactions to entries; an end that is not in *)
(* the entry is NoChannel.  An operation that may create a channel is      *)
(* given the new channel as its last argument.                             *)
(***************************************************************************)

NoChannel == << >>

Entry(rx, tx) == [present |-> TRUE, rx |-> rx, tx |-> tx]
Vacant == [present |-> FALSE, rx |-> NoChannel, tx |-> NoChannel]

NewOneshots(txns) == [t \in txns |-> Vacant]

\* Replaces whatever the entry held; the caller gets the receiver, c.
set_remote_dependency(map, t, c) == [map EXCEPT ![t] = Entry(NoChannel, c)]

\* Mutant: a waiting receiver's sender is not handed over.
set_local_dependency_Fresh(map, t, c) ==
    [map |-> [map EXCEPT ![t] = Entry(c, NoChannel)], tx |-> c]

\* The verifier's side: the sender somebody left, or one of a new channel.
set_local_dependency(map, t, c) ==
    IF map[t].tx # NoChannel
    THEN [map |-> [map EXCEPT ![t].tx = NoChannel], tx |-> map[t].tx]
    ELSE [map |-> [map EXCEPT ![t] = Entry(c, NoChannel)], tx |-> c]

\* Mutants: no channel is created when the verifier has not come yet; the
\* receiver the verifier left is not used.
get_dependency_NoCreate(map, t, c) ==
    [map |-> [map EXCEPT ![t] = Vacant], rx |-> map[t].rx]

get_dependency_Fresh(map, t, c) ==
    [map |-> [map EXCEPT ![t] = Entry(NoChannel, c)], rx |-> c]

\* The waiting side: the receiver somebody left, or one of a new channel.
get_dependency(map, t, c) ==
    LET e == map[t]
    IN  IF e.present
        THEN [map |-> [map EXCEPT ![t] = IF e.tx # NoChannel THEN Entry(NoChannel, e.tx)
                                                              ELSE Vacant],
              rx |-> e.rx]
        ELSE [map |-> [map EXCEPT ![t] = Entry(NoChannel, c)], rx |-> c]

\* The sender of a remote dependency, when the remote result has come in.
take_signal(map, t) ==
    LET e == map[t]
    IN  [map |-> [map EXCEPT ![t] = IF e.rx # NoChannel THEN Entry(e.rx, NoChannel)
                                                         ELSE Vacant],
         tx |-> e.tx]

\* Mutant: nothing is removed.
forget_dependency_Nothing(map, t) == map

\* The code's remove_dependency.
forget_dependency(map, t) == [map EXCEPT ![t] = Vacant]

=============================================================================
