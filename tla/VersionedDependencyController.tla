-------------------- MODULE VersionedDependencyController --------------------
(***************************************************************************)
(* The map from (object, version) to a Notify that the primary's forwarder *)
(* and every proxy use to order tasks.  A task asks for the Notify of each *)
(* version it needs (to wait on) and of the version it will produce (to    *)
(* signal); whoever asks first creates it, and the waiter removes it.      *)
(*                                                                         *)
(* A controller is a function from keys <<object, version>> to the task    *)
(* that created the entry's Notify, NoTask where the map has no entry.     *)
(* A Notify is <<object, version, creator>>: if an entry is removed and    *)
(* created again, the two Notifys differ, as two Arc<Notify> do, and a     *)
(* signal to one does not wake a waiter on the other.  The code calls the  *)
(* map's operations key by key; each is an atomic get-or-create or remove, *)
(* so taking the keys of one call together only merges steps that commute. *)
(*                                                                         *)
(* tokio::sync::Notify, external: notify_one stores a permit that the next *)
(* notified().await consumes.  The stored permits are a set of Notifys.    *)
(***************************************************************************)
EXTENDS Naturals, FiniteSetsExt

NoTask == << >>

\* The controller's own copy of the version that needs no waiting.
initial_version == 2

NewController(objects, versions) == [k \in objects \X versions |-> NoTask]

(***************************************************************************)
(* One above the highest required version; the code panics on an empty     *)
(* list, which callers exclude.                                            *)
(***************************************************************************)
calculate_next_version(required) == Max(Range(required)) + 1

\* The (object, version) keys of a list of required versions.
Keys(required) == {<<o, required[o]>> : o \in DOMAIN required}

\* Mutant: the first version ever produced is not waited for either.
PriorKeys_OffByOne(required) == {k \in Keys(required) : k[2] > initial_version + 1}

PriorKeys(required) == {k \in Keys(required) : k[2] > initial_version}

NextKeys(required) ==
    {<<o, calculate_next_version(required)>> : o \in DOMAIN required}

\* Mutant: an existing entry is replaced.
entry_helper_Overwrite(map, keys, task) ==
    [k \in DOMAIN map |-> IF k \in keys THEN task ELSE map[k]]

\* entry_helper on each key: keep the entry if there is one, else create it.
entry_helper(map, keys, task) ==
    [k \in DOMAIN map |-> IF k \in keys /\ map[k] = NoTask THEN task ELSE map[k]]

\* The Notifys that a map holds for some keys.
Handles(map, keys) == {<<k[1], k[2], map[k]>> : k \in keys}

(***************************************************************************)
(* get_prior_dependency_and_update: the map afterwards, the Notifys to     *)
(* wait on and the Notifys to signal.                                      *)
(***************************************************************************)
get_prior_dependency_and_update(map, task, required, ignore_prior, ignore_next) ==
    LET prior == IF ignore_prior THEN {} ELSE PriorKeys(required)
        next  == IF ignore_next THEN {} ELSE NextKeys(required)
        after == entry_helper(map, prior \cup next, task)
    IN  [map |-> after, prior |-> Handles(after, prior), next |-> Handles(after, next)]

\* Mutant: nothing is removed.
remove_dependency_Nothing(map, required) == map

remove_dependency(map, required) ==
    [k \in DOMAIN map |-> IF k \in Keys(required) THEN NoTask ELSE map[k]]

(***************************************************************************)
(* Handles are awaited in the order of the objects (the shared objects of  *)
(* a transaction are a BTreeMap).                                          *)
(***************************************************************************)
FirstHandle(handles) == CHOOSE h \in handles : \A g \in handles : h[1] <= g[1]

=============================================================================
