---------------------------- MODULE TpccGenerator ----------------------------
(***************************************************************************)
(* The TPC-C workload: which transactions the load generator can produce.  *)
(* The total is split over generator tasks that run in parallel, each with *)
(* its own random source and its own hotspot that moves from node to node. *)
(*                                                                         *)
(* A random draw is a choice from its support.  The probability of drawing *)
(* from the hotspot matters only as 0, something between, or 1.            *)
(***************************************************************************)
EXTENDS Naturals, Sequences, FiniteSets

CONSTANTS
    NumWarehouses,   \* warehouses, numbered from 1
    NumNodes,        \* nodes among which the warehouses are dealt
    Hotspots,        \* hotspot_percentage: a subset of {"none", "some", "all"}
    RotationInterval, ExpectedTps,
    TotalTxns,       \* transactions to generate
    NumTasks,        \* generator tasks (16 in the code)
    Districts,       \* districts, customers, items, numbers of order lines,
    Customers,       \* quantities and amounts that are drawn
    Items, OrderCounts, Quantities, Amounts

ASSUME TGAssumption ==
    /\ NumWarehouses \in Nat \ {0}
    /\ NumNodes \in Nat \ {0}
    /\ Hotspots \subseteq {"none", "some", "all"}
    /\ {RotationInterval, ExpectedTps, TotalTxns} \subseteq Nat
    /\ NumTasks \in Nat \ {0}
    /\ IsFiniteSet(Districts)
    /\ IsFiniteSet(OrderCounts) /\ OrderCounts \subseteq Nat
    /\ Quantities \subseteq 1..10
    /\ Amounts \subseteq Nat

VARIABLES
    hotspot_percentage,
    current_hotspot_node,      \* task -> node
    txn_count_since_rotation,  \* task -> count
    chunk,                     \* task -> transactions generated so far
    hung                       \* tasks that draw for ever

tgVars == <<hotspot_percentage, current_hotspot_node, txn_count_since_rotation, chunk, hung>>

GenTask == 0..(NumTasks - 1)
Warehouses == 1..NumWarehouses

\* A transaction and its parameters; customer_of is the customer's warehouse and district.
OrderItem == [i_id : Items, supply_w_id : Warehouses, quantity : Quantities]

TpccTransaction ==
    [kind : {"NewOrder"}, w_id : Warehouses, d_id : Districts, c_id : Customers,
     items : Seq(OrderItem)]
      \cup [kind : {"Payment"}, w_id : Warehouses, d_id : Districts, c_id : Customers,
            h_amount : Amounts, customer_of : Warehouses \X Districts]

CeilDiv(a, b) == (a + b - 1) \div b

\* generate_transactions: how many transactions task g generates.
ChunkCount(g) ==
    LET size == CeilDiv(TotalTxns, NumTasks)
        end == IF (g + 1) * size < TotalTxns THEN (g + 1) * size ELSE TotalTxns
    IN  IF end > g * size THEN end - g * size ELSE 0

TGInit ==
    /\ hotspot_percentage \in Hotspots
    /\ current_hotspot_node = [g \in GenTask |-> 0]
    /\ txn_count_since_rotation = [g \in GenTask |-> 0]
    /\ chunk = [g \in GenTask |-> << >>]
    /\ hung = {}

-----------------------------------------------------------------------------
(* Draws.                                                                  *)

warehouse_to_node(w) == (w - 1) % NumNodes

warehouses_on_node(n) == {w \in Warehouses : warehouse_to_node(w) = n}

\* A node without warehouses falls back to all of them.
random_warehouse_from_node(n) ==
    IF warehouses_on_node(n) = {} THEN Warehouses ELSE warehouses_on_node(n)

\* Mutant: every draw goes to the hotspot.
random_warehouse_HotOnly(n) == random_warehouse_from_node(n)

random_warehouse(n) ==
    IF hotspot_percentage = "none" \/ NumNodes <= 1 THEN Warehouses
    ELSE random_warehouse_from_node(n) \cup
         (IF hotspot_percentage = "all" THEN {} ELSE Warehouses)

\* Draws again until the result differs from w: never, when this set is empty.
random_warehouse_excluding(n, w) == random_warehouse(n) \ {w}

order_lines(n, w) ==
    [i_id : Items, supply_w_id : {w}, quantity : Quantities] \cup
    (IF NumWarehouses > 1
     THEN [i_id : Items, supply_w_id : random_warehouse_excluding(n, w), quantity : Quantities]
     ELSE {})

generate_new_order(n) ==
    UNION {[kind : {"NewOrder"}, w_id : {w}, d_id : Districts, c_id : Customers,
            items : UNION {[1..k -> order_lines(n, w)] : k \in OrderCounts}] :
              w \in random_warehouse(n)}

generate_payment(n) ==
    UNION {[kind : {"Payment"}, w_id : {w}, d_id : {d}, c_id : Customers, h_amount : Amounts,
            customer_of :
                {<<w, d>>} \cup
                (IF NumWarehouses > 1
                 THEN random_warehouse_excluding(n, w) \X Districts ELSE {})] :
              w \in random_warehouse(n), d \in Districts}

-----------------------------------------------------------------------------

\* Each task estimates the time that passed from the number it has generated.
TxnsPerRotation == CeilDiv(ExpectedTps, NumTasks) * RotationInterval

\* maybe_rotate_hotspot: the state of the hotspot for the next transaction.
maybe_rotate_hotspot(g) ==
    LET node == current_hotspot_node[g]
        count == txn_count_since_rotation[g]
    IN  IF RotationInterval = 0 \/ NumNodes <= 1 THEN [node |-> node, count |-> count]
        ELSE IF count + 1 >= TxnsPerRotation THEN [node |-> (node + 1) % NumNodes, count |-> 0]
        ELSE [node |-> node, count |-> count + 1]

(***************************************************************************)
(* One transaction of task g.  When a remote warehouse is wanted and the   *)
(* draw has no other outcome than the excluded one, the task never returns.*)
(***************************************************************************)
GenerateTransaction(g) ==
    LET hotspot == maybe_rotate_hotspot(g)
    IN
    /\ g \notin hung
    /\ Len(chunk[g]) < ChunkCount(g)
    /\ current_hotspot_node' = [current_hotspot_node EXCEPT ![g] = hotspot.node]
    /\ txn_count_since_rotation' = [txn_count_since_rotation EXCEPT ![g] = hotspot.count]
    /\ \/ /\ \E txn \in generate_new_order(hotspot.node) \cup generate_payment(hotspot.node) :
                chunk' = [chunk EXCEPT ![g] = Append(@, txn)]
          /\ hung' = hung
       \/ /\ NumWarehouses > 1
          /\ \E w \in random_warehouse(hotspot.node) :
                random_warehouse_excluding(hotspot.node, w) = {}
          /\ hung' = hung \cup {g}
          /\ chunk' = chunk
    /\ UNCHANGED hotspot_percentage

\* The tasks are joined before any transaction is submitted.
Generated == \A g \in GenTask : g \notin hung /\ Len(chunk[g]) = ChunkCount(g)

-----------------------------------------------------------------------------

(***************************************************************************)
(* random_warehouse_excluding draws until it gets another warehouse.       *)
(* Unless everything is drawn from the hotspot, no task draws for ever,    *)
(* and together they produce exactly the configured total, although that   *)
(* need not be a multiple of the number of tasks.  With everything drawn   *)
(* from the hotspot, a node with a single warehouse hangs its task.        *)
(***************************************************************************)
GenerationExact ==
    /\ hung # {} => hotspot_percentage = "all"
    /\ Generated => Cardinality({p \in GenTask \X (1..TotalTxns) :
                                    p[2] <= Len(chunk[p[1]])}) = TotalTxns

=============================================================================
