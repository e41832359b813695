-------------------------------- MODULE Tpcc --------------------------------
(***************************************************************************)
(* The TPC-C executor on a proxy: NEW_ORDER and PAYMENT transactions over  *)
(* versioned warehouse, district, customer and stock objects.  Each        *)
(* transaction has a task of its own; it waits for its predecessors, does  *)
(* the version check, reads its inputs into a cache, computes, and inserts *)
(* the new objects into the store one by one, while other tasks run.       *)
(*                                                                         *)
(* An object is named by the key its identifier is hashed from; that two   *)
(* keys never share a hash is assumed.  Items, names, taxes and prices are *)
(* read but never influence what is written, so they are left out.  After  *)
(* a skipped transaction the node's assertion on its result may end the    *)
(* process (ProxyCore); that only cuts the behaviours here short.          *)
(***************************************************************************)
EXTENDS TpccGenerator, VersionAssignment, Integers, SequencesExt

CONSTANTS
    StockQuantity,  \* initial stock quantities to start from
    MayFail         \* positions whose stateless verification may fail

VARIABLES
    submitted,   \* task -> how many of its transactions consensus has committed
    txns,        \* the committed transactions, in order
    store,       \* object -> [version, contents]
    stage,       \* transaction -> progress of its task
    cache,       \* transaction -> the objects its task has read
    new_state,   \* transaction -> the objects it writes
    inserted     \* transaction -> those of them that are in the store

(* Primary keys: TpccState::object_id_for_*.                               *)
object_id_for_warehouse(w) == <<"W", w>>
object_id_for_district(w, d) == <<"D", w, d>>
object_id_for_customer(w, d, c) == <<"C", w, d, c>>
object_id_for_stock(w, i) == <<"S", w, i>>

WarehouseIds == {object_id_for_warehouse(w) : w \in Warehouses}
DistrictIds == {object_id_for_district(w, d) :
                   w \in Warehouses, d \in Districts}
CustomerIds == {object_id_for_customer(w, d, c) :
                   w \in Warehouses, d \in Districts, c \in Customers}
StockIds == {object_id_for_stock(w, i) : w \in Warehouses, i \in Items}
TpccObjects == WarehouseIds \cup DistrictIds \cup CustomerIds \cup StockIds

ASSUME TpccAssumption ==
    /\ Object = TpccObjects
    /\ MaxTxns = TotalTxns
    /\ StockQuantity \subseteq 10..100
    /\ MayFail \subseteq 1..MaxTxns

orderVars == <<shared_object_versions, assigned, submitted, txns>>
execVars == <<store, stage, cache, new_state, inserted>>
tpccVars == <<tgVars, orderVars, execVars>>

TxnId == 1..MaxTxns

-----------------------------------------------------------------------------
(* transactions.rs: what a transaction touches.                            *)

StockOf(line) == object_id_for_stock(line.supply_w_id, line.i_id)

CustomerOf(txn) ==
    IF txn.kind = "NewOrder" THEN object_id_for_customer(txn.w_id, txn.d_id, txn.c_id)
    ELSE object_id_for_customer(txn.customer_of[1], txn.customer_of[2], txn.c_id)

Stocks(txn) == IF txn.kind = "NewOrder" THEN {StockOf(line) : line \in Range(txn.items)} ELSE {}

read_set(txn) ==
    {object_id_for_warehouse(txn.w_id), object_id_for_district(txn.w_id, txn.d_id),
     CustomerOf(txn)} \cup Stocks(txn)

write_set(txn) ==
    {object_id_for_district(txn.w_id, txn.d_id)} \cup Stocks(txn) \cup
    (IF txn.kind = "Payment"
     THEN {object_id_for_warehouse(txn.w_id), CustomerOf(txn)} ELSE {})

access_set(txn) == read_set(txn) \cup write_set(txn)

-----------------------------------------------------------------------------
(* data.rs: the rows, reduced to what transactions change, and the objects *)
(* that hold them.                                                         *)

Warehouse == [w_ytd : Int]
District == [d_ytd : Int, d_next_o_id : Nat]
Customer == [c_balance : Int, c_ytd_payment : Int, c_payment_cnt : Nat]
Stock == [s_quantity : Int, s_ytd : Nat, s_order_cnt : Nat, s_remote_cnt : Nat]

\* The contents of an object start with its identifier.
encode_tpcc_object(id, version, data) ==
    [version |-> version, contents |-> [id |-> id, data |-> data]]

decode_tpcc_data(object) == object.contents.data

read_tpcc_data(id) == decode_tpcc_data(store[id])

update_object_with_version(object, version) == [object EXCEPT !.version = version]

-----------------------------------------------------------------------------
(* init_objects.                                                           *)

INITIAL_W_YTD_CENTS == 30000000
INITIAL_D_YTD_CENTS == 3000000
INITIAL_BALANCE_CENTS == -1000
INITIAL_YTD_PAYMENT_CENTS == 1000
INITIAL_NEXT_O_ID == 3001

InitialData(id, quantity) ==
    CASE id[1] = "W" -> [w_ytd |-> INITIAL_W_YTD_CENTS]
      [] id[1] = "D" -> [d_ytd |-> INITIAL_D_YTD_CENTS, d_next_o_id |-> INITIAL_NEXT_O_ID]
      [] id[1] = "C" -> [c_balance |-> INITIAL_BALANCE_CENTS,
                                c_ytd_payment |-> INITIAL_YTD_PAYMENT_CENTS,
                                c_payment_cnt |-> 1]
      [] id[1] = "S" -> [s_quantity |-> quantity, s_ytd |-> 0, s_order_cnt |-> 0,
                             s_remote_cnt |-> 0]

TpccInit ==
    /\ TGInit
    /\ VAInit
    /\ submitted = [g \in GenTask |-> 0]
    /\ txns = << >>
    /\ \E q \in StockQuantity :
          store = [id \in TpccObjects |->
                      encode_tpcc_object(id, InitialVersion, InitialData(id, q))]
    /\ stage = [t \in TxnId |-> "absent"]
    /\ cache = [t \in TxnId |-> << >>]
    /\ new_state = [t \in TxnId |-> << >>]
    /\ inserted = [t \in TxnId |-> {}]

-----------------------------------------------------------------------------
(* The business logic, on a function from object to data.                  *)

\* Mutant: restocking a unit late.
Restock_Late(quantity, ordered) ==
    IF quantity >= ordered + 9 THEN quantity - ordered ELSE quantity + 91 - ordered

Restock(quantity, ordered) ==
    IF quantity >= ordered + 10 THEN quantity - ordered ELSE quantity + 91 - ordered

\* One order line on the stocks read so far; a stock ordered twice is updated twice.
OrderLine(w, stocks, line) ==
    [stocks EXCEPT ![StockOf(line)] =
        [s_quantity |-> Restock(@.s_quantity, line.quantity),
         s_ytd |-> @.s_ytd + line.quantity,
         s_order_cnt |-> @.s_order_cnt + 1,
         s_remote_cnt |-> IF line.supply_w_id # w THEN @.s_remote_cnt + 1
                                                 ELSE @.s_remote_cnt]]

\* Mutant: the order number is read but not advanced.
execute_new_order_SameNumber(data, txn) ==
    [id \in Stocks(txn) |-> FoldLeft(LAMBDA s, line : OrderLine(txn.w_id, s, line),
                                     [x \in Stocks(txn) |-> data[x]], txn.items)[id]]

execute_new_order(data, txn) ==
    LET district == object_id_for_district(txn.w_id, txn.d_id)
        stocks == FoldLeft(LAMBDA s, line : OrderLine(txn.w_id, s, line),
                           [id \in Stocks(txn) |-> data[id]], txn.items)
    IN  [id \in {district} \cup Stocks(txn) |->
            IF id = district THEN [data[id] EXCEPT !.d_next_o_id = @ + 1] ELSE stocks[id]]

\* Mutant: the warehouse total is forgotten.
execute_payment_NoWarehouse(data, txn) ==
    LET district == object_id_for_district(txn.w_id, txn.d_id)
        h == txn.h_amount
    IN  [id \in {district, CustomerOf(txn)} |->
            IF id = district THEN [data[id] EXCEPT !.d_ytd = @ + h]
            ELSE [data[id] EXCEPT !.c_balance = @ - h, !.c_ytd_payment = @ + h,
                                  !.c_payment_cnt = @ + 1]]

execute_payment(data, txn) ==
    LET warehouse == object_id_for_warehouse(txn.w_id)
        district == object_id_for_district(txn.w_id, txn.d_id)
        h == txn.h_amount
    IN  [id \in {warehouse, district, CustomerOf(txn)} |->
            CASE id = warehouse -> [data[id] EXCEPT !.w_ytd = @ + h]
              [] id = district -> [data[id] EXCEPT !.d_ytd = @ + h]
              [] OTHER -> [data[id] EXCEPT !.c_balance = @ - h, !.c_ytd_payment = @ + h,
                                           !.c_payment_cnt = @ + 1]]

execute_tpcc_logic(data, txn) ==
    IF txn.kind = "NewOrder" THEN execute_new_order(data, txn) ELSE execute_payment(data, txn)

-----------------------------------------------------------------------------
(* Consensus commits the tasks' transactions in some interleaving.         *)

Commit(g) ==
    /\ Generated
    /\ submitted[g] < Len(chunk[g])
    /\ LET txn == chunk[g][submitted[g] + 1]
       IN  /\ txns' = Append(txns, txn)
           /\ AssignSharedObjectVersions(access_set(txn))
           /\ stage' = [stage EXCEPT ![Len(txns) + 1] = "await"]
    /\ submitted' = [submitted EXCEPT ![g] = @ + 1]
    /\ UNCHANGED <<tgVars, store, cache, new_state, inserted>>

\* Mutant: no wait.
PriorNotified_None(t) == TRUE

\* The dependency controller: every predecessor has notified.
PriorNotified(t) ==
    \A o \in Objects(t), i \in 1..(t - 1) :
        Predecessor(i, t, o) => stage[i] \in {"done", "skipped"}

pre_execute_check(t) == \A o \in Objects(t) : store[o].version = assigned[t][o]

\* The task after its waits: run, or give an empty result and wake the successors.
CheckTxn(t) ==
    /\ stage[t] = "await"
    /\ PriorNotified(t)
    /\ \E verified \in IF t \in MayFail THEN BOOLEAN ELSE {TRUE} :
          stage' = [stage EXCEPT ![t] =
                       IF verified /\ pre_execute_check(t) THEN "execute" ELSE "skipped"]
    /\ UNCHANGED <<tgVars, orderVars, store, cache, new_state, inserted>>

(***************************************************************************)
(* execute up to commit_objects: every input comes out at the next version,*)
(* with new content if the logic wrote it and its old content otherwise.   *)
(***************************************************************************)
ExecuteTxn(t) ==
    LET read == [o \in Objects(t) |-> read_tpcc_data(o)]
        updated == execute_tpcc_logic(read, txns[t])
        version == NextVersion(assigned[t])
    IN
    /\ stage[t] = "execute"
    /\ cache' = [cache EXCEPT ![t] = read]
    /\ new_state' = [new_state EXCEPT ![t] =
          [o \in Objects(t) |->
              IF o \in DOMAIN updated THEN encode_tpcc_object(o, version, updated[o])
              ELSE update_object_with_version(store[o], version)]]
    /\ stage' = [stage EXCEPT ![t] = "commit"]
    /\ UNCHANGED <<tgVars, orderVars, store, inserted>>

\* commit_objects inserts object by object, in one fixed order.
CommitObject(t) ==
    /\ stage[t] = "commit"
    /\ Objects(t) # inserted[t]
    /\ LET o == CHOOSE x \in Objects(t) \ inserted[t] : TRUE
       IN  /\ store' = [store EXCEPT ![o] = new_state[t][o]]
           /\ inserted' = [inserted EXCEPT ![t] = @ \cup {o}]
    /\ UNCHANGED <<tgVars, orderVars, stage, cache, new_state>>

\* The result is complete and the successors are notified.
NotifyTxn(t) ==
    /\ stage[t] = "commit"
    /\ Objects(t) = inserted[t]
    /\ stage' = [stage EXCEPT ![t] = "done"]
    /\ UNCHANGED <<tgVars, orderVars, store, cache, new_state, inserted>>

TaskStep(t) == CheckTxn(t) \/ ExecuteTxn(t) \/ CommitObject(t) \/ NotifyTxn(t)

AllDone == \A t \in TxnId : stage[t] \in {"done", "skipped"}

\* A run of the model ends here, or with a generator task that never returns.
Finished == (AllDone \/ hung # {}) /\ UNCHANGED tpccVars

Generate(g) == GenerateTransaction(g) /\ UNCHANGED <<orderVars, execVars>>

TpccNext ==
    \/ \E g \in GenTask : Generate(g) \/ Commit(g)
    \/ \E t \in TxnId : TaskStep(t)
    \/ Finished

TpccSpec == TpccInit /\ [][TpccNext]_tpccVars

-----------------------------------------------------------------------------

(* The types of the variables. An object is filed under the identifier in its
   contents, as decode_tpcc_data asserts. A stock never leaves MIN_QUANTITY..MAX_QUANTITY
   (10..100): an order never takes the last ten, and restocking does not
   overfill. *)
TpccTypeOK ==
    /\ shared_object_versions \in [TpccObjects -> {Absent} \cup Version]
    /\ Len(txns) = Len(assigned) /\ Len(txns) <= MaxTxns
    /\ \A t \in DOMAIN txns : txns[t] \in TpccTransaction
    /\ submitted \in [GenTask -> 0..TotalTxns]
    /\ DOMAIN store = TpccObjects
    /\ \A o \in TpccObjects : store[o].version \in Version
    /\ \A o \in TpccObjects : store[o].contents.id = o
    /\ \A o \in WarehouseIds : read_tpcc_data(o) \in Warehouse
    /\ \A o \in DistrictIds : read_tpcc_data(o) \in District
    /\ \A o \in CustomerIds : read_tpcc_data(o) \in Customer
    /\ \A o \in StockIds : read_tpcc_data(o) \in Stock /\ read_tpcc_data(o).s_quantity \in 10..100
    /\ stage \in [TxnId -> {"absent", "await", "execute", "commit", "done", "skipped"}]
    /\ \A t \in TxnId : stage[t] \in {"commit", "done"} <=> new_state[t] # << >>

(***************************************************************************)
(* A transaction is skipped exactly when it failed verification itself or  *)
(* one of its predecessors was skipped.  The wait for the predecessors     *)
(* keeps the version check from failing for any other reason, and the      *)
(* check keeps a transaction from running on objects that a skipped one    *)
(* should have written: one without the other does not do.                 *)
(***************************************************************************)
SkipsCascade ==
    \A t \in Txns :
        LET cut == \E o \in Objects(t), i \in 1..(t - 1) :
                      Predecessor(i, t, o) /\ stage[i] = "skipped"
        IN  /\ stage[t] = "skipped" => cut \/ t \in MayFail
            /\ stage[t] \in {"execute", "commit", "done"} => ~cut

\* Line i of the transaction orders stock s.
IsLine(txn, i, s) ==
    txn.kind = "NewOrder" /\ i \in DOMAIN txn.items /\ StockOf(txn.items[i]) = s

(***************************************************************************)
(* TPC-C consistency: between commits the year-to-date payments of a       *)
(* warehouse are the sum over its districts, no money is created at a      *)
(* customer, and a stock's total matches the order lines on it.            *)
(***************************************************************************)
BooksBalance ==
    (\A t \in Txns : stage[t] # "commit") =>
        /\ \A w \in Warehouses :
              read_tpcc_data(object_id_for_warehouse(w)).w_ytd - INITIAL_W_YTD_CENTS =
                 FoldSet(LAMBDA d, sum : sum - INITIAL_D_YTD_CENTS
                                             + read_tpcc_data(object_id_for_district(w, d)).d_ytd,
                         0, Districts)
        /\ \A c \in CustomerIds :
              read_tpcc_data(c).c_balance + read_tpcc_data(c).c_ytd_payment = 0
        /\ \A s \in StockIds :
              read_tpcc_data(s).s_order_cnt =
                 Cardinality({p \in Txns \X (1..Max(OrderCounts \cup {0})) :
                     stage[p[1]] = "done" /\ IsLine(txns[p[1]], p[2], s)})

(***************************************************************************)
(* The order numbers a district hands out are consecutive from 3001 in the *)
(* committed order, without gap or repetition, although tasks read and     *)
(* increment d_next_o_id concurrently and some transactions are skipped.   *)
(***************************************************************************)
OrderNumbersDense ==
    \A t \in Txns :
        stage[t] \in {"commit", "done"} /\ txns[t].kind = "NewOrder" =>
            LET d == object_id_for_district(txns[t].w_id, txns[t].d_id)
            IN  cache[t][d].d_next_o_id = INITIAL_NEXT_O_ID +
                    Cardinality({i \in 1..(t - 1) :
                        /\ txns[i].kind = "NewOrder" /\ stage[i] # "skipped"
                        /\ object_id_for_district(txns[i].w_id, txns[i].d_id) = d})

=============================================================================
