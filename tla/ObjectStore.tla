----------------------------- MODULE ObjectStore -----------------------------
(* object_DAO (io/dao/object_DAO.cpp): versions of objects with the dates from *)
(* and to which they are valid, in a table of sqlite, written through one      *)
(* connection with its cached statements (sql/sqlite/) and the guards of its   *)
(* transactions (sql/tx_guard.h).                                              *)
(*                                                                             *)
(* sqlite is external: a statement outside a transaction takes effect at once, *)
(* one inside when the transaction commits; a statement may be refused because *)
(* it would break the key, or because another connection holds the lock it     *)
(* needs; and the reset of a statement whose last step failed reports that     *)
(* failure once more.                                                          *)
EXTENDS Integers, FiniteSets

CONSTANTS
    Keys, Objects,
    MaxDate,        \* dates are 1..MaxDate (bound)
    MaxGuards,      \* guards that are alive at a time (bound)
    Guarded,        \* TRUE: callers write only under a guard
    Nil

ASSUME StoreAssumption ==
    /\ MaxDate \in Nat \ {0} /\ MaxGuards \in Nat \ {0} /\ Guarded \in BOOLEAN
    /\ Nil \notin Objects /\ Nil \notin 1..MaxDate
    /\ Nil \notin [key : Keys, vb : 1..MaxDate, obj : Objects]

Dates == 1..MaxDate

VARIABLES
    rows,           \* the table as other connections see it
    working,        \* and as this connection does
    in_tx,          \* whether the connection has a transaction open
    locked,         \* whether that transaction has the lock for writing
    m_nest_count,
    guards,         \* tx_guards alive that still have their connection
    unwinding,      \* an inner guard has rolled back, outer ones have to follow
    failed,         \* statements whose last step failed
    step,           \* Nil, or the second statement of persist_as_of is to come
    history,        \* what committed calls said of each key and date
    draft           \* the same with the calls of the open transaction

ovars == <<rows, working, in_tx, locked, m_nest_count, guards, unwinding, failed, step, history, draft>>
txvars == <<m_nest_count, guards, unwinding>>

StoreInit ==
    /\ rows = {} /\ working = {} /\ in_tx = FALSE /\ locked = FALSE /\ m_nest_count = 0
    /\ guards = 0 /\ unwinding = FALSE /\ failed = {} /\ step = Nil
    /\ history = [k \in Keys |-> [d \in Dates |-> Nil]] /\ draft = history

(* The dates of a key are written in order, as ref_tool does. *)
InOrder(k, d) ==
    \A r \in {x \in working : x.key = k} : {r.vb, r.ve} \ {Nil} \subseteq 1..d

Idle == step = Nil /\ ~unwinding
MayWrite == Idle /\ (Guarded => guards > 0)

-------------------------------------------------------------------------------
(* find_as_of: the rows of a key that are valid at a date. *)
Found(w, k, d) == {r \in w : r.key = k /\ r.vb <= d /\ (r.ve = Nil \/ d < r.ve)}

(* A statement that succeeds, and what a call that is done has said. *)
Takes(w) ==
    /\ working' = w /\ rows' = IF in_tx THEN rows ELSE w
    /\ locked' = in_tx

Says(k, d, o) ==
    /\ draft' = [draft EXCEPT ![k] = [e \in Dates |-> IF e >= d THEN o ELSE @[e]]]
    /\ history' = IF in_tx THEN history ELSE draft'

(* A statement that fails changes nothing; only one that never got the lock    *)
(* leaves its transaction without it.                                          *)
Fails(stmt) ==
    /\ failed' = failed \union {stmt}
    /\ UNCHANGED <<rows, working, in_tx, history, draft, txvars>>
Busy(stmt) == ~locked /\ Fails(stmt) /\ UNCHANGED locked

(* The statement cache resets a statement before it is used again: if its last *)
(* step failed the call throws before it does anything.                        *)
Reset(stmts) ==
    /\ stmts \intersect failed # {}
    /\ failed' = failed \ (IF "persist_1" \in failed THEN stmts \ {"persist_2"} ELSE stmts)
    /\ UNCHANGED <<rows, working, in_tx, locked, step, history, draft, txvars>>

(* Step 1 joins the new row with the version of the key that is still valid,   *)
(* and inserts it once for each that differs, or if there is none.             *)
Joined(k, o) ==
    LET active == {r \in working : r.key = k /\ r.ve = Nil}
    IN  IF active = {} THEN 1 ELSE Cardinality({r \in active : r.obj # o})
Refused(k, d, o) ==
    \/ Joined(k, o) > 1
    \/ Joined(k, o) = 1 /\ \E r \in working : r.key = k /\ r.vb = d

Persist1 == {"persist_1", "persist_2"}
persist_as_of_1(k, d, o) ==
    /\ MayWrite /\ InOrder(k, d)
    /\ \/ Reset(Persist1)
       \/ /\ Persist1 \intersect failed = {}
          /\ \/ Busy("persist_1") /\ UNCHANGED step
             \/ Refused(k, d, o) /\ Fails("persist_1") /\ locked' = in_tx /\ UNCHANGED step
             \/ /\ ~Refused(k, d, o) /\ Joined(k, o) = 1
                /\ Takes(working \union {[key |-> k, vb |-> d, ve |-> Nil, obj |-> o]})
                /\ step' = [key |-> k, vb |-> d, obj |-> o]
                /\ UNCHANGED <<in_tx, failed, history, draft, txvars>>
             \/ /\ Joined(k, o) = 0
                /\ Takes(working) /\ Says(k, d, o)
                /\ UNCHANGED <<in_tx, failed, step, txvars>>

(* Step 2, only after an insertion: older versions end where the new begins.   *)
Ended(s) == {IF r.key = s.key /\ r.vb < s.vb /\ r.ve = Nil THEN [r EXCEPT !.ve = s.vb] ELSE r : r \in working}
persist_as_of_2 ==
    /\ step # Nil /\ step' = Nil
    /\ \/ Busy("persist_2")
       \/ /\ Takes(Ended(step)) /\ Says(step.key, step.vb, step.obj)
          /\ UNCHANGED <<in_tx, failed, txvars>>

delete_as_of(k, d) ==
    /\ MayWrite /\ InOrder(k, d)
    /\ \/ Reset({"delete"})
       \/ /\ "delete" \notin failed /\ UNCHANGED step
          /\ \/ Busy("delete")
             \/ /\ Takes({IF r.key = k /\ r.ve = Nil THEN [r EXCEPT !.ve = d] ELSE r : r \in working})
                /\ Says(k, d, Nil)
                /\ UNCHANGED <<in_tx, failed, txvars>>

-------------------------------------------------------------------------------
Keep == UNCHANGED <<rows, working, in_tx, locked, history, draft>>

(* A connection counts its guards, and begins a transaction for the first. A   *)
(* BEGIN inside a transaction throws, and there is no guard then.              *)
tx_begin ==
    /\ Idle /\ guards < MaxGuards
    /\ m_nest_count' = m_nest_count + 1
    /\ IF m_nest_count = 0 /\ in_tx THEN guards' = guards ELSE guards' = guards + 1
    /\ in_tx' = (in_tx \/ m_nest_count = 0)
    /\ UNCHANGED <<rows, working, locked, unwinding, failed, step, history, draft>>

(* The last guard to commit commits the transaction, unless readers are in the *)
(* way: then commit() throws. Either way it has let go of the connection.      *)
tx_commit ==
    /\ Idle /\ guards > 0
    /\ guards' = guards - 1 /\ m_nest_count' = m_nest_count - 1
    /\ \/ Keep
       \/ /\ m_nest_count' = 0 /\ in_tx
          /\ in_tx' = FALSE /\ locked' = FALSE /\ rows' = working /\ history' = draft
          /\ UNCHANGED <<working, draft>>
    /\ UNCHANGED <<unwinding, failed, step>>

(* Faulty variant, for mutation runs only: the count survives a rollback.      *)
tx_rollback_KeepsCount ==
    /\ step = Nil /\ guards > 0
    /\ guards' = guards - 1 /\ unwinding' = (guards' > 0)
    /\ IF in_tx THEN /\ in_tx' = FALSE /\ locked' = FALSE /\ working' = rows /\ draft' = history
                    /\ UNCHANGED <<rows, history>>
               ELSE Keep
    /\ UNCHANGED <<m_nest_count, failed, step>>

(* The destructor of a guard that has not committed rolls everything back,     *)
(* inside other guards, too; without a transaction it fails, which is logged.  *)
tx_rollback ==
    /\ step = Nil /\ guards > 0
    /\ guards' = guards - 1 /\ unwinding' = (guards' > 0)
    /\ IF in_tx THEN /\ in_tx' = FALSE /\ locked' = FALSE /\ working' = rows /\ draft' = history
                    /\ m_nest_count' = 0
                    /\ UNCHANGED <<rows, history>>
               ELSE Keep /\ UNCHANGED m_nest_count
    /\ UNCHANGED <<failed, step>>

StoreNext ==
    \/ \E k \in Keys, d \in Dates, o \in Objects : persist_as_of_1(k, d, o)
    \/ persist_as_of_2
    \/ \E k \in Keys, d \in Dates : delete_as_of(k, d)
    \/ tx_begin \/ tx_commit \/ tx_rollback

StoreSpec == StoreInit /\ [][StoreNext]_ovars

-------------------------------------------------------------------------------
Tells(w, h) == \A k \in Keys, d \in Dates :
    {r.obj : r \in Found(w, k, d)} = {h[k][d]} \ {Nil}

(* As of any date, a reader on another connection finds at most one version,   *)
(* the one that the last committed call for that date or one before it left;   *)
(* the writer's own view adds exactly the calls of its transaction, whatever   *)
(* statements were refused on the way and however its guards nest.             *)
AsOfIsHistory ==
    /\ Tells(rows, history) /\ (step = Nil => Tells(working, draft))
    /\ \A k \in Keys, d \in Dates : Cardinality(Found(rows, k, d)) <= 1

(* find_as_of asserts that it gets one row at most.                            *)
OneRowAtMost == \A k \in Keys, d \in Dates : Cardinality(Found(rows, k, d)) <= 1
===============================================================================
