----------------------------- MODULE MarketDataBook -----------------------------
(* The limit order books of a market_data_view and the market_data_listener    *)
(* that keeps them from the venue's ITCH messages (books/limit_order_book.h,   *)
(* books/asx/market_data_listener.h).  All books take orders and price levels  *)
(* from one arena of pools; a side of a book maps order ids to orders and has  *)
(* a tree of levels by price, and an order knows its level.                    *)
(*                                                                             *)
(* A series is an instrument and a side; the venue's ids are unique in one.    *)
(* Prices are bids: better is more (a comparator of the side turns it over).   *)
(* A message about an id that is not in its book changes nothing, so such      *)
(* messages are left out, and so are those for instruments outside the view.   *)
EXTENDS Integers, Sequences, FiniteSets, FiniteSetsExt, SequencesExt

CONSTANTS
    BookSeries, Oids, BookPrices, Quantities,
    Orders, Levels,         \* slots of the two pools: sets of numbers (bounds)
    Repricing,              \* TRUE: order_replace may change the price
    Absent

Order == [parent : Levels, qty : Int]
Level == [price : BookPrices, qty : Int, order_count : Int]
VenueOrder == [price : BookPrices, qty : Int]

(* What is assumed of the constants. *)
ASSUME BookAssumption ==
    /\ Quantities \subseteq Nat \ {0} /\ BookPrices \subseteq Int
    /\ Orders \subseteq Nat /\ Levels \subseteq Nat
    /\ Repricing \in BOOLEAN
    /\ Absent \notin Orders \cup Order \cup Level \cup VenueOrder

VARIABLES
    m_order_pool,       \* [Orders -> Absent or an order]
    m_level_pool,       \* [Levels -> Absent or a level]
    m_oid_map,          \* [BookSeries -> [Oids -> order slot or Absent]]
    m_price_map,        \* [BookSeries -> a set of level slots]
    m_orders,           \* [Levels -> the slots of its orders, newest first]
    venue               \* [BookSeries -> [Oids -> what the venue has, or Absent]]

bkvars == <<m_order_pool, m_level_pool, m_oid_map, m_price_map, m_orders, venue>>

BookInit ==
    /\ m_order_pool = [o \in Orders |-> Absent]
    /\ m_level_pool = [l \in Levels |-> Absent]
    /\ m_oid_map = [b \in BookSeries |-> [i \in Oids |-> Absent]]
    /\ m_price_map = [b \in BookSeries |-> {}]
    /\ m_orders = [l \in Levels |-> <<>>]
    /\ venue = [b \in BookSeries |-> [i \in Oids |-> Absent]]

FreeSlots(pool) == {x \in DOMAIN pool : pool[x] = Absent}
At(b, price) == {l \in m_price_map[b] : m_level_pool[l].price = price}
Without(s, o) == RemoveFirst(s, o)

-------------------------------------------------------------------------------
order_add(b, oid, price, qty) ==
    /\ m_oid_map[b][oid] = Absent /\ FreeSlots(m_order_pool) # {}
    /\ At(b, price) # {} \/ FreeSlots(m_level_pool) # {}
    /\ LET o == Min(FreeSlots(m_order_pool))
           new == At(b, price) = {}
           l == Min(IF new THEN FreeSlots(m_level_pool) ELSE At(b, price))
           parent == IF new THEN l ELSE m_order_pool[Head(m_orders[l])].parent
       IN  /\ m_oid_map' = [m_oid_map EXCEPT ![b][oid] = o]
           /\ m_order_pool' = [m_order_pool EXCEPT ![o] = [parent |-> parent, qty |-> qty]]
           /\ m_level_pool' =
                IF new THEN [m_level_pool EXCEPT ![l] = [price |-> price, qty |-> qty, order_count |-> 1]]
                ELSE [m_level_pool EXCEPT ![l].qty = @ + qty, ![l].order_count = @ + 1]
           /\ m_price_map' = [m_price_map EXCEPT ![b] = @ \cup {l}]
           /\ m_orders' = [m_orders EXCEPT ![l] = <<o>> \o @]
    /\ venue' = [venue EXCEPT ![b][oid] = [price |-> price, qty |-> qty]]

(* Faulty variant, for mutation runs only: an empty level stays in the pool.    *)
remove_order_KeepsLevel(b, oid, o) ==
    LET l == m_order_pool[o].parent
        rest == Without(m_orders[l], o)
    IN  /\ m_oid_map' = [m_oid_map EXCEPT ![b][oid] = Absent]
        /\ m_order_pool' = [m_order_pool EXCEPT ![o] = Absent]
        /\ m_orders' = [m_orders EXCEPT ![l] = rest]
        /\ m_level_pool' = [m_level_pool EXCEPT ![l].qty = @ - m_order_pool[o].qty,
                                                ![l].order_count = @ - 1]
        /\ m_price_map' = IF rest = <<>> THEN [m_price_map EXCEPT ![b] = @ \ {l}] ELSE m_price_map

(* The order leaves its level, and an empty level leaves the book; what the    *)
(* level adds up is corrected by the quantity the order had.                   *)
remove_order(b, oid, o) ==
    LET l == m_order_pool[o].parent
        rest == Without(m_orders[l], o)
    IN  /\ m_oid_map' = [m_oid_map EXCEPT ![b][oid] = Absent]
        /\ m_order_pool' = [m_order_pool EXCEPT ![o] = Absent]
        /\ m_orders' = [m_orders EXCEPT ![l] = rest]
        /\ IF rest = <<>>
           THEN /\ m_price_map' = [m_price_map EXCEPT ![b] = @ \ {l}]
                /\ m_level_pool' = [m_level_pool EXCEPT ![l] = Absent]
           ELSE /\ m_level_pool' = [m_level_pool EXCEPT ![l].qty = @ - m_order_pool[o].qty,
                                                        ![l].order_count = @ - 1]
                /\ UNCHANGED m_price_map

(* A fill of all that is left, or more, removes the order. *)
order_fill(b, oid, qty) ==
    /\ m_oid_map[b][oid] # Absent
    /\ LET o == m_oid_map[b][oid]
           rest == m_order_pool[o].qty - qty
       IN  IF rest <= 0
           THEN /\ remove_order(b, oid, o)
                /\ venue' = [venue EXCEPT ![b][oid] = Absent]
           ELSE /\ m_level_pool' = [m_level_pool EXCEPT ![m_order_pool[o].parent].qty = @ - qty]
                /\ m_order_pool' = [m_order_pool EXCEPT ![o].qty = rest]
                /\ venue' = [venue EXCEPT ![b][oid] = [price |-> @.price, qty |-> @.qty - qty]]
                /\ UNCHANGED <<m_oid_map, m_price_map, m_orders>>

order_delete(b, oid) ==
    /\ m_oid_map[b][oid] # Absent
    /\ remove_order(b, oid, m_oid_map[b][oid])
    /\ venue' = [venue EXCEPT ![b][oid] = Absent]

(* The level of the price is found or made, and the order's parent set to it;  *)
(* the level the order is taken from is then looked up by that parent.         *)
order_replace(b, oid, price, qty) ==
    /\ m_oid_map[b][oid] # Absent
    /\ Repricing \/ price = venue[b][oid].price
    /\ At(b, price) # {} \/ FreeSlots(m_level_pool) # {}
    /\ LET o == m_oid_map[b][oid]
           new == At(b, price) = {}
           l == Min(IF new THEN FreeSlots(m_level_pool) ELSE At(b, price))
           parent == IF new THEN l ELSE m_order_pool[Head(m_orders[l])].parent
       IN  /\ new \/ m_orders[l] # <<>>
           /\ m_price_map' = [m_price_map EXCEPT ![b] = @ \cup {l}]
           /\ m_level_pool' =
                IF new THEN [m_level_pool EXCEPT ![l] =
                               [price |-> price, qty |-> qty - m_order_pool[o].qty, order_count |-> 0]]
                ELSE [m_level_pool EXCEPT ![l].qty = @ + (qty - m_order_pool[o].qty)]
           /\ m_order_pool' = [m_order_pool EXCEPT ![o] = [parent |-> parent, qty |-> qty]]
    /\ venue' = [venue EXCEPT ![b][oid] = [price |-> price, qty |-> qty]]
    /\ UNCHANGED <<m_oid_map, m_orders>>

BookNext == \E b \in BookSeries, oid \in Oids :
    \/ order_delete(b, oid)
    \/ \E qty \in Quantities : order_fill(b, oid, qty)
    \/ \E qty \in Quantities, price \in BookPrices :
          order_add(b, oid, price, qty) \/ order_replace(b, oid, price, qty)

BookSpec == BookInit /\ [][BookNext]_bkvars

-------------------------------------------------------------------------------
Sum(q) == LET Upto[n \in 0..Len(q)] == IF n = 0 THEN 0 ELSE Upto[n - 1] + q[n] IN Upto[Len(q)]
QuantityOf(l) == Sum([i \in DOMAIN m_orders[l] |-> m_order_pool[m_orders[l][i]].qty])
HasOrder(b) == {i \in Oids : m_oid_map[b][i] # Absent}

(* Every book is the venue's: each order with its quantity, in the level of    *)
(* its price; a level adds up its orders, has one at least, and is the only    *)
(* one of its price; and the pools hold the orders and levels of all books and *)
(* nothing else.                                                               *)
BooksAreVenues ==
    /\ \A b \in BookSeries, i \in Oids :
          LET o == m_oid_map[b][i]
          IN  IF venue[b][i] = Absent THEN o = Absent
              ELSE /\ m_order_pool[o].qty = venue[b][i].qty
                   /\ m_order_pool[o].parent \in At(b, venue[b][i].price)
                   /\ o \in ToSet(m_orders[m_order_pool[o].parent])
    /\ \A b \in BookSeries : \A l \in m_price_map[b] :
          /\ At(b, m_level_pool[l].price) = {l}
          /\ m_level_pool[l].order_count = Len(m_orders[l]) /\ m_orders[l] # <<>>
          /\ m_level_pool[l].qty = QuantityOf(l)
    /\ Orders \ FreeSlots(m_order_pool) = UNION {{m_oid_map[b][i] : i \in HasOrder(b)} : b \in BookSeries}
    /\ Levels \ FreeSlots(m_level_pool) = UNION {m_price_map[b] : b \in BookSeries}

(* limit_order_book_checker.h:39: that a level has orders is a "design         *)
(* invariant".                                                                 *)
NoEmptyLevel == \A b \in BookSeries : \A l \in m_price_map[b] : m_orders[l] # <<>>
===============================================================================
