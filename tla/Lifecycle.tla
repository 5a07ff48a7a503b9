----------------------------- MODULE Lifecycle -----------------------------
(***************************************************************************)
(* What a di::container promises about the start() and stop() methods of   *)
(* its startable components (startable.h): as if one thread started them   *)
(* one by one, in the order of their dependencies, up to the first         *)
(* failure, and stopped those that started in the inverse order.           *)
(***************************************************************************)
EXTENDS Integers

CONSTANT Turns          \* number of startables; k is started at turn k
VARIABLE life           \* what has happened to each startable

Turn == 0 .. Turns - 1
Busy == {"starting", "stopping"}

LifeInit == life = [k \in Turn |-> "new"]

Becomes(k, from, to) == life[k] = from /\ life' = [life EXCEPT ![k] = to]

\* start() is called when everything before k is up and nothing is in progress.
CallStart(k) == /\ \A j \in Turn : j < k => life[j] = "started"
                /\ \A j \in Turn : life[j] \notin Busy
                /\ Becomes(k, "new", "starting")
EndStart(k) == Becomes(k, "starting", "started") \/ Becomes(k, "starting", "failed")

\* stop() is called when everything after k is down and nothing is in progress.
CallStop(k) == /\ \A j \in Turn : j > k => life[j] \in {"new", "failed", "stopped"}
               /\ \A j \in Turn : life[j] \notin Busy
               /\ Becomes(k, "started", "stopping")
EndStop(k) == Becomes(k, "stopping", "stopped")

LifeNext == \E k \in Turn : CallStart(k) \/ EndStart(k) \/ CallStop(k) \/ EndStop(k)

LifeSpec == LifeInit /\ [][LifeNext]_life
=============================================================================
