---------------------------- MODULE FenwickWindow ----------------------------
(* fenwick_window (containers/util/fenwick_window.h): a running count over the *)
(* last bin_count bins of time, kept in two Fenwick trees that alternate.      *)
(*                                                                             *)
(* Time is in bins: what add() shifts out of it is not modelled.  Bins are     *)
(* numbers here; in the code they have a width nothing guards (a TODO there).  *)
EXTENDS Integers

CONSTANTS
    bin_count,
    Increments,     \* of one add(): not zero, may be negative
    MaxIndex, MaxAdds   \* bounds of the model

(* Its only odd divisor is 1. *)
IsPowerOfTwo(p) == \A d \in 2..p : p % d = 0 => d % 2 = 0

(* What is assumed of the constants. *)
ASSUME FenwickAssumption ==
    /\ bin_count \in Nat \ {0} /\ IsPowerOfTwo(bin_count)
    /\ Increments \subseteq Int \ {0}
    /\ MaxIndex \in Nat /\ bin_count <= MaxIndex /\ MaxAdds \in Nat

VARIABLES
    m_time_index, m_front_window,
    m_window,       \* two trees, each on 1..bin_count
    added,          \* what was added at each index
    adds            \* how often

fvars == <<m_time_index, m_front_window, m_window, added, adds>>

(* The lowest bit of u that is set: u & -u. *)
LowBit(u) == CHOOSE p \in 1..u : IsPowerOfTwo(p) /\ u % p = 0 /\ u % (2 * p) # 0

FrontWindow(index) == IF index % (2 * bin_count) >= bin_count THEN 1 ELSE 0
BackWindow(front) == 1 - front
Edge(index) == (index % bin_count) + 1
Cleared == [b \in 1..bin_count |-> 0]

(* The bins that an addition to bin r goes to: u += u & -u up to the last. *)
Touched(r) ==
    LET u[n \in 0..bin_count] ==
            IF n = 0 THEN r
            ELSE IF u[n - 1] > bin_count THEN u[n - 1] ELSE u[n - 1] + LowBit(u[n - 1])
    IN  {u[n] : n \in 0..bin_count} \cap 1..bin_count

(* The sum of bins 1..r: r ^= r & -r down to nothing. *)
cumsum(w, r) ==
    LET sum[u \in 0..bin_count] == IF u = 0 THEN 0 ELSE w[u] + sum[u - LowBit(u)]
    IN  sum[r]

(* The front up to its bin r, and the back from there on; the code fuses the   *)
(* two sums into one loop.                                                     *)
count_impl(r, front) ==
    LET fw == m_window[front]
        bw == m_window[BackWindow(front)]
    IN  bw[bin_count] + cumsum(fw, r) - cumsum(bw, r)

count == count_impl(Edge(m_time_index), m_front_window)

FenwickInit ==
    /\ m_time_index \in 0..bin_count
    /\ m_front_window = FrontWindow(m_time_index)
    /\ m_window = [f \in 0..1 |-> Cleared]
    /\ added = [i \in 0..MaxIndex |-> 0]
    /\ adds = 0

(* Faulty variant, for mutation runs only: no bin is forgotten on a roll. *)
Advanced_KeepsBack(index) ==
    IF index >= m_time_index + bin_count THEN [f \in 0..1 |-> Cleared] ELSE m_window

(* The trees with the right edge at index: both cleared when nothing is left in *)
(* the window; the back cleared when it becomes the front.                     *)
Advanced(index) ==
    IF index >= m_time_index + bin_count THEN [f \in 0..1 |-> Cleared]
    ELSE IF FrontWindow(index) # m_front_window THEN [m_window EXCEPT ![FrontWindow(index)] = Cleared]
    ELSE m_window

add(index, increment) ==
    LET front == FrontWindow(index)
        fw == Advanced(index)[front]
    IN  /\ adds < MaxAdds
        /\ m_time_index <= index
        /\ m_window' = [Advanced(index) EXCEPT ![front] = [b \in 1..bin_count |->
                            fw[b] + IF b \in Touched(Edge(index)) THEN increment ELSE 0]]
        /\ m_front_window' = front
        /\ m_time_index' = index
        /\ added' = [added EXCEPT ![index] = @ + increment]
        /\ adds' = adds + 1

(* The check of monotonicity throws. *)
add_refused(index) == index < m_time_index /\ UNCHANGED fvars

FenwickNext ==
    \E i \in 0..MaxIndex : add_refused(i) \/ \E n \in Increments : add(i, n)

FenwickSpec == FenwickInit /\ [][FenwickNext]_fvars

(* What a history adds up to before index i. *)
SumBefore(history, i) ==
    LET sum[k \in 0..(MaxIndex + 1)] == IF k = 0 THEN 0 ELSE history[k - 1] + sum[k - 1]
    IN  sum[IF i < 0 THEN 0 ELSE i]

(* The count is that of the additions in the last bin_count bins, whatever the *)
(* pauses between them: within a window, to the next one, over whole windows.  *)
CountIsWindow ==
    count = SumBefore(added, m_time_index + 1) - SumBefore(added, m_time_index + 1 - bin_count)
===============================================================================
