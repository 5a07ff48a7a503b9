----------------------- MODULE ExecutionOrdersProofs -----------------------
(***************************************************************************)
(* Proofs about the life of orders, for any agents, series, partitions,    *)
(* pools and queues.                                                       *)
(*                                                                         *)
(* BaseInv holds of every agent that trades one series (TradesOne): where  *)
(* tokens come from, what the venue knows, and that a book's maps lead to  *)
(* its orders.  PatientInv holds of the orders of agents that wait for the *)
(* answer to a request before the next, if what an agent hears of is of    *)
(* one series (HearsOne): one order at a time, each message on its way     *)
(* about it finds it in the state, at the agent and at the venue, that     *)
(* awaits the message.                                                     *)
(***************************************************************************)
EXTENDS ExecutionOrders, FunctionTheorems, FiniteSetTheorems, SequenceTheorems, TLAPS

-----------------------------------------------------------------------------
(* Sequences of messages: which are in one, and how many of a kind. *)

At(s, M) == {i \in DOMAIN s : s[i] \in M}
Count(s, M) == Cardinality(At(s, M))

LEMMA CountType ==
    ASSUME NEW T, NEW s \in Seq(T), NEW M
    PROVE  /\ IsFiniteSet(At(s, M)) /\ Count(s, M) \in Nat
           /\ Count(s, M) = 0 <=> \A m \in ToSet(s) : m \notin M
<1>1. DOMAIN s = 1..Len(s) /\ Len(s) \in Nat
  BY LenProperties
<1>2. At(s, M) \subseteq 1..Len(s) /\ IsFiniteSet(1..Len(s))
  BY <1>1, FS_Interval DEF At
<1>3. IsFiniteSet(At(s, M))
  BY <1>2, FS_Subset
<1>4. Count(s, M) \in Nat /\ (Count(s, M) = 0 <=> At(s, M) = {})
  BY <1>3, FS_CardinalityType, FS_EmptySet DEF Count
<1>5. At(s, M) = {} <=> \A m \in ToSet(s) : m \notin M
  BY DEF ToSet, At
<1>. QED
  <2>1. Count(s, M) = 0 <=> \A m \in ToSet(s) : m \notin M
    BY <1>4, <1>5
  <2>. QED BY <1>3, <1>4, <2>1

LEMMA AppendMsg ==
    ASSUME NEW T, NEW s \in Seq(T), NEW e \in T
    PROVE  /\ Append(s, e) \in Seq(T) /\ Len(Append(s, e)) = Len(s) + 1
           /\ ToSet(Append(s, e)) = ToSet(s) \cup {e}
           /\ \A M : Count(Append(s, e), M) = Count(s, M) + IF e \in M THEN 1 ELSE 0
<1>. DEFINE r == Append(s, e)
<1>1. /\ r \in Seq(T) /\ Len(r) = Len(s) + 1 /\ Len(s) \in Nat
      /\ \A i \in 1..Len(s) : r[i] = s[i]
      /\ r[Len(s) + 1] = e
  BY AppendProperties, LenProperties
<1>2. DOMAIN r = 1..Len(s) + 1 /\ DOMAIN s = 1..Len(s)
  BY <1>1, LenProperties
<1>. HIDE DEF r
<1>3. ToSet(r) = ToSet(s) \cup {e}
  <2>1. \A x : x \in ToSet(r) => x \in ToSet(s) \cup {e}
    BY <1>1, <1>2 DEF ToSet
  <2>2. \A x : x \in ToSet(s) \cup {e} => x \in ToSet(r)
    BY <1>1, <1>2 DEF ToSet
  <2>. QED BY <2>1, <2>2
<1>4. ASSUME NEW M
      PROVE  Count(r, M) = Count(s, M) + IF e \in M THEN 1 ELSE 0
  <2>. DEFINE C == At(s, M)
              D == At(r, M)
              n == Len(s) + 1
  <2>1. IsFiniteSet(C) /\ Cardinality(C) \in Nat
    BY CountType, FS_CardinalityType
  <2>2. n \notin C
    BY <1>1, <1>2 DEF At
  <2>3. CASE e \in M
    <3>1. D = C \cup {n}
      BY <1>1, <1>2, <2>3 DEF At
    <3>2. Cardinality(D) = Cardinality(C) + 1
      <4>. HIDE DEF C, D, n
      <4>. QED BY <2>1, <2>2, <3>1, FS_AddElement
    <3>. QED BY <2>3, <3>2 DEF Count
  <2>4. CASE e \notin M
    <3>1. D = C
      BY <1>1, <1>2, <2>4 DEF At
    <3>. QED BY <2>1, <2>4, <3>1 DEF Count
  <2>. QED BY <2>3, <2>4
<1>. QED BY <1>1, <1>3, <1>4 DEF r

LEMMA DropMsg ==
    ASSUME NEW T, NEW s \in Seq(T), NEW r \in Seq(T), NEW i \in 1..Len(s), Len(r) = Len(s) - 1,
           \A j \in 1..Len(r) : (j < i => r[j] = s[j]) /\ (j >= i => r[j] = s[j + 1])
    PROVE  /\ ToSet(s) = ToSet(r) \cup {s[i]}
           /\ \A M : Count(s, M) = Count(r, M) + IF s[i] \in M THEN 1 ELSE 0
<1>1. /\ DOMAIN r = 1..Len(s) - 1 /\ DOMAIN s = 1..Len(s) /\ Len(s) \in Nat
      /\ i \in 1..Len(s)
  BY LenProperties
<1>. DEFINE f == [j \in 1..Len(s) - 1 |-> IF j < i THEN j ELSE j + 1]
<1>2. /\ \A j \in 1..Len(s) - 1 : f[j] \in (1..Len(s)) \ {i} /\ r[j] = s[f[j]]
      /\ \A j, k \in 1..Len(s) - 1 : f[j] = f[k] => j = k
  BY <1>1
<1>3. \A k \in (1..Len(s)) \ {i} : \E j \in 1..Len(s) - 1 : f[j] = k
  <2>. SUFFICES ASSUME NEW k \in (1..Len(s)) \ {i}
                PROVE  \E j \in 1..Len(s) - 1 : f[j] = k
    OBVIOUS
  <2>1. CASE k < i
    <3>1. k \in 1..Len(s) - 1 /\ f[k] = k
      BY <1>1, <2>1
    <3>. QED BY <3>1
  <2>2. CASE k > i
    <3>1. k - 1 \in 1..Len(s) - 1 /\ f[k - 1] = k
      BY <1>1, <2>2
    <3>. QED BY <3>1
  <2>. QED BY <1>1, <2>1, <2>2
<1>. HIDE DEF f
<1>4. ToSet(s) = ToSet(r) \cup {s[i]}
  <2>1. \A x : x \in ToSet(r) => x \in ToSet(s)
    BY <1>1, <1>2 DEF ToSet
  <2>2. \A k \in 1..Len(s) : k = i \/ s[k] \in ToSet(r)
    <3>. SUFFICES ASSUME NEW k \in (1..Len(s)) \ {i} PROVE s[k] \in ToSet(r)
      OBVIOUS
    <3>1. PICK j \in 1..Len(s) - 1 : f[j] = k
      BY <1>3
    <3>2. r[j] = s[k] /\ j \in DOMAIN r
      BY <1>1, <1>2, <3>1
    <3>. QED BY <3>2 DEF ToSet
  <2>3. s[i] \in ToSet(s)
    BY <1>1 DEF ToSet
  <2>4. \A x : x \in ToSet(s) => x \in ToSet(r) \cup {s[i]}
    BY <1>1, <2>2 DEF ToSet
  <2>. QED BY <2>1, <2>3, <2>4
<1>5. ASSUME NEW M
      PROVE  Count(s, M) = Count(r, M) + IF s[i] \in M THEN 1 ELSE 0
  <2>. DEFINE C == At(s, M)
              D == At(r, M)
              g == [j \in D |-> f[j]]
  <2>1. IsFiniteSet(C) /\ Cardinality(C) \in Nat /\ IsFiniteSet(D) /\ Cardinality(D) \in Nat
    BY CountType, FS_CardinalityType
  <2>2. g \in [D -> C \ {i}] /\ \A j, k \in D : g[j] = g[k] => j = k
    BY <1>1, <1>2 DEF At
  <2>3. \A k \in C \ {i} : \E j \in D : g[j] = k
    <3>. SUFFICES ASSUME NEW k \in C \ {i} PROVE \E j \in D : g[j] = k
      OBVIOUS
    <3>1. k \in (1..Len(s)) \ {i} /\ s[k] \in M
      BY <1>1 DEF At
    <3>2. PICK j \in 1..Len(s) - 1 : f[j] = k
      BY <1>3, <3>1
    <3>3. j \in D
      BY <1>1, <1>2, <3>1, <3>2 DEF At
    <3>. QED BY <3>2, <3>3
  <2>4. ExistsBijection(D, C \ {i})
    <3>. HIDE DEF C, D, g
    <3>1. g \in Bijection(D, C \ {i})
      BY <2>2, <2>3, Fun_IsBij
    <3>. QED BY <3>1, Fun_ExistsBij
  <2>5. s[i] \in M <=> i \in C
    BY <1>1 DEF At
  <2>. HIDE DEF C, D, g
  <2>6. Cardinality(C \ {i}) = Cardinality(D)
    BY <2>1, <2>4, FS_Bijection
  <2>7. Cardinality(C \ {i}) = IF i \in C THEN Cardinality(C) - 1 ELSE Cardinality(C)
    BY <2>1, FS_RemoveElement
  <2>8. Cardinality(C) = Cardinality(D) + IF s[i] \in M THEN 1 ELSE 0
    BY <2>1, <2>5, <2>6, <2>7
  <2>. QED BY <2>8 DEF Count, C, D
<1>. QED BY <1>4, <1>5

LEMMA TailMsg ==
    ASSUME NEW T, NEW s \in Seq(T), s # <<>>
    PROVE  /\ Tail(s) \in Seq(T) /\ Head(s) \in T /\ Len(Tail(s)) = Len(s) - 1
           /\ ToSet(s) = ToSet(Tail(s)) \cup {Head(s)}
           /\ \A M : Count(s, M) = Count(Tail(s), M) + IF Head(s) \in M THEN 1 ELSE 0
<1>. DEFINE r == Tail(s)
<1>1. /\ Len(s) \in Nat \ {0} /\ Head(s) = s[1] /\ Head(s) \in T
      /\ r \in Seq(T) /\ Len(r) = Len(s) - 1
      /\ \A j \in 1..Len(r) : r[j] = s[j + 1]
  BY EmptySeq, HeadTailProperties
<1>. HIDE DEF r
<1>2. /\ 1 \in 1..Len(s) /\ r \in Seq(T) /\ s \in Seq(T) /\ Len(r) = Len(s) - 1
      /\ \A j \in 1..Len(r) : (j < 1 => r[j] = s[j]) /\ (j >= 1 => r[j] = s[j + 1])
  BY <1>1
<1>3. /\ ToSet(s) = ToSet(r) \cup {s[1]}
      /\ \A M : Count(s, M) = Count(r, M) + IF s[1] \in M THEN 1 ELSE 0
  BY <1>2, DropMsg
<1>. QED BY <1>1, <1>3 DEF r

LEMMA RemoveMsg ==
    ASSUME NEW T, NEW s \in Seq(T), NEW i \in 1..Len(s)
    PROVE  /\ RemoveAt(s, i) \in Seq(T) /\ s[i] \in T
           /\ ToSet(s) = ToSet(RemoveAt(s, i)) \cup {s[i]}
           /\ \A M : Count(s, M) = Count(RemoveAt(s, i), M) + IF s[i] \in M THEN 1 ELSE 0
<1>. DEFINE u == SubSeq(s, 1, i - 1)
            v == SubSeq(s, i + 1, Len(s))
            r == RemoveAt(s, i)
<1>1. Len(s) \in Nat /\ i \in 1..Len(s) /\ \A j \in 1..Len(s) : s[j] \in T
  BY LenProperties, ElementOfSeq
<1>2. /\ u \in Seq(T) /\ Len(u) = i - 1
      /\ \A j \in 1..i - 1 : u[j] = s[j]
  <2>1. 1 \in Int /\ i - 1 \in Int /\ \A j \in 1..i - 1 : s[j] \in T
    BY <1>1
  <2>2. /\ u \in Seq(T) /\ Len(u) = IF 1 <= i - 1 THEN (i - 1) - 1 + 1 ELSE 0
        /\ \A j \in 1..(i - 1) - 1 + 1 : u[j] = s[1 + j - 1]
    BY <2>1, SubSeqProperties
  <2>3. u \in Seq(T) /\ Len(u) = i - 1
    BY <1>1, <2>2
  <2>4. \A j \in 1..i - 1 : j \in 1..(i - 1) - 1 + 1 /\ 1 + j - 1 = j
    BY <1>1
  <2>. HIDE DEF u
  <2>. QED BY <2>2, <2>3, <2>4
<1>3. /\ v \in Seq(T) /\ Len(v) = Len(s) - i
      /\ \A j \in 1..Len(s) - i : v[j] = s[i + j]
  <2>1. i + 1 \in Int /\ Len(s) \in Int /\ \A j \in i + 1..Len(s) : s[j] \in T
    BY <1>1
  <2>2. /\ v \in Seq(T) /\ Len(v) = IF i + 1 <= Len(s) THEN Len(s) - (i + 1) + 1 ELSE 0
        /\ \A j \in 1..Len(s) - (i + 1) + 1 : v[j] = s[(i + 1) + j - 1]
    BY <2>1, SubSeqProperties
  <2>3. v \in Seq(T) /\ Len(v) = Len(s) - i
    BY <1>1, <2>2
  <2>4. \A j \in 1..Len(s) - i : j \in 1..Len(s) - (i + 1) + 1 /\ (i + 1) + j - 1 = i + j
    BY <1>1
  <2>. HIDE DEF v
  <2>. QED BY <2>2, <2>3, <2>4
<1>. HIDE DEF u, v
<1>4. r = u \o v
  BY DEF RemoveAt, u, v
<1>5. /\ r \in Seq(T) /\ Len(r) = Len(u) + Len(v)
      /\ \A j \in 1..Len(u) + Len(v) : r[j] = IF j <= Len(u) THEN u[j] ELSE v[j - Len(u)]
  <2>1. /\ u \o v \in Seq(T) /\ Len(u \o v) = Len(u) + Len(v)
        /\ \A j \in 1..Len(u) + Len(v) : (u \o v)[j] = IF j <= Len(u) THEN u[j] ELSE v[j - Len(u)]
    BY <1>2, <1>3, ConcatProperties, Zenon
  <2>. HIDE DEF r
  <2>. QED BY <1>4, <2>1
<1>. HIDE DEF r
<1>6. Len(r) = Len(s) - 1
  BY <1>1, <1>2, <1>3, <1>5
<1>7. ASSUME NEW j \in 1..Len(r)
      PROVE  (j < i => r[j] = s[j]) /\ (j >= i => r[j] = s[j + 1])
  <2>1. j \in 1..Len(u) + Len(v)
    BY <1>1, <1>5, <1>7
  <2>2. CASE j < i
    <3>1. j <= Len(u) /\ j \in 1..i - 1
      BY <1>1, <1>2, <2>1, <2>2
    <3>. QED BY <1>2, <1>5, <2>1, <2>2, <3>1
  <2>3. CASE ~(j < i)
    <3>1. j \in Int /\ i \in Int /\ Len(u) = i - 1 /\ j >= i /\ j <= Len(s) - 1
      BY <1>1, <1>2, <1>3, <2>1, <2>3
    <3>3. ~(j <= Len(u)) /\ j - Len(u) = j - i + 1
      BY <3>1
    <3>4. j - i + 1 \in 1..Len(s) - i /\ i + (j - i + 1) = j + 1
      BY <1>1, <3>1
    <3>2. r[j] = v[j - i + 1]
      BY <1>5, <2>1, <3>3
    <3>. QED BY <1>3, <2>3, <3>1, <3>2, <3>4
  <2>. QED BY <2>2, <2>3
<1>8. /\ r \in Seq(T) /\ Len(r) = Len(s) - 1
      /\ \A j \in 1..Len(r) : (j < i => r[j] = s[j]) /\ (j >= i => r[j] = s[j + 1])
  BY <1>1, <1>5, <1>6, <1>7
<1>9. /\ ToSet(s) = ToSet(r) \cup {s[i]}
      /\ \A M : Count(s, M) = Count(r, M) + IF s[i] \in M THEN 1 ELSE 0
  BY <1>8, DropMsg
<1>. QED BY <1>1, <1>5, <1>9 DEF r

-----------------------------------------------------------------------------
(* What the orders, the requests and the answers are at any time.          *)

Requests == [type : {"submit", "replace", "cancel"}, otk : Token,
             new_otk : Token \cup {Null}, series : Series, price : Prices]
Answers == [type : {"accepted", "rejected", "replaced", "canceled"}, otk : Token,
            oid : Nat, state : {"LIVE", "NOT_ON_BOOK", "GONE"}, price : Prices]

(* Requests not answered; answers of a partition not consumed by everyone. *)
Asks == (UNION {ToSet(queue[a]) : a \in Agents})
            \cup (UNION {ToSet(wire[p]) : p \in Partitions})
Told(p) == ToSet(action_queue[p]) \cup (UNION {ToSet(inbox[a][p]) : a \in Agents})

(* An agent trades one series; whatever it hears of is of one series. *)
TradesOne == \A a \in Agents : \A x, y \in Trades[a] : x = y
HearsOne == \A a \in Agents : \A x, y \in Series :
    PartitionOf[x] \in PartitionMask(a) /\ PartitionOf[y] \in PartitionMask(a) => x = y

Shape ==
    /\ book \in [Agents -> [Slots -> AgentOrders \cup {Null}]]
    /\ m_otk_map \in [Agents -> [Token -> Slots \cup {Null}]]
    /\ m_oid_map \in [Agents -> [Oid -> Slots \cup {Null}]]
    /\ m_otk_counter \in [Agents -> Nat]
    /\ queue \in [Agents -> Seq(Requests)]
    /\ wire \in [Partitions -> Seq(Requests)]
    /\ v_order \in [Token -> VenueOrders \cup {Null}]
    /\ v_otk_map \in [Token -> Token \cup {Null}]
    /\ m_oid_gen \in [Series -> Nat]
    /\ action_queue \in [Partitions -> Seq(Answers)]
    /\ inbox \in [Agents -> [Partitions -> Seq(Answers)]]

Bounds == \A a \in Agents : m_otk_counter[a] <= MaxTokens[a] /\ Len(queue[a]) <= QueueCapacity

(* Every token in use was drawn by the agent in whose hands it is. *)
Drawn(t) == t[2] <= m_otk_counter[t[1]]
BookDrawn == \A a \in Agents, s \in Slots : Entry(a, s) =>
                 \A t \in Tokens(book[a][s]) : t[1] = a /\ Drawn(t)
AsksDrawn == \A r \in Asks : Drawn(r.otk) /\ (r.new_otk # Null => Drawn(r.new_otk))
VenueDrawn == \A t \in Token : v_order[t] # Null \/ v_otk_map[t] # Null => Drawn(t)

(* Orders and requests are of a series their agent trades. *)
SeriesOK ==
    /\ \A a \in Agents, s \in Slots : Entry(a, s) => book[a][s].series \in Trades[a]
    /\ \A r \in Asks : r.series \in Trades[r.otk[1]]
    /\ \A t \in Token : v_order[t] # Null => v_order[t].series \in Trades[t[1]]

(* Tokens of submissions, and those of replacements: no token is both. *)
Primary == {t \in Token : \/ \E a \in Agents, s \in Slots : Entry(a, s) /\ book[a][s].otk = t
                          \/ \E r \in Asks : r.otk = t
                          \/ v_order[t] # Null}
Alias == {t \in Token :
            \/ \E a \in Agents, s \in Slots : Entry(a, s) /\ t \in ToSet(book[a][s].otk_trace)
            \/ \E r \in Asks : r.new_otk = t}
NoneIsBoth == \A t \in Primary : t \notin Alias
ReplaceNames == \A r \in Asks : r.type = "replace" => r.new_otk # Null
VenueMap == \A t \in Primary : v_otk_map[t] = IF v_order[t] = Null THEN Null ELSE t

TokenInv == /\ BookDrawn /\ AsksDrawn /\ VenueDrawn /\ SeriesOK
            /\ NoneIsBoth /\ ReplaceNames /\ VenueMap

(* A request waits in its agent's queue, then on its partition's wire. *)
Placed ==
    /\ \A a \in Agents : \A r \in ToSet(queue[a]) : r.otk[1] = a
    /\ \A p \in Partitions : \A r \in ToSet(wire[p]) : PartitionOf[r.series] = p

(* An order is submitted once. *)
Submits(t) == {r \in Requests : r.type = "submit" /\ r.otk = t}
SubmitOnce ==
    /\ \A t \in Token, p \in Partitions :
           Count(queue[t[1]], Submits(t)) + Count(wire[p], Submits(t)) <= 1
    /\ \A r \in Asks : r.type = "submit" => v_order[r.otk] = Null

(* The venue's ids of the orders of a series. *)
AtVenue(x) == {t \in Token : v_order[t] # Null /\ v_order[t].series = x}
VenueIds ==
    /\ \A x \in Series : m_oid_gen[x] = Cardinality(AtVenue(x))
    /\ \A t \in Token : v_order[t] # Null => v_order[t].oid \in 1..m_oid_gen[v_order[t].series]
    /\ \A t, u \in Token : v_order[t] # Null /\ v_order[u] # Null
            /\ v_order[t].series = v_order[u].series /\ v_order[t].oid = v_order[u].oid => t = u

(* An answer but for a rejection names an order of the venue. *)
AnswersOK == \A p \in Partitions : \A m \in Told(p) : m.type # "rejected" =>
                 /\ v_order[m.otk] # Null /\ m.oid = v_order[m.otk].oid
                 /\ PartitionOf[v_order[m.otk].series] = p
Heard == \A a \in Agents, p \in Partitions : inbox[a][p] # <<>> => p \in PartitionMask(a)

(* The id in an agent's book is the venue's. *)
BookIds == \A a \in Agents, s \in Slots : Entry(a, s) =>
    /\ book[a][s].os = "created" => book[a][s].oid = 0
    /\ book[a][s].oid # 0 => /\ v_order[book[a][s].otk] # Null
                             /\ v_order[book[a][s].otk].oid = book[a][s].oid

TokenMapOK == \A a \in Agents, t \in Token, s \in Slots :
    m_otk_map[a][t] = s <=> Entry(a, s) /\ t \in Tokens(book[a][s])
OidMapOK == \A a \in Agents, i \in Oid, s \in Slots :
    m_oid_map[a][i] = s <=> Entry(a, s) /\ book[a][s].oid = i

MapsInv == TokenMapOK /\ OidMapOK

BaseInv == /\ Shape /\ Bounds /\ TokenInv /\ Placed /\ SubmitOnce
           /\ VenueIds /\ AnswersOK /\ Heard /\ BookIds /\ MapsInv

-----------------------------------------------------------------------------
(* What a patient agent knows. *)

(* The venue has order o on its book as its agent has it. *)
AsVenue(o, v) == v # Null /\ v.state = "LIVE" /\ v.oid = o.oid /\ v.price = o.price

OrderStates(o, v) ==
    \/ o.os = "created" /\ o.ps = {"submit"} /\ o.oid = 0
    \/ o.os = "live" /\ o.ps = {} /\ AsVenue(o, v)
    \/ o.os = "live" /\ o.ps \in {{"replace"}, {"cancel"}}
          /\ v # Null /\ v.state = "LIVE" /\ v.oid = o.oid
    \/ o.os = "done" /\ o.ps = {}
    \/ o.os \in {"done", "ERROR"} /\ o.ps = {"finalize"} /\ v # Null /\ v.state # "LIVE"

Submitted(o) == o.os = "created" /\ o.ps = {"submit"}
OffBook(o) == Submitted(o) \/ (o.os \in {"done", "ERROR"} /\ o.ps = {"finalize"})

(* The state in which order o, v at the venue, awaits message m. *)
Awaits(o, v, m) ==
    \/ m.type = "submit" /\ Submitted(o) /\ v = Null /\ m.price = o.price
    \/ m.type = "rejected" /\ Submitted(o) /\ v = Null
    \/ m.type = "accepted" /\ Submitted(o) /\ v # Null /\ v.price = o.price
          /\ (m.state = "LIVE" <=> v.state = "LIVE")
    \/ m.type = "replace" /\ o.os = "live" /\ o.ps = {"replace"} /\ AsVenue(o, v)
    \/ m.type = "replaced" /\ o.os = "live" /\ o.ps = {"replace"} /\ m.state = "LIVE"
          /\ v # Null /\ v.state = "LIVE" /\ v.oid = o.oid /\ v.price = m.price
    \/ m.type = "cancel" /\ o.os = "live" /\ o.ps = {"cancel"} /\ AsVenue(o, v)
    \/ m.type = "canceled" /\ m.state = "LIVE" /\ o.os = "live" /\ o.ps = {"cancel"}
          /\ AsVenue(o, v)
    \/ m.type = "canceled" /\ m.state = "NOT_ON_BOOK" /\ OffBook(o)
          /\ v # Null /\ v.state = "GONE"

(* What is on its way from agent a to the venue of p, and back. *)
Mail(a, p) == {r \in ToSet(queue[a]) : PartitionOf[r.series] = p}
                  \cup ToSet(wire[p]) \cup ToSet(action_queue[p]) \cup ToSet(inbox[a][p])
AskedOf(t) == {m \in Requests \cup Answers : m.otk = t /\ Asked(m)}
Load(a, p, t) == Count(queue[a], AskedOf(t)) + Count(wire[p], AskedOf(t))
                 + Count(action_queue[p], AskedOf(t)) + Count(inbox[a][p], AskedOf(t))
Awaiting(o) == IF o.ps \in {{}, {"finalize"}} THEN 0 ELSE 1

(* Order o, the venue's v, of agent a and token t: each message about it finds
   it in the state that awaits it, and at most one is on its way. *)
OrderOK(a, t, o, v) ==
    /\ OrderStates(o, v)
    /\ v # Null => (v.state # "LIVE" => OffBook(o))
    /\ \A p \in Partitions : \A m \in Mail(a, p) :
           m.otk = t => p = Partition(o) /\ Awaits(o, v, m)
    /\ Load(a, Partition(o), t) = Awaiting(o)

(* Of an order that is erased, or a token not drawn, nothing is on its way. *)
Forgotten(a, t, v) ==
    /\ \A s \in Slots : Entry(a, s) => book[a][s].otk # t
    /\ \A p \in Partitions : \A m \in Mail(a, p) : m.otk # t
    /\ v # Null => v.state = "LIVE"

TokenOK(a, t) ==
    \/ Forgotten(a, t, v_order[t])
    \/ \E s \in Slots : /\ Entry(a, s) /\ book[a][s].otk = t
                       /\ OrderOK(a, t, book[a][s], v_order[t])

PatientInv == \A t \in Token : t[1] \in Patient => TokenOK(t[1], t)
-----------------------------------------------------------------------------
(* What the steps do to requests and answers on their way. *)

LEMMA ToSetType ==
    ASSUME NEW T, NEW s \in Seq(T)
    PROVE  ToSet(s) \subseteq T
<1>. SUFFICES ASSUME NEW i \in DOMAIN s PROVE s[i] \in T
  BY DEF ToSet
<1>. QED BY ElementOfSeq, LenProperties

LEMMA MessageTypes ==
    ASSUME Shape
    PROVE  /\ Asks \subseteq Requests /\ \A p \in Partitions : Told(p) \subseteq Answers
           /\ \A a \in Agents : ToSet(queue[a]) \subseteq Asks /\ ToSet(queue[a]) \subseteq Requests
           /\ \A p \in Partitions : /\ ToSet(wire[p]) \subseteq Asks
                                    /\ ToSet(wire[p]) \subseteq Requests
                                    /\ ToSet(action_queue[p]) \subseteq Told(p)
                                    /\ ToSet(action_queue[p]) \subseteq Answers
           /\ \A a \in Agents, p \in Partitions : /\ ToSet(inbox[a][p]) \subseteq Told(p)
                                                  /\ ToSet(inbox[a][p]) \subseteq Answers
<1>1. \A T : \A s \in Seq(T) : ToSet(s) \subseteq T
  BY ToSetType
<1>2. \A a \in Agents : ToSet(queue[a]) \subseteq Requests
  BY <1>1 DEF Shape
<1>3. \A p \in Partitions : ToSet(wire[p]) \subseteq Requests /\ ToSet(action_queue[p]) \subseteq Answers
  BY <1>1 DEF Shape
<1>4. \A a \in Agents, p \in Partitions : ToSet(inbox[a][p]) \subseteq Answers
  BY <1>1 DEF Shape
<1>. QED BY <1>2, <1>3, <1>4 DEF Asks, Told

LEMMA SameMessages ==
    /\ UNCHANGED <<queue, wire>> => Asks' = Asks
    /\ UNCHANGED <<action_queue, inbox>> => \A p \in Partitions : Told(p)' = Told(p)
BY DEF Asks, Told

LEMMA EnqueueEffect ==
    ASSUME Shape, Bounds, NEW a \in Agents, NEW r \in Requests, enqueue(a, r), wire' = wire
    PROVE  /\ queue' \in [Agents -> Seq(Requests)] /\ Asks' = Asks \cup {r}
           /\ \A b \in Agents : Len(queue'[b]) <= QueueCapacity
           /\ \A b \in Agents : b # a => queue'[b] = queue[b]
           /\ ToSet(queue'[a]) = ToSet(queue[a]) \cup {r}
           /\ \A M : Count(queue'[a], M) = Count(queue[a], M) + IF r \in M THEN 1 ELSE 0
<1>. DEFINE q == Append(queue[a], r)
<1>1. queue[a] \in Seq(Requests) /\ queue' = [queue EXCEPT ![a] = q]
  BY DEF Shape, enqueue
<1>2. /\ q \in Seq(Requests) /\ Len(q) = Len(queue[a]) + 1 /\ ToSet(q) = ToSet(queue[a]) \cup {r}
      /\ \A M : Count(q, M) = Count(queue[a], M) + IF r \in M THEN 1 ELSE 0
  BY <1>1, AppendMsg
<1>3. Len(queue[a]) < QueueCapacity /\ Len(queue[a]) \in Nat /\ QueueCapacity \in Nat
  BY <1>1, LenProperties, OrdersAssumption DEF enqueue
<1>. HIDE DEF q
<1>4. queue'[a] = q /\ \A b \in Agents : b # a => queue'[b] = queue[b]
  BY <1>1 DEF Shape
<1>5. queue' \in [Agents -> Seq(Requests)]
  BY <1>1, <1>2 DEF Shape
<1>6. \A b \in Agents : Len(queue'[b]) <= QueueCapacity
  BY <1>2, <1>3, <1>4 DEF Bounds
<1>7. Asks' = Asks \cup {r}
  <2>1. (UNION {ToSet(queue'[b]) : b \in Agents}) = (UNION {ToSet(queue[b]) : b \in Agents}) \cup {r}
    BY <1>2, <1>4
  <2>. QED BY <2>1 DEF Asks
<1>. QED BY <1>2, <1>4, <1>5, <1>6, <1>7

(* Request r went from the queue of agent a to the wire of partition p. *)
Emitted(a, r, p) ==
    /\ p = PartitionOf[r.series] /\ r \in ToSet(queue[a])
    /\ queue' \in [Agents -> Seq(Requests)] /\ wire' \in [Partitions -> Seq(Requests)]
    /\ Asks' = Asks
    /\ \A b \in Agents : Len(queue'[b]) <= QueueCapacity
    /\ \A b \in Agents : b # a => queue'[b] = queue[b]
    /\ \A k \in Partitions : k # p => wire'[k] = wire[k]
    /\ ToSet(queue'[a]) \subseteq ToSet(queue[a])
    /\ ToSet(wire'[p]) = ToSet(wire[p]) \cup {r}
    /\ \A M : Count(queue[a], M) = Count(queue'[a], M) + IF r \in M THEN 1 ELSE 0
    /\ \A M : Count(wire'[p], M) = Count(wire[p], M) + IF r \in M THEN 1 ELSE 0

LEMMA EmitEffect ==
    ASSUME Shape, Bounds, NEW a \in Agents, emit(a)
    PROVE  \E r \in Requests : \E p \in Partitions : Emitted(a, r, p)
<1>. DEFINE r == Head(queue[a])
            p == PartitionOf[r.series]
            q == Tail(queue[a])
            w == Append(wire[p], r)
<1>1. queue[a] \in Seq(Requests) /\ queue[a] # <<>>
  BY DEF Shape, emit
<1>2. /\ q \in Seq(Requests) /\ r \in Requests /\ Len(q) = Len(queue[a]) - 1
      /\ ToSet(queue[a]) = ToSet(q) \cup {r}
      /\ \A M : Count(queue[a], M) = Count(q, M) + IF r \in M THEN 1 ELSE 0
  BY <1>1, TailMsg
<1>3. p \in Partitions /\ wire[p] \in Seq(Requests)
  BY <1>2, OrdersAssumption DEF Shape, Requests
<1>4. /\ w \in Seq(Requests) /\ ToSet(w) = ToSet(wire[p]) \cup {r}
      /\ \A M : Count(w, M) = Count(wire[p], M) + IF r \in M THEN 1 ELSE 0
  BY <1>2, <1>3, AppendMsg
<1>5. queue' = [queue EXCEPT ![a] = q] /\ wire' = [wire EXCEPT ![p] = w]
  BY DEF emit
<1>6. Len(queue[a]) \in Nat /\ QueueCapacity \in Nat /\ Len(queue[a]) <= QueueCapacity
  BY <1>1, LenProperties, OrdersAssumption DEF Bounds
<1>. HIDE DEF q, w, r, p
<1>7. queue'[a] = q /\ \A b \in Agents : b # a => queue'[b] = queue[b]
  BY <1>5 DEF Shape
<1>8. wire'[p] = w /\ \A k \in Partitions : k # p => wire'[k] = wire[k]
  BY <1>3, <1>5 DEF Shape
<1>9. queue' \in [Agents -> Seq(Requests)] /\ wire' \in [Partitions -> Seq(Requests)]
  BY <1>2, <1>4, <1>5 DEF Shape
<1>10. \A b \in Agents : Len(queue'[b]) <= QueueCapacity
  BY <1>2, <1>6, <1>7 DEF Bounds
<1>11. Asks' = Asks
  <2>1. (UNION {ToSet(queue[b]) : b \in Agents}) = (UNION {ToSet(queue'[b]) : b \in Agents}) \cup {r}
    BY <1>2, <1>7
  <2>2. (UNION {ToSet(wire'[k]) : k \in Partitions}) = (UNION {ToSet(wire[k]) : k \in Partitions}) \cup {r}
    BY <1>3, <1>4, <1>8
  <2>. QED BY <2>1, <2>2 DEF Asks
<1>12. r \in Requests /\ p = PartitionOf[r.series]
  BY <1>2 DEF p
<1>13. Emitted(a, r, p)
  BY <1>2, <1>4, <1>7, <1>8, <1>9, <1>10, <1>11, <1>12 DEF Emitted
<1>. QED BY <1>3, <1>12, <1>13

(* The venue reads request r of partition p, its answer is m. *)
LEMMA ReadEffect ==
    ASSUME Shape, NEW p \in Partitions, NEW m \in Answers,
           wire[p] # <<>>, Read(p), Schedule(p, m), UNCHANGED <<queue, inbox>>
    PROVE  LET r == Head(wire[p])
           IN  /\ r \in Requests /\ r \in ToSet(wire[p]) /\ r \in Asks
               /\ wire' \in [Partitions -> Seq(Requests)]
               /\ Asks' \subseteq Asks
               /\ \A k \in Partitions : k # p => wire'[k] = wire[k]
               /\ ToSet(wire'[p]) \subseteq ToSet(wire[p])
               /\ \A M : Count(wire[p], M) = Count(wire'[p], M) + IF r \in M THEN 1 ELSE 0
<1>. DEFINE r == Head(wire[p])
            w == Tail(wire[p])
<1>1. /\ w \in Seq(Requests) /\ r \in Requests
      /\ ToSet(wire[p]) = ToSet(w) \cup {r}
      /\ \A M : Count(wire[p], M) = Count(w, M) + IF r \in M THEN 1 ELSE 0
  BY TailMsg DEF Shape
<1>2. wire' = [wire EXCEPT ![p] = w]
  BY DEF Read
<1>. HIDE DEF w, r
<1>3. wire'[p] = w /\ \A k \in Partitions : k # p => wire'[k] = wire[k]
  BY <1>2 DEF Shape
<1>4. wire' \in [Partitions -> Seq(Requests)]
  BY <1>1, <1>2 DEF Shape
<1>5. Asks' \subseteq Asks /\ r \in Asks
  <2>1. \A k \in Partitions : ToSet(wire'[k]) \subseteq ToSet(wire[k])
    BY <1>1, <1>3
  <2>. QED BY <1>1, <2>1 DEF Asks
<1>. QED BY <1>1, <1>3, <1>4, <1>5 DEF r

LEMMA ScheduleEffect ==
    ASSUME Shape, NEW p \in Partitions, NEW m \in Answers, Schedule(p, m), UNCHANGED inbox
    PROVE  /\ action_queue' \in [Partitions -> Seq(Answers)]
           /\ Told(p)' = Told(p) \cup {m}
           /\ \A k \in Partitions : k # p => action_queue'[k] = action_queue[k]
           /\ \A k \in Partitions : k # p => Told(k)' = Told(k)
           /\ ToSet(action_queue'[p]) = ToSet(action_queue[p]) \cup {m}
           /\ \A M : Count(action_queue'[p], M)
                        = Count(action_queue[p], M) + IF m \in M THEN 1 ELSE 0
<1>. DEFINE q == Append(action_queue[p], m)
<1>1. /\ q \in Seq(Answers) /\ ToSet(q) = ToSet(action_queue[p]) \cup {m}
      /\ \A M : Count(q, M) = Count(action_queue[p], M) + IF m \in M THEN 1 ELSE 0
  BY AppendMsg DEF Shape
<1>2. action_queue' = [action_queue EXCEPT ![p] = q]
  BY DEF Schedule
<1>. HIDE DEF q
<1>3. action_queue'[p] = q /\ \A k \in Partitions : k # p => action_queue'[k] = action_queue[k]
  BY <1>2 DEF Shape
<1>4. action_queue' \in [Partitions -> Seq(Answers)]
  BY <1>1, <1>2 DEF Shape
<1>5. Told(p)' = Told(p) \cup {m}
  BY <1>1, <1>3 DEF Told
<1>6. \A k \in Partitions : k # p => Told(k)' = Told(k)
  BY <1>3 DEF Told
<1>. QED BY <1>1, <1>3, <1>4, <1>5, <1>6

(* An answer of partition p falls due: m goes to all that hear of it. *)
LEMMA EvaluateEffect ==
    ASSUME Shape, NEW p \in Partitions, evaluate(p)
    PROVE  \E m \in ToSet(action_queue[p]) :
               /\ action_queue' \in [Partitions -> Seq(Answers)]
               /\ inbox' \in [Agents -> [Partitions -> Seq(Answers)]]
               /\ \A k \in Partitions : Told(k)' \subseteq Told(k)
               /\ \A k \in Partitions : k # p => action_queue'[k] = action_queue[k]
               /\ ToSet(action_queue'[p]) \subseteq ToSet(action_queue[p])
               /\ \A M : Count(action_queue[p], M)
                            = Count(action_queue'[p], M) + IF m \in M THEN 1 ELSE 0
               /\ \A a \in Agents, k \in Partitions :
                      k # p \/ p \notin PartitionMask(a) => inbox'[a][k] = inbox[a][k]
               /\ \A a \in Agents : p \in PartitionMask(a) =>
                      /\ inbox'[a][p] = Append(inbox[a][p], m)
                      /\ ToSet(inbox'[a][p]) = ToSet(inbox[a][p]) \cup {m}
                      /\ \A M : Count(inbox'[a][p], M)
                                  = Count(inbox[a][p], M) + IF m \in M THEN 1 ELSE 0
<1>. DEFINE Due(i) == /\ inbox' = [a \in Agents |-> IF p \in PartitionMask(a)
                            THEN [inbox[a] EXCEPT ![p] = Append(@, action_queue[p][i])]
                            ELSE inbox[a]]
                      /\ action_queue' = [action_queue EXCEPT ![p] = RemoveAt(@, i)]
<1>0. PICK i \in DOMAIN action_queue[p] : Due(i)
  BY DEF evaluate
<1>. DEFINE m == action_queue[p][i]
            q == RemoveAt(action_queue[p], i)
<1>1. action_queue[p] \in Seq(Answers) /\ i \in 1..Len(action_queue[p])
  BY <1>0, LenProperties DEF Shape
<1>2. /\ q \in Seq(Answers) /\ m \in Answers
      /\ ToSet(action_queue[p]) = ToSet(q) \cup {m}
      /\ \A M : Count(action_queue[p], M) = Count(q, M) + IF m \in M THEN 1 ELSE 0
  BY <1>1, RemoveMsg
<1>3. /\ inbox' = [a \in Agents |-> IF p \in PartitionMask(a)
                            THEN [inbox[a] EXCEPT ![p] = Append(@, m)] ELSE inbox[a]]
      /\ action_queue' = [action_queue EXCEPT ![p] = q]
  BY <1>0
<1>. HIDE DEF m, q, Due
<1>4. action_queue'[p] = q /\ \A k \in Partitions : k # p => action_queue'[k] = action_queue[k]
  BY <1>3 DEF Shape
<1>5. action_queue' \in [Partitions -> Seq(Answers)]
  BY <1>2, <1>3 DEF Shape
<1>6. ASSUME NEW a \in Agents, p \in PartitionMask(a)
      PROVE  /\ inbox'[a][p] = Append(inbox[a][p], m) /\ inbox'[a][p] \in Seq(Answers)
             /\ ToSet(inbox'[a][p]) = ToSet(inbox[a][p]) \cup {m}
             /\ \A M : Count(inbox'[a][p], M) = Count(inbox[a][p], M) + IF m \in M THEN 1 ELSE 0
  <2>1. inbox'[a][p] = Append(inbox[a][p], m) /\ inbox[a][p] \in Seq(Answers)
    BY <1>3, <1>6 DEF Shape
  <2>. QED BY <1>2, <2>1, AppendMsg
<1>7. ASSUME NEW a \in Agents, NEW k \in Partitions, k # p \/ p \notin PartitionMask(a)
      PROVE  inbox'[a][k] = inbox[a][k]
  BY <1>3, <1>7 DEF Shape
<1>8. inbox' \in [Agents -> [Partitions -> Seq(Answers)]]
  <2>1. \A a \in Agents, k \in Partitions : inbox'[a][k] \in Seq(Answers)
    <3>. TAKE a \in Agents, k \in Partitions
    <3>1. CASE k = p /\ p \in PartitionMask(a)
      BY <1>6, <3>1
    <3>2. CASE k # p \/ p \notin PartitionMask(a)
      <4>1. inbox'[a][k] = inbox[a][k]
        BY <1>7, <3>2
      <4>. QED BY <4>1 DEF Shape
    <3>. QED BY <3>1, <3>2
  <2>2. inbox' = [a \in Agents |-> [k \in Partitions |-> inbox'[a][k]]]
    BY <1>3 DEF Shape
  <2>. QED BY <2>1, <2>2
<1>9. \A k \in Partitions : Told(k)' \subseteq Told(k)
  <2>. SUFFICES ASSUME NEW k \in Partitions, NEW x \in Told(k)' PROVE x \in Told(k)
    OBVIOUS
  <2>1. CASE x \in ToSet(action_queue'[k])
    BY <1>2, <1>4, <2>1 DEF Told
  <2>2. ASSUME NEW a \in Agents, x \in ToSet(inbox'[a][k]) PROVE x \in Told(k)
    <3>1. x \in ToSet(inbox[a][k]) \/ (k = p /\ x = m)
      BY <1>6, <1>7, <2>2
    <3>. QED BY <1>2, <3>1 DEF Told
  <2>. QED BY <2>1, <2>2 DEF Told
<1>. QED BY <1>2, <1>4, <1>5, <1>6, <1>7, <1>8, <1>9

LEMMA ConsumeEffect ==
    ASSUME Shape, NEW a \in Agents, NEW p \in Partitions, inbox[a][p] # <<>>, Consume(a, p)
    PROVE  LET m == Head(inbox[a][p])
           IN  /\ m \in ToSet(inbox[a][p]) /\ m \in Told(p) /\ m \in Answers
               /\ inbox' \in [Agents -> [Partitions -> Seq(Answers)]]
               /\ Asks' = Asks /\ \A k \in Partitions : Told(k)' \subseteq Told(k)
               /\ \A b \in Agents, k \in Partitions :
                      b # a \/ k # p => inbox'[b][k] = inbox[b][k]
               /\ inbox'[a][p] = Tail(inbox[a][p])
               /\ ToSet(inbox'[a][p]) \subseteq ToSet(inbox[a][p])
               /\ \A M : Count(inbox[a][p], M) = Count(inbox'[a][p], M) + IF m \in M THEN 1 ELSE 0
<1>. DEFINE m == Head(inbox[a][p])
            q == Tail(inbox[a][p])
<1>1. /\ q \in Seq(Answers) /\ m \in Answers
      /\ ToSet(inbox[a][p]) = ToSet(q) \cup {m}
      /\ \A M : Count(inbox[a][p], M) = Count(q, M) + IF m \in M THEN 1 ELSE 0
  BY TailMsg DEF Shape
<1>2. inbox' = [inbox EXCEPT ![a][p] = q] /\ UNCHANGED <<queue, wire, action_queue>>
  BY DEF Consume, venueVars
<1>3. q = Tail(inbox[a][p])
  OBVIOUS
<1>. HIDE DEF m, q
<1>4. /\ inbox'[a][p] = q
      /\ \A b \in Agents, k \in Partitions : b # a \/ k # p => inbox'[b][k] = inbox[b][k]
      /\ inbox' \in [Agents -> [Partitions -> Seq(Answers)]]
  BY <1>1, <1>2 DEF Shape
<1>5. \A b \in Agents, k \in Partitions : ToSet(inbox'[b][k]) \subseteq ToSet(inbox[b][k])
  BY <1>1, <1>4
<1>6. \A k \in Partitions : Told(k)' \subseteq Told(k)
  BY <1>2, <1>5 DEF Told
<1>7. Asks' = Asks
  BY <1>2, SameMessages
<1>8. m \in Told(p)
  BY <1>1 DEF Told
<1>. QED BY <1>1, <1>3, <1>4, <1>6, <1>7, <1>8 DEF m

-----------------------------------------------------------------------------
(* What most steps leave as it is. *)

BookKept == \A a \in Agents, s \in Slots : Entry(a, s)' =>
    /\ Entry(a, s) /\ book'[a][s].otk = book[a][s].otk /\ book'[a][s].oid = book[a][s].oid
    /\ book'[a][s].series = book[a][s].series /\ book'[a][s].otk_trace = book[a][s].otk_trace
    /\ book'[a][s].os = "created" => book[a][s].os = "created"
NamesKept == \A a \in Agents, s \in Slots : Entry(a, s)' =>
    /\ Entry(a, s) /\ book'[a][s].otk = book[a][s].otk
    /\ book'[a][s].series = book[a][s].series /\ book'[a][s].otk_trace = book[a][s].otk_trace
BookSame == BookKept /\ \A a \in Agents, s \in Slots : Entry(a, s) => Entry(a, s)'

VenueSame == \A t \in Token :
    /\ v_order'[t] = Null <=> v_order[t] = Null
    /\ v_order[t] # Null => v_order'[t].oid = v_order[t].oid /\ v_order'[t].series = v_order[t].series

LEMMA TokenShape ==
    \A t \in Token : t[1] \in Agents /\ t[2] \in 1..MaxTokens[t[1]] /\ t = <<t[1], t[2]>>
BY DEF Token

LEMMA EntryTypes ==
    ASSUME Shape, NEW a \in Agents, NEW s \in Slots, Entry(a, s)
    PROVE  /\ book[a][s] \in AgentOrders /\ book[a][s].otk \in Token
           /\ Tokens(book[a][s]) \subseteq Token /\ book[a][s].otk \in Tokens(book[a][s])
           /\ Tokens(book[a][s]) = {book[a][s].otk} \cup ToSet(book[a][s].otk_trace)
           /\ book[a][s].series \in Series /\ Partition(book[a][s]) \in Partitions
           /\ book[a][s].price \in Prices /\ book[a][s].oid \in Nat
<1>1. book[a][s] \in AgentOrders
  BY DEF Shape, Entry
<1>2. /\ book[a][s].otk \in Token /\ book[a][s].series \in Series
      /\ book[a][s].price \in Prices /\ book[a][s].oid \in Nat
      /\ book[a][s].otk_trace \in Seq(Token)
  BY <1>1 DEF AgentOrders
<1>3. ToSet(book[a][s].otk_trace) \subseteq Token
  BY <1>2, ElementOfSeq, LenProperties DEF ToSet
<1>. QED BY <1>1, <1>2, <1>3, OrdersAssumption DEF Tokens, Partition

LEMMA TokensKeptWithNames ==
    ASSUME Shape, Shape', TokenInv, NamesKept, VenueSame, Asks' \subseteq Asks,
           UNCHANGED <<m_otk_counter, v_otk_map>>
    PROVE  TokenInv'
<1>. USE DEF TokenInv
<1>1. \A t : Drawn(t)' <=> Drawn(t)
  BY DEF Drawn
<1>2. BookDrawn'
  BY <1>1 DEF BookDrawn, NamesKept, Tokens
<1>3. AsksDrawn' /\ ReplaceNames'
  BY <1>1 DEF AsksDrawn, ReplaceNames
<1>4. VenueDrawn'
  BY <1>1 DEF VenueDrawn, VenueSame
<1>5. SeriesOK'
  BY DEF SeriesOK, NamesKept, VenueSame
<1>6. Primary' \subseteq Primary /\ Alias' \subseteq Alias
  BY DEF Primary, Alias, NamesKept, VenueSame
<1>7. NoneIsBoth'
  BY <1>6 DEF NoneIsBoth
<1>8. VenueMap'
  BY <1>6 DEF VenueMap, VenueSame, Primary
<1>. QED BY <1>2, <1>3, <1>4, <1>5, <1>7, <1>8

LEMMA TokensKept ==
    ASSUME Shape, Shape', TokenInv, BookKept, VenueSame, Asks' \subseteq Asks,
           UNCHANGED <<m_otk_counter, v_otk_map>>
    PROVE  TokenInv'
<1>1. NamesKept
  BY DEF NamesKept, BookKept
<1>. QED BY <1>1, TokensKeptWithNames

LEMMA IdsKept ==
    ASSUME Shape, Shape', VenueIds, VenueSame, m_oid_gen' = m_oid_gen
    PROVE  VenueIds'
<1>1. \A x \in Series : AtVenue(x)' = AtVenue(x)
  BY DEF AtVenue, VenueSame
<1>2. \A t \in Token : v_order[t] # Null => v_order[t].series \in Series
  BY DEF Shape, VenueOrders
<1>3. \A x \in Series : m_oid_gen'[x] = Cardinality(AtVenue(x)')
  BY <1>1 DEF VenueIds
<1>4. \A t \in Token : v_order'[t] # Null =>
          v_order'[t].oid \in 1..m_oid_gen'[v_order'[t].series]
  BY <1>2 DEF VenueIds, VenueSame
<1>5. \A t, u \in Token : v_order'[t] # Null /\ v_order'[u] # Null
          /\ v_order'[t].series = v_order'[u].series /\ v_order'[t].oid = v_order'[u].oid => t = u
  BY DEF VenueIds, VenueSame
<1>. QED BY <1>3, <1>4, <1>5 DEF VenueIds

LEMMA BookIdsKept ==
    ASSUME Shape, Shape', BookIds, VenueSame, BookKept
    PROVE  BookIds'
<1>. SUFFICES ASSUME NEW a \in Agents, NEW s \in Slots, Entry(a, s)'
              PROVE  /\ book'[a][s].os = "created" => book'[a][s].oid = 0
                     /\ book'[a][s].oid # 0 =>
                            /\ v_order'[book'[a][s].otk] # Null
                            /\ v_order'[book'[a][s].otk].oid = book'[a][s].oid
  BY DEF BookIds
<1>1. /\ Entry(a, s) /\ book'[a][s].otk = book[a][s].otk /\ book'[a][s].oid = book[a][s].oid
      /\ book'[a][s].os = "created" => book[a][s].os = "created"
  BY DEF BookKept
<1>2. book[a][s].otk \in Token
  BY <1>1, EntryTypes
<1>. QED BY <1>1, <1>2 DEF BookIds, VenueSame

LEMMA MapsKept ==
    ASSUME MapsInv, BookSame, UNCHANGED <<m_otk_map, m_oid_map>>
    PROVE  MapsInv'
<1>1. \A a \in Agents, s \in Slots : Entry(a, s)' <=> Entry(a, s)
  BY DEF BookSame, BookKept
<1>2. \A a \in Agents, s \in Slots : Entry(a, s) =>
          Tokens(book[a][s])' = Tokens(book[a][s]) /\ book'[a][s].oid = book[a][s].oid
  BY <1>1 DEF BookSame, BookKept, Tokens
<1>. QED BY <1>1, <1>2 DEF MapsInv, TokenMapOK, OidMapOK

LEMMA AnswersKept ==
    ASSUME Shape, AnswersOK, VenueSame, NEW p \in Partitions, NEW m,
           \A k \in Partitions : k # p => Told(k)' \subseteq Told(k),
           Told(p)' \subseteq Told(p) \cup {m},
           m.type # "rejected" => /\ v_order'[m.otk] # Null /\ m.oid = v_order'[m.otk].oid
                                  /\ PartitionOf[v_order'[m.otk].series] = p
    PROVE  AnswersOK'
<1>1. \A k \in Partitions : \A x \in Told(k) : x.otk \in Token
  BY MessageTypes DEF Answers
<1>2. ASSUME NEW k \in Partitions, NEW x \in Told(k), x.type # "rejected"
      PROVE  /\ v_order'[x.otk] # Null /\ x.oid = v_order'[x.otk].oid
             /\ PartitionOf[v_order'[x.otk].series] = k
  BY <1>1, <1>2 DEF AnswersOK, VenueSame
<1>. QED BY <1>2 DEF AnswersOK

LEMMA AnswersStay ==
    ASSUME Shape, AnswersOK, VenueSame, \A k \in Partitions : Told(k)' \subseteq Told(k)
    PROVE  AnswersOK'
<1>1. \A k \in Partitions : \A x \in Told(k) : x.otk \in Token
  BY MessageTypes DEF Answers
<1>. QED BY <1>1 DEF AnswersOK, VenueSame

LEMMA OnceKept ==
    ASSUME Shape, SubmitOnce, VenueSame, UNCHANGED <<queue, wire>>
    PROVE  SubmitOnce'
<1>1. Asks' = Asks /\ \A r \in Asks : r.otk \in Token
  BY SameMessages, MessageTypes DEF Requests
<1>. QED BY <1>1 DEF SubmitOnce, VenueSame

LEMMA SameBook == book' = book => BookSame
BY DEF BookSame, BookKept, Entry

LEMMA SameVenue == v_order' = v_order => VenueSame
BY DEF VenueSame

(* One more request, by a token of a submission. *)
LEMMA TokensGrow ==
    ASSUME Shape, Shape', TokenInv, BookKept, VenueSame, NEW r \in Requests,
           Asks' = Asks \cup {r}, UNCHANGED <<m_otk_counter, v_otk_map>>,
           r.type # "replace", r.new_otk = Null, r.otk \in Primary, Drawn(r.otk),
           r.series \in Trades[r.otk[1]]
    PROVE  TokenInv'
<1>. USE DEF TokenInv
<1>1. \A t : Drawn(t)' <=> Drawn(t)
  BY DEF Drawn
<1>2. BookDrawn'
  BY <1>1 DEF BookDrawn, BookKept, Tokens
<1>3. AsksDrawn' /\ ReplaceNames'
  BY <1>1 DEF AsksDrawn, ReplaceNames
<1>4. VenueDrawn'
  BY <1>1 DEF VenueDrawn, VenueSame
<1>5. SeriesOK'
  BY DEF SeriesOK, BookKept, VenueSame
<1>6. Primary' \subseteq Primary
  BY DEF Primary, BookKept, VenueSame
<1>7. Alias' \subseteq Alias
  BY OrdersAssumption DEF Alias, BookKept
<1>8. NoneIsBoth'
  BY <1>6, <1>7 DEF NoneIsBoth
<1>9. VenueMap'
  BY <1>6 DEF VenueMap, VenueSame, Primary
<1>. QED BY <1>2, <1>3, <1>4, <1>5, <1>8, <1>9

(* One more request, not a submission. *)
LEMMA OnceGrown ==
    ASSUME Shape, SubmitOnce, VenueSame, NEW a \in Agents, NEW r \in Requests,
           r.type # "submit", Asks' = Asks \cup {r}, wire' = wire,
           \A b \in Agents : b # a => queue'[b] = queue[b],
           \A M : Count(queue'[a], M) = Count(queue[a], M) + IF r \in M THEN 1 ELSE 0
    PROVE  SubmitOnce'
<1>1. \A q \in Asks : q.otk \in Token
  BY MessageTypes DEF Requests
<1>2. ASSUME NEW t \in Token, NEW p \in Partitions
      PROVE  Count(queue'[t[1]], Submits(t)) + Count(wire'[p], Submits(t)) <= 1
  <2>1. t[1] \in Agents /\ r \notin Submits(t)
    BY TokenShape DEF Submits
  <2>2. Count(queue[t[1]], Submits(t)) \in Nat
    BY <2>1, CountType DEF Shape
  <2>3. Count(queue'[t[1]], Submits(t)) = Count(queue[t[1]], Submits(t))
    BY <2>1, <2>2
  <2>. QED BY <2>3 DEF SubmitOnce
<1>3. \A q \in Asks' : q.type = "submit" => v_order'[q.otk] = Null
  BY <1>1 DEF SubmitOnce, VenueSame
<1>. QED BY <1>2, <1>3 DEF SubmitOnce

-----------------------------------------------------------------------------
(* The steps of an agent's own keep BaseInv. *)

LEMMA FreshToken ==
    ASSUME Shape, TokenInv, NEW a \in Agents, HasToken(a), DrawToken(a)
    PROVE  \E t \in Token :
           /\ t = otk_gen(a) /\ t[1] = a /\ t \notin Primary /\ t \notin Alias
           /\ \A b \in Agents, s \in Slots : Entry(b, s) => t \notin Tokens(book[b][s])
           /\ \A r \in Asks : r.otk # t /\ r.new_otk # t
           /\ v_order[t] = Null /\ v_otk_map[t] = Null
           /\ m_otk_counter' \in [Agents -> Nat]
           /\ \A b \in Agents : m_otk_counter[b] <= MaxTokens[b]
                                    => m_otk_counter'[b] <= MaxTokens[b]
           /\ \A u \in Token : Drawn(u) => Drawn(u)'
           /\ Drawn(t)'
<1>1. m_otk_counter[a] \in Nat /\ MaxTokens[a] \in Nat /\ m_otk_counter[a] < MaxTokens[a]
  BY OrdersAssumption DEF Shape, HasToken
<1>. DEFINE n == m_otk_counter[a] + 1
<1>2. n \in 1..MaxTokens[a]
  BY <1>1
<1>3. PICK t \in Token : t = <<a, n>>
  <2>. HIDE DEF n
  <2>1. <<a, n>> \in {a} \X (1..MaxTokens[a])
    BY <1>2
  <2>. QED BY <2>1 DEF Token
<1>4. t = otk_gen(a) /\ t[1] = a /\ t[2] = m_otk_counter[a] + 1
  BY <1>3 DEF otk_gen
<1>5. ~ Drawn(t)
  BY <1>1, <1>4 DEF Drawn
<1>6. \A b \in Agents, s \in Slots : Entry(b, s) => t \notin Tokens(book[b][s])
  BY <1>5 DEF TokenInv, BookDrawn
<1>7. t # Null
  BY OrdersAssumption
<1>8. \A r \in Asks : r.otk # t /\ r.new_otk # t
  BY <1>5, <1>7 DEF TokenInv, AsksDrawn
<1>9. v_order[t] = Null /\ v_otk_map[t] = Null
  BY <1>5 DEF TokenInv, VenueDrawn
<1>10. t \notin Primary /\ t \notin Alias
  BY <1>6, <1>8, <1>9 DEF Primary, Alias, Tokens
<1>11. /\ m_otk_counter' \in [Agents -> Nat] /\ m_otk_counter'[a] = m_otk_counter[a] + 1
       /\ \A b \in Agents : b # a => m_otk_counter'[b] = m_otk_counter[b]
  BY <1>1 DEF Shape, DrawToken
<1>12. \A b \in Agents : m_otk_counter[b] <= MaxTokens[b] => m_otk_counter'[b] <= MaxTokens[b]
  BY <1>1, <1>11
<1>13. ASSUME NEW u \in Token, Drawn(u) PROVE Drawn(u)'
  <2>1. u[1] \in Agents /\ u[2] \in Int
    BY TokenShape
  <2>2. CASE u[1] = a
    BY <1>1, <1>11, <1>13, <2>1, <2>2 DEF Drawn
  <2>3. CASE u[1] # a
    BY <1>11, <1>13, <2>1, <2>3 DEF Drawn
  <2>. QED BY <2>2, <2>3
<1>14. Drawn(t)'
  BY <1>1, <1>4, <1>11 DEF Drawn
<1>. QED BY <1>4, <1>6, <1>8, <1>9, <1>10, <1>11, <1>12, <1>13, <1>14

LEMMA NoSubmission ==
    ASSUME Shape, NEW t \in Token, \A r \in Asks : r.type = "submit" => r.otk # t
    PROVE  /\ Count(queue[t[1]], Submits(t)) = 0
           /\ \A p \in Partitions : Count(wire[p], Submits(t)) = 0
<1>1. \A m \in ToSet(queue[t[1]]) : m \notin Submits(t)
  BY MessageTypes, TokenShape DEF Submits
<1>2. \A p \in Partitions : \A m \in ToSet(wire[p]) : m \notin Submits(t)
  BY MessageTypes DEF Submits
<1>. QED BY <1>1, <1>2, TokenShape, CountType DEF Shape

LEMMA SubmitBase ==
    ASSUME BaseInv, NEW a \in Agents, NEW s \in Slots, NEW x \in Series, NEW price \in Prices,
           submit_order(a, s, x, price)
    PROVE  BaseInv'
<1>0. Shape /\ Bounds /\ TokenInv /\ Placed /\ SubmitOnce /\ VenueIds /\ AnswersOK
      /\ Heard /\ BookIds /\ MapsInv
  BY DEF BaseInv
<1>2. PICK t \in Token :
      /\ t = otk_gen(a) /\ t[1] = a /\ t \notin Primary /\ t \notin Alias
      /\ \A b \in Agents, k \in Slots : Entry(b, k) => t \notin Tokens(book[b][k])
      /\ \A q \in Asks : q.otk # t /\ q.new_otk # t
      /\ v_order[t] = Null /\ v_otk_map[t] = Null
      /\ m_otk_counter' \in [Agents -> Nat]
      /\ \A b \in Agents : m_otk_counter[b] <= MaxTokens[b] => m_otk_counter'[b] <= MaxTokens[b]
      /\ \A u \in Token : Drawn(u) => Drawn(u)'
      /\ Drawn(t)'
  BY <1>0, FreshToken DEF submit_order
<1>. DEFINE r == [type |-> "submit", otk |-> t, new_otk |-> Null, series |-> x, price |-> price]
            o == [otk |-> t, oid |-> 0, series |-> x, price |-> price,
                  os |-> "created", ps |-> {"submit"}, otk_trace |-> <<>>]
<1>1. /\ ~ Entry(a, s) /\ x \in Trades[a]
      /\ book' = [book EXCEPT ![a][s] = o] /\ m_otk_map' = [m_otk_map EXCEPT ![a][t] = s]
      /\ enqueue(a, r) /\ wire' = wire /\ m_oid_map' = m_oid_map /\ inbox' = inbox
      /\ v_order' = v_order /\ v_otk_map' = v_otk_map /\ m_oid_gen' = m_oid_gen
      /\ action_queue' = action_queue
  BY <1>2 DEF submit_order, venueVars
<1>3. r \in Requests /\ o \in AgentOrders /\ r.type = "submit" /\ r.otk = t /\ r.new_otk = Null
      /\ r.series = x
  BY <1>2, EmptySeq DEF Requests, AgentOrders, order_state, pending
<1>4. /\ o.otk = t /\ o.oid = 0 /\ o.series = x /\ o.os = "created" /\ Tokens(o) = {t}
      /\ ToSet(o.otk_trace) = {} /\ o # Null
  <2>1. ToSet(o.otk_trace) = {}
    <3>1. o.otk_trace = <<>> /\ DOMAIN <<>> = {}
      OBVIOUS
    <3>. QED BY <3>1 DEF ToSet
  <2>. QED BY <1>3, <2>1, OrdersAssumption DEF Tokens
<1>. HIDE DEF r, o
<1>5. /\ queue' \in [Agents -> Seq(Requests)] /\ Asks' = Asks \cup {r}
      /\ \A b \in Agents : Len(queue'[b]) <= QueueCapacity
      /\ \A b \in Agents : b # a => queue'[b] = queue[b]
      /\ ToSet(queue'[a]) = ToSet(queue[a]) \cup {r}
      /\ \A M : Count(queue'[a], M) = Count(queue[a], M) + IF r \in M THEN 1 ELSE 0
  BY <1>0, <1>1, <1>3, EnqueueEffect
<1>6. /\ book'[a][s] = o
      /\ \A b \in Agents, k \in Slots : b # a \/ k # s => book'[b][k] = book[b][k]
      /\ book' \in [Agents -> [Slots -> AgentOrders \cup {Null}]]
  BY <1>0, <1>1, <1>3 DEF Shape
<1>7. /\ m_otk_map'[a][t] = s
      /\ \A b \in Agents, u \in Token : b # a \/ u # t => m_otk_map'[b][u] = m_otk_map[b][u]
      /\ m_otk_map' \in [Agents -> [Token -> Slots \cup {Null}]]
  BY <1>0, <1>1, <1>2 DEF Shape
<1>8. Shape'
  BY <1>0, <1>1, <1>2, <1>5, <1>6, <1>7 DEF Shape
<1>9. Bounds'
  BY <1>0, <1>2, <1>5 DEF Bounds
<1>10. /\ \A b \in Agents, k \in Slots : b # a \/ k # s => (Entry(b, k)' <=> Entry(b, k))
       /\ Entry(a, s)' /\ Tokens(book[a][s])' = {t}
       /\ \A b \in Agents, k \in Slots : b # a \/ k # s => Tokens(book[b][k])' = Tokens(book[b][k])
  BY <1>4, <1>6 DEF Entry, Tokens
<1>11. TokenInv'
  <2>1. BookDrawn'
    <3>. SUFFICES ASSUME NEW b \in Agents, NEW k \in Slots, Entry(b, k)',
                         NEW u \in Tokens(book[b][k])'
                  PROVE  u[1] = b /\ Drawn(u)'
      BY DEF BookDrawn
    <3>1. CASE b = a /\ k = s
      BY <1>2, <1>10, <3>1
    <3>2. CASE b # a \/ k # s
      <4>1. Entry(b, k) /\ u \in Tokens(book[b][k]) /\ u \in Token
        BY <1>0, <1>10, <3>2, EntryTypes
      <4>. QED BY <1>0, <1>2, <4>1 DEF TokenInv, BookDrawn
    <3>. QED BY <3>1, <3>2
  <2>2. AsksDrawn' /\ ReplaceNames'
    <3>1. \A q \in Asks : q.otk \in Token /\ (q.new_otk # Null => q.new_otk \in Token)
      BY <1>0, MessageTypes DEF Requests
    <3>2. ASSUME NEW q \in Asks' PROVE /\ Drawn(q.otk)' /\ (q.new_otk # Null => Drawn(q.new_otk)')
                                       /\ q.type = "replace" => q.new_otk # Null
      <4>1. CASE q = r
        BY <1>2, <1>3, <4>1
      <4>2. CASE q \in Asks
        BY <1>0, <1>2, <3>1, <4>2 DEF TokenInv, AsksDrawn, ReplaceNames
      <4>. QED BY <1>5, <4>1, <4>2
    <3>. QED BY <3>2 DEF AsksDrawn, ReplaceNames
  <2>3. VenueDrawn'
    BY <1>0, <1>1, <1>2 DEF TokenInv, VenueDrawn
  <2>4. SeriesOK'
    BY <1>0, <1>1, <1>2, <1>3, <1>4, <1>5, <1>6, <1>10 DEF TokenInv, SeriesOK
  <2>5. Primary' \subseteq Primary \cup {t}
    BY <1>1, <1>3, <1>4, <1>5, <1>6, <1>10 DEF Primary
  <2>6. Alias' \subseteq Alias
    BY <1>1, <1>3, <1>4, <1>5, <1>6, <1>10, OrdersAssumption DEF Alias
  <2>7. NoneIsBoth'
    BY <1>0, <1>2, <2>5, <2>6 DEF TokenInv, NoneIsBoth
  <2>8. VenueMap'
    BY <1>0, <1>1, <1>2, <2>5 DEF TokenInv, VenueMap
  <2>. QED BY <2>1, <2>2, <2>3, <2>4, <2>7, <2>8 DEF TokenInv
<1>12. Placed'
  BY <1>0, <1>1, <1>2, <1>3, <1>5 DEF Placed
<1>13. SubmitOnce'
  <2>1. ASSUME NEW u \in Token, NEW p \in Partitions
        PROVE  Count(queue'[u[1]], Submits(u)) + Count(wire'[p], Submits(u)) <= 1
    <3>1. CASE u = t
      <4>1. Count(queue[a], Submits(t)) = 0 /\ Count(wire[p], Submits(t)) = 0
        BY <1>0, <1>2, NoSubmission
      <4>2. Count(queue'[a], Submits(t)) = Count(queue[a], Submits(t)) + 1
        BY <1>3, <1>5 DEF Submits
      <4>. QED BY <1>1, <1>2, <3>1, <4>1, <4>2
    <3>2. CASE u # t
      <4>1. u[1] \in Agents /\ r \notin Submits(u)
        BY <1>3, <3>2, TokenShape DEF Submits
      <4>2. Count(queue[u[1]], Submits(u)) \in Nat
        BY <1>0, <4>1, CountType DEF Shape
      <4>3. Count(queue'[u[1]], Submits(u)) = Count(queue[u[1]], Submits(u))
        BY <1>5, <4>1, <4>2
      <4>. QED BY <1>0, <1>1, <4>3 DEF SubmitOnce
    <3>. QED BY <3>1, <3>2
  <2>2. \A q \in Asks' : q.type = "submit" => v_order'[q.otk] = Null
    BY <1>0, <1>1, <1>2, <1>3, <1>5 DEF SubmitOnce
  <2>. QED BY <2>1, <2>2 DEF SubmitOnce
<1>14. VenueSame
  BY <1>1, SameVenue
<1>15. VenueIds'
  BY <1>0, <1>1, <1>8, <1>14, IdsKept
<1>16. AnswersOK' /\ Heard'
  <2>1. \A p \in Partitions : Told(p)' = Told(p)
    BY <1>1, SameMessages
  <2>2. AnswersOK'
    BY <1>0, <1>14, <2>1, AnswersStay
  <2>. QED BY <1>0, <1>1, <2>2 DEF Heard
<1>17. BookIds'
  BY <1>0, <1>1, <1>4, <1>6, <1>10 DEF BookIds
<1>18. MapsInv'
  <2>1. TokenMapOK'
    <3>. SUFFICES ASSUME NEW b \in Agents, NEW u \in Token, NEW k \in Slots
                  PROVE  m_otk_map'[b][u] = k <=> Entry(b, k)' /\ u \in Tokens(book[b][k])'
      BY DEF TokenMapOK
    <3>1. m_otk_map[b][u] = k <=> Entry(b, k) /\ u \in Tokens(book[b][k])
      BY <1>0 DEF MapsInv, TokenMapOK
    <3>2. CASE b = a /\ k = s
      BY <1>1, <1>7, <1>10, <3>1, <3>2
    <3>3. CASE (b # a \/ k # s) /\ b = a /\ u = t
      BY <1>2, <1>7, <1>10, <3>1, <3>3
    <3>4. CASE (b # a \/ k # s) /\ (b # a \/ u # t)
      BY <1>7, <1>10, <3>1, <3>4
    <3>. QED BY <3>2, <3>3, <3>4
  <2>2. OidMapOK'
    <3>1. \A i \in Oid : i # 0
      BY DEF Oid
    <3>. QED BY <1>0, <1>1, <1>4, <1>6, <1>10, <3>1 DEF MapsInv, OidMapOK
  <2>. QED BY <2>1, <2>2 DEF MapsInv
<1>. QED BY <1>8, <1>9, <1>11, <1>12, <1>13, <1>15, <1>16, <1>17, <1>18 DEF BaseInv

LEMMA CancelBase ==
    ASSUME BaseInv, NEW a \in Agents, NEW s \in Slots, cancel_order(a, s)
    PROVE  BaseInv'
<1>0. Shape /\ Bounds /\ TokenInv /\ Placed /\ SubmitOnce /\ VenueIds /\ AnswersOK
      /\ Heard /\ BookIds /\ MapsInv
  BY DEF BaseInv
<1>. DEFINE r == [type |-> "cancel", otk |-> book[a][s].otk, new_otk |-> Null,
                  series |-> book[a][s].series, price |-> book[a][s].price]
            o == [book[a][s] EXCEPT !.ps = @ \cup {"cancel"}]
<1>1. /\ Entry(a, s) /\ book' = [book EXCEPT ![a][s] = o]
      /\ enqueue(a, r) /\ wire' = wire /\ inbox' = inbox /\ m_otk_counter' = m_otk_counter
      /\ m_oid_map' = m_oid_map /\ m_otk_map' = m_otk_map
      /\ v_order' = v_order /\ v_otk_map' = v_otk_map /\ m_oid_gen' = m_oid_gen
      /\ action_queue' = action_queue
  BY <1>0 DEF cancel_order, venueVars, MayAmend, Shape
<1>2. /\ book[a][s] \in AgentOrders /\ book[a][s].otk \in Token /\ book[a][s].series \in Series
      /\ book[a][s].price \in Prices
  BY <1>0, <1>1, EntryTypes
<1>3. /\ r \in Requests /\ r.type = "cancel" /\ r.otk = book[a][s].otk /\ r.new_otk = Null
      /\ r.series = book[a][s].series
  BY <1>2 DEF Requests
<1>4. /\ o \in AgentOrders /\ o.otk = book[a][s].otk /\ o.oid = book[a][s].oid
      /\ o.series = book[a][s].series /\ o.otk_trace = book[a][s].otk_trace
      /\ o.os = book[a][s].os
  BY <1>2 DEF AgentOrders, pending
<1>. HIDE DEF r, o
<1>5. /\ queue' \in [Agents -> Seq(Requests)] /\ Asks' = Asks \cup {r}
      /\ \A b \in Agents : Len(queue'[b]) <= QueueCapacity
      /\ \A b \in Agents : b # a => queue'[b] = queue[b]
      /\ ToSet(queue'[a]) = ToSet(queue[a]) \cup {r}
      /\ \A M : Count(queue'[a], M) = Count(queue[a], M) + IF r \in M THEN 1 ELSE 0
  BY <1>0, <1>1, <1>3, EnqueueEffect
<1>6. /\ book'[a][s] = o
      /\ \A b \in Agents, k \in Slots : b # a \/ k # s => book'[b][k] = book[b][k]
      /\ book' \in [Agents -> [Slots -> AgentOrders \cup {Null}]]
  BY <1>0, <1>1, <1>4 DEF Shape
<1>7. Shape'
  BY <1>0, <1>1, <1>5, <1>6 DEF Shape
<1>8. Bounds'
  BY <1>0, <1>1, <1>5 DEF Bounds
<1>9. BookSame
  BY <1>1, <1>4, <1>6, OrdersAssumption DEF BookSame, BookKept, Entry
<1>10. VenueSame
  BY <1>1, SameVenue
<1>11. r.otk \in Primary /\ Drawn(r.otk) /\ r.series \in Trades[r.otk[1]] /\ r.otk[1] = a
  BY <1>0, <1>1, <1>2, <1>3, EntryTypes DEF TokenInv, BookDrawn, SeriesOK, Primary
<1>12. TokenInv'
  BY <1>0, <1>1, <1>3, <1>5, <1>7, <1>9, <1>10, <1>11, TokensGrow DEF BookSame
<1>13. Placed'
  BY <1>0, <1>1, <1>5, <1>11 DEF Placed
<1>14. SubmitOnce'
  BY <1>0, <1>1, <1>3, <1>5, <1>10, OnceGrown
<1>15. VenueIds' /\ BookIds' /\ MapsInv'
  BY <1>0, <1>1, <1>7, <1>9, <1>10, IdsKept, BookIdsKept, MapsKept DEF BookSame
<1>16. AnswersOK' /\ Heard'
  <2>1. \A p \in Partitions : Told(p)' = Told(p)
    BY <1>1, SameMessages
  <2>2. AnswersOK'
    BY <1>0, <1>10, <2>1, AnswersStay
  <2>. QED BY <1>0, <1>1, <2>2 DEF Heard
<1>. QED BY <1>7, <1>8, <1>12, <1>13, <1>14, <1>15, <1>16 DEF BaseInv

LEMMA ModifyBase ==
    ASSUME BaseInv, NEW a \in Agents, NEW s \in Slots, NEW price \in Prices,
           modify_order(a, s, price)
    PROVE  BaseInv'
<1>0. Shape /\ Bounds /\ TokenInv /\ Placed /\ SubmitOnce /\ VenueIds /\ AnswersOK
      /\ Heard /\ BookIds /\ MapsInv
  BY DEF BaseInv
<1>1. PICK t \in Token :
      /\ t = otk_gen(a) /\ t[1] = a /\ t \notin Primary /\ t \notin Alias
      /\ \A b \in Agents, k \in Slots : Entry(b, k) => t \notin Tokens(book[b][k])
      /\ \A q \in Asks : q.otk # t /\ q.new_otk # t
      /\ v_order[t] = Null /\ v_otk_map[t] = Null
      /\ m_otk_counter' \in [Agents -> Nat]
      /\ \A b \in Agents : m_otk_counter[b] <= MaxTokens[b] => m_otk_counter'[b] <= MaxTokens[b]
      /\ \A u \in Token : Drawn(u) => Drawn(u)'
      /\ Drawn(t)'
  BY <1>0, FreshToken DEF modify_order
<1>. DEFINE r == [type |-> "replace", otk |-> book[a][s].otk, new_otk |-> t,
                  series |-> book[a][s].series, price |-> price]
            o == [book[a][s] EXCEPT !.otk_trace = Append(@, t), !.ps = @ \cup {"replace"}]
<1>2. /\ Entry(a, s) /\ book' = [book EXCEPT ![a][s] = o]
      /\ m_otk_map' = [m_otk_map EXCEPT ![a][t] = s]
      /\ enqueue(a, r) /\ wire' = wire /\ inbox' = inbox /\ m_oid_map' = m_oid_map
      /\ v_order' = v_order /\ v_otk_map' = v_otk_map /\ m_oid_gen' = m_oid_gen
      /\ action_queue' = action_queue
  BY <1>0, <1>1 DEF modify_order, venueVars, MayAmend, Shape
<1>3. /\ book[a][s] \in AgentOrders /\ book[a][s].otk \in Token /\ book[a][s].series \in Series
      /\ book[a][s].otk \in Tokens(book[a][s]) /\ Tokens(book[a][s]) \subseteq Token
      /\ Tokens(book[a][s]) = {book[a][s].otk} \cup ToSet(book[a][s].otk_trace)
  BY <1>0, <1>2, EntryTypes
<1>4. /\ r \in Requests /\ r.type = "replace" /\ r.otk = book[a][s].otk /\ r.new_otk = t
      /\ r.series = book[a][s].series
  BY <1>3 DEF Requests
<1>5. /\ Append(book[a][s].otk_trace, t) \in Seq(Token)
      /\ ToSet(Append(book[a][s].otk_trace, t)) = ToSet(book[a][s].otk_trace) \cup {t}
  BY <1>3, AppendMsg DEF AgentOrders
<1>6. /\ o \in AgentOrders /\ o.otk = book[a][s].otk /\ o.oid = book[a][s].oid
      /\ o.series = book[a][s].series /\ ToSet(o.otk_trace) = ToSet(book[a][s].otk_trace) \cup {t}
      /\ o.os = book[a][s].os
  BY <1>3, <1>5 DEF AgentOrders, pending
<1>. HIDE DEF r, o
<1>7. /\ queue' \in [Agents -> Seq(Requests)] /\ Asks' = Asks \cup {r}
      /\ \A b \in Agents : Len(queue'[b]) <= QueueCapacity
      /\ \A b \in Agents : b # a => queue'[b] = queue[b]
      /\ ToSet(queue'[a]) = ToSet(queue[a]) \cup {r}
      /\ \A M : Count(queue'[a], M) = Count(queue[a], M) + IF r \in M THEN 1 ELSE 0
  BY <1>0, <1>2, <1>4, EnqueueEffect
<1>8. /\ book'[a][s] = o
      /\ \A b \in Agents, k \in Slots : b # a \/ k # s => book'[b][k] = book[b][k]
      /\ book' \in [Agents -> [Slots -> AgentOrders \cup {Null}]]
  BY <1>0, <1>2, <1>6 DEF Shape
<1>9. /\ m_otk_map'[a][t] = s
      /\ \A b \in Agents, u \in Token : b # a \/ u # t => m_otk_map'[b][u] = m_otk_map[b][u]
      /\ m_otk_map' \in [Agents -> [Token -> Slots \cup {Null}]]
  BY <1>0, <1>1, <1>2 DEF Shape
<1>10. Shape'
  BY <1>0, <1>1, <1>2, <1>7, <1>8, <1>9 DEF Shape
<1>11. Bounds'
  BY <1>0, <1>1, <1>7 DEF Bounds
<1>12. /\ \A b \in Agents, k \in Slots : Entry(b, k)' <=> Entry(b, k)
       /\ \A b \in Agents, k \in Slots : Entry(b, k) =>
              /\ book'[b][k].otk = book[b][k].otk /\ book'[b][k].oid = book[b][k].oid
              /\ book'[b][k].series = book[b][k].series /\ book'[b][k].os = book[b][k].os
       /\ Tokens(book[a][s])' = Tokens(book[a][s]) \cup {t}
       /\ \A b \in Agents, k \in Slots : b # a \/ k # s => Tokens(book[b][k])' = Tokens(book[b][k])
       /\ ToSet(book'[a][s].otk_trace) = ToSet(book[a][s].otk_trace) \cup {t}
  BY <1>2, <1>3, <1>6, <1>8, OrdersAssumption DEF Entry, Tokens
<1>13. TokenInv'
  <2>0. \A q \in Asks : q.otk \in Token /\ (q.new_otk # Null => q.new_otk \in Token)
    BY <1>0, MessageTypes DEF Requests
  <2>1. BookDrawn'
    <3>. SUFFICES ASSUME NEW b \in Agents, NEW k \in Slots, Entry(b, k)',
                         NEW u \in Tokens(book[b][k])'
                  PROVE  u[1] = b /\ Drawn(u)'
      BY DEF BookDrawn
    <3>1. CASE b = a /\ k = s /\ u = t
      BY <1>1, <3>1
    <3>2. CASE ~ (b = a /\ k = s /\ u = t)
      <4>1. Entry(b, k) /\ u \in Tokens(book[b][k]) /\ u \in Token
        BY <1>0, <1>12, <3>2, EntryTypes
      <4>. QED BY <1>0, <1>1, <4>1 DEF TokenInv, BookDrawn
    <3>. QED BY <3>1, <3>2
  <2>2. AsksDrawn' /\ ReplaceNames'
    <3>1. r.otk \in Token /\ Drawn(r.otk) /\ t # Null
      BY <1>0, <1>2, <1>3, <1>4, OrdersAssumption DEF TokenInv, BookDrawn
    <3>2. ASSUME NEW q \in Asks' PROVE /\ Drawn(q.otk)' /\ (q.new_otk # Null => Drawn(q.new_otk)')
                                       /\ q.type = "replace" => q.new_otk # Null
      <4>1. CASE q = r
        BY <1>1, <1>4, <3>1, <4>1
      <4>2. CASE q \in Asks
        BY <1>0, <1>1, <2>0, <4>2 DEF TokenInv, AsksDrawn, ReplaceNames
      <4>. QED BY <1>7, <4>1, <4>2
    <3>. QED BY <3>2 DEF AsksDrawn, ReplaceNames
  <2>3. VenueDrawn'
    BY <1>0, <1>1, <1>2 DEF TokenInv, VenueDrawn
  <2>4. SeriesOK'
    <3>1. r.series \in Trades[r.otk[1]]
      BY <1>0, <1>2, <1>3, <1>4 DEF TokenInv, SeriesOK, BookDrawn
    <3>. QED BY <1>0, <1>2, <1>7, <1>12, <3>1 DEF TokenInv, SeriesOK
  <2>5. Primary' \subseteq Primary
    BY <1>2, <1>3, <1>4, <1>7, <1>12 DEF Primary
  <2>6. Alias' \subseteq Alias \cup {t}
    <3>1. ASSUME NEW u \in Token, NEW b \in Agents, NEW k \in Slots, Entry(b, k)',
                 u \in ToSet(book'[b][k].otk_trace), u # t
          PROVE  Entry(b, k) /\ u \in ToSet(book[b][k].otk_trace)
      BY <1>8, <1>12, <3>1
    <3>. QED BY <1>4, <1>7, <3>1 DEF Alias
  <2>7. NoneIsBoth'
    BY <1>0, <1>1, <2>5, <2>6 DEF TokenInv, NoneIsBoth
  <2>8. VenueMap'
    BY <1>0, <1>2, <2>5 DEF TokenInv, VenueMap, Primary
  <2>. QED BY <2>1, <2>2, <2>3, <2>4, <2>7, <2>8 DEF TokenInv
<1>14. Placed'
  BY <1>0, <1>2, <1>3, <1>4, <1>7 DEF Placed, TokenInv, BookDrawn
<1>15. VenueSame
  BY <1>2, SameVenue
<1>16. SubmitOnce'
  BY <1>0, <1>2, <1>4, <1>7, <1>15, OnceGrown
<1>17. VenueIds'
  BY <1>0, <1>2, <1>10, <1>15, IdsKept
<1>18. AnswersOK' /\ Heard'
  <2>1. \A p \in Partitions : Told(p)' = Told(p)
    BY <1>2, SameMessages
  <2>2. AnswersOK'
    BY <1>0, <1>15, <2>1, AnswersStay
  <2>. QED BY <1>0, <1>2, <2>2 DEF Heard
<1>19. BookIds'
  BY <1>0, <1>2, <1>12 DEF BookIds
<1>20. MapsInv'
  <2>1. TokenMapOK'
    <3>. SUFFICES ASSUME NEW b \in Agents, NEW u \in Token, NEW k \in Slots
                  PROVE  m_otk_map'[b][u] = k <=> Entry(b, k)' /\ u \in Tokens(book[b][k])'
      BY DEF TokenMapOK
    <3>1. m_otk_map[b][u] = k <=> Entry(b, k) /\ u \in Tokens(book[b][k])
      BY <1>0 DEF MapsInv, TokenMapOK
    <3>2. CASE b = a /\ u = t
      <4>1. CASE k = s
        BY <1>2, <1>9, <1>12, <3>2, <4>1
      <4>2. CASE k # s
        BY <1>1, <1>9, <1>12, <3>2, <4>2
      <4>. QED BY <4>1, <4>2
    <3>3. CASE b # a \/ u # t
      <4>1. m_otk_map'[b][u] = m_otk_map[b][u]
        BY <1>9, <3>3
      <4>2. u \in Tokens(book[b][k])' <=> u \in Tokens(book[b][k])
        BY <1>12, <3>3
      <4>. QED BY <1>12, <3>1, <4>1, <4>2
    <3>. QED BY <3>2, <3>3
  <2>2. OidMapOK'
    BY <1>0, <1>2, <1>12 DEF MapsInv, OidMapOK
  <2>. QED BY <2>1, <2>2 DEF MapsInv
<1>. QED BY <1>10, <1>11, <1>13, <1>14, <1>16, <1>17, <1>18, <1>19, <1>20 DEF BaseInv

LEMMA EraseBase ==
    ASSUME BaseInv, NEW a \in Agents, NEW s \in Slots, erase_order(a, s)
    PROVE  BaseInv'
<1>0. Shape /\ Bounds /\ TokenInv /\ Placed /\ SubmitOnce /\ VenueIds /\ AnswersOK
      /\ Heard /\ BookIds /\ MapsInv
  BY DEF BaseInv
<1>1. /\ Entry(a, s) /\ book' = [book EXCEPT ![a][s] = Null]
      /\ m_oid_map' = [m_oid_map EXCEPT ![a] =
             [i \in Oid |-> IF i = book[a][s].oid THEN Null ELSE m_oid_map[a][i]]]
      /\ m_otk_map' = [m_otk_map EXCEPT ![a] =
             [t \in Token |-> IF t \in Tokens(book[a][s]) THEN Null ELSE m_otk_map[a][t]]]
      /\ UNCHANGED <<m_otk_counter, queue, wire, v_order, v_otk_map, m_oid_gen, action_queue, inbox>>
  BY DEF erase_order, venueVars
<1>2. /\ book'[a][s] = Null
      /\ \A b \in Agents, k \in Slots : b # a \/ k # s => book'[b][k] = book[b][k]
      /\ book' \in [Agents -> [Slots -> AgentOrders \cup {Null}]]
  BY <1>0, <1>1 DEF Shape
<1>3. /\ \A i \in Oid : m_oid_map'[a][i] = IF i = book[a][s].oid THEN Null ELSE m_oid_map[a][i]
      /\ \A b \in Agents : b # a => m_oid_map'[b] = m_oid_map[b]
      /\ m_oid_map' \in [Agents -> [Oid -> Slots \cup {Null}]]
  BY <1>0, <1>1 DEF Shape
<1>4. /\ \A t \in Token : m_otk_map'[a][t]
             = IF t \in Tokens(book[a][s]) THEN Null ELSE m_otk_map[a][t]
      /\ \A b \in Agents : b # a => m_otk_map'[b] = m_otk_map[b]
      /\ m_otk_map' \in [Agents -> [Token -> Slots \cup {Null}]]
  BY <1>0, <1>1 DEF Shape
<1>5. Shape' /\ Bounds'
  BY <1>0, <1>1, <1>2, <1>3, <1>4 DEF Shape, Bounds
<1>6. /\ ~ Entry(a, s)'
      /\ \A b \in Agents, k \in Slots : b # a \/ k # s =>
             /\ Entry(b, k)' <=> Entry(b, k)
             /\ Tokens(book[b][k])' = Tokens(book[b][k])
  BY <1>2 DEF Entry, Tokens
<1>7. BookKept /\ VenueSame
  BY <1>1, <1>2, <1>6, SameVenue DEF BookKept
<1>8. Asks' = Asks /\ \A p \in Partitions : Told(p)' = Told(p)
  BY <1>1, SameMessages
<1>9. TokenInv'
  BY <1>0, <1>1, <1>5, <1>7, <1>8, TokensKept
<1>10. Placed'
  BY <1>0, <1>1 DEF Placed
<1>11. SubmitOnce'
  BY <1>0, <1>1, <1>7, OnceKept
<1>12. VenueIds' /\ BookIds'
  BY <1>0, <1>1, <1>5, <1>7, IdsKept, BookIdsKept
<1>13. AnswersOK' /\ Heard'
  <2>1. AnswersOK'
    BY <1>0, <1>7, <1>8, AnswersStay
  <2>. QED BY <1>0, <1>1, <2>1 DEF Heard
<1>14. MapsInv'
  <2>1. \A k \in Slots : k # Null
    BY OrdersAssumption
  <2>2. TokenMapOK'
    <3>. SUFFICES ASSUME NEW b \in Agents, NEW u \in Token, NEW k \in Slots
                  PROVE  m_otk_map'[b][u] = k <=> Entry(b, k)' /\ u \in Tokens(book[b][k])'
      BY DEF TokenMapOK
    <3>1. /\ m_otk_map[b][u] = k <=> Entry(b, k) /\ u \in Tokens(book[b][k])
          /\ b = a => (m_otk_map[a][u] = s <=> u \in Tokens(book[a][s]))
      BY <1>0, <1>1 DEF MapsInv, TokenMapOK
    <3>2. CASE b # a
      BY <1>4, <1>6, <3>1, <3>2
    <3>3. CASE b = a
      BY <1>4, <1>6, <2>1, <3>1, <3>3
    <3>. QED BY <3>2, <3>3
  <2>3. OidMapOK'
    <3>. SUFFICES ASSUME NEW b \in Agents, NEW i \in Oid, NEW k \in Slots
                  PROVE  m_oid_map'[b][i] = k <=> Entry(b, k)' /\ book'[b][k].oid = i
      BY DEF OidMapOK
    <3>1. /\ m_oid_map[b][i] = k <=> Entry(b, k) /\ book[b][k].oid = i
          /\ b = a => (m_oid_map[a][i] = s <=> book[a][s].oid = i)
      BY <1>0, <1>1 DEF MapsInv, OidMapOK
    <3>2. CASE b # a
      BY <1>2, <1>3, <1>6, <3>1, <3>2
    <3>3. CASE b = a
      BY <1>2, <1>3, <1>6, <2>1, <3>1, <3>3
    <3>. QED BY <3>2, <3>3
  <2>. QED BY <2>2, <2>3 DEF MapsInv
<1>. QED BY <1>5, <1>9, <1>10, <1>11, <1>12, <1>13, <1>14 DEF BaseInv

LEMMA EmitBase ==
    ASSUME BaseInv, NEW a \in Agents, emit(a)
    PROVE  BaseInv'
<1>0. Shape /\ Bounds /\ TokenInv /\ Placed /\ SubmitOnce /\ VenueIds /\ AnswersOK
      /\ Heard /\ BookIds /\ MapsInv
  BY DEF BaseInv
<1>10. PICK r \in Requests : \E k \in Partitions : Emitted(a, r, k)
  BY <1>0, EmitEffect
<1>11. PICK p \in Partitions : Emitted(a, r, p)
  BY <1>10
<1>1. /\ r \in ToSet(queue[a]) /\ p = PartitionOf[r.series]
      /\ queue' \in [Agents -> Seq(Requests)] /\ wire' \in [Partitions -> Seq(Requests)]
      /\ Asks' = Asks
      /\ \A b \in Agents : Len(queue'[b]) <= QueueCapacity
      /\ \A b \in Agents : b # a => queue'[b] = queue[b]
      /\ \A k \in Partitions : k # p => wire'[k] = wire[k]
      /\ ToSet(queue'[a]) \subseteq ToSet(queue[a])
      /\ ToSet(wire'[p]) = ToSet(wire[p]) \cup {r}
      /\ \A M : Count(queue[a], M) = Count(queue'[a], M) + IF r \in M THEN 1 ELSE 0
      /\ \A M : Count(wire'[p], M) = Count(wire[p], M) + IF r \in M THEN 1 ELSE 0
  BY <1>11 DEF Emitted
<1>2. UNCHANGED <<book, m_otk_map, m_oid_map, m_otk_counter, v_order, v_otk_map, m_oid_gen,
                  action_queue, inbox>>
  BY DEF emit, agentVars, venueVars
<1>3. Shape' /\ Bounds'
  BY <1>0, <1>1, <1>2 DEF Shape, Bounds
<1>4. BookSame /\ VenueSame /\ BookKept
  BY <1>2, SameBook, SameVenue DEF BookSame
<1>5. TokenInv' /\ VenueIds' /\ BookIds' /\ MapsInv'
  BY <1>0, <1>1, <1>2, <1>3, <1>4, TokensKept, IdsKept, BookIdsKept, MapsKept
<1>6. AnswersOK' /\ Heard'
  <2>1. \A k \in Partitions : Told(k)' = Told(k)
    BY <1>2, SameMessages
  <2>2. AnswersOK'
    BY <1>0, <1>4, <2>1, AnswersStay
  <2>. QED BY <1>0, <1>2, <2>2 DEF Heard
<1>7. Placed'
  BY <1>0, <1>1 DEF Placed
<1>8. r.otk \in Token /\ r.otk[1] = a
  BY <1>0, <1>1 DEF Placed, Requests
<1>9. SubmitOnce'
  <2>1. ASSUME NEW t \in Token, NEW k \in Partitions
        PROVE  Count(queue'[t[1]], Submits(t)) + Count(wire'[k], Submits(t)) <= 1
    <3>1. /\ t[1] \in Agents /\ Count(queue'[t[1]], Submits(t)) \in Nat
          /\ Count(wire[k], Submits(t)) \in Nat
          /\ Count(queue[t[1]], Submits(t)) \in Nat
          /\ Count(queue[t[1]], Submits(t)) + Count(wire[k], Submits(t)) <= 1
      <4>1. t[1] \in Agents
        BY TokenShape
      <4>2. /\ queue[t[1]] \in Seq(Requests) /\ queue'[t[1]] \in Seq(Requests)
            /\ wire[k] \in Seq(Requests)
        BY <1>0, <1>1, <4>1 DEF Shape
      <4>3. /\ Count(queue'[t[1]], Submits(t)) \in Nat /\ Count(wire[k], Submits(t)) \in Nat
            /\ Count(queue[t[1]], Submits(t)) \in Nat
        BY <4>2, CountType
      <4>. QED BY <1>0, <4>1, <4>3 DEF SubmitOnce
    <3>2. CASE r \in Submits(t)
      <4>1. t[1] = a
        BY <1>8, <3>2 DEF Submits
      <4>2. Count(queue[a], Submits(t)) = Count(queue'[a], Submits(t)) + 1
        BY <1>1, <3>2
      <4>3. CASE k = p
        <5>1. Count(wire'[k], Submits(t)) = Count(wire[k], Submits(t)) + 1
          BY <1>1, <3>2, <4>3
        <5>. QED BY <3>1, <4>1, <4>2, <5>1
      <4>4. CASE k # p
        <5>1. Count(wire'[k], Submits(t)) = Count(wire[k], Submits(t))
          BY <1>1, <4>4
        <5>. QED BY <3>1, <4>1, <4>2, <5>1
      <4>. QED BY <4>3, <4>4
    <3>3. CASE r \notin Submits(t)
      <4>1. Count(wire'[k], Submits(t)) = Count(wire[k], Submits(t))
        <5>1. CASE k = p
          <6>1. Count(wire'[p], Submits(t)) = Count(wire[p], Submits(t)) + 0
            BY <1>1, <3>3
          <6>. QED BY <3>1, <5>1, <6>1
        <5>2. CASE k # p
          BY <1>1, <5>2
        <5>. QED BY <5>1, <5>2
      <4>2. Count(queue'[t[1]], Submits(t)) = Count(queue[t[1]], Submits(t))
        BY <1>1, <3>1, <3>3
      <4>. QED BY <3>1, <4>1, <4>2
    <3>. QED BY <3>2, <3>3
  <2>2. \A q \in Asks' : q.type = "submit" => v_order'[q.otk] = Null
    BY <1>0, <1>1, <1>2 DEF SubmitOnce
  <2>. QED BY <2>1, <2>2 DEF SubmitOnce
<1>. QED BY <1>3, <1>5, <1>6, <1>7, <1>9 DEF BaseInv

-----------------------------------------------------------------------------
(* The steps of the venue keep BaseInv. *)

LEMMA TokensFinite == IsFiniteSet(Token) /\ \A S : S \subseteq Token => IsFiniteSet(S)
<1>. DEFINE T(a) == {a} \X (1..MaxTokens[a])
<1>1. \A a \in Agents : IsFiniteSet(T(a))
  <2>. TAKE a \in Agents
  <2>1. 1 \in Int /\ MaxTokens[a] \in Int
    BY OrdersAssumption
  <2>2. IsFiniteSet({a}) /\ IsFiniteSet(1..MaxTokens[a])
    BY <2>1, FS_Singleton, FS_Interval
  <2>. QED BY <2>2, FS_Product
<1>2. IsFiniteSet({T(a) : a \in Agents})
  <2>. DEFINE F == [a \in Agents |-> T(a)]
  <2>1. F \in [Agents -> {T(a) : a \in Agents}] /\ \A X \in {T(a) : a \in Agents} :
            \E a \in Agents : F[a] = X
    OBVIOUS
  <2>2. F \in Surjection(Agents, {T(a) : a \in Agents})
    <3>. HIDE DEF F, T
    <3>. QED BY <2>1, Fun_IsSurj
  <2>. QED BY <2>2, OrdersAssumption, FS_Surjection
<1>3. IsFiniteSet(UNION {T(a) : a \in Agents})
  <2>. HIDE DEF T
  <2>1. \A X \in {T(a) : a \in Agents} : IsFiniteSet(X)
    BY <1>1
  <2>. QED BY <1>2, <2>1, FS_UNION
<1>4. IsFiniteSet(Token)
  BY <1>3 DEF Token
<1>. QED BY <1>4, FS_Subset

(* Requests are read off a wire. *)
LEMMA FewerSubmissions ==
    ASSUME Shape, SubmitOnce, NEW p \in Partitions, NEW r,
           queue' = queue, wire' \in [Partitions -> Seq(Requests)],
           \A k \in Partitions : k # p => wire'[k] = wire[k],
           \A M : Count(wire[p], M) = Count(wire'[p], M) + IF r \in M THEN 1 ELSE 0,
           NEW t \in Token, NEW k \in Partitions
    PROVE  Count(queue'[t[1]], Submits(t)) + Count(wire'[k], Submits(t)) <= 1
<1>1. /\ queue[t[1]] \in Seq(Requests) /\ wire[k] \in Seq(Requests)
      /\ wire'[k] \in Seq(Requests)
  BY TokenShape DEF Shape
<1>2. /\ Count(queue[t[1]], Submits(t)) \in Nat /\ Count(wire[k], Submits(t)) \in Nat
      /\ Count(wire'[k], Submits(t)) \in Nat
  BY <1>1, CountType
<1>3. Count(wire'[k], Submits(t)) <= Count(wire[k], Submits(t))
  <2>1. CASE k = p
    <3>1. Count(wire[k], Submits(t)) \in {Count(wire'[k], Submits(t)) + 0,
                                          Count(wire'[k], Submits(t)) + 1}
      BY <2>1
    <3>. QED BY <1>2, <3>1
  <2>. QED BY <1>2, <2>1
<1>. QED BY <1>2, <1>3 DEF SubmitOnce

LEMMA OnceRead ==
    ASSUME Shape, SubmitOnce, VenueSame, NEW p \in Partitions, NEW r,
           queue' = queue, Asks' \subseteq Asks, wire' \in [Partitions -> Seq(Requests)],
           \A k \in Partitions : k # p => wire'[k] = wire[k],
           \A M : Count(wire[p], M) = Count(wire'[p], M) + IF r \in M THEN 1 ELSE 0
    PROVE  SubmitOnce'
<1>1. \A q \in Asks : q.otk \in Token
  BY MessageTypes DEF Requests
<1>2. \A t \in Token, k \in Partitions :
          Count(queue'[t[1]], Submits(t)) + Count(wire'[k], Submits(t)) <= 1
  BY FewerSubmissions
<1>3. \A q \in Asks' : q.type = "submit" => v_order'[q.otk] = Null
  BY <1>1 DEF SubmitOnce, VenueSame
<1>. QED BY <1>2, <1>3 DEF SubmitOnce

LEMMA AnswerType ==
    ASSUME NEW type \in {"accepted", "replaced", "canceled"}, NEW t \in Token, NEW v \in VenueOrders
    PROVE  LET m == Answer(type, t, v)
           IN  /\ m \in Answers /\ m.type = type /\ m.otk = t
               /\ m.oid = v.oid /\ m.state = v.state /\ m.price = v.price
BY DEF Answer, Answers, VenueOrders

(* The request at the head of a wire, and what the venue knows of its token. *)
LEMMA HeadRequest ==
    ASSUME TradesOne, BaseInv, NEW p \in Partitions, wire[p] # <<>>
    PROVE  LET r == Head(wire[p])
           IN  /\ r \in Requests /\ r \in Asks /\ r.otk \in Token /\ r.otk \in Primary
               /\ r \in ToSet(wire[p]) /\ r.price \in Prices
               /\ PartitionOf[r.series] = p /\ r.series \in Series
               /\ Home(p) = IF v_order[r.otk] = Null THEN Null ELSE r.otk
               /\ v_order[r.otk] # Null => v_order[r.otk].series = r.series
<1>. DEFINE r == Head(wire[p])
<1>0. Shape /\ TokenInv /\ Placed
  BY DEF BaseInv
<1>1. r \in Requests /\ r \in ToSet(wire[p])
  <2>1. wire[p] \in Seq(Requests)
    BY <1>0 DEF Shape
  <2>. QED BY <2>1, TailMsg
<1>2. Home(p) = v_otk_map[r.otk]
  BY DEF Home
<1>. HIDE DEF r
<1>3. r \in Asks
  BY <1>0, <1>1, MessageTypes
<1>4. r.otk \in Token /\ r.series \in Series /\ r.price \in Prices
  BY <1>1 DEF Requests
<1>5. r.otk \in Primary
  BY <1>3, <1>4 DEF Primary
<1>6. PartitionOf[r.series] = p
  BY <1>0, <1>1 DEF Placed
<1>7. Home(p) = IF v_order[r.otk] = Null THEN Null ELSE r.otk
  BY <1>0, <1>2, <1>5 DEF TokenInv, VenueMap
<1>8. v_order[r.otk] # Null => v_order[r.otk].series = r.series
  BY <1>0, <1>3, <1>4, TokenShape DEF TokenInv, SeriesOK, TradesOne
<1>. QED BY <1>1, <1>3, <1>4, <1>5, <1>6, <1>7, <1>8 DEF r

(* The venue answers a request and changes nothing of its own. *)
LEMMA AnswerBase ==
    ASSUME BaseInv, NEW p \in Partitions, NEW m \in Answers,
           wire[p] # <<>>, Read(p), Schedule(p, m),
           UNCHANGED <<agentVars, queue, v_order, v_otk_map, m_oid_gen, inbox>>,
           m.type # "rejected" => /\ v_order[m.otk] # Null /\ m.oid = v_order[m.otk].oid
                                  /\ PartitionOf[v_order[m.otk].series] = p
    PROVE  BaseInv'
<1>. DEFINE r == Head(wire[p])
<1>0. Shape /\ Bounds /\ TokenInv /\ Placed /\ SubmitOnce /\ VenueIds /\ AnswersOK
      /\ Heard /\ BookIds /\ MapsInv
  BY DEF BaseInv
<1>1. UNCHANGED <<book, m_otk_map, m_oid_map, m_otk_counter, queue, v_order, v_otk_map,
                  m_oid_gen, inbox>>
  BY DEF agentVars
<1>2. /\ r \in Requests /\ wire' \in [Partitions -> Seq(Requests)] /\ Asks' \subseteq Asks
      /\ \A k \in Partitions : k # p => wire'[k] = wire[k]
      /\ ToSet(wire'[p]) \subseteq ToSet(wire[p])
      /\ \A M : Count(wire[p], M) = Count(wire'[p], M) + IF r \in M THEN 1 ELSE 0
  BY <1>0, <1>1, ReadEffect
<1>. HIDE DEF r
<1>3. /\ action_queue' \in [Partitions -> Seq(Answers)]
      /\ Told(p)' = Told(p) \cup {m} /\ \A k \in Partitions : k # p => Told(k)' = Told(k)
  BY <1>0, <1>1, ScheduleEffect
<1>4. Shape' /\ Bounds'
  BY <1>0, <1>1, <1>2, <1>3 DEF Shape, Bounds
<1>5. BookSame /\ VenueSame /\ BookKept
  BY <1>1, SameBook, SameVenue DEF BookSame
<1>6. TokenInv' /\ VenueIds' /\ BookIds' /\ MapsInv'
  BY <1>0, <1>1, <1>2, <1>4, <1>5, TokensKept, IdsKept, BookIdsKept, MapsKept
<1>7. SubmitOnce'
  BY <1>0, <1>1, <1>2, <1>5, OnceRead
<1>8. AnswersOK'
  BY <1>0, <1>1, <1>3, <1>5, AnswersKept
<1>9. Placed' /\ Heard'
  BY <1>0, <1>1, <1>2 DEF Placed, Heard
<1>. QED BY <1>4, <1>6, <1>7, <1>8, <1>9 DEF BaseInv

LEMMA RejectBase ==
    ASSUME TradesOne, BaseInv, NEW p \in Partitions, reject(p) \/ reject_unknown(p)
    PROVE  BaseInv'
<1>1. /\ wire[p] # <<>> /\ Read(p) /\ Schedule(p, Rejected(p))
      /\ UNCHANGED <<agentVars, queue, v_order, v_otk_map, m_oid_gen, inbox>>
  BY DEF reject, reject_unknown, Reads
<1>2. Rejected(p) \in Answers /\ Rejected(p).type = "rejected"
  BY <1>1, HeadRequest DEF Rejected, Answers
<1>. QED BY <1>1, <1>2, AnswerBase

LEMMA CancelAnswerBase ==
    ASSUME TradesOne, BaseInv, NEW p \in Partitions, cancel(p)
    PROVE  BaseInv'
<1>. DEFINE t == Head(wire[p]).otk
            m == Answer("canceled", t, v_order[t])
<1>1. wire[p] # <<>> /\ Home(p) # Null
  BY DEF cancel, Reads
<1>2. /\ t \in Token /\ Home(p) = t /\ v_order[t] # Null
      /\ PartitionOf[v_order[t].series] = p
  BY <1>1, HeadRequest
<1>3. v_order[t] \in VenueOrders
  BY <1>2 DEF BaseInv, Shape
<1>4. /\ Read(p) /\ Schedule(p, m)
      /\ UNCHANGED <<agentVars, queue, v_order, v_otk_map, m_oid_gen, inbox>>
  BY <1>2 DEF cancel
<1>5. m \in Answers /\ m.otk = t /\ m.oid = v_order[t].oid
  BY <1>2, <1>3, AnswerType
<1>. HIDE DEF m, t
<1>. QED BY <1>1, <1>2, <1>4, <1>5, AnswerBase

LEMMA ReplaceBase ==
    ASSUME TradesOne, BaseInv, NEW p \in Partitions, replace(p)
    PROVE  BaseInv'
<1>0. Shape /\ Bounds /\ TokenInv /\ Placed /\ SubmitOnce /\ VenueIds /\ AnswersOK
      /\ Heard /\ BookIds /\ MapsInv
  BY DEF BaseInv
<1>1. PICK r \in Requests : r = Head(wire[p])
  BY HeadRequest DEF replace, Reads
<1>2. /\ wire[p] # <<>> /\ r.type = "replace" /\ Home(p) # Null /\ Read(p)
      /\ v_order' = [v_order EXCEPT ![Home(p)].price = r.price]
      /\ v_otk_map' = [v_otk_map EXCEPT ![r.new_otk] = Home(p)]
      /\ Schedule(p, Answer("replaced", r.otk, v_order'[Home(p)]))
      /\ UNCHANGED <<book, m_otk_map, m_oid_map, m_otk_counter, queue, m_oid_gen, inbox>>
  BY <1>1 DEF replace, Reads, agentVars
<1>3. /\ r \in Asks /\ r.otk \in Token /\ Home(p) = r.otk /\ v_order[r.otk] # Null
      /\ PartitionOf[v_order[r.otk].series] = p /\ r.price \in Prices
  BY <1>1, <1>2, HeadRequest
<1>4. v_order[r.otk] \in VenueOrders
  BY <1>0, <1>3 DEF Shape
<1>5. /\ v_order'[r.otk] = [v_order[r.otk] EXCEPT !.price = r.price]
      /\ \A u \in Token : u # r.otk => v_order'[u] = v_order[u]
      /\ v_order' \in [Token -> VenueOrders \cup {Null}]
      /\ v_order'[r.otk] \in VenueOrders
  <2>1. v_order' = [v_order EXCEPT ![r.otk] = [v_order[r.otk] EXCEPT !.price = r.price]]
    BY <1>0, <1>2, <1>3 DEF Shape
  <2>2. [v_order[r.otk] EXCEPT !.price = r.price] \in VenueOrders
    BY <1>3, <1>4 DEF VenueOrders
  <2>. QED BY <1>0, <1>3, <2>1, <2>2 DEF Shape
<1>6. VenueSame
  <2>1. v_order'[r.otk] # Null /\ v_order'[r.otk].oid = v_order[r.otk].oid
        /\ v_order'[r.otk].series = v_order[r.otk].series
    BY <1>4, <1>5, OrdersAssumption DEF VenueOrders
  <2>. QED BY <1>3, <1>5, <2>1 DEF VenueSame
<1>7. PICK m \in Answers : /\ m = Answer("replaced", r.otk, v_order'[r.otk])
                           /\ m.otk = r.otk /\ m.oid = v_order'[r.otk].oid
  <2>1. PICK v \in VenueOrders : v = v_order'[r.otk]
    BY <1>5
  <2>2. /\ Answer("replaced", r.otk, v) \in Answers
        /\ Answer("replaced", r.otk, v).otk = r.otk /\ Answer("replaced", r.otk, v).oid = v.oid
    BY <1>3, AnswerType
  <2>. QED BY <2>1, <2>2
<1>8. /\ wire' \in [Partitions -> Seq(Requests)] /\ Asks' \subseteq Asks
      /\ \A k \in Partitions : k # p => wire'[k] = wire[k]
      /\ ToSet(wire'[p]) \subseteq ToSet(wire[p])
      /\ \A M : Count(wire[p], M) = Count(wire'[p], M) + IF r \in M THEN 1 ELSE 0
  BY <1>0, <1>1, <1>2, <1>3, <1>7, ReadEffect
<1>9. /\ action_queue' \in [Partitions -> Seq(Answers)]
      /\ Told(p)' = Told(p) \cup {m} /\ \A k \in Partitions : k # p => Told(k)' = Told(k)
  BY <1>0, <1>2, <1>3, <1>7, ScheduleEffect
<1>10. r.new_otk # Null /\ r.new_otk \in Token /\ r.new_otk \in Alias
  BY <1>0, <1>1, <1>2, <1>3 DEF TokenInv, ReplaceNames, Requests, Alias
<1>11. /\ v_otk_map' \in [Token -> Token \cup {Null}]
       /\ \A u \in Token : u # r.new_otk => v_otk_map'[u] = v_otk_map[u]
  BY <1>0, <1>2, <1>3, <1>10 DEF Shape
<1>12. Shape' /\ Bounds'
  BY <1>0, <1>2, <1>5, <1>8, <1>9, <1>11 DEF Shape, Bounds
<1>13. BookSame /\ BookKept
  BY <1>2, SameBook DEF BookSame
<1>14. TokenInv'
  <2>. USE DEF TokenInv
  <2>1. \A u : Drawn(u)' <=> Drawn(u)
    BY <1>2 DEF Drawn
  <2>2. BookDrawn'
    BY <1>0, <1>13, <2>1 DEF BookDrawn, BookKept, Tokens
  <2>3. AsksDrawn' /\ ReplaceNames'
    BY <1>0, <1>8, <2>1 DEF AsksDrawn, ReplaceNames
  <2>4. VenueDrawn'
    <3>1. Drawn(r.new_otk)
      BY <1>0, <1>3, <1>10 DEF AsksDrawn
    <3>. QED BY <1>0, <1>6, <1>11, <2>1, <3>1 DEF VenueDrawn, VenueSame
  <2>5. SeriesOK'
    BY <1>0, <1>6, <1>8, <1>13 DEF SeriesOK, BookKept, VenueSame
  <2>6. Primary' \subseteq Primary /\ Alias' \subseteq Alias
    BY <1>6, <1>8, <1>13 DEF Primary, Alias, BookKept, VenueSame
  <2>7. NoneIsBoth'
    BY <1>0, <2>6 DEF NoneIsBoth
  <2>8. VenueMap'
    <3>. SUFFICES ASSUME NEW u \in Token, u \in Primary'
                  PROVE  v_otk_map'[u] = IF v_order'[u] = Null THEN Null ELSE u
      BY DEF VenueMap, Primary
    <3>1. u \in Primary /\ u # r.new_otk
      BY <1>0, <1>10, <2>6 DEF NoneIsBoth
    <3>. QED BY <1>0, <1>6, <1>11, <3>1 DEF VenueMap, VenueSame
  <2>. QED BY <2>2, <2>3, <2>4, <2>5, <2>7, <2>8
<1>15. VenueIds' /\ BookIds' /\ MapsInv'
  BY <1>0, <1>2, <1>6, <1>12, <1>13, IdsKept, BookIdsKept, MapsKept
<1>16. SubmitOnce'
  BY <1>0, <1>2, <1>6, <1>8, OnceRead
<1>17. AnswersOK'
  <2>1. /\ v_order'[m.otk] # Null /\ m.oid = v_order'[m.otk].oid
        /\ PartitionOf[v_order'[m.otk].series] = p
    BY <1>3, <1>6, <1>7 DEF VenueSame
  <2>. QED BY <1>0, <1>6, <1>9, <2>1, AnswersKept
<1>18. Placed' /\ Heard'
  BY <1>0, <1>2, <1>8 DEF Placed, Heard
<1>. QED BY <1>12, <1>14, <1>15, <1>16, <1>17, <1>18 DEF BaseInv

LEMMA EvaluateBase ==
    ASSUME BaseInv, NEW p \in Partitions, evaluate(p)
    PROVE  BaseInv'
<1>0. Shape /\ Bounds /\ TokenInv /\ Placed /\ SubmitOnce /\ VenueIds /\ AnswersOK
      /\ Heard /\ BookIds /\ MapsInv
  BY DEF BaseInv
<1>1. UNCHANGED <<book, m_otk_map, m_oid_map, m_otk_counter, queue, wire, v_order, v_otk_map,
                  m_oid_gen>>
  BY DEF evaluate, agentVars
<1>2. PICK m \in ToSet(action_queue[p]) :
      /\ action_queue' \in [Partitions -> Seq(Answers)]
      /\ inbox' \in [Agents -> [Partitions -> Seq(Answers)]]
      /\ \A k \in Partitions : Told(k)' \subseteq Told(k)
      /\ \A a \in Agents, k \in Partitions :
             k # p \/ p \notin PartitionMask(a) => inbox'[a][k] = inbox[a][k]
  BY <1>0, EvaluateEffect
<1>3. Shape' /\ Bounds'
  BY <1>0, <1>1, <1>2 DEF Shape, Bounds
<1>4. BookSame /\ VenueSame /\ BookKept
  BY <1>1, SameBook, SameVenue DEF BookSame
<1>5. Asks' = Asks
  BY <1>1, SameMessages
<1>6. TokenInv' /\ VenueIds' /\ BookIds' /\ MapsInv'
  BY <1>0, <1>1, <1>3, <1>4, <1>5, TokensKept, IdsKept, BookIdsKept, MapsKept
<1>7. SubmitOnce'
  BY <1>0, <1>1, <1>4, OnceKept
<1>8. AnswersOK'
  BY <1>0, <1>2, <1>4, AnswersStay
<1>9. Placed'
  BY <1>0, <1>1 DEF Placed
<1>10. Heard'
  BY <1>0, <1>2 DEF Heard
<1>. QED BY <1>3, <1>6, <1>7, <1>8, <1>9, <1>10 DEF BaseInv

LEMMA FollowUpBase ==
    ASSUME BaseInv, NEW p \in Partitions, NEW t \in Token, follow_up(p, t)
    PROVE  BaseInv'
<1>0. Shape /\ Bounds /\ TokenInv /\ Placed /\ SubmitOnce /\ VenueIds /\ AnswersOK
      /\ Heard /\ BookIds /\ MapsInv
  BY DEF BaseInv
<1>1. /\ v_order[t] # Null /\ PartitionOf[v_order[t].series] = p
      /\ v_order' = [v_order EXCEPT ![t].state = "GONE"]
      /\ Schedule(p, Answer("canceled", t, v_order[t]))
      /\ UNCHANGED <<book, m_otk_map, m_oid_map, m_otk_counter, queue, wire, v_otk_map,
                     m_oid_gen, inbox>>
  BY DEF follow_up, agentVars
<1>2. v_order[t] \in VenueOrders
  BY <1>0, <1>1 DEF Shape
<1>3. /\ v_order'[t] = [v_order[t] EXCEPT !.state = "GONE"]
      /\ \A u \in Token : u # t => v_order'[u] = v_order[u]
      /\ v_order' \in [Token -> VenueOrders \cup {Null}]
      /\ v_order'[t] \in VenueOrders
  <2>1. v_order' = [v_order EXCEPT ![t] = [v_order[t] EXCEPT !.state = "GONE"]]
    BY <1>0, <1>1 DEF Shape
  <2>2. [v_order[t] EXCEPT !.state = "GONE"] \in VenueOrders
    BY <1>2 DEF VenueOrders
  <2>. QED BY <1>0, <2>1, <2>2 DEF Shape
<1>4. VenueSame
  <2>1. v_order'[t] # Null /\ v_order'[t].oid = v_order[t].oid
        /\ v_order'[t].series = v_order[t].series
    BY <1>2, <1>3, OrdersAssumption DEF VenueOrders
  <2>. QED BY <1>1, <1>3, <2>1 DEF VenueSame
<1>5. PICK m \in Answers : m = Answer("canceled", t, v_order[t]) /\ m.otk = t
                           /\ m.oid = v_order[t].oid
  BY <1>2, AnswerType
<1>6. /\ action_queue' \in [Partitions -> Seq(Answers)]
      /\ Told(p)' = Told(p) \cup {m} /\ \A k \in Partitions : k # p => Told(k)' = Told(k)
  BY <1>0, <1>1, <1>5, ScheduleEffect
<1>7. Shape' /\ Bounds'
  BY <1>0, <1>1, <1>3, <1>6 DEF Shape, Bounds
<1>8. BookSame /\ BookKept /\ Asks' = Asks
  BY <1>1, SameBook, SameMessages DEF BookSame
<1>9. TokenInv' /\ VenueIds' /\ BookIds' /\ MapsInv'
  BY <1>0, <1>1, <1>4, <1>7, <1>8, TokensKept, IdsKept, BookIdsKept, MapsKept
<1>10. SubmitOnce'
  BY <1>0, <1>1, <1>4, OnceKept
<1>11. AnswersOK'
  <2>1. /\ v_order'[m.otk] # Null /\ m.oid = v_order'[m.otk].oid
        /\ PartitionOf[v_order'[m.otk].series] = p
    BY <1>1, <1>4, <1>5 DEF VenueSame
  <2>. QED BY <1>0, <1>4, <1>6, <2>1, AnswersKept
<1>12. Placed' /\ Heard'
  BY <1>0, <1>1 DEF Placed, Heard
<1>. QED BY <1>7, <1>9, <1>10, <1>11, <1>12 DEF BaseInv

LEMMA AcceptBase ==
    ASSUME TradesOne, BaseInv, NEW p \in Partitions, NEW state \in AcceptStates, accept(p, state)
    PROVE  BaseInv'
<1>0. Shape /\ Bounds /\ TokenInv /\ Placed /\ SubmitOnce /\ VenueIds /\ AnswersOK
      /\ Heard /\ BookIds /\ MapsInv
  BY DEF BaseInv
<1>1. PICK r \in Requests : r = Head(wire[p])
  BY HeadRequest DEF accept, Reads
<1>2. PICK n \in Nat : n = m_oid_gen[r.series] + 1 /\ m_oid_gen[r.series] \in Nat
  BY <1>0 DEF Shape, Requests
<1>. DEFINE t == r.otk
            x == r.series
            v == [series |-> x, oid |-> n, state |-> state, price |-> r.price]
            m == Answer("accepted", t, v)
<1>3. /\ wire[p] # <<>> /\ r.type = "submit" /\ Read(p)
      /\ m_oid_gen' = [m_oid_gen EXCEPT ![x] = n]
      /\ v_order' = [v_order EXCEPT ![t] = v]
      /\ v_otk_map' = [v_otk_map EXCEPT ![t] = t]
      /\ Schedule(p, m)
      /\ UNCHANGED <<book, m_otk_map, m_oid_map, m_otk_counter, queue, inbox>>
  BY <1>1, <1>2 DEF accept, Reads, agentVars
<1>4. /\ r \in Asks /\ t \in Token /\ t \in Primary /\ x \in Series /\ PartitionOf[x] = p
      /\ r \in ToSet(wire[p])
  BY <1>1, <1>3, HeadRequest
<1>5. v_order[t] = Null /\ x \in Trades[t[1]] /\ Drawn(t) /\ t \notin Alias
  BY <1>0, <1>3, <1>4 DEF SubmitOnce, TokenInv, SeriesOK, AsksDrawn, NoneIsBoth
<1>6. v \in VenueOrders /\ v.series = x /\ v.oid = n /\ v # Null
  BY <1>1, OrdersAssumption DEF VenueOrders, Requests
<1>7. m \in Answers /\ m.otk = t /\ m.oid = n
  BY <1>4, <1>6, AnswerType
<1>. HIDE DEF v, m, t, x
<1>8. /\ v_order'[t] = v /\ \A u \in Token : u # t => v_order'[u] = v_order[u]
      /\ v_otk_map'[t] = t /\ \A u \in Token : u # t => v_otk_map'[u] = v_otk_map[u]
      /\ m_oid_gen'[x] = n /\ \A y \in Series : y # x => m_oid_gen'[y] = m_oid_gen[y]
      /\ v_order' \in [Token -> VenueOrders \cup {Null}]
      /\ v_otk_map' \in [Token -> Token \cup {Null}] /\ m_oid_gen' \in [Series -> Nat]
  BY <1>0, <1>3, <1>4, <1>6 DEF Shape
<1>9. /\ wire' \in [Partitions -> Seq(Requests)] /\ Asks' \subseteq Asks
      /\ \A k \in Partitions : k # p => wire'[k] = wire[k]
      /\ ToSet(wire'[p]) \subseteq ToSet(wire[p])
      /\ \A M : Count(wire[p], M) = Count(wire'[p], M) + IF r \in M THEN 1 ELSE 0
  BY <1>0, <1>1, <1>3, <1>7, ReadEffect
<1>10. /\ action_queue' \in [Partitions -> Seq(Answers)]
       /\ Told(p)' = Told(p) \cup {m} /\ \A k \in Partitions : k # p => Told(k)' = Told(k)
  BY <1>0, <1>3, <1>7, ScheduleEffect
<1>11. Shape' /\ Bounds'
  BY <1>0, <1>3, <1>8, <1>9, <1>10 DEF Shape, Bounds
<1>12. BookSame /\ BookKept
  BY <1>3, SameBook DEF BookSame
<1>13. \A q \in Asks : q.otk \in Token
  BY <1>0, MessageTypes DEF Requests
<1>14. TokenInv'
  <2>. USE DEF TokenInv
  <2>1. \A u : Drawn(u)' <=> Drawn(u)
    BY <1>3 DEF Drawn
  <2>2. BookDrawn'
    BY <1>0, <1>12, <2>1 DEF BookDrawn, BookKept, Tokens
  <2>3. AsksDrawn' /\ ReplaceNames'
    BY <1>0, <1>9, <2>1 DEF AsksDrawn, ReplaceNames
  <2>4. VenueDrawn'
    BY <1>0, <1>5, <1>8, <2>1 DEF VenueDrawn
  <2>5. SeriesOK'
    BY <1>0, <1>5, <1>6, <1>8, <1>9, <1>12 DEF SeriesOK, BookKept
  <2>6. Primary' \subseteq Primary
    <3>1. \A u \in Token : v_order'[u] # Null => u = t \/ v_order[u] # Null
      BY <1>8
    <3>. QED BY <1>4, <1>9, <1>12, <3>1 DEF Primary, BookKept
  <2>7. Alias' \subseteq Alias
    BY <1>9, <1>12 DEF Alias, BookKept
  <2>8. NoneIsBoth'
    BY <1>0, <2>6, <2>7 DEF NoneIsBoth
  <2>9. VenueMap'
    <3>. SUFFICES ASSUME NEW u \in Token, u \in Primary
                  PROVE  v_otk_map'[u] = IF v_order'[u] = Null THEN Null ELSE u
      BY <2>6 DEF VenueMap, Primary
    <3>. QED BY <1>0, <1>6, <1>8 DEF VenueMap
  <2>. QED BY <2>2, <2>3, <2>4, <2>5, <2>8, <2>9
<1>15. VenueIds'
  <2>1. AtVenue(x)' = AtVenue(x) \cup {t} /\ t \notin AtVenue(x)
    BY <1>4, <1>5, <1>6, <1>8 DEF AtVenue
  <2>2. \A y \in Series : y # x => AtVenue(y)' = AtVenue(y)
    BY <1>5, <1>6, <1>8 DEF AtVenue
  <2>3. IsFiniteSet(AtVenue(x))
    BY TokensFinite, FS_Subset DEF AtVenue
  <2>4. Cardinality(AtVenue(x)') = Cardinality(AtVenue(x)) + 1
    BY <2>1, <2>3, FS_AddElement
  <2>5. n = m_oid_gen[x] + 1 /\ m_oid_gen[x] \in Nat
    BY <1>2 DEF x
  <2>6. \A y \in Series : m_oid_gen'[y] = Cardinality(AtVenue(y)')
    BY <1>0, <1>4, <1>8, <2>2, <2>4, <2>5 DEF VenueIds
  <2>7. \A u \in Token : u # t /\ v_order[u] # Null =>
            v_order[u].oid \in Nat /\ v_order[u].series \in Series
    BY <1>0 DEF Shape, VenueOrders
  <2>8. \A u \in Token : u # t /\ v_order[u] # Null /\ v_order[u].series = x =>
            v_order[u].oid \in 1..m_oid_gen[x] /\ v_order[u].oid # n
    BY <1>0, <2>5 DEF VenueIds
  <2>9. \A u \in Token : v_order'[u] # Null => v_order'[u].oid \in 1..m_oid_gen'[v_order'[u].series]
    <3>. SUFFICES ASSUME NEW u \in Token, v_order'[u] # Null
                  PROVE  v_order'[u].oid \in 1..m_oid_gen'[v_order'[u].series]
      OBVIOUS
    <3>1. CASE u = t
      <4>1. v_order'[u].oid = n /\ m_oid_gen'[v_order'[u].series] = n
        BY <1>6, <1>8, <3>1
      <4>. QED BY <2>5, <4>1
    <3>2. CASE u # t /\ v_order[u].series = x
      <4>1. v_order'[u] = v_order[u] /\ m_oid_gen'[x] = n
        BY <1>8, <3>2
      <4>. QED BY <2>5, <2>8, <3>2, <4>1
    <3>3. CASE u # t /\ v_order[u].series # x
      <4>1. v_order'[u] = v_order[u] /\ m_oid_gen'[v_order[u].series] = m_oid_gen[v_order[u].series]
        BY <1>8, <2>7, <3>3
      <4>. QED BY <1>0, <3>3, <4>1 DEF VenueIds
    <3>. QED BY <3>1, <3>2, <3>3
  <2>10. \A u, w \in Token : v_order'[u] # Null /\ v_order'[w] # Null
            /\ v_order'[u].series = v_order'[w].series /\ v_order'[u].oid = v_order'[w].oid => u = w
    BY <1>0, <1>6, <1>8, <2>8 DEF VenueIds
  <2>. QED BY <2>6, <2>9, <2>10 DEF VenueIds
<1>16. AnswersOK'
  <2>. SUFFICES ASSUME NEW k \in Partitions, NEW y \in Told(k)', y.type # "rejected"
                PROVE  /\ v_order'[y.otk] # Null /\ y.oid = v_order'[y.otk].oid
                       /\ PartitionOf[v_order'[y.otk].series] = k
    BY DEF AnswersOK
  <2>1. CASE y \in Told(k)
    <3>1. y.otk \in Token /\ y.otk # t
      BY <1>0, <1>5, <2>1, MessageTypes DEF AnswersOK, Answers
    <3>. QED BY <1>0, <1>8, <2>1, <3>1 DEF AnswersOK
  <2>2. CASE k = p /\ y = m
    BY <1>4, <1>6, <1>7, <1>8, <2>2
  <2>. QED BY <1>10, <2>1, <2>2
<1>17. BookIds'
  <2>. SUFFICES ASSUME NEW a \in Agents, NEW s \in Slots, Entry(a, s)
                PROVE  /\ book[a][s].os = "created" => book[a][s].oid = 0
                       /\ book[a][s].oid # 0 =>
                              /\ v_order'[book[a][s].otk] # Null
                              /\ v_order'[book[a][s].otk].oid = book[a][s].oid
    BY <1>3 DEF BookIds, Entry
  <2>1. book[a][s].otk \in Token
    BY <1>0, EntryTypes
  <2>. QED BY <1>0, <1>5, <1>8, <2>1 DEF BookIds
<1>18. MapsInv'
  BY <1>0, <1>3, <1>12, MapsKept
<1>19. SubmitOnce'
  <2>1. ASSUME NEW u \in Token, NEW k \in Partitions
        PROVE  Count(queue'[u[1]], Submits(u)) + Count(wire'[k], Submits(u)) <= 1
    BY <1>0, <1>3, <1>9, FewerSubmissions
  <2>2. ASSUME NEW q \in Asks', q.type = "submit" PROVE v_order'[q.otk] = Null
    <3>1. q \in Asks /\ q.otk \in Token /\ v_order[q.otk] = Null
      BY <1>0, <1>9, <1>13, <2>2 DEF SubmitOnce
    <3>2. q.otk # t
      <4>. SUFFICES ASSUME q.otk = t PROVE FALSE
        OBVIOUS
      <4>1. t[1] \in Agents
        BY <1>4, TokenShape
      <4>2. r \in Submits(t)
        BY <1>3 DEF Submits, t
      <4>3. q \in Requests
        BY <1>0, <3>1, MessageTypes
      <4>4. q \in Submits(t)
        BY <2>2, <4>3 DEF Submits
      <4>5. /\ Count(queue[t[1]], Submits(t)) + Count(wire[p], Submits(t)) <= 1
            /\ Count(wire[p], Submits(t)) = Count(wire'[p], Submits(t)) + 1
        BY <1>0, <1>4, <1>9, <4>2 DEF SubmitOnce
      <4>6. /\ queue[t[1]] \in Seq(Requests) /\ wire'[p] \in Seq(Requests)
        BY <1>0, <1>9, <4>1 DEF Shape
      <4>7. Count(queue[t[1]], Submits(t)) \in Nat /\ Count(wire'[p], Submits(t)) \in Nat
        BY <4>6, CountType
      <4>8. Count(queue[t[1]], Submits(t)) = 0 /\ Count(wire'[p], Submits(t)) = 0
        BY <4>5, <4>7
      <4>9. q \notin ToSet(queue[t[1]]) /\ q \notin ToSet(wire'[p])
        BY <4>4, <4>6, <4>8, CountType
      <4>10. \A a \in Agents : q \in ToSet(queue[a]) => a = t[1]
        BY <1>0 DEF Placed
      <4>11. \A k \in Partitions : q \in ToSet(wire'[k]) => k = p
        <5>. SUFFICES ASSUME NEW k \in Partitions, q \in ToSet(wire'[k]), k # p PROVE FALSE
          OBVIOUS
        <5>1. PartitionOf[q.series] = k
          BY <1>0, <1>9 DEF Placed
        <5>2. q.series = x
          BY <1>0, <1>5, <3>1, <4>1 DEF TokenInv, SeriesOK, TradesOne
        <5>. QED BY <1>4, <5>1, <5>2
      <4>. QED BY <1>3, <2>2, <4>9, <4>10, <4>11 DEF Asks
    <3>. QED BY <1>8, <3>1, <3>2
  <2>. QED BY <2>1, <2>2 DEF SubmitOnce
<1>20. Placed' /\ Heard'
  BY <1>0, <1>3, <1>9 DEF Placed, Heard
<1>. QED BY <1>11, <1>14, <1>15, <1>16, <1>17, <1>18, <1>19, <1>20 DEF BaseInv

-----------------------------------------------------------------------------
(* The steps of the listener keep BaseInv. *)

LEMMA IdsInRange ==
    ASSUME Shape, VenueIds
    PROVE  /\ \A t \in Token : v_order[t] # Null => v_order[t].oid \in Oid
           /\ m_oid_gen \in [Series -> Oid \cup {0}]
<1>1. \A x \in Series : IsFiniteSet(AtVenue(x)) /\ Cardinality(AtVenue(x)) <= Cardinality(Token)
  BY TokensFinite, FS_Subset DEF AtVenue
<1>2. Cardinality(Token) \in Nat
  BY TokensFinite, FS_CardinalityType
<1>3. \A x \in Series : m_oid_gen[x] \in Nat /\ m_oid_gen[x] <= Cardinality(Token)
  BY <1>1 DEF Shape, VenueIds
<1>4. \A x \in Series : m_oid_gen[x] \in Oid \cup {0}
  BY <1>2, <1>3 DEF Oid
<1>5. ASSUME NEW t \in Token, v_order[t] # Null PROVE v_order[t].oid \in Oid
  <2>1. v_order[t].oid \in Nat /\ v_order[t].series \in Series
    BY <1>5 DEF Shape, VenueOrders
  <2>2. v_order[t].oid \in 1..m_oid_gen[v_order[t].series]
    BY <1>5 DEF VenueIds
  <2>. QED BY <1>2, <1>3, <2>1, <2>2 DEF Oid
<1>. QED BY <1>4, <1>5 DEF Shape

(* The first message of an inbox, and the order it finds. *)
LEMMA FoundEntry ==
    ASSUME BaseInv, NEW a \in Agents, NEW p \in Partitions, inbox[a][p] # <<>>
    PROVE  LET m == Head(inbox[a][p])
               s == Found(a, m)
           IN  /\ m \in Answers /\ m \in Told(p) /\ m.otk \in Token
               /\ m.type # "rejected" => m.oid \in Oid
               /\ m.type # "rejected" => v_order[m.otk] # Null /\ m.oid = v_order[m.otk].oid
               /\ s # Null => /\ s \in Slots /\ Entry(a, s)
                              /\ m.type \in ByToken => m.otk \in Tokens(book[a][s])
                              /\ m.type \notin ByToken => book[a][s].oid = m.oid
<1>. DEFINE m == Head(inbox[a][p])
            s == Found(a, m)
<1>0. Shape /\ VenueIds /\ AnswersOK /\ MapsInv
  BY DEF BaseInv
<1>1. m \in Answers /\ m \in Told(p)
  <2>1. inbox[a][p] \in Seq(Answers)
    BY <1>0 DEF Shape
  <2>. QED BY <1>0, <2>1, TailMsg, MessageTypes
<1>2. s = IF m.type \in ByToken THEN m_otk_map[a][m.otk] ELSE m_oid_map[a][m.oid]
  BY DEF Found
<1>. HIDE DEF m, s
<1>3. m.otk \in Token
  BY <1>1 DEF Answers
<1>4. m.type # "rejected" =>
          v_order[m.otk] # Null /\ m.oid = v_order[m.otk].oid /\ m.oid \in Oid
  BY <1>0, <1>1, <1>3, IdsInRange DEF AnswersOK
<1>5. CASE m.type \in ByToken
  <2>1. s \in Slots \cup {Null} /\ s = m_otk_map[a][m.otk]
    BY <1>0, <1>2, <1>3, <1>5 DEF Shape
  <2>2. s # Null => s \in Slots /\ Entry(a, s) /\ m.otk \in Tokens(book[a][s])
    BY <1>0, <1>3, <2>1 DEF MapsInv, TokenMapOK
  <2>. QED BY <1>1, <1>3, <1>4, <1>5, <2>2 DEF m, s
<1>6. CASE m.type \notin ByToken
  <2>1. m.oid \in Oid
    BY <1>4, <1>6 DEF ByToken
  <2>2. s \in Slots \cup {Null} /\ s = m_oid_map[a][m.oid]
    BY <1>0, <1>2, <1>6, <2>1 DEF Shape
  <2>3. s # Null => s \in Slots /\ Entry(a, s) /\ book[a][s].oid = m.oid
    BY <1>0, <2>1, <2>2 DEF MapsInv, OidMapOK
  <2>. QED BY <1>1, <1>3, <1>4, <1>6, <2>3 DEF m, s
<1>. QED BY <1>5, <1>6

(* The order a message finds is put into another state, or dropped from none. *)
LEMMA VisitBase ==
    ASSUME BaseInv, NEW a \in Agents, NEW p \in Partitions, inbox[a][p] # <<>>, Consume(a, p),
           book' \in [Agents -> [Slots -> AgentOrders \cup {Null}]], BookSame,
           UNCHANGED <<m_otk_map, m_oid_map>>
    PROVE  BaseInv'
<1>0. Shape /\ Bounds /\ TokenInv /\ Placed /\ SubmitOnce /\ VenueIds /\ AnswersOK
      /\ Heard /\ BookIds /\ MapsInv
  BY DEF BaseInv
<1>1. UNCHANGED <<m_otk_counter, queue, wire, v_order, v_otk_map, m_oid_gen, action_queue>>
  BY DEF Consume, venueVars
<1>2. /\ inbox' \in [Agents -> [Partitions -> Seq(Answers)]]
      /\ Asks' = Asks /\ \A k \in Partitions : Told(k)' \subseteq Told(k)
      /\ \A b \in Agents, k \in Partitions : b # a \/ k # p => inbox'[b][k] = inbox[b][k]
  BY <1>0, ConsumeEffect
<1>3. Shape' /\ Bounds'
  BY <1>0, <1>1, <1>2 DEF Shape, Bounds
<1>4. VenueSame /\ BookKept
  BY <1>1, SameVenue DEF BookSame
<1>5. TokenInv' /\ VenueIds' /\ BookIds' /\ MapsInv'
  BY <1>0, <1>1, <1>2, <1>3, <1>4, TokensKept, IdsKept, BookIdsKept, MapsKept
<1>6. SubmitOnce'
  BY <1>0, <1>1, <1>4, OnceKept
<1>7. AnswersOK'
  BY <1>0, <1>2, <1>4, AnswersStay
<1>8. Placed' /\ Heard'
  BY <1>0, <1>1, <1>2 DEF Placed, Heard
<1>. QED BY <1>3, <1>5, <1>6, <1>7, <1>8 DEF BaseInv

(* Order s of agent a gets another state, other pending requests, and maybe
   another price. *)
Restated(a, s, os, ps, price) ==
    /\ s \in Slots /\ Entry(a, s) /\ os \in order_state \ {"created"} /\ ps \subseteq pending
    /\ price \in Prices
    /\ book' = [book EXCEPT ![a][s] = [book[a][s] EXCEPT !.os = os, !.ps = ps, !.price = price]]

LEMMA RestatedBook ==
    ASSUME Shape, NEW a \in Agents, NEW s, NEW os, NEW ps, NEW price, Restated(a, s, os, ps, price)
    PROVE  /\ book' \in [Agents -> [Slots -> AgentOrders \cup {Null}]] /\ BookSame
           /\ Entry(a, s) /\ Entry(a, s)'
           /\ book'[a][s].otk = book[a][s].otk /\ book'[a][s].oid = book[a][s].oid
           /\ book'[a][s].series = book[a][s].series
           /\ book'[a][s].os = os /\ book'[a][s].ps = ps /\ book'[a][s].price = price
           /\ \A b \in Agents, k \in Slots : b # a \/ k # s => book'[b][k] = book[b][k]
<1>. DEFINE o == [book[a][s] EXCEPT !.os = os, !.ps = ps, !.price = price]
<1>1. s \in Slots /\ Entry(a, s) /\ book' = [book EXCEPT ![a][s] = o]
  BY DEF Restated
<1>2. book[a][s] \in AgentOrders
  BY <1>1, EntryTypes
<1>3. /\ o \in AgentOrders /\ o.otk = book[a][s].otk /\ o.oid = book[a][s].oid
      /\ o.series = book[a][s].series /\ o.otk_trace = book[a][s].otk_trace
      /\ o.os = os /\ o.ps = ps /\ o.price = price /\ os # "created"
  BY <1>2 DEF AgentOrders, Restated
<1>. HIDE DEF o
<1>4. /\ book'[a][s] = o
      /\ \A b \in Agents, k \in Slots : b # a \/ k # s => book'[b][k] = book[b][k]
      /\ book' \in [Agents -> [Slots -> AgentOrders \cup {Null}]]
  BY <1>1, <1>3 DEF Shape
<1>5. Entry(a, s)'
  BY <1>3, <1>4, OrdersAssumption DEF Entry
<1>6. BookSame
  BY <1>1, <1>3, <1>4, <1>5 DEF BookSame, BookKept, Entry
<1>. QED BY <1>1, <1>3, <1>4, <1>5, <1>6

(* Order s of agent a gets another state and other pending requests. *)
StateSet(a, s, os, ps) ==
    book' = [book EXCEPT ![a][s] = [book[a][s] EXCEPT !.os = os, !.ps = ps]]

LEMMA TransitionEffect ==
    ASSUME Shape, NEW a \in Agents, NEW s \in Slots, NEW os, NEW ps, transition(a, s, os, ps)
    PROVE  StateSet(a, s, os, ps)
<1>. DEFINE o == [book[a][s] EXCEPT !.os = os]
            d == [book EXCEPT ![a][s] = o]
<1>1. book' = [d EXCEPT ![a][s].ps = ps]
  BY DEF transition
<1>2. d = [book EXCEPT ![a] = [book[a] EXCEPT ![s] = o]] /\ d[a][s] = o
  BY DEF Shape
<1>. HIDE DEF d, o
<1>3. [d EXCEPT ![a][s].ps = ps] = [d EXCEPT ![a][s] = [d[a][s] EXCEPT !.ps = ps]]
  OBVIOUS
<1>4. [d EXCEPT ![a][s] = [d[a][s] EXCEPT !.ps = ps]] = [book EXCEPT ![a][s] = [o EXCEPT !.ps = ps]]
  BY <1>2 DEF Shape
<1>5. [o EXCEPT !.ps = ps] = [book[a][s] EXCEPT !.os = os, !.ps = ps]
  BY DEF o
<1>. QED BY <1>1, <1>3, <1>4, <1>5 DEF StateSet

LEMMA RejectedEffect ==
    ASSUME BaseInv, NEW a \in Agents, NEW p \in Partitions, order_rejected(a, p)
    PROVE  LET m == Head(inbox[a][p])
               s == Found(a, m)
           IN  /\ inbox[a][p] # <<>> /\ Consume(a, p) /\ UNCHANGED <<m_otk_map, m_oid_map>>
               /\ m.type = "rejected" /\ s # Null /\ Expected(book[a][s], m)
               /\ Restated(a, s, IF book[a][s].os = "created" THEN "done" ELSE "live", {},
                           book[a][s].price)
<1>. DEFINE m == Head(inbox[a][p])
            s == Found(a, m)
            os == IF book[a][s].os = "created" THEN "done" ELSE "live"
<1>1. /\ inbox[a][p] # <<>> /\ Consume(a, p) /\ UNCHANGED <<m_otk_map, m_oid_map>>
      /\ m.type = "rejected" /\ s # Null /\ Expected(book[a][s], m)
      /\ transition(a, s, os, {})
  BY DEF order_rejected, Consumes
<1>2. s \in Slots /\ Entry(a, s)
  BY <1>1, FoundEntry
<1>. HIDE DEF m, s, os
<1>3. Shape /\ book[a][s] \in AgentOrders /\ book[a][s].price \in Prices
  BY <1>2, EntryTypes DEF BaseInv
<1>4. book' = [book EXCEPT ![a][s] = [book[a][s] EXCEPT !.os = os, !.ps = {},
                                                       !.price = book[a][s].price]]
  <2>1. [book[a][s] EXCEPT !.os = os, !.ps = {}]
            = [book[a][s] EXCEPT !.os = os, !.ps = {}, !.price = book[a][s].price]
    BY <1>3 DEF AgentOrders
  <2>2. book' = [book EXCEPT ![a][s] = [book[a][s] EXCEPT !.os = os, !.ps = {}]]
    <3>1. StateSet(a, s, os, {})
      BY <1>1, <1>2, <1>3, TransitionEffect
    <3>. QED BY <3>1 DEF StateSet
  <2>. QED BY <2>1, <2>2
<1>5. Restated(a, s, os, {}, book[a][s].price)
  BY <1>2, <1>3, <1>4 DEF Restated, os, order_state
<1>. QED BY <1>1, <1>5 DEF m, s, os

LEMMA ReplacedEffect ==
    ASSUME BaseInv, NEW a \in Agents, NEW p \in Partitions, order_replaced(a, p)
    PROVE  LET m == Head(inbox[a][p])
               s == Found(a, m)
           IN  /\ inbox[a][p] # <<>> /\ Consume(a, p) /\ UNCHANGED <<m_otk_map, m_oid_map>>
               /\ m.type = "replaced" /\ s # Null /\ Expected(book[a][s], m)
               /\ m.state = "LIVE" => Restated(a, s, "live", {}, m.price)
               /\ m.state # "LIVE" => Restated(a, s, "done", {"finalize"}, book[a][s].price)
<1>. DEFINE m == Head(inbox[a][p])
            s == Found(a, m)
<1>1. /\ inbox[a][p] # <<>> /\ Consume(a, p) /\ UNCHANGED <<m_otk_map, m_oid_map>>
      /\ m.type = "replaced" /\ s # Null /\ Expected(book[a][s], m)
      /\ m.state = "LIVE" =>
             book' = [book EXCEPT ![a][s].price = m.price, ![a][s].os = "live", ![a][s].ps = {}]
      /\ m.state # "LIVE" => transition(a, s, "done", {"finalize"})
  BY DEF order_replaced, Consumes
<1>2. s \in Slots /\ Entry(a, s) /\ m.price \in Prices
  BY <1>1, FoundEntry DEF Answers
<1>. HIDE DEF m, s
<1>3. Shape /\ book[a][s] \in AgentOrders /\ book[a][s].price \in Prices
  BY <1>2, EntryTypes DEF BaseInv
<1>4. ASSUME m.state = "LIVE" PROVE Restated(a, s, "live", {}, m.price)
  <2>1. book' = [book EXCEPT ![a][s] = [book[a][s] EXCEPT !.price = m.price, !.os = "live", !.ps = {}]]
    <3>. DEFINE b == [book EXCEPT ![a][s].price = m.price]
                o == [book[a][s] EXCEPT !.price = m.price]
    <3>1. b = [book EXCEPT ![a][s] = o]
      BY <1>2, <1>3 DEF Shape
    <3>2. book' = [b EXCEPT ![a][s].os = "live", ![a][s].ps = {}]
      BY <1>1, <1>4
    <3>3. b = [book EXCEPT ![a] = [book[a] EXCEPT ![s] = o]] /\ b[a][s] = o
      BY <1>2, <1>3, <3>1 DEF Shape
    <3>. HIDE DEF b, o
    <3>5. [b EXCEPT ![a][s].os = "live", ![a][s].ps = {}]
              = [b EXCEPT ![a][s] = [b[a][s] EXCEPT !.os = "live", !.ps = {}]]
      <4>. DEFINE q == [o EXCEPT !.os = "live"]
                  d == [b EXCEPT ![a][s] = q]
      <4>1. [b EXCEPT ![a][s].os = "live", ![a][s].ps = {}] = [d EXCEPT ![a][s].ps = {}]
        BY <3>3
      <4>2. d[a][s] = q
        BY <1>2, <1>3, <3>3 DEF Shape
      <4>. HIDE DEF q, d
      <4>3. [d EXCEPT ![a][s].ps = {}] = [d EXCEPT ![a][s] = [q EXCEPT !.ps = {}]]
        BY <4>2
      <4>4. [d EXCEPT ![a][s] = [q EXCEPT !.ps = {}]] = [b EXCEPT ![a][s] = [q EXCEPT !.ps = {}]]
        BY <1>2, <1>3, <3>3 DEF d, Shape
      <4>. QED BY <3>3, <4>1, <4>3, <4>4 DEF q
    <3>4. book' = [book EXCEPT ![a][s] = [o EXCEPT !.os = "live", !.ps = {}]]
      <4>1. PICK q : q = [o EXCEPT !.os = "live", !.ps = {}]
        OBVIOUS
      <4>2. book' = [b EXCEPT ![a][s] = q]
        BY <3>2, <3>3, <3>5, <4>1
      <4>3. [b EXCEPT ![a][s] = q] = [book EXCEPT ![a][s] = q]
        BY <1>2, <1>3, <3>3 DEF Shape
      <4>. QED BY <4>1, <4>2, <4>3
    <3>. QED BY <3>4 DEF o
  <2>2. [book[a][s] EXCEPT !.price = m.price, !.os = "live", !.ps = {}]
            = [book[a][s] EXCEPT !.os = "live", !.ps = {}, !.price = m.price]
    BY <1>3 DEF AgentOrders
  <2>. QED BY <1>2, <1>3, <2>1, <2>2 DEF Restated, order_state
<1>5. ASSUME m.state # "LIVE" PROVE Restated(a, s, "done", {"finalize"}, book[a][s].price)
  <2>1. book' = [book EXCEPT ![a][s] = [book[a][s] EXCEPT !.os = "done", !.ps = {"finalize"}]]
    <3>1. StateSet(a, s, "done", {"finalize"})
      BY <1>1, <1>2, <1>3, <1>5, TransitionEffect
    <3>. QED BY <3>1 DEF StateSet
  <2>2. [book[a][s] EXCEPT !.os = "done", !.ps = {"finalize"}]
            = [book[a][s] EXCEPT !.os = "done", !.ps = {"finalize"}, !.price = book[a][s].price]
    BY <1>3 DEF AgentOrders
  <2>. QED BY <1>2, <1>3, <2>1, <2>2 DEF Restated, order_state, pending
<1>. QED BY <1>1, <1>4, <1>5 DEF m, s

LEMMA CanceledEffect ==
    ASSUME BaseInv, NEW a \in Agents, NEW p \in Partitions, order_canceled(a, p)
    PROVE  LET m == Head(inbox[a][p])
               s == Found(a, m)
           IN  /\ inbox[a][p] # <<>> /\ Consume(a, p) /\ UNCHANGED <<m_otk_map, m_oid_map>>
               /\ m.type = "canceled" /\ s # Null /\ Expected(book[a][s], m)
               /\ Restated(a, s, "done", {}, book[a][s].price)
<1>. DEFINE m == Head(inbox[a][p])
            s == Found(a, m)
<1>1. /\ inbox[a][p] # <<>> /\ Consume(a, p) /\ UNCHANGED <<m_otk_map, m_oid_map>>
      /\ m.type = "canceled" /\ s # Null /\ Expected(book[a][s], m)
      /\ transition(a, s, "done", {})
  BY DEF order_canceled, Consumes
<1>2. s \in Slots /\ Entry(a, s)
  BY <1>1, FoundEntry
<1>. HIDE DEF m, s
<1>3. Shape /\ book[a][s] \in AgentOrders /\ book[a][s].price \in Prices
  BY <1>2, EntryTypes DEF BaseInv
<1>4. book' = [book EXCEPT ![a][s] = [book[a][s] EXCEPT !.os = "done", !.ps = {}]]
  <2>1. StateSet(a, s, "done", {})
    BY <1>1, <1>2, <1>3, TransitionEffect
  <2>. QED BY <2>1 DEF StateSet
<1>5. [book[a][s] EXCEPT !.os = "done", !.ps = {}]
          = [book[a][s] EXCEPT !.os = "done", !.ps = {}, !.price = book[a][s].price]
  BY <1>3 DEF AgentOrders
<1>6. Restated(a, s, "done", {}, book[a][s].price)
  BY <1>2, <1>3, <1>4, <1>5 DEF Restated, order_state
<1>. QED BY <1>1, <1>6 DEF m, s

LEMMA UnexpectedEffect ==
    ASSUME BaseInv, NEW a \in Agents, NEW p \in Partitions, unexpected(a, p)
    PROVE  LET m == Head(inbox[a][p])
               s == Found(a, m)
           IN  /\ inbox[a][p] # <<>> /\ Consume(a, p) /\ UNCHANGED <<m_otk_map, m_oid_map>>
               /\ s # Null /\ ~ Expected(book[a][s], m)
               /\ Restated(a, s, "ERROR", book[a][s].ps, book[a][s].price)
<1>. DEFINE m == Head(inbox[a][p])
            s == Found(a, m)
<1>1. /\ inbox[a][p] # <<>> /\ Consume(a, p) /\ UNCHANGED <<m_otk_map, m_oid_map>>
      /\ s # Null /\ ~ Expected(book[a][s], m)
      /\ transition(a, s, "ERROR", book[a][s].ps)
  BY DEF unexpected
<1>2. s \in Slots /\ Entry(a, s)
  BY <1>1, FoundEntry
<1>. HIDE DEF m, s
<1>3. /\ Shape /\ book[a][s] \in AgentOrders /\ book[a][s].price \in Prices
      /\ book[a][s].ps \subseteq pending
  BY <1>2, EntryTypes DEF BaseInv, AgentOrders
<1>4. book' = [book EXCEPT ![a][s] = [book[a][s] EXCEPT !.os = "ERROR", !.ps = book[a][s].ps]]
  <2>1. StateSet(a, s, "ERROR", book[a][s].ps)
    BY <1>1, <1>2, <1>3, TransitionEffect
  <2>. QED BY <2>1 DEF StateSet
<1>5. [book[a][s] EXCEPT !.os = "ERROR", !.ps = book[a][s].ps]
          = [book[a][s] EXCEPT !.os = "ERROR", !.ps = book[a][s].ps, !.price = book[a][s].price]
  BY <1>3 DEF AgentOrders
<1>6. Restated(a, s, "ERROR", book[a][s].ps, book[a][s].price)
  BY <1>2, <1>3, <1>4, <1>5 DEF Restated, order_state
<1>. QED BY <1>1, <1>6 DEF m, s

LEMMA RestatingBase ==
    ASSUME BaseInv, NEW a \in Agents, NEW p \in Partitions,
           \/ order_rejected(a, p) \/ order_replaced(a, p)
           \/ order_canceled(a, p) \/ unexpected(a, p)
    PROVE  BaseInv'
<1>0. Shape
  BY DEF BaseInv
<1>1. /\ inbox[a][p] # <<>> /\ Consume(a, p) /\ UNCHANGED <<m_otk_map, m_oid_map>>
      /\ \E s, os, ps, price : Restated(a, s, os, ps, price)
  <2>1. CASE order_rejected(a, p)
    BY <2>1, RejectedEffect
  <2>2. CASE order_replaced(a, p)
    BY <2>2, ReplacedEffect
  <2>3. CASE order_canceled(a, p)
    BY <2>3, CanceledEffect
  <2>4. CASE unexpected(a, p)
    BY <2>4, UnexpectedEffect
  <2>. QED BY <2>1, <2>2, <2>3, <2>4
<1>2. book' \in [Agents -> [Slots -> AgentOrders \cup {Null}]] /\ BookSame
  BY <1>0, <1>1, RestatedBook
<1>. QED BY <1>1, <1>2, VisitBase

LEMMA NotInBookBase ==
    ASSUME BaseInv, NEW a \in Agents, NEW p \in Partitions, not_in_book(a, p)
    PROVE  BaseInv'
<1>1. /\ inbox[a][p] # <<>> /\ Consume(a, p) /\ UNCHANGED <<m_otk_map, m_oid_map>>
      /\ book' = book
  BY DEF not_in_book
<1>2. book' \in [Agents -> [Slots -> AgentOrders \cup {Null}]] /\ BookSame
  BY <1>1, SameBook DEF BaseInv, Shape
<1>. QED BY <1>1, <1>2, VisitBase

LEMMA AcceptedEffect ==
    ASSUME TradesOne, BaseInv, NEW a \in Agents, NEW p \in Partitions, order_accepted(a, p)
    PROVE  LET m == Head(inbox[a][p])
               s == Found(a, m)
               live == m.state = "LIVE"
           IN  /\ inbox[a][p] # <<>> /\ Consume(a, p) /\ m_otk_map' = m_otk_map
               /\ m.type = "accepted" /\ s \in Slots /\ Entry(a, s) /\ Expected(book[a][s], m)
               /\ m.otk = book[a][s].otk /\ m.oid \in Oid /\ book[a][s].oid = 0
               /\ v_order[m.otk] # Null /\ v_order[m.otk].oid = m.oid
               /\ m_oid_map' = [m_oid_map EXCEPT ![a][m.oid] = s]
               /\ \A k \in Slots : m_oid_map[a][m.oid] # k
               /\ book' = [book EXCEPT ![a][s] = [book[a][s] EXCEPT !.oid = m.oid,
                               !.os = IF live THEN "live" ELSE "done",
                               !.ps = IF live THEN {} ELSE {"finalize"}]]
<1>. DEFINE m == Head(inbox[a][p])
            s == Found(a, m)
            live == m.state = "LIVE"
            os == IF live THEN "live" ELSE "done"
            ps == IF live THEN {} ELSE {"finalize"}
<1>0. Shape /\ TokenInv /\ VenueIds /\ BookIds /\ MapsInv
  BY DEF BaseInv
<1>1. /\ inbox[a][p] # <<>> /\ Consume(a, p) /\ m_otk_map' = m_otk_map
      /\ m.type = "accepted" /\ s # Null /\ Expected(book[a][s], m)
      /\ m_oid_map' = [m_oid_map EXCEPT ![a][m.oid] = s]
      /\ book' = [book EXCEPT ![a][s].oid = m.oid, ![a][s].os = os, ![a][s].ps = ps]
  BY DEF order_accepted, Consumes
<1>2. /\ s \in Slots /\ Entry(a, s) /\ m.otk \in Tokens(book[a][s]) /\ m.otk \in Token
      /\ m.oid \in Oid /\ v_order[m.otk] # Null /\ m.oid = v_order[m.otk].oid
  BY <1>1, FoundEntry DEF ByToken
<1>3. book[a][s].os = "created"
  BY <1>1 DEF Expected
<1>. HIDE DEF m, s, live, os, ps
<1>4. book[a][s].oid = 0
  BY <1>0, <1>2, <1>3 DEF BookIds
<1>5. m.otk = book[a][s].otk
  <2>1. m.otk \in Primary
    BY <1>2 DEF Primary
  <2>2. m.otk \notin ToSet(book[a][s].otk_trace)
    BY <1>0, <1>2, <2>1 DEF TokenInv, NoneIsBoth, Alias
  <2>. QED BY <1>2, <2>2 DEF Tokens
<1>6. ASSUME NEW k \in Slots, m_oid_map[a][m.oid] = k PROVE FALSE
  <2>1. Entry(a, k) /\ book[a][k].oid = m.oid
    BY <1>0, <1>2, <1>6 DEF MapsInv, OidMapOK
  <2>2. book[a][k].otk \in Token /\ book[a][k].otk \in Tokens(book[a][k]) /\ m.oid # 0
    BY <1>0, <1>2, <2>1, EntryTypes DEF Oid
  <2>3. v_order[book[a][k].otk] # Null /\ v_order[book[a][k].otk].oid = m.oid
    BY <1>0, <2>1, <2>2 DEF BookIds
  <2>4. book[a][k].otk[1] = a /\ m.otk[1] = a
    BY <1>0, <1>2, <2>1, <2>2 DEF TokenInv, BookDrawn
  <2>5. v_order[book[a][k].otk].series = v_order[m.otk].series
    BY <1>0, <1>2, <2>2, <2>3, <2>4 DEF TokenInv, SeriesOK, TradesOne
  <2>6. book[a][k].otk = m.otk
    BY <1>0, <1>2, <2>2, <2>3, <2>5 DEF VenueIds
  <2>7. m_otk_map[a][m.otk] = k /\ m_otk_map[a][m.otk] = s
    BY <1>0, <1>2, <2>1, <2>2, <2>6 DEF MapsInv, TokenMapOK
  <2>. QED BY <1>4, <2>1, <2>2, <2>7
<1>7. book' = [book EXCEPT ![a][s] = [book[a][s] EXCEPT !.oid = m.oid, !.os = os, !.ps = ps]]
  <2>. DEFINE b == [book EXCEPT ![a][s].oid = m.oid]
              o == [book[a][s] EXCEPT !.oid = m.oid]
  <2>1. b = [book EXCEPT ![a][s] = o]
    BY <1>0, <1>2 DEF Shape
  <2>2. book' = [b EXCEPT ![a][s].os = os, ![a][s].ps = ps]
    BY <1>1
  <2>3. b = [book EXCEPT ![a] = [book[a] EXCEPT ![s] = o]] /\ b[a][s] = o
    BY <1>0, <1>2, <2>1 DEF Shape
  <2>. HIDE DEF b, o
  <2>4. book' = [book EXCEPT ![a][s] = [o EXCEPT !.os = os, !.ps = ps]]
    BY <1>0, <1>2, <2>2, <2>3 DEF Shape
  <2>. QED BY <2>4 DEF o
<1>. QED BY <1>1, <1>2, <1>4, <1>5, <1>6, <1>7 DEF m, s, live, os, ps

LEMMA AcceptedBook ==
    ASSUME TradesOne, BaseInv, NEW a \in Agents, NEW p \in Partitions, order_accepted(a, p)
    PROVE  LET m == Head(inbox[a][p])
               s == Found(a, m)
               live == m.state = "LIVE"
           IN  /\ book' \in [Agents -> [Slots -> AgentOrders \cup {Null}]]
               /\ \A b \in Agents, k \in Slots : Entry(b, k)' <=> Entry(b, k)
               /\ \A b \in Agents, k \in Slots : b # a \/ k # s => book'[b][k] = book[b][k]
               /\ book'[a][s].otk = book[a][s].otk /\ book'[a][s].series = book[a][s].series
               /\ book'[a][s].otk_trace = book[a][s].otk_trace /\ book'[a][s].oid = m.oid
               /\ book'[a][s].price = book[a][s].price
               /\ book'[a][s].os = IF live THEN "live" ELSE "done"
               /\ book'[a][s].ps = IF live THEN {} ELSE {"finalize"}
<1>. DEFINE m == Head(inbox[a][p])
            s == Found(a, m)
            live == m.state = "LIVE"
            os == IF live THEN "live" ELSE "done"
            ps == IF live THEN {} ELSE {"finalize"}
            o == [book[a][s] EXCEPT !.oid = m.oid, !.os = os, !.ps = ps]
<1>1. s \in Slots /\ Entry(a, s) /\ m.oid \in Oid /\ book' = [book EXCEPT ![a][s] = o]
  BY AcceptedEffect
<1>2. m.oid \in Nat /\ os \in order_state /\ os # "created" /\ ps \subseteq pending
  BY <1>1 DEF Oid, order_state, pending
<1>3. Shape
  BY DEF BaseInv
<1>. HIDE DEF m, s, os, ps
<1>4. book[a][s] \in AgentOrders
  BY <1>1, <1>3, EntryTypes
<1>5. /\ o \in AgentOrders /\ o.otk = book[a][s].otk /\ o.oid = m.oid
      /\ o.series = book[a][s].series /\ o.otk_trace = book[a][s].otk_trace
      /\ o.os = os /\ o.ps = ps /\ o.price = book[a][s].price
  BY <1>2, <1>4 DEF AgentOrders
<1>. HIDE DEF o
<1>6. /\ book'[a][s] = o
      /\ \A b \in Agents, k \in Slots : b # a \/ k # s => book'[b][k] = book[b][k]
      /\ book' \in [Agents -> [Slots -> AgentOrders \cup {Null}]]
  BY <1>1, <1>3, <1>5 DEF Shape
<1>7. \A b \in Agents, k \in Slots : Entry(b, k)' <=> Entry(b, k)
  BY <1>1, <1>5, <1>6, OrdersAssumption DEF Entry
<1>. QED BY <1>5, <1>6, <1>7 DEF m, s, os, ps, live

LEMMA AcceptedBase ==
    ASSUME TradesOne, BaseInv, NEW a \in Agents, NEW p \in Partitions, order_accepted(a, p)
    PROVE  BaseInv'
<1>. DEFINE m == Head(inbox[a][p])
            s == Found(a, m)
<1>0. Shape /\ Bounds /\ TokenInv /\ Placed /\ SubmitOnce /\ VenueIds /\ AnswersOK
      /\ Heard /\ BookIds /\ MapsInv
  BY DEF BaseInv
<1>1. /\ inbox[a][p] # <<>> /\ Consume(a, p) /\ m_otk_map' = m_otk_map
      /\ s \in Slots /\ Entry(a, s) /\ m.otk = book[a][s].otk
      /\ m.oid \in Oid /\ book[a][s].oid = 0
      /\ v_order[m.otk] # Null /\ v_order[m.otk].oid = m.oid
      /\ m_oid_map' = [m_oid_map EXCEPT ![a][m.oid] = s]
      /\ \A k \in Slots : m_oid_map[a][m.oid] # k
  BY AcceptedEffect
<1>2. /\ book' \in [Agents -> [Slots -> AgentOrders \cup {Null}]]
      /\ \A b \in Agents, k \in Slots : Entry(b, k)' <=> Entry(b, k)
      /\ \A b \in Agents, k \in Slots : b # a \/ k # s => book'[b][k] = book[b][k]
      /\ book'[a][s].otk = book[a][s].otk /\ book'[a][s].series = book[a][s].series
      /\ book'[a][s].otk_trace = book[a][s].otk_trace /\ book'[a][s].oid = m.oid
      /\ book'[a][s].os # "created"
  <2>1. book'[a][s].os = IF m.state = "LIVE" THEN "live" ELSE "done"
    BY AcceptedBook
  <2>2. book'[a][s].os # "created"
    BY <2>1
  <2>. HIDE DEF m, s
  <2>. QED BY <2>2, AcceptedBook DEF m, s
<1>3. UNCHANGED <<m_otk_counter, queue, wire, v_order, v_otk_map, m_oid_gen, action_queue>>
  BY <1>1 DEF Consume, venueVars
<1>4. /\ inbox' \in [Agents -> [Partitions -> Seq(Answers)]]
      /\ Asks' = Asks /\ \A k \in Partitions : Told(k)' \subseteq Told(k)
      /\ \A b \in Agents, k \in Partitions : b # a \/ k # p => inbox'[b][k] = inbox[b][k]
  BY <1>0, <1>1, ConsumeEffect
<1>. HIDE DEF m, s
<1>5. /\ m_oid_map'[a][m.oid] = s
      /\ \A b \in Agents, i \in Oid : b # a \/ i # m.oid => m_oid_map'[b][i] = m_oid_map[b][i]
      /\ m_oid_map' \in [Agents -> [Oid -> Slots \cup {Null}]]
  BY <1>0, <1>1 DEF Shape
<1>6. Shape' /\ Bounds'
  BY <1>0, <1>1, <1>2, <1>3, <1>4, <1>5 DEF Shape, Bounds
<1>7. VenueSame /\ NamesKept
  BY <1>2, <1>3, SameVenue DEF NamesKept
<1>8. TokenInv' /\ VenueIds'
  BY <1>0, <1>3, <1>4, <1>6, <1>7, TokensKeptWithNames, IdsKept
<1>9. SubmitOnce'
  BY <1>0, <1>3, <1>7, OnceKept
<1>10. AnswersOK'
  BY <1>0, <1>4, <1>7, AnswersStay
<1>11. Placed' /\ Heard'
  BY <1>0, <1>1, <1>3, <1>4 DEF Placed, Heard
<1>12. BookIds'
  BY <1>0, <1>1, <1>2, <1>3 DEF BookIds
<1>13. MapsInv'
  <2>1. TokenMapOK'
    <3>1. \A b \in Agents, k \in Slots : Tokens(book[b][k])' = Tokens(book[b][k])
      BY <1>2 DEF Tokens
    <3>. QED BY <1>0, <1>1, <1>2, <3>1 DEF MapsInv, TokenMapOK
  <2>2. OidMapOK'
    <3>. SUFFICES ASSUME NEW b \in Agents, NEW i \in Oid, NEW k \in Slots
                  PROVE  m_oid_map'[b][i] = k <=> Entry(b, k)' /\ book'[b][k].oid = i
      BY DEF OidMapOK
    <3>1. /\ m_oid_map[b][i] = k <=> Entry(b, k) /\ book[b][k].oid = i
          /\ i # 0
      BY <1>0 DEF MapsInv, OidMapOK, Oid
    <3>2. CASE b = a /\ k = s
      BY <1>1, <1>2, <1>5, <3>1, <3>2
    <3>3. CASE (b # a \/ k # s) /\ b = a /\ i = m.oid
      BY <1>1, <1>2, <1>5, <3>1, <3>3
    <3>4. CASE (b # a \/ k # s) /\ (b # a \/ i # m.oid)
      BY <1>2, <1>5, <3>1, <3>4
    <3>. QED BY <3>2, <3>3, <3>4
  <2>. QED BY <2>1, <2>2 DEF MapsInv
<1>. QED BY <1>6, <1>8, <1>9, <1>10, <1>11, <1>12, <1>13 DEF BaseInv

-----------------------------------------------------------------------------
(* The invariant of every agent, and the maps of its book. *)

LEMMA InitBase == Init => BaseInv
<1>. SUFFICES ASSUME Init PROVE BaseInv
  OBVIOUS
<1>. USE DEF Init
<1>1. Shape
  BY EmptySeq DEF Shape
<1>2. Bounds
  BY EmptySeq, OrdersAssumption DEF Bounds
<1>3. Asks = {} /\ \A p \in Partitions : Told(p) = {}
  BY DEF Asks, Told, ToSet
<1>4. \A a \in Agents, s \in Slots : ~ Entry(a, s)
  BY DEF Entry
<1>5. \A t \in Token : v_order[t] = Null /\ v_otk_map[t] = Null
  OBVIOUS
<1>6. TokenInv
  BY <1>3, <1>4, <1>5 DEF TokenInv, BookDrawn, AsksDrawn, VenueDrawn, SeriesOK, NoneIsBoth,
                          ReplaceNames, VenueMap, Primary
<1>7. Placed
  <2>1. ToSet(<<>>) = {}
    BY DEF ToSet
  <2>. QED BY <2>1 DEF Placed
<1>8. SubmitOnce
  <2>1. \A t \in Token, p \in Partitions :
            Count(queue[t[1]], Submits(t)) = 0 /\ Count(wire[p], Submits(t)) = 0
    BY <1>1, <1>3, NoSubmission
  <2>2. \A t \in Token, p \in Partitions :
            Count(queue[t[1]], Submits(t)) + Count(wire[p], Submits(t)) <= 1
    BY <2>1
  <2>. QED BY <1>3, <2>2 DEF SubmitOnce
<1>9. VenueIds
  <2>1. \A x \in Series : AtVenue(x) = {}
    BY <1>5 DEF AtVenue
  <2>. QED BY <1>5, <2>1, FS_EmptySet DEF VenueIds
<1>10. AnswersOK /\ Heard
  BY <1>3 DEF AnswersOK, Heard
<1>11. BookIds
  BY <1>4 DEF BookIds
<1>12. MapsInv
  BY <1>4, OrdersAssumption DEF MapsInv, TokenMapOK, OidMapOK
<1>. QED BY <1>1, <1>2, <1>6, <1>7, <1>8, <1>9, <1>10, <1>11, <1>12 DEF BaseInv

LEMMA StutterBase ==
    ASSUME BaseInv, UNCHANGED vars
    PROVE  BaseInv'
<1>. USE DEF BaseInv, vars, agentVars, venueVars
<1>1. Asks' = Asks /\ \A p \in Partitions : Told(p)' = Told(p)
  BY SameMessages
<1>2. BookSame /\ VenueSame
  BY SameBook, SameVenue
<1>3. Shape'
  BY DEF Shape
<1>4. Bounds'
  BY DEF Bounds
<1>5. TokenInv'
  <2>1. Primary' = Primary /\ Alias' = Alias /\ \A t : Drawn(t)' = Drawn(t)
    BY <1>1 DEF Primary, Alias, Drawn, Entry
  <2>2. BookDrawn' /\ AsksDrawn' /\ VenueDrawn'
    BY <1>1, <2>1 DEF TokenInv, BookDrawn, AsksDrawn, VenueDrawn, Entry
  <2>3. SeriesOK' /\ NoneIsBoth' /\ ReplaceNames' /\ VenueMap'
    BY <1>1, <2>1 DEF TokenInv, SeriesOK, NoneIsBoth, ReplaceNames, VenueMap, Entry
  <2>. QED BY <2>2, <2>3 DEF TokenInv
<1>6. Placed' /\ Heard'
  BY DEF Placed, Heard
<1>7. SubmitOnce'
  BY <1>2, OnceKept
<1>8. VenueIds'
  BY <1>2, <1>3, IdsKept
<1>9. AnswersOK'
  BY <1>1, <1>2, AnswersStay
<1>10. BookIds'
  BY <1>2, <1>3, BookIdsKept DEF BookSame
<1>11. MapsInv'
  BY <1>2, MapsKept
<1>. QED BY <1>3, <1>4, <1>5, <1>6, <1>7, <1>8, <1>9, <1>10, <1>11

LEMMA NextBase ==
    ASSUME TradesOne, BaseInv, [Next]_vars
    PROVE  BaseInv'
<1>1. ASSUME NEW a \in Agents, NEW s \in Slots, NEW x \in Series, NEW price \in Prices,
             submit_order(a, s, x, price)
      PROVE  BaseInv'
  BY <1>1, SubmitBase
<1>2. ASSUME NEW a \in Agents, NEW s \in Slots, NEW price \in Prices, modify_order(a, s, price)
      PROVE  BaseInv'
  BY <1>2, ModifyBase
<1>3. ASSUME NEW a \in Agents, NEW s \in Slots, cancel_order(a, s)
      PROVE  BaseInv'
  BY <1>3, CancelBase
<1>4. ASSUME NEW a \in Agents, NEW s \in Slots, erase_order(a, s)
      PROVE  BaseInv'
  BY <1>4, EraseBase
<1>5. ASSUME NEW a \in Agents, emit(a)
      PROVE  BaseInv'
  BY <1>5, EmitBase
<1>6. ASSUME NEW p \in Partitions, venue(p)
      PROVE  BaseInv'
  BY <1>6, AcceptBase, RejectBase, ReplaceBase, CancelAnswerBase, EvaluateBase, FollowUpBase
     DEF venue
<1>7. ASSUME NEW a \in Agents, NEW p \in Partitions, visit(a, p)
      PROVE  BaseInv'
  BY <1>7, AcceptedBase, RestatingBase, NotInBookBase DEF visit
<1>8. CASE Quiet
  BY <1>8, StutterBase DEF Quiet
<1>9. CASE UNCHANGED vars
  BY <1>9, StutterBase
<1>. QED BY <1>1, <1>2, <1>3, <1>4, <1>5, <1>6, <1>7, <1>8, <1>9 DEF Next, evaluate_agent

LEMMA BaseGivesMaps ==
    ASSUME BaseInv
    PROVE  MapsAgree
<1>0. Shape /\ Bounds /\ TokenInv /\ VenueIds /\ BookIds /\ MapsInv
  BY DEF BaseInv
<1>1. ASSUME NEW a \in Agents, NEW s \in Slots, Entry(a, s)
      PROVE  /\ book[a][s].otk \in Token /\ book[a][s].oid \in Oid \cup {0}
             /\ book[a][s].series \in Trades[a] /\ book[a][s].price \in Prices
             /\ book[a][s].os \in order_state /\ book[a][s].ps \subseteq pending
             /\ book[a][s].otk_trace \in Seq(Token)
  <2>1. book[a][s] \in AgentOrders
    BY <1>0, <1>1, EntryTypes
  <2>2. /\ book[a][s].otk \in Token /\ book[a][s].price \in Prices
        /\ book[a][s].os \in order_state /\ book[a][s].ps \subseteq pending
        /\ book[a][s].otk_trace \in Seq(Token)
    BY <2>1 DEF AgentOrders
  <2>3. book[a][s].oid \in Oid \cup {0}
    BY <1>0, <1>1, <2>2, IdsInRange DEF BookIds
  <2>. QED BY <1>0, <1>1, <2>2, <2>3 DEF TokenInv, SeriesOK
<1>2. \A a \in Agents : m_otk_counter[a] \in 0..MaxTokens[a]
  BY <1>0, OrdersAssumption DEF Shape, Bounds
<1>3. m_oid_gen \in [Series -> Oid \cup {0}]
  BY <1>0, IdsInRange
<1>4. TypeOK
  BY <1>0, <1>1, <1>2, <1>3 DEF TypeOK, Shape, Bounds
<1>. QED BY <1>0, <1>4 DEF MapsAgree, MapsInv, TokenMapOK, OidMapOK

(* What holds of every agent, whatever it amends and when. *)
THEOREM OrdersInvariant == ASSUME TradesOne PROVE Spec => []BaseInv
<1>1. Init => BaseInv
  BY InitBase
<1>2. BaseInv /\ [Next]_vars => BaseInv'
  BY NextBase
<1>. QED BY <1>1, <1>2, PTL DEF Spec

(* If each agent trades one series, its book's maps by token and by the
   venue's id lead to exactly the orders that are in the book. *)
THEOREM MapsLeadToOrders == ASSUME TradesOne PROVE Spec => []MapsAgree
<1>1. BaseInv => MapsAgree
  BY BaseGivesMaps
<1>. QED BY <1>1, OrdersInvariant, PTL

-----------------------------------------------------------------------------
(* An agent that hears of one series only, as one with its own partition of
   one instrument and side does, finds by the venue's ids its own orders. *)

LEMMA HearsOneTradesOne == HearsOne => TradesOne
BY OrdersAssumption DEF HearsOne, TradesOne, PartitionMask

LEMMA FoundIsNamed ==
    ASSUME HearsOne, BaseInv, NEW a \in Agents, NEW p \in Partitions, inbox[a][p] # <<>>,
           Found(a, Head(inbox[a][p])) # Null
    PROVE  Head(inbox[a][p]).otk \in Tokens(book[a][Found(a, Head(inbox[a][p]))])
<1>. DEFINE m == Head(inbox[a][p])
            s == Found(a, m)
<1>0. Shape /\ TokenInv /\ VenueIds /\ AnswersOK /\ Heard /\ BookIds
  BY DEF BaseInv
<1>1. /\ m \in Told(p) /\ m.otk \in Token /\ s \in Slots /\ Entry(a, s)
      /\ m.type # "rejected" => m.oid \in Oid
      /\ m.type # "rejected" => v_order[m.otk] # Null /\ m.oid = v_order[m.otk].oid
      /\ m.type \in ByToken => m.otk \in Tokens(book[a][s])
      /\ m.type \notin ByToken => book[a][s].oid = m.oid
  BY FoundEntry
<1>. HIDE DEF m, s
<1>2. CASE m.type \notin ByToken
  <2>1. /\ m.type # "rejected" /\ m.oid \in Oid /\ book[a][s].oid = m.oid /\ m.oid # 0
        /\ v_order[m.otk] # Null /\ v_order[m.otk].oid = m.oid
    BY <1>1, <1>2 DEF ByToken, Oid
  <2>2. /\ book[a][s].otk \in Token /\ book[a][s].otk \in Tokens(book[a][s])
        /\ book[a][s].otk[1] = a
    BY <1>0, <1>1, EntryTypes DEF TokenInv, BookDrawn
  <2>3. v_order[book[a][s].otk] # Null /\ v_order[book[a][s].otk].oid = m.oid
    BY <1>0, <1>1, <2>1 DEF BookIds
  <2>4. /\ v_order[book[a][s].otk].series \in Trades[a]
        /\ v_order[book[a][s].otk].series \in Series /\ v_order[m.otk].series \in Series
    BY <1>0, <1>1, <2>1, <2>2, <2>3 DEF TokenInv, SeriesOK, Shape, VenueOrders
  <2>5. PartitionOf[v_order[m.otk].series] = p /\ p \in PartitionMask(a)
    BY <1>0, <1>1, <2>1 DEF AnswersOK, Heard
  <2>6. v_order[book[a][s].otk].series = v_order[m.otk].series
    BY <2>4, <2>5 DEF HearsOne, PartitionMask
  <2>7. book[a][s].otk = m.otk
    BY <1>0, <1>1, <2>1, <2>2, <2>3, <2>6 DEF VenueIds
  <2>8. m.otk \in Tokens(book[a][s])
    BY <2>2, <2>7
  <2>. QED BY <2>8 DEF m, s
<1>3. CASE m.type \in ByToken
  <2>1. m.otk \in Tokens(book[a][s])
    BY <1>1, <1>3
  <2>. QED BY <2>1 DEF m, s
<1>. QED BY <1>2, <1>3

LEMMA OthersAreNotFound ==
    ASSUME HearsOne, BaseInv, NEW a \in Agents, NEW p \in Partitions, inbox[a][p] # <<>>,
           Head(inbox[a][p]).otk[1] # a
    PROVE  Found(a, Head(inbox[a][p])) = Null
<1>. SUFFICES ASSUME Found(a, Head(inbox[a][p])) # Null PROVE FALSE
  OBVIOUS
<1>. DEFINE m == Head(inbox[a][p])
            s == Found(a, m)
<1>1. s \in Slots /\ Entry(a, s) /\ m.otk \in Tokens(book[a][s])
  BY FoundEntry, FoundIsNamed
<1>2. \A t \in Tokens(book[a][s]) : t[1] = a
  <2>. HIDE DEF m, s
  <2>. QED BY <1>1 DEF BaseInv, TokenInv, BookDrawn
<1>. QED BY <1>1, <1>2

LEMMA TailDiffers ==
    ASSUME NEW T, NEW s \in Seq(T), s # <<>>
    PROVE  Tail(s) # s /\ \A e \in T : Tail(s) # Append(s, e)
<1>. DEFINE r == Tail(s)
<1>1. Len(s) \in Nat /\ Len(r) = Len(s) - 1
  BY LenProperties, TailMsg
<1>. HIDE DEF r
<1>2. ASSUME NEW e \in T PROVE r # Append(s, e)
  <2>1. Len(Append(s, e)) = Len(s) + 1
    BY AppendMsg
  <2>2. Len(r) # Len(Append(s, e))
    BY <1>1, <2>1
  <2>. QED BY <2>2
<1>3. r # s
  BY <1>1
<1>. QED BY <1>2, <1>3 DEF r

(* Only the agent takes a message out of its inbox. *)
LEMMA OnlyVisitConsumes ==
    ASSUME BaseInv, [Next]_vars, NEW a \in Agents, NEW p \in Partitions,
           inbox[a][p] # <<>>, inbox'[a][p] = Tail(inbox[a][p])
    PROVE  visit(a, p)
<1>. USE DEF venueVars, agentVars
<1>0. Shape
  BY DEF BaseInv
<1>1. inbox[a][p] \in Seq(Answers)
  BY <1>0 DEF Shape
<1>2. inbox'[a][p] # inbox[a][p] /\ \A m \in Answers : inbox'[a][p] # Append(inbox[a][p], m)
  BY <1>1, TailDiffers
<1>3. inbox' # inbox
  BY <1>2
<1>4. ASSUME NEW b \in Agents, evaluate_agent(b) \/ emit(b) PROVE FALSE
  BY <1>3, <1>4 DEF evaluate_agent, submit_order, modify_order, cancel_order, erase_order, emit
<1>5. ASSUME NEW k \in Partitions, venue(k) PROVE FALSE
  <2>1. CASE evaluate(k)
    <3>1. PICK m \in ToSet(action_queue[k]) :
              /\ \A b \in Agents, j \in Partitions :
                     j # k \/ k \notin PartitionMask(b) => inbox'[b][j] = inbox[b][j]
              /\ \A b \in Agents : k \in PartitionMask(b) => inbox'[b][k] = Append(inbox[b][k], m)
      BY <1>0, <2>1, EvaluateEffect
    <3>2. m \in Answers
      BY <1>0, MessageTypes
    <3>. QED BY <1>2, <3>1, <3>2
  <2>2. CASE ~ evaluate(k)
    BY <1>3, <1>5, <2>2 DEF venue, accept, reject, reject_unknown, replace, cancel, follow_up
  <2>. QED BY <2>1, <2>2
<1>6. ASSUME NEW b \in Agents, NEW k \in Partitions, visit(b, k) PROVE b = a /\ k = p
  <2>1. inbox[b][k] # <<>> /\ Consume(b, k)
    BY <1>6 DEF visit, order_accepted, order_rejected, order_replaced, order_canceled,
                unexpected, not_in_book, Consumes
  <2>2. b # a \/ k # p => inbox'[a][p] = inbox[a][p]
    BY <1>0, <2>1, ConsumeEffect
  <2>. QED BY <1>2, <2>2
<1>7. ~ Quiet /\ ~ UNCHANGED vars
  BY <1>3 DEF Quiet, vars
<1>. QED BY <1>4, <1>5, <1>6, <1>7 DEF Next

LEMMA OthersStep ==
    ASSUME HearsOne, BaseInv, [Next]_vars, NEW a \in Agents, NEW p \in Partitions,
           inbox[a][p] # <<>>, inbox'[a][p] = Tail(inbox[a][p]), Head(inbox[a][p]).otk[1] # a
    PROVE  book' = book
<1>1. visit(a, p)
  BY OnlyVisitConsumes
<1>2. Found(a, Head(inbox[a][p])) = Null
  BY OthersAreNotFound
<1>3. not_in_book(a, p)
  BY <1>1, <1>2 DEF visit, order_accepted, order_rejected, order_replaced, order_canceled,
                    unexpected
<1>. QED BY <1>3 DEF not_in_book

(* A message about another agent's order changes nothing in an agent's book,
   if the agent hears of one series only: the two partitions of the run that
   violates it are what the property needs to fail. *)
THEOREM OthersAreIgnored == ASSUME HearsOne PROVE Spec => OthersOrdersIgnored
<1>. DEFINE A == \A a \in Agents, p \in Partitions :
                     (inbox[a][p] # <<>> /\ inbox'[a][p] = Tail(inbox[a][p])
                         /\ Head(inbox[a][p]).otk[1] # a)
                     => book'[a] = book[a]
<1>1. BaseInv /\ [Next]_vars => A
  BY OthersStep
<1>2. TradesOne
  BY HearsOneTradesOne
<1>3. Spec => []BaseInv
  BY <1>2, OrdersInvariant
<1>. HIDE DEF A
<1>4. Spec => [][A]_vars
  BY <1>1, <1>3, PTL DEF Spec
<1>. QED BY <1>4 DEF OthersOrdersIgnored, A
-----------------------------------------------------------------------------
(* What the steps do to the messages about one order.                      *)

LEMMA LoadParts ==
    ASSUME Shape, NEW a \in Agents, NEW p \in Partitions, NEW M
    PROVE  /\ Count(queue[a], M) \in Nat /\ Count(wire[p], M) \in Nat
           /\ Count(action_queue[p], M) \in Nat /\ Count(inbox[a][p], M) \in Nat
           /\ Count(queue[a], M) = 0 => \A m \in ToSet(queue[a]) : m \notin M
           /\ Count(wire[p], M) = 0 => \A m \in ToSet(wire[p]) : m \notin M
           /\ Count(action_queue[p], M) = 0 => \A m \in ToSet(action_queue[p]) : m \notin M
           /\ Count(inbox[a][p], M) = 0 => \A m \in ToSet(inbox[a][p]) : m \notin M
<1>1. queue[a] \in Seq(Requests) /\ wire[p] \in Seq(Requests)
      /\ action_queue[p] \in Seq(Answers) /\ inbox[a][p] \in Seq(Answers)
  BY DEF Shape
<1>2. Count(queue[a], M) \in Nat /\ (Count(queue[a], M) = 0 => \A m \in ToSet(queue[a]) : m \notin M)
  BY <1>1, CountType
<1>3. Count(wire[p], M) \in Nat /\ (Count(wire[p], M) = 0 => \A m \in ToSet(wire[p]) : m \notin M)
  BY <1>1, CountType
<1>4. /\ Count(action_queue[p], M) \in Nat
      /\ Count(action_queue[p], M) = 0 => \A m \in ToSet(action_queue[p]) : m \notin M
  BY <1>1, CountType
<1>5. /\ Count(inbox[a][p], M) \in Nat
      /\ Count(inbox[a][p], M) = 0 => \A m \in ToSet(inbox[a][p]) : m \notin M
  BY <1>1, CountType
<1>. QED BY <1>2, <1>3, <1>4, <1>5

LEMMA MailTypes ==
    ASSUME Shape, NEW a \in Agents, NEW p \in Partitions
    PROVE  /\ Mail(a, p) \subseteq Requests \cup Answers
           /\ \A m \in Mail(a, p) : m.otk \in Token
<1>1. Mail(a, p) \subseteq Requests \cup Answers
  BY MessageTypes DEF Mail
<1>. QED BY <1>1 DEF Requests, Answers

(* With no load, what is on its way was sent unasked. *)
LEMMA NoLoad ==
    ASSUME Shape, NEW a \in Agents, NEW p \in Partitions, NEW t, Load(a, p, t) = 0,
           NEW m \in Mail(a, p), m.otk = t
    PROVE  ~ Asked(m)
<1>1. /\ Count(queue[a], AskedOf(t)) = 0 /\ Count(wire[p], AskedOf(t)) = 0
      /\ Count(action_queue[p], AskedOf(t)) = 0 /\ Count(inbox[a][p], AskedOf(t)) = 0
  <2>. DEFINE q == Count(queue[a], AskedOf(t))
              w == Count(wire[p], AskedOf(t))
              d == Count(action_queue[p], AskedOf(t))
              i == Count(inbox[a][p], AskedOf(t))
  <2>1. q \in Nat /\ w \in Nat /\ d \in Nat /\ i \in Nat
    BY LoadParts
  <2>2. q + w + d + i = 0
    BY DEF Load
  <2>. HIDE DEF q, w, d, i
  <2>3. q = 0 /\ w = 0 /\ d = 0 /\ i = 0
    BY <2>1, <2>2
  <2>. QED BY <2>3 DEF q, w, d, i
<1>2. m \notin AskedOf(t)
  BY <1>1, LoadParts DEF Mail
<1>. QED BY <1>2, MailTypes DEF AskedOf

LEMMA UnaskedType ==
    ASSUME NEW m, ~ Asked(m)
    PROVE  m.type = "canceled" /\ m.state = "NOT_ON_BOOK"
BY DEF Asked

LEMMA MailEnqueued ==
    ASSUME Shape, Shape', Bounds, NEW a \in Agents, NEW r \in Requests, enqueue(a, r),
           UNCHANGED <<wire, action_queue, inbox>>
    PROVE  /\ \A b \in Agents, p \in Partitions : \A m \in Mail(b, p)' :
                  m \in Mail(b, p) \/ (b = a /\ m = r /\ p = PartitionOf[r.series])
           /\ \A b \in Agents, p \in Partitions, t \in Token :
                  /\ Load(b, p, t) \in Nat
                  /\ Load(b, p, t)' = Load(b, p, t) + IF b = a /\ r \in AskedOf(t) THEN 1 ELSE 0
<1>1. /\ \A b \in Agents : b # a => queue'[b] = queue[b]
      /\ ToSet(queue'[a]) = ToSet(queue[a]) \cup {r}
      /\ \A M : Count(queue'[a], M) = Count(queue[a], M) + IF r \in M THEN 1 ELSE 0
  BY EnqueueEffect
<1>2. ASSUME NEW b \in Agents, NEW p \in Partitions, NEW m \in Mail(b, p)'
      PROVE  m \in Mail(b, p) \/ (b = a /\ m = r /\ p = PartitionOf[r.series])
  BY <1>1, <1>2 DEF Mail
<1>3. ASSUME NEW b \in Agents, NEW p \in Partitions, NEW t \in Token
      PROVE  /\ Load(b, p, t) \in Nat
             /\ Load(b, p, t)' = Load(b, p, t) + IF b = a /\ r \in AskedOf(t) THEN 1 ELSE 0
  <2>. DEFINE M == AskedOf(t)
  <2>1. /\ Count(queue[b], M) \in Nat /\ Count(wire[p], M) \in Nat
        /\ Count(action_queue[p], M) \in Nat /\ Count(inbox[b][p], M) \in Nat
    BY LoadParts
  <2>2. Count(queue'[b], M) = Count(queue[b], M) + IF b = a /\ r \in M THEN 1 ELSE 0
    BY <1>1, <2>1
  <2>3. Load(b, p, t)' = Count(queue'[b], M) + Count(wire[p], M) + Count(action_queue[p], M)
                            + Count(inbox[b][p], M)
    BY DEF Load
  <2>. HIDE DEF M
  <2>4. Load(b, p, t) = Count(queue[b], M) + Count(wire[p], M) + Count(action_queue[p], M)
                            + Count(inbox[b][p], M)
    BY DEF Load, M
  <2>5. Load(b, p, t)' = Load(b, p, t) + IF b = a /\ r \in M THEN 1 ELSE 0
    BY <2>1, <2>2, <2>3, <2>4
  <2>6. Load(b, p, t) \in Nat
    BY <2>1, <2>4
  <2>. QED BY <2>5, <2>6 DEF M
<1>. QED BY <1>2, <1>3

LEMMA NoMailNoLoad ==
    ASSUME Shape, NEW a \in Agents, NEW t,
           \A k \in Partitions : \A m \in Mail(a, k) : m.otk # t
    PROVE  \A p \in Partitions : Load(a, p, t) = 0
<1>. SUFFICES ASSUME NEW p \in Partitions PROVE Load(a, p, t) = 0
  OBVIOUS
<1>1. \A m \in ToSet(queue[a]) : m.otk # t
  <2>1. \A m \in ToSet(queue[a]) : PartitionOf[m.series] \in Partitions
    BY MessageTypes, OrdersAssumption DEF Requests
  <2>. QED BY <2>1 DEF Mail
<1>2. \A m \in ToSet(wire[p]) \cup ToSet(action_queue[p]) \cup ToSet(inbox[a][p]) : m.otk # t
  BY DEF Mail
<1>3. \A m \in AskedOf(t) : m.otk = t
  BY DEF AskedOf
<1>4. /\ queue[a] \in Seq(Requests) /\ wire[p] \in Seq(Requests)
      /\ action_queue[p] \in Seq(Answers) /\ inbox[a][p] \in Seq(Answers)
  BY DEF Shape
<1>5. Count(queue[a], AskedOf(t)) = 0 /\ Count(wire[p], AskedOf(t)) = 0
  BY <1>1, <1>2, <1>3, <1>4, CountType
<1>6. Count(action_queue[p], AskedOf(t)) = 0 /\ Count(inbox[a][p], AskedOf(t)) = 0
  BY <1>2, <1>3, <1>4, CountType
<1>. QED BY <1>5, <1>6 DEF Load

LEMMA LoadPartsNext ==
    ASSUME Shape', NEW a \in Agents, NEW p \in Partitions, NEW M
    PROVE  /\ Count(queue'[a], M) \in Nat /\ Count(wire'[p], M) \in Nat
           /\ Count(action_queue'[p], M) \in Nat /\ Count(inbox'[a][p], M) \in Nat
<1>1. queue'[a] \in Seq(Requests) /\ wire'[p] \in Seq(Requests)
      /\ action_queue'[p] \in Seq(Answers) /\ inbox'[a][p] \in Seq(Answers)
  BY DEF Shape
<1>2. Count(queue'[a], M) \in Nat
  BY <1>1, CountType
<1>3. Count(wire'[p], M) \in Nat
  BY <1>1, CountType
<1>4. Count(action_queue'[p], M) \in Nat
  BY <1>1, CountType
<1>5. Count(inbox'[a][p], M) \in Nat
  BY <1>1, CountType
<1>. QED BY <1>2, <1>3, <1>4, <1>5

(* A load is what its parts are. *)
LoadIs(a, p, t, q, w, d, i) ==
    /\ q = Count(queue[a], AskedOf(t)) /\ w = Count(wire[p], AskedOf(t))
    /\ d = Count(action_queue[p], AskedOf(t)) /\ i = Count(inbox[a][p], AskedOf(t))
    /\ Load(a, p, t) = q + w + d + i

LEMMA LoadDiffers ==
    ASSUME Shape, Shape', NEW a \in Agents, NEW p \in Partitions, NEW t
    PROVE  /\ \E q, w, d, i \in Nat : LoadIs(a, p, t, q, w, d, i)
           /\ \E q, w, d, i \in Nat : LoadIs(a, p, t, q, w, d, i)'
<1>1. /\ Count(queue[a], AskedOf(t)) \in Nat /\ Count(wire[p], AskedOf(t)) \in Nat
      /\ Count(action_queue[p], AskedOf(t)) \in Nat /\ Count(inbox[a][p], AskedOf(t)) \in Nat
  BY LoadParts
<1>2. /\ Count(queue'[a], AskedOf(t)) \in Nat /\ Count(wire'[p], AskedOf(t)) \in Nat
      /\ Count(action_queue'[p], AskedOf(t)) \in Nat /\ Count(inbox'[a][p], AskedOf(t)) \in Nat
  BY LoadPartsNext
<1>3. \E q, w, d, i \in Nat : LoadIs(a, p, t, q, w, d, i)
  BY <1>1, Zenon DEF Load, LoadIs
<1>4. \E q, w, d, i \in Nat : LoadIs(a, p, t, q, w, d, i)'
  BY <1>2, Zenon DEF Load, LoadIs
<1>. QED BY <1>3, <1>4

LEMMA SameLoad ==
    ASSUME Shape, Shape', NEW a \in Agents, NEW p \in Partitions, NEW t,
           queue'[a] = queue[a], wire'[p] = wire[p], action_queue'[p] = action_queue[p],
           inbox'[a][p] = inbox[a][p]
    PROVE  Load(a, p, t)' = Load(a, p, t) /\ Mail(a, p)' = Mail(a, p)
BY DEF Load, Mail

LEMMA MailEmitted ==
    ASSUME Shape, Shape', Bounds, NEW a \in Agents, emit(a)
    PROVE  \E r \in Requests : \E p \in Partitions :
               /\ p = PartitionOf[r.series] /\ r \in ToSet(queue[a])
               /\ \A b \in Agents, k \in Partitions : \A x \in Mail(b, k)' :
                      x \in Mail(b, k) \/ (b # a /\ x = r)
               /\ \A b \in Agents, k \in Partitions, t \in Token :
                      b # a /\ r \notin AskedOf(t) => Load(b, k, t)' = Load(b, k, t)
               /\ \A t \in Token : Load(a, p, t)' = Load(a, p, t)
<1>1. PICK r \in Requests : \E k \in Partitions : Emitted(a, r, k)
  BY EmitEffect
<1>2. PICK p \in Partitions : Emitted(a, r, p)
  BY <1>1
<1>10. /\ p = PartitionOf[r.series] /\ r \in ToSet(queue[a])
       /\ \A b \in Agents : b # a => queue'[b] = queue[b]
       /\ \A k \in Partitions : k # p => wire'[k] = wire[k]
       /\ ToSet(queue'[a]) \subseteq ToSet(queue[a])
       /\ ToSet(wire'[p]) = ToSet(wire[p]) \cup {r}
       /\ \A M : Count(queue[a], M) = Count(queue'[a], M) + IF r \in M THEN 1 ELSE 0
       /\ \A M : Count(wire'[p], M) = Count(wire[p], M) + IF r \in M THEN 1 ELSE 0
  BY <1>2 DEF Emitted
<1>3. UNCHANGED <<action_queue, inbox>>
  BY DEF emit, venueVars
<1>4. ASSUME NEW b \in Agents, NEW k \in Partitions, NEW x \in Mail(b, k)'
      PROVE  x \in Mail(b, k) \/ (b # a /\ x = r)
  <2>1. CASE x \in {q \in ToSet(queue'[b]) : PartitionOf[q.series] = k}
    BY <1>10, <1>4, <2>1 DEF Mail
  <2>2. CASE x \in ToSet(wire'[k])
    BY <1>10, <2>2 DEF Mail
  <2>3. CASE x \in ToSet(action_queue'[k]) \cup ToSet(inbox'[b][k])
    BY <1>3, <2>3 DEF Mail
  <2>. QED BY <1>4, <2>1, <2>2, <2>3 DEF Mail
<1>5. ASSUME NEW b \in Agents, NEW k \in Partitions, NEW t \in Token, b # a, r \notin AskedOf(t)
      PROVE  Load(b, k, t)' = Load(b, k, t)
  <2>1. Count(wire'[k], AskedOf(t)) = Count(wire[k], AskedOf(t))
    <3>1. Count(wire[k], AskedOf(t)) \in Nat
      BY LoadParts
    <3>. QED BY <1>10, <1>5, <3>1
  <2>2. queue'[b] = queue[b]
    BY <1>10, <1>5
  <2>. QED BY <1>3, <2>1, <2>2 DEF Load
<1>6. ASSUME NEW t \in Token PROVE Load(a, p, t)' = Load(a, p, t)
  <2>. DEFINE c == IF r \in AskedOf(t) THEN 1 ELSE 0
  <2>1. c \in Nat
    OBVIOUS
  <2>8. PICK q, w, d, i \in Nat : LoadIs(a, p, t, q, w, d, i)
    BY LoadDiffers
  <2>9. PICK qq, ww, dd, ii \in Nat : LoadIs(a, p, t, qq, ww, dd, ii)'
    BY LoadDiffers
  <2>2. /\ q = Count(queue[a], AskedOf(t)) /\ qq = Count(queue'[a], AskedOf(t))
        /\ w = Count(wire[p], AskedOf(t)) /\ ww = Count(wire'[p], AskedOf(t))
        /\ d = Count(action_queue[p], AskedOf(t)) /\ dd = Count(action_queue'[p], AskedOf(t))
        /\ i = Count(inbox[a][p], AskedOf(t)) /\ ii = Count(inbox'[a][p], AskedOf(t))
        /\ Load(a, p, t) = q + w + d + i /\ Load(a, p, t)' = qq + ww + dd + ii
    BY <2>8, <2>9 DEF LoadIs
  <2>3. q = qq + c /\ ww = w + c /\ dd = d /\ ii = i
    BY <1>10, <1>3, <2>2
  <2>. HIDE DEF c
  <2>. QED BY <2>1, <2>2, <2>3
<1>. QED BY <1>10, <1>4, <1>5, <1>6

(* The venue of p reads a request, its answer is m. *)
LEMMA MailRead ==
    ASSUME Shape, Shape', NEW p \in Partitions, NEW m \in Answers,
           wire[p] # <<>>, Read(p), Schedule(p, m), UNCHANGED <<queue, inbox>>
    PROVE  LET r == Head(wire[p])
           IN  /\ r \in Requests /\ r \in Asks /\ \A b \in Agents : r \in Mail(b, p)
               /\ \A b \in Agents, k \in Partitions : \A x \in Mail(b, k)' :
                      x \in Mail(b, k) \/ (k = p /\ x = m)
               /\ \A b \in Agents, t \in Token :
                      Load(b, p, t) \in Nat /\
                      Load(b, p, t)' = Load(b, p, t) - (IF r \in AskedOf(t) THEN 1 ELSE 0)
                                                     + (IF m \in AskedOf(t) THEN 1 ELSE 0)
               /\ \A b \in Agents, k \in Partitions, t \in Token :
                      k # p => Load(b, k, t)' = Load(b, k, t)
<1>. DEFINE r == Head(wire[p])
<1>1. /\ r \in Requests /\ r \in ToSet(wire[p]) /\ r \in Asks
      /\ \A k \in Partitions : k # p => wire'[k] = wire[k]
      /\ ToSet(wire'[p]) \subseteq ToSet(wire[p])
      /\ \A M : Count(wire[p], M) = Count(wire'[p], M) + IF r \in M THEN 1 ELSE 0
  BY ReadEffect
<1>2. /\ \A k \in Partitions : k # p => action_queue'[k] = action_queue[k]
      /\ ToSet(action_queue'[p]) = ToSet(action_queue[p]) \cup {m}
      /\ \A M : Count(action_queue'[p], M)
                   = Count(action_queue[p], M) + IF m \in M THEN 1 ELSE 0
  BY ScheduleEffect
<1>3. \A b \in Agents : r \in Mail(b, p)
  BY <1>1 DEF Mail
<1>. HIDE DEF r
<1>4. ASSUME NEW b \in Agents, NEW k \in Partitions, NEW x \in Mail(b, k)'
      PROVE  x \in Mail(b, k) \/ (k = p /\ x = m)
  <2>1. CASE k = p
    BY <1>1, <1>2, <1>4, <2>1 DEF Mail
  <2>2. CASE k # p
    BY <1>1, <1>2, <1>4, <2>2, SameLoad
  <2>. QED BY <2>1, <2>2
<1>5. ASSUME NEW b \in Agents, NEW k \in Partitions, NEW t \in Token, k # p
      PROVE  Load(b, k, t)' = Load(b, k, t)
  BY <1>1, <1>2, <1>5, SameLoad
<1>6. ASSUME NEW b \in Agents, NEW t \in Token
      PROVE  Load(b, p, t) \in Nat /\
             Load(b, p, t)' = Load(b, p, t) - (IF r \in AskedOf(t) THEN 1 ELSE 0)
                                            + (IF m \in AskedOf(t) THEN 1 ELSE 0)
  <2>. DEFINE c == IF r \in AskedOf(t) THEN 1 ELSE 0
              e == IF m \in AskedOf(t) THEN 1 ELSE 0
  <2>1. c \in Nat /\ e \in Nat
    OBVIOUS
  <2>8. PICK q, w, d, i \in Nat : LoadIs(b, p, t, q, w, d, i)
    BY LoadDiffers
  <2>9. PICK qq, ww, dd, ii \in Nat : LoadIs(b, p, t, qq, ww, dd, ii)'
    BY LoadDiffers
  <2>2. /\ q = Count(queue[b], AskedOf(t)) /\ qq = Count(queue'[b], AskedOf(t))
        /\ w = Count(wire[p], AskedOf(t)) /\ ww = Count(wire'[p], AskedOf(t))
        /\ d = Count(action_queue[p], AskedOf(t)) /\ dd = Count(action_queue'[p], AskedOf(t))
        /\ i = Count(inbox[b][p], AskedOf(t)) /\ ii = Count(inbox'[b][p], AskedOf(t))
        /\ Load(b, p, t) = q + w + d + i /\ Load(b, p, t)' = qq + ww + dd + ii
    BY <2>8, <2>9 DEF LoadIs
  <2>3. w = ww + c /\ dd = d + e /\ qq = q /\ ii = i
    BY <1>1, <1>2, <2>2
  <2>. HIDE DEF c, e
  <2>10. Load(b, p, t) = q + w + d + i
    BY <2>2
  <2>4. Load(b, p, t) \in Nat
    BY <2>10
  <2>5. ww = w - c
    BY <2>1, <2>3
  <2>6. qq + ww + dd + ii = (q + w + d + i) - c + e
    BY <2>1, <2>3, <2>5
  <2>7. Load(b, p, t)' = Load(b, p, t) - c + e
    BY <2>2, <2>6
  <2>. QED BY <2>4, <2>7 DEF c, e
<1>. QED BY <1>1, <1>3, <1>4, <1>5, <1>6 DEF r

(* The venue of p sends m unasked. *)
LEMMA MailScheduled ==
    ASSUME Shape, Shape', NEW p \in Partitions, NEW m \in Answers, ~ Asked(m),
           Schedule(p, m), UNCHANGED <<queue, wire, inbox>>
    PROVE  /\ \A b \in Agents, k \in Partitions : \A x \in Mail(b, k)' :
                  x \in Mail(b, k) \/ (k = p /\ x = m)
           /\ \A b \in Agents, k \in Partitions, t \in Token : Load(b, k, t)' = Load(b, k, t)
<1>1. /\ \A k \in Partitions : k # p => action_queue'[k] = action_queue[k]
      /\ ToSet(action_queue'[p]) = ToSet(action_queue[p]) \cup {m}
      /\ \A M : Count(action_queue'[p], M)
                   = Count(action_queue[p], M) + IF m \in M THEN 1 ELSE 0
  BY ScheduleEffect
<1>2. ASSUME NEW b \in Agents, NEW k \in Partitions, NEW x \in Mail(b, k)'
      PROVE  x \in Mail(b, k) \/ (k = p /\ x = m)
  BY <1>1, <1>2 DEF Mail
<1>3. ASSUME NEW b \in Agents, NEW k \in Partitions, NEW t \in Token
      PROVE  Load(b, k, t)' = Load(b, k, t)
  <2>1. Count(action_queue[k], AskedOf(t)) \in Nat /\ m \notin AskedOf(t)
    BY LoadParts DEF AskedOf
  <2>2. Count(action_queue'[k], AskedOf(t)) = Count(action_queue[k], AskedOf(t))
    BY <1>1, <2>1
  <2>. QED BY <2>2 DEF Load
<1>. QED BY <1>2, <1>3

LEMMA MailDue ==
    ASSUME Shape, Shape', NEW p \in Partitions, evaluate(p)
    PROVE  /\ \A b \in Agents, k \in Partitions : \A x \in Mail(b, k)' : x \in Mail(b, k)
           /\ \A b \in Agents, k \in Partitions, t \in Token :
                  k # p \/ p \in PartitionMask(b) => Load(b, k, t)' = Load(b, k, t)
<1>1. PICK m \in ToSet(action_queue[p]) :
               /\ action_queue' \in [Partitions -> Seq(Answers)]
               /\ inbox' \in [Agents -> [Partitions -> Seq(Answers)]]
               /\ \A k \in Partitions : Told(k)' \subseteq Told(k)
               /\ \A k \in Partitions : k # p => action_queue'[k] = action_queue[k]
               /\ ToSet(action_queue'[p]) \subseteq ToSet(action_queue[p])
               /\ \A M : Count(action_queue[p], M)
                            = Count(action_queue'[p], M) + IF m \in M THEN 1 ELSE 0
               /\ \A a \in Agents, k \in Partitions :
                      k # p \/ p \notin PartitionMask(a) => inbox'[a][k] = inbox[a][k]
               /\ \A a \in Agents : p \in PartitionMask(a) =>
                      /\ inbox'[a][p] = Append(inbox[a][p], m)
                      /\ ToSet(inbox'[a][p]) = ToSet(inbox[a][p]) \cup {m}
                      /\ \A M : Count(inbox'[a][p], M)
                                  = Count(inbox[a][p], M) + IF m \in M THEN 1 ELSE 0
  BY EvaluateEffect
<1>2. UNCHANGED <<queue, wire>>
  BY DEF evaluate
<1>3. ASSUME NEW b \in Agents, NEW k \in Partitions, NEW x \in Mail(b, k)' PROVE x \in Mail(b, k)
  <2>1. ToSet(inbox'[b][k]) \subseteq ToSet(inbox[b][k]) \cup ToSet(action_queue[k])
    <3>1. CASE k # p \/ p \notin PartitionMask(b)
      <4>1. inbox'[b][k] = inbox[b][k]
        BY <1>1, <3>1
      <4>. QED BY <4>1
    <3>2. CASE k = p /\ p \in PartitionMask(b)
      <4>1. ToSet(inbox'[b][p]) = ToSet(inbox[b][p]) \cup {m} /\ m \in ToSet(action_queue[p])
        BY <1>1, <3>2
      <4>. QED BY <3>2, <4>1
    <3>. QED BY <3>1, <3>2
  <2>2. ToSet(action_queue'[k]) \subseteq ToSet(action_queue[k])
    BY <1>1
  <2>. QED BY <1>2, <1>3, <2>1, <2>2 DEF Mail
<1>4. ASSUME NEW b \in Agents, NEW k \in Partitions, NEW t \in Token, k # p
      PROVE  Load(b, k, t)' = Load(b, k, t)
  BY <1>1, <1>2, <1>4, SameLoad
<1>5. ASSUME NEW b \in Agents, NEW t \in Token, p \in PartitionMask(b)
      PROVE  Load(b, p, t)' = Load(b, p, t)
  <2>. DEFINE c == IF m \in AskedOf(t) THEN 1 ELSE 0
  <2>1. c \in Nat
    OBVIOUS
  <2>8. PICK q, w, d, i \in Nat : LoadIs(b, p, t, q, w, d, i)
    BY LoadDiffers
  <2>9. PICK qq, ww, dd, ii \in Nat : LoadIs(b, p, t, qq, ww, dd, ii)'
    BY LoadDiffers
  <2>2. /\ q = Count(queue[b], AskedOf(t)) /\ qq = Count(queue'[b], AskedOf(t))
        /\ w = Count(wire[p], AskedOf(t)) /\ ww = Count(wire'[p], AskedOf(t))
        /\ d = Count(action_queue[p], AskedOf(t)) /\ dd = Count(action_queue'[p], AskedOf(t))
        /\ i = Count(inbox[b][p], AskedOf(t)) /\ ii = Count(inbox'[b][p], AskedOf(t))
        /\ Load(b, p, t) = q + w + d + i /\ Load(b, p, t)' = qq + ww + dd + ii
    BY <2>8, <2>9 DEF LoadIs
  <2>3. d = dd + c /\ ii = i + c /\ qq = q /\ ww = w
    BY <1>1, <1>2, <1>5, <2>2
  <2>. HIDE DEF c
  <2>. QED BY <2>1, <2>2, <2>3
<1>. QED BY <1>3, <1>4, <1>5

(* Agent a consumes the first message of p. *)
LEMMA MailConsumed ==
    ASSUME Shape, Shape', NEW a \in Agents, NEW p \in Partitions, inbox[a][p] # <<>>,
           Consume(a, p)
    PROVE  LET m == Head(inbox[a][p])
           IN  /\ m \in Mail(a, p) /\ m \in Answers
               /\ \A b \in Agents, k \in Partitions : \A x \in Mail(b, k)' : x \in Mail(b, k)
               /\ \A b \in Agents, k \in Partitions, t \in Token :
                      b # a \/ k # p => Load(b, k, t)' = Load(b, k, t)
               /\ \A t \in Token :
                      Load(a, p, t) \in Nat /\
                      Load(a, p, t)' = Load(a, p, t) - IF m \in AskedOf(t) THEN 1 ELSE 0
<1>. DEFINE m == Head(inbox[a][p])
<1>1. /\ m \in ToSet(inbox[a][p]) /\ m \in Answers
      /\ \A b \in Agents, k \in Partitions : b # a \/ k # p => inbox'[b][k] = inbox[b][k]
      /\ ToSet(inbox'[a][p]) \subseteq ToSet(inbox[a][p])
      /\ \A M : Count(inbox[a][p], M) = Count(inbox'[a][p], M) + IF m \in M THEN 1 ELSE 0
  BY ConsumeEffect
<1>2. UNCHANGED <<queue, wire, action_queue>>
  BY DEF Consume, venueVars
<1>. HIDE DEF m
<1>3. ASSUME NEW b \in Agents, NEW k \in Partitions, NEW x \in Mail(b, k)' PROVE x \in Mail(b, k)
  <2>1. ToSet(inbox'[b][k]) \subseteq ToSet(inbox[b][k])
    BY <1>1
  <2>. QED BY <1>2, <1>3, <2>1 DEF Mail
<1>4. ASSUME NEW b \in Agents, NEW k \in Partitions, NEW t \in Token, b # a \/ k # p
      PROVE  Load(b, k, t)' = Load(b, k, t)
  BY <1>1, <1>2, <1>4, SameLoad
<1>5. ASSUME NEW t \in Token
      PROVE  Load(a, p, t) \in Nat /\
             Load(a, p, t)' = Load(a, p, t) - IF m \in AskedOf(t) THEN 1 ELSE 0
  <2>. DEFINE c == IF m \in AskedOf(t) THEN 1 ELSE 0
  <2>1. c \in Nat
    OBVIOUS
  <2>8. PICK q, w, d, i \in Nat : LoadIs(a, p, t, q, w, d, i)
    BY LoadDiffers
  <2>9. PICK qq, ww, dd, ii \in Nat : LoadIs(a, p, t, qq, ww, dd, ii)'
    BY LoadDiffers
  <2>2. /\ q = Count(queue[a], AskedOf(t)) /\ qq = Count(queue'[a], AskedOf(t))
        /\ w = Count(wire[p], AskedOf(t)) /\ ww = Count(wire'[p], AskedOf(t))
        /\ d = Count(action_queue[p], AskedOf(t)) /\ dd = Count(action_queue'[p], AskedOf(t))
        /\ i = Count(inbox[a][p], AskedOf(t)) /\ ii = Count(inbox'[a][p], AskedOf(t))
        /\ Load(a, p, t) = q + w + d + i /\ Load(a, p, t)' = qq + ww + dd + ii
    BY <2>8, <2>9 DEF LoadIs
  <2>3. i = ii + c /\ qq = q /\ ww = w /\ dd = d
    BY <1>1, <1>2, <2>2
  <2>. HIDE DEF c
  <2>4. Load(a, p, t) \in Nat /\ Load(a, p, t)' = Load(a, p, t) - c
    BY <2>1, <2>2, <2>3
  <2>. QED BY <2>4 DEF c
<1>6. m \in Mail(a, p)
  BY <1>1 DEF Mail
<1>. QED BY <1>1, <1>3, <1>4, <1>5, <1>6 DEF m

-----------------------------------------------------------------------------
(* One order at a time.                                                    *)

LEMMA HomeOf ==
    ASSUME TradesOne, BaseInv, NEW a \in Agents, NEW s \in Slots, Entry(a, s)
    PROVE  /\ Partition(book[a][s]) \in PartitionMask(a)
           /\ \A k \in PartitionMask(a) : k = Partition(book[a][s])
<1>1. book[a][s].series \in Trades[a]
  BY DEF BaseInv, TokenInv, SeriesOK
<1>. QED BY <1>1 DEF PartitionMask, Partition, TradesOne

(* The slot of an order's token. *)
LEMMA OneSlot ==
    ASSUME BaseInv, NEW a \in Agents, NEW s \in Slots, NEW k \in Slots,
           Entry(a, s), Entry(a, k), book[a][s].otk \in Tokens(book[a][k])
    PROVE  s = k
<1>1. book[a][s].otk \in Token /\ book[a][s].otk \in Tokens(book[a][s])
  BY EntryTypes DEF BaseInv
<1>. QED BY <1>1 DEF BaseInv, MapsInv, TokenMapOK

LEMMA MakeOK ==
    ASSUME NEW a, NEW t, NEW s \in Slots, NEW o, NEW v,
           Entry(a, s)', book'[a][s] = o, o.otk = t, v_order'[t] = v, OrderStates(o, v),
           v # Null => (v.state # "LIVE" => OffBook(o)),
           \A p \in Partitions : \A m \in Mail(a, p)' :
               m.otk = t => p = Partition(o) /\ Awaits(o, v, m),
           Load(a, Partition(o), t)' = Awaiting(o)
    PROVE  TokenOK(a, t)'
<1>1. OrderOK(a, t, o, v)'
  BY DEF OrderOK
<1>2. OrderOK(a, t, book[a][s], v_order[t])'
  BY <1>1
<1>. QED BY <1>2 DEF TokenOK

(* What a token of an order in a book stands for: the order and the entry of the   *)
(* book, what the venue knows of it, and that each message about it is awaited.   *)
Knows(a, t, s, o, v) ==
    /\ Entry(a, s) /\ book[a][s] = o /\ o.otk = t /\ v_order[t] = v
    /\ OrderStates(o, v)
    /\ v # Null => (v.state # "LIVE" => OffBook(o))
    /\ \A p \in Partitions : \A m \in Mail(a, p) :
           m.otk = t => p = Partition(o) /\ Awaits(o, v, m)
    /\ Load(a, Partition(o), t) = Awaiting(o)

LEMMA UseOK ==
    ASSUME NEW a, NEW t, TokenOK(a, t), ~ Forgotten(a, t, v_order[t])
    PROVE  \E s \in Slots : \E o, v : Knows(a, t, s, o, v)
<1>1. PICK s \in Slots : /\ Entry(a, s) /\ book[a][s].otk = t
                         /\ OrderOK(a, t, book[a][s], v_order[t])
  BY DEF TokenOK
<1>2. Knows(a, t, s, book[a][s], v_order[t])
  BY <1>1 DEF OrderOK, Knows
<1>. QED BY <1>2

LEMMA Untouched ==
    ASSUME TradesOne, BaseInv, NEW a \in Agents, NEW t \in Token, TokenOK(a, t),
           \A s \in Slots : (Entry(a, s) /\ book[a][s].otk = t) \/ (Entry(a, s)' /\ book'[a][s].otk = t)
                                => book'[a][s] = book[a][s],
           v_order'[t] = v_order[t],
           \A p \in Partitions : \A m \in Mail(a, p)' : m.otk = t => m \in Mail(a, p),
           \A p \in Partitions : p \in PartitionMask(a) => Load(a, p, t)' = Load(a, p, t)
    PROVE  TokenOK(a, t)'
<1>1. CASE Forgotten(a, t, v_order[t])
  <2>1. \A s \in Slots : Entry(a, s)' => book'[a][s].otk # t
    BY <1>1 DEF Forgotten, Entry
  <2>2. \A p \in Partitions : \A m \in Mail(a, p)' : m.otk # t
    BY <1>1 DEF Forgotten
  <2>3. v_order'[t] # Null => v_order'[t].state = "LIVE"
    BY <1>1 DEF Forgotten
  <2>. QED BY <2>1, <2>2, <2>3 DEF TokenOK, Forgotten
<1>2. CASE ~ Forgotten(a, t, v_order[t])
  <2>1a. PICK s \in Slots : \E o, v : Knows(a, t, s, o, v)
    BY <1>2, UseOK
  <2>1b. PICK o, v : Knows(a, t, s, o, v)
    BY <2>1a
  <2>1. /\ Entry(a, s) /\ book[a][s] = o /\ o.otk = t /\ v_order[t] = v
        /\ OrderStates(o, v)
        /\ v # Null => (v.state # "LIVE" => OffBook(o))
        /\ \A p \in Partitions : \A m \in Mail(a, p) :
               m.otk = t => p = Partition(o) /\ Awaits(o, v, m)
        /\ Load(a, Partition(o), t) = Awaiting(o)
    BY <2>1b DEF Knows
  <2>2. Entry(a, s)' /\ book'[a][s] = o /\ v_order'[t] = v
    BY <2>1 DEF Entry
  <2>3. \A p \in Partitions : \A m \in Mail(a, p)' :
            m.otk = t => p = Partition(o) /\ Awaits(o, v, m)
    BY <2>1
  <2>4. Partition(o) \in PartitionMask(a) /\ Partition(o) \in Partitions
    BY <2>1, HomeOf, EntryTypes DEF BaseInv
  <2>5. Load(a, Partition(o), t)' = Awaiting(o)
    BY <2>1, <2>4
  <2>. QED BY <2>1, <2>2, <2>3, <2>5, MakeOK
<1>. QED BY <1>1, <1>2

(* A message about an order finds it. *)
LEMMA MailFinds ==
    ASSUME NEW a, NEW t, TokenOK(a, t), NEW p \in Partitions, NEW m \in Mail(a, p), m.otk = t
    PROVE  \E s \in Slots : \E o, v :
               Knows(a, t, s, o, v) /\ p = Partition(o) /\ Awaits(o, v, m)
<1>1. ~ Forgotten(a, t, v_order[t])
  BY DEF Forgotten
<1>2. PICK s \in Slots : \E o, v : Knows(a, t, s, o, v)
  BY <1>1, UseOK
<1>3. PICK o, v : Knows(a, t, s, o, v)
  BY <1>2
<1>4. p = Partition(o) /\ Awaits(o, v, m)
  BY <1>3 DEF Knows
<1>. QED BY <1>3, <1>4

LEMMA PatientInit == Init => PatientInv
<1>. SUFFICES ASSUME Init, NEW t \in Token, t[1] \in Patient PROVE TokenOK(t[1], t)
  BY DEF PatientInv
<1>1. t[1] \in Agents
  BY TokenShape
<1>2. \A p \in Partitions : Mail(t[1], p) = {}
  BY <1>1 DEF Init, Mail, ToSet
<1>3. v_order[t] = Null /\ \A s \in Slots : ~ Entry(t[1], s)
  BY <1>1 DEF Init, Entry
<1>. QED BY <1>2, <1>3 DEF TokenOK, Forgotten

LEMMA PatientStutter ==
    ASSUME PatientInv, UNCHANGED vars
    PROVE  PatientInv'
<1>. USE DEF vars, agentVars, venueVars
<1>. SUFFICES ASSUME NEW t \in Token, t[1] \in Patient PROVE TokenOK(t[1], t)'
  BY DEF PatientInv
<1>1. TokenOK(t[1], t)
  BY DEF PatientInv
<1>2. \A p : Mail(t[1], p)' = Mail(t[1], p) /\ Load(t[1], p, t)' = Load(t[1], p, t)
  BY DEF Mail, Load
<1>3. \A s : Entry(t[1], s)' <=> Entry(t[1], s)
  BY DEF Entry
<1>. QED BY <1>1, <1>2, <1>3 DEF TokenOK, Forgotten, OrderOK

-----------------------------------------------------------------------------
(* The steps of an agent's own keep PatientInv. *)

(* About an order with nothing pending nothing is on its way. *)
LEMMA Settled ==
    ASSUME BaseInv, NEW a \in Agents, NEW s \in Slots, Entry(a, s),
           TokenOK(a, book[a][s].otk), book[a][s].ps = {}
    PROVE  /\ OrderStates(book[a][s], v_order[book[a][s].otk])
           /\ v_order[book[a][s].otk] # Null => v_order[book[a][s].otk].state = "LIVE"
           /\ \A p \in Partitions : \A m \in Mail(a, p) : m.otk # book[a][s].otk
<1>0. Shape
  BY DEF BaseInv
<1>1. PICK t \in Token : t = book[a][s].otk
  BY <1>0, EntryTypes
<1>2. ~ Forgotten(a, t, v_order[t])
  BY <1>1 DEF Forgotten
<1>3a. PICK k \in Slots : \E o, v : Knows(a, t, k, o, v)
  BY <1>1, <1>2, UseOK
<1>3b. PICK o, v : Knows(a, t, k, o, v)
  BY <1>3a
<1>3. /\ Entry(a, k) /\ book[a][k] = o /\ o.otk = t /\ v_order[t] = v
      /\ OrderStates(o, v)
      /\ v # Null => (v.state # "LIVE" => OffBook(o))
      /\ \A p \in Partitions : \A m \in Mail(a, p) :
             m.otk = t => p = Partition(o) /\ Awaits(o, v, m)
      /\ Load(a, Partition(o), t) = Awaiting(o)
  BY <1>3b DEF Knows
<1>4. k = s /\ o = book[a][s]
  <2>1. book[a][s].otk \in Tokens(book[a][k])
    BY <1>1, <1>3 DEF Tokens
  <2>. QED BY <1>3, <2>1, OneSlot
<1>5. o.ps = {} /\ ~ OffBook(o)
  BY <1>4 DEF OffBook, Submitted
<1>6. Partition(o) \in Partitions /\ Load(a, Partition(o), t) = 0
  <2>1. Awaiting(o) = 0
    BY <1>5 DEF Awaiting
  <2>. QED BY <1>0, <1>3, <1>4, <2>1, EntryTypes
<1>7. ASSUME NEW p \in Partitions, NEW m \in Mail(a, p), m.otk = t PROVE FALSE
  <2>1. p = Partition(o) /\ Awaits(o, v, m)
    BY <1>3, <1>7
  <2>2. ~ Asked(m)
    BY <1>0, <1>6, <1>7, <2>1, NoLoad
  <2>3. m.type = "canceled" /\ m.state = "NOT_ON_BOOK"
    BY <2>2, UnaskedType
  <2>. QED BY <1>5, <2>1, <2>3 DEF Awaits
<1>. QED BY <1>1, <1>3, <1>4, <1>5, <1>7

(* Agent a asks for something of its order s, the only thing it then awaits. *)
LEMMA RequestPatient ==
    ASSUME TradesOne, BaseInv, BaseInv', PatientInv, NEW a \in Agents, NEW s \in Slots,
           NEW t \in Token, t[1] = a, NEW r \in Requests, r.otk = t, r.type # "canceled",
           enqueue(a, r), UNCHANGED <<wire, action_queue, inbox, v_order>>,
           \A b \in Agents, k \in Slots : b # a \/ k # s => book'[b][k] = book[b][k],
           Entry(a, s) => book[a][s].otk = t,
           NEW o, NEW v, Entry(a, s)', book'[a][s] = o, o.otk = t, v_order[t] = v,
           PartitionOf[r.series] = Partition(o), Partition(o) \in Partitions,
           a \in Patient => /\ OrderStates(o, v) /\ Awaits(o, v, r) /\ Awaiting(o) = 1
                            /\ v # Null => v.state = "LIVE"
                            /\ \A p \in Partitions : \A m \in Mail(a, p) : m.otk # t
    PROVE  PatientInv'
<1>0. Shape /\ Shape' /\ Bounds
  BY DEF BaseInv
<1>1. /\ \A b \in Agents, p \in Partitions : \A m \in Mail(b, p)' :
                  m \in Mail(b, p) \/ (b = a /\ m = r /\ p = PartitionOf[r.series])
      /\ \A b \in Agents, p \in Partitions, u \in Token :
                  /\ Load(b, p, u) \in Nat
                  /\ Load(b, p, u)' = Load(b, p, u) + IF b = a /\ r \in AskedOf(u) THEN 1 ELSE 0
  BY <1>0, MailEnqueued
<1>. SUFFICES ASSUME NEW u \in Token, u[1] \in Patient PROVE TokenOK(u[1], u)'
  BY DEF PatientInv
<1>2. TokenOK(u[1], u) /\ u[1] \in Agents
  BY TokenShape DEF PatientInv
<1>3. CASE u = t
  <2>1. \A p \in Partitions : \A m \in Mail(a, p)' :
            m.otk = t => p = Partition(o) /\ Awaits(o, v, m)
    BY <1>1, <1>3
  <2>2. Load(a, Partition(o), t)' = 1
    <3>1. Load(a, Partition(o), t) = 0
      BY <1>0, <1>3, NoMailNoLoad
    <3>2. r \in AskedOf(t)
      BY DEF AskedOf, Asked
    <3>. QED BY <1>1, <3>1, <3>2
  <2>3. /\ Load(a, Partition(o), t)' = Awaiting(o)
        /\ v # Null => (v.state # "LIVE" => OffBook(o))
        /\ OrderStates(o, v) /\ v_order'[t] = v
    BY <1>3, <2>2
  <2>4. TokenOK(a, t)'
    BY <2>1, <2>3, MakeOK
  <2>. QED BY <1>3, <2>4
<1>4. CASE u # t
  <2>1. \A p \in Partitions : Load(u[1], p, u)' = Load(u[1], p, u)
    <3>1. r \notin AskedOf(u)
      BY <1>4 DEF AskedOf
    <3>. QED BY <1>1, <1>2, <3>1
  <2>2. \A p \in Partitions : \A m \in Mail(u[1], p)' : m.otk = u => m \in Mail(u[1], p)
    BY <1>1, <1>2, <1>4
  <2>3. \A k \in Slots : (Entry(u[1], k) /\ book[u[1]][k].otk = u)
                             \/ (Entry(u[1], k)' /\ book'[u[1]][k].otk = u)
                                => book'[u[1]][k] = book[u[1]][k]
    BY <1>2, <1>4
  <2>. QED BY <1>2, <2>1, <2>2, <2>3, Untouched
<1>. QED BY <1>3, <1>4

LEMMA SubmitPatient ==
    ASSUME TradesOne, BaseInv, BaseInv', PatientInv, NEW a \in Agents, NEW s \in Slots,
           NEW x \in Series, NEW price \in Prices, submit_order(a, s, x, price)
    PROVE  PatientInv'
<1>0. Shape /\ TokenInv
  BY DEF BaseInv
<1>1. PICK t \in Token :
           /\ t = otk_gen(a) /\ t[1] = a /\ t \notin Primary /\ t \notin Alias
           /\ \A b \in Agents, k \in Slots : Entry(b, k) => t \notin Tokens(book[b][k])
           /\ \A r \in Asks : r.otk # t /\ r.new_otk # t
           /\ v_order[t] = Null /\ v_otk_map[t] = Null
           /\ m_otk_counter' \in [Agents -> Nat]
           /\ \A b \in Agents : m_otk_counter[b] <= MaxTokens[b]
                                    => m_otk_counter'[b] <= MaxTokens[b]
           /\ \A u \in Token : Drawn(u) => Drawn(u)'
           /\ Drawn(t)'
  BY <1>0, FreshToken DEF submit_order
<1>. DEFINE r == [type |-> "submit", otk |-> t, new_otk |-> Null, series |-> x, price |-> price]
            o == [otk |-> t, oid |-> 0, series |-> x, price |-> price,
                  os |-> "created", ps |-> {"submit"}, otk_trace |-> <<>>]
<1>2. /\ ~ Entry(a, s) /\ x \in Trades[a] /\ book' = [book EXCEPT ![a][s] = o]
      /\ enqueue(a, r) /\ UNCHANGED <<wire, action_queue, inbox, v_order>>
  BY <1>1 DEF submit_order, venueVars
<1>3. /\ r \in Requests /\ r.otk = t /\ r.type = "submit" /\ r.series = x /\ r.price = price
      /\ o \in AgentOrders /\ o.otk = t /\ o.series = x
      /\ o.price = price /\ o.os = "created" /\ o.ps = {"submit"} /\ o.oid = 0
  BY <1>1, EmptySeq DEF Requests, AgentOrders, order_state, pending
<1>. HIDE DEF r, o
<1>4. /\ book'[a][s] = o
      /\ \A b \in Agents, k \in Slots : b # a \/ k # s => book'[b][k] = book[b][k]
  BY <1>0, <1>2, <1>3 DEF Shape
<1>5. Entry(a, s)'
  BY <1>3, <1>4, OrdersAssumption DEF Entry
<1>6. PartitionOf[r.series] = Partition(o) /\ Partition(o) \in Partitions
  BY <1>3, OrdersAssumption DEF Partition
<1>7. OrderStates(o, Null) /\ Awaits(o, Null, r) /\ Awaiting(o) = 1
  BY <1>3 DEF OrderStates, Awaits, Submitted, Awaiting
<1>8. a \in Patient => \A p \in Partitions : \A m \in Mail(a, p) : m.otk # t
  <2>1. \A k \in Slots : Entry(a, k) => book[a][k].otk # t
    BY <1>1 DEF Tokens
  <2>2. a \in Patient => Forgotten(a, t, v_order[t])
    BY <1>1, <2>1 DEF PatientInv, TokenOK
  <2>. QED BY <2>2 DEF Forgotten
<1>. QED BY <1>1, <1>2, <1>3, <1>4, <1>5, <1>6, <1>7, <1>8, RequestPatient

(* What a patient agent amends is live and settled. *)
LEMMA PatientAmends ==
    ASSUME BaseInv, PatientInv, NEW a \in Patient, NEW s \in Slots, MayAmend(a, s)
    PROVE  /\ book[a][s].os = "live" /\ book[a][s].ps = {}
           /\ AsVenue(book[a][s], v_order[book[a][s].otk])
           /\ \A p \in Partitions : \A m \in Mail(a, p) : m.otk # book[a][s].otk
<1>1. a \in Agents /\ Entry(a, s) /\ <<book[a][s].os, book[a][s].ps>> = <<"live", {}>>
  BY DEF MayAmend, Patient
<1>2. book[a][s].os = "live" /\ book[a][s].ps = {}
  BY <1>1
<1>3. book[a][s].otk \in Token /\ book[a][s].otk[1] = a
  BY <1>1, EntryTypes DEF BaseInv, TokenInv, BookDrawn
<1>4. TokenOK(a, book[a][s].otk)
  BY <1>3 DEF PatientInv
<1>5. /\ OrderStates(book[a][s], v_order[book[a][s].otk])
      /\ \A p \in Partitions : \A m \in Mail(a, p) : m.otk # book[a][s].otk
  BY <1>1, <1>2, <1>4, Settled
<1>6. AsVenue(book[a][s], v_order[book[a][s].otk])
  BY <1>2, <1>5 DEF OrderStates
<1>. QED BY <1>2, <1>5, <1>6

LEMMA CancelPatient ==
    ASSUME TradesOne, BaseInv, BaseInv', PatientInv, NEW a \in Agents, NEW s \in Slots,
           cancel_order(a, s)
    PROVE  PatientInv'
<1>0. Shape /\ TokenInv
  BY DEF BaseInv
<1>1a. PICK t \in Token : t = book[a][s].otk /\ t[1] = a /\ Entry(a, s)
  BY <1>0, EntryTypes DEF cancel_order, MayAmend, TokenInv, BookDrawn
<1>1b. PICK v : v = v_order[t]
  OBVIOUS
<1>1. t = book[a][s].otk /\ t[1] = a /\ v = v_order[t] /\ Entry(a, s)
  BY <1>1a, <1>1b
<1>. DEFINE r == [type |-> "cancel", otk |-> book[a][s].otk, new_otk |-> Null,
                  series |-> book[a][s].series, price |-> book[a][s].price]
            o == [book[a][s] EXCEPT !.ps = @ \cup {"cancel"}]
<1>2. /\ MayAmend(a, s) /\ book' = [book EXCEPT ![a][s] = o]
      /\ enqueue(a, r) /\ UNCHANGED <<wire, action_queue, inbox, v_order>>
  BY <1>0, <1>1 DEF cancel_order, venueVars, Shape
<1>3. /\ book[a][s] \in AgentOrders /\ book[a][s].series \in Series /\ book[a][s].price \in Prices
  BY <1>0, <1>1, EntryTypes
<1>4. /\ r \in Requests /\ r.otk = t /\ r.type = "cancel" /\ r.series = book[a][s].series
      /\ o \in AgentOrders /\ o.otk = t /\ o.series = book[a][s].series
      /\ o.price = book[a][s].price /\ o.oid = book[a][s].oid
      /\ o.os = book[a][s].os /\ o.ps = book[a][s].ps \cup {"cancel"}
  BY <1>1, <1>3 DEF Requests, AgentOrders, pending
<1>5. PICK rr, oo : rr = r /\ oo = o
  OBVIOUS
<1>. HIDE DEF r, o
<1>6. /\ book'[a][s] = oo
      /\ \A b \in Agents, k \in Slots : b # a \/ k # s => book'[b][k] = book[b][k]
  BY <1>0, <1>2, <1>4, <1>5 DEF Shape
<1>7. Entry(a, s)'
  BY <1>4, <1>5, <1>6, OrdersAssumption DEF Entry
<1>8. PartitionOf[rr.series] = Partition(oo) /\ Partition(oo) \in Partitions
  BY <1>3, <1>4, <1>5, OrdersAssumption DEF Partition
<1>9. a \in Patient => /\ OrderStates(oo, v) /\ Awaits(oo, v, rr) /\ Awaiting(oo) = 1
                       /\ v # Null => v.state = "LIVE"
                       /\ \A p \in Partitions : \A m \in Mail(a, p) : m.otk # t
  <2>. SUFFICES ASSUME a \in Patient
                PROVE  /\ OrderStates(oo, v) /\ Awaits(oo, v, rr) /\ Awaiting(oo) = 1
                       /\ v # Null => v.state = "LIVE"
                       /\ \A p \in Partitions : \A m \in Mail(a, p) : m.otk # t
    OBVIOUS
  <2>1. /\ book[a][s].os = "live" /\ book[a][s].ps = {} /\ AsVenue(book[a][s], v)
        /\ \A p \in Partitions : \A m \in Mail(a, p) : m.otk # t
    BY <1>1, <1>2, PatientAmends
  <2>2. /\ oo.os = "live" /\ oo.ps = {"cancel"} /\ AsVenue(oo, v) /\ rr.type = "cancel"
    BY <1>4, <1>5, <2>1 DEF AsVenue
  <2>3. OrderStates(oo, v) /\ Awaits(oo, v, rr) /\ Awaiting(oo) = 1 /\ v.state = "LIVE"
    BY <2>2 DEF OrderStates, Awaits, Awaiting, AsVenue
  <2>. QED BY <2>1, <2>3
<1>10. rr \in Requests /\ rr.otk = t /\ rr.type # "canceled" /\ oo.otk = t /\ enqueue(a, rr)
  BY <1>2, <1>4, <1>5
<1>. QED BY <1>1, <1>2, <1>6, <1>7, <1>8, <1>9, <1>10, RequestPatient

LEMMA ModifyPatient ==
    ASSUME TradesOne, BaseInv, BaseInv', PatientInv, NEW a \in Agents, NEW s \in Slots,
           NEW price \in Prices, modify_order(a, s, price)
    PROVE  PatientInv'
<1>0. Shape /\ TokenInv
  BY DEF BaseInv
<1>1a. PICK t \in Token : t = book[a][s].otk /\ t[1] = a /\ Entry(a, s)
  BY <1>0, EntryTypes DEF modify_order, MayAmend, TokenInv, BookDrawn
<1>1b. PICK v : v = v_order[t]
  OBVIOUS
<1>1. t = book[a][s].otk /\ t[1] = a /\ v = v_order[t] /\ Entry(a, s)
  BY <1>1a, <1>1b
<1>n. PICK n \in Token : n = otk_gen(a)
  BY <1>0, FreshToken DEF modify_order
<1>. DEFINE r == [type |-> "replace", otk |-> book[a][s].otk, new_otk |-> n,
                  series |-> book[a][s].series, price |-> price]
            o == [book[a][s] EXCEPT !.otk_trace = Append(@, n), !.ps = @ \cup {"replace"}]
<1>2. /\ MayAmend(a, s) /\ book' = [book EXCEPT ![a][s] = o]
      /\ enqueue(a, r) /\ UNCHANGED <<wire, action_queue, inbox, v_order>>
  BY <1>0, <1>1, <1>n DEF modify_order, venueVars, Shape
<1>3. /\ book[a][s] \in AgentOrders /\ book[a][s].series \in Series
      /\ Append(book[a][s].otk_trace, n) \in Seq(Token)
  <2>1. book[a][s] \in AgentOrders /\ book[a][s].series \in Series
    BY <1>0, <1>1, EntryTypes
  <2>. QED BY <2>1, AppendMsg DEF AgentOrders
<1>4. /\ r \in Requests /\ r.otk = t /\ r.type = "replace" /\ r.series = book[a][s].series
      /\ o \in AgentOrders /\ o.otk = t /\ o.series = book[a][s].series
      /\ o.price = book[a][s].price /\ o.oid = book[a][s].oid
      /\ o.os = book[a][s].os /\ o.ps = book[a][s].ps \cup {"replace"}
  BY <1>1, <1>3 DEF Requests, AgentOrders, pending
<1>5. PICK rr, oo : rr = r /\ oo = o
  OBVIOUS
<1>. HIDE DEF r, o
<1>6. /\ book'[a][s] = oo
      /\ \A b \in Agents, k \in Slots : b # a \/ k # s => book'[b][k] = book[b][k]
  BY <1>0, <1>2, <1>4, <1>5 DEF Shape
<1>7. Entry(a, s)'
  BY <1>4, <1>5, <1>6, OrdersAssumption DEF Entry
<1>8. PartitionOf[rr.series] = Partition(oo) /\ Partition(oo) \in Partitions
  BY <1>3, <1>4, <1>5, OrdersAssumption DEF Partition
<1>9. a \in Patient => /\ OrderStates(oo, v) /\ Awaits(oo, v, rr) /\ Awaiting(oo) = 1
                       /\ v # Null => v.state = "LIVE"
                       /\ \A p \in Partitions : \A m \in Mail(a, p) : m.otk # t
  <2>. SUFFICES ASSUME a \in Patient
                PROVE  /\ OrderStates(oo, v) /\ Awaits(oo, v, rr) /\ Awaiting(oo) = 1
                       /\ v # Null => v.state = "LIVE"
                       /\ \A p \in Partitions : \A m \in Mail(a, p) : m.otk # t
    OBVIOUS
  <2>1. /\ book[a][s].os = "live" /\ book[a][s].ps = {} /\ AsVenue(book[a][s], v)
        /\ \A p \in Partitions : \A m \in Mail(a, p) : m.otk # t
    BY <1>1, <1>2, PatientAmends
  <2>2. /\ oo.os = "live" /\ oo.ps = {"replace"} /\ AsVenue(oo, v) /\ rr.type = "replace"
    BY <1>4, <1>5, <2>1 DEF AsVenue
  <2>3. OrderStates(oo, v) /\ Awaits(oo, v, rr) /\ Awaiting(oo) = 1 /\ v.state = "LIVE"
    BY <2>2 DEF OrderStates, Awaits, Awaiting, AsVenue
  <2>. QED BY <2>1, <2>3
<1>10. rr \in Requests /\ rr.otk = t /\ rr.type # "canceled" /\ oo.otk = t /\ enqueue(a, rr)
  BY <1>2, <1>4, <1>5
<1>. QED BY <1>1, <1>2, <1>6, <1>7, <1>8, <1>9, <1>10, RequestPatient

LEMMA ErasePatient ==
    ASSUME TradesOne, BaseInv, BaseInv', PatientInv, NEW a \in Agents, NEW s \in Slots,
           erase_order(a, s)
    PROVE  PatientInv'
<1>0. Shape /\ Shape' /\ TokenInv
  BY DEF BaseInv
<1>1. /\ Entry(a, s) /\ book[a][s].ps = {} /\ book' = [book EXCEPT ![a][s] = Null]
      /\ UNCHANGED <<queue, wire, action_queue, inbox, v_order>>
  BY DEF erase_order, venueVars
<1>2. PICK t \in Token : t = book[a][s].otk /\ t[1] = a
  BY <1>0, <1>1, EntryTypes DEF TokenInv, BookDrawn
<1>3. /\ ~ Entry(a, s)'
      /\ \A b \in Agents, k \in Slots : b # a \/ k # s => book'[b][k] = book[b][k]
  BY <1>0, <1>1 DEF Shape, Entry
<1>. SUFFICES ASSUME NEW u \in Token, u[1] \in Patient PROVE TokenOK(u[1], u)'
  BY DEF PatientInv
<1>4. TokenOK(u[1], u) /\ u[1] \in Agents
  BY TokenShape DEF PatientInv
<1>5. \A p \in Partitions : Mail(u[1], p)' = Mail(u[1], p) /\ Load(u[1], p, u)' = Load(u[1], p, u)
  BY <1>0, <1>1, <1>4, SameLoad
<1>6. CASE u = t
  <2>1. /\ v_order[t] # Null => v_order[t].state = "LIVE"
        /\ \A p \in Partitions : \A m \in Mail(a, p) : m.otk # t
    BY <1>1, <1>2, <1>4, <1>6, Settled
  <2>2. ASSUME NEW k \in Slots, Entry(a, k)' PROVE book'[a][k].otk # t
    <3>1. k # s /\ book'[a][k] = book[a][k] /\ Entry(a, k)
      BY <1>3, <2>2 DEF Entry
    <3>2. book[a][k].otk \in Tokens(book[a][k])
      BY <1>0, <3>1, EntryTypes
    <3>. QED BY <1>1, <1>2, <3>1, <3>2, OneSlot
  <2>3. Forgotten(a, t, v_order[t])'
    BY <1>1, <1>2, <1>5, <1>6, <2>1, <2>2 DEF Forgotten
  <2>. QED BY <1>2, <1>6, <2>3 DEF TokenOK
<1>7. CASE u # t
  <2>1. \A k \in Slots : (Entry(u[1], k) /\ book[u[1]][k].otk = u)
                             \/ (Entry(u[1], k)' /\ book'[u[1]][k].otk = u)
                                => book'[u[1]][k] = book[u[1]][k]
    BY <1>2, <1>3, <1>4, <1>7
  <2>. QED BY <1>1, <1>4, <1>5, <2>1, Untouched
<1>. QED BY <1>6, <1>7

LEMMA EmitPatient ==
    ASSUME TradesOne, BaseInv, BaseInv', PatientInv, NEW a \in Agents, emit(a)
    PROVE  PatientInv'
<1>0. Shape /\ Shape' /\ Bounds /\ TokenInv /\ Placed
  BY DEF BaseInv
<1>1. PICK r \in Requests : \E p \in Partitions :
               /\ p = PartitionOf[r.series] /\ r \in ToSet(queue[a])
               /\ \A b \in Agents, k \in Partitions : \A x \in Mail(b, k)' :
                      x \in Mail(b, k) \/ (b # a /\ x = r)
               /\ \A b \in Agents, k \in Partitions, t \in Token :
                      b # a /\ r \notin AskedOf(t) => Load(b, k, t)' = Load(b, k, t)
               /\ \A t \in Token : Load(a, p, t)' = Load(a, p, t)
  BY <1>0, MailEmitted
<1>2. PICK p \in Partitions :
               /\ p = PartitionOf[r.series] /\ r \in ToSet(queue[a])
               /\ \A b \in Agents, k \in Partitions : \A x \in Mail(b, k)' :
                      x \in Mail(b, k) \/ (b # a /\ x = r)
               /\ \A b \in Agents, k \in Partitions, t \in Token :
                      b # a /\ r \notin AskedOf(t) => Load(b, k, t)' = Load(b, k, t)
               /\ \A t \in Token : Load(a, p, t)' = Load(a, p, t)
  BY <1>1
<1>3. book' = book /\ v_order' = v_order
  BY DEF emit, agentVars, venueVars
<1>4. r.otk[1] = a /\ r.series \in Trades[a]
  <2>1. r \in Asks /\ r.otk[1] = a
    BY <1>0, <1>2, MessageTypes DEF Placed
  <2>. QED BY <1>0, <2>1 DEF TokenInv, SeriesOK
<1>5. \A k \in PartitionMask(a) : k = p
  BY <1>2, <1>4 DEF PartitionMask, TradesOne
<1>. SUFFICES ASSUME NEW u \in Token, u[1] \in Patient PROVE TokenOK(u[1], u)'
  BY DEF PatientInv
<1>6. TokenOK(u[1], u) /\ u[1] \in Agents
  BY TokenShape DEF PatientInv
<1>7. \A k \in Partitions : \A m \in Mail(u[1], k)' : m.otk = u => m \in Mail(u[1], k)
  BY <1>2, <1>4, <1>6
<1>8. \A k \in Partitions : k \in PartitionMask(u[1]) => Load(u[1], k, u)' = Load(u[1], k, u)
  <2>1. CASE u[1] = a
    BY <1>2, <1>5, <2>1
  <2>2. CASE u[1] # a
    <3>1. r \notin AskedOf(u)
      BY <1>4, <2>2 DEF AskedOf
    <3>. QED BY <1>2, <1>6, <2>2, <3>1
  <2>. QED BY <2>1, <2>2
<1>. QED BY <1>3, <1>6, <1>7, <1>8, Untouched

-----------------------------------------------------------------------------
(* The steps of the venue keep PatientInv. *)

(* What is on its way about t after its only request r was read is the answer. *)
LEMMA ReadLast ==
    ASSUME Shape, Shape', NEW p \in Partitions, NEW m \in Answers,
           wire[p] # <<>>, Read(p), Schedule(p, m), UNCHANGED <<queue, inbox>>,
           NEW a \in Agents, NEW t \in Token, Head(wire[p]) \in AskedOf(t), Load(a, p, t) <= 1,
           NEW x \in Mail(a, p)', x # m
    PROVE  x \notin AskedOf(t)
<1>. DEFINE r == Head(wire[p])
            M == AskedOf(t)
<1>1. \A N : Count(wire[p], N) = Count(wire'[p], N) + IF r \in N THEN 1 ELSE 0
  BY ReadEffect
<1>2. ToSet(action_queue'[p]) = ToSet(action_queue[p]) \cup {m}
  BY ScheduleEffect
<1>3. PICK q, w, d, i \in Nat : LoadIs(a, p, t, q, w, d, i)
  BY LoadDiffers
<1>4. /\ q = Count(queue[a], M) /\ w = Count(wire[p], M)
      /\ d = Count(action_queue[p], M) /\ i = Count(inbox[a][p], M)
      /\ q + w + d + i <= 1
  BY <1>3 DEF LoadIs
<1>5. w = Count(wire'[p], M) + 1 /\ Count(wire'[p], M) \in Nat
  BY <1>1, <1>4, LoadPartsNext
<1>. HIDE DEF r, M
<1>6. q = 0 /\ d = 0 /\ i = 0 /\ w = 1
  BY <1>4, <1>5
<1>7. Count(wire'[p], M) = 0
  BY <1>5, <1>6
<1>8. \A y \in ToSet(wire'[p]) : y \notin M
  <2>1. wire'[p] \in Seq(Requests)
    BY DEF Shape
  <2>. QED BY <1>7, <2>1, CountType
<1>9. \A y \in ToSet(queue[a]) \cup ToSet(action_queue[p]) \cup ToSet(inbox[a][p]) : y \notin M
  <2>1. /\ Count(queue[a], M) = 0 /\ Count(action_queue[p], M) = 0
        /\ Count(inbox[a][p], M) = 0
    BY <1>4, <1>6
  <2>2. /\ queue[a] \in Seq(Requests) /\ action_queue[p] \in Seq(Answers)
        /\ inbox[a][p] \in Seq(Answers)
    BY DEF Shape
  <2>3. \A y \in ToSet(queue[a]) : y \notin M
    BY <2>1, <2>2, CountType
  <2>4. \A y \in ToSet(action_queue[p]) : y \notin M
    BY <2>1, <2>2, CountType
  <2>5. \A y \in ToSet(inbox[a][p]) : y \notin M
    BY <2>1, <2>2, CountType
  <2>. QED BY <2>3, <2>4, <2>5
<1>10. x \in ToSet(queue[a]) \cup ToSet(wire'[p]) \cup ToSet(action_queue[p]) \cup ToSet(inbox[a][p])
  BY <1>2 DEF Mail
<1>. QED BY <1>8, <1>9, <1>10 DEF M

(* The venue reads a request and answers it; the order awaits the answer. *)
LEMMA ReadPatient ==
    ASSUME TradesOne, BaseInv, BaseInv', PatientInv, NEW p \in Partitions, NEW m \in Answers,
           wire[p] # <<>>, Read(p), Schedule(p, m), UNCHANGED <<queue, inbox, book>>,
           NEW r, r = Head(wire[p]), NEW t \in Token, r.otk = t, m.otk = t,
           NEW v, v_order[t] = v, NEW w, v_order'[t] = w,
           \A u \in Token : u # t => v_order'[u] = v_order[u],
           \A o : OrderStates(o, v) /\ Awaits(o, v, r) =>
                      /\ OrderStates(o, w) /\ Awaits(o, w, m) /\ Asked(m)
                      /\ w # Null => (w.state # "LIVE" => OffBook(o))
    PROVE  PatientInv'
<1>0. Shape /\ Shape'
  BY DEF BaseInv
<1>1. /\ r \in Requests /\ \A b \in Agents : r \in Mail(b, p)
      /\ \A b \in Agents, k \in Partitions : \A x \in Mail(b, k)' :
             x \in Mail(b, k) \/ (k = p /\ x = m)
      /\ \A b \in Agents, u \in Token :
             Load(b, p, u) \in Nat /\
             Load(b, p, u)' = Load(b, p, u) - (IF r \in AskedOf(u) THEN 1 ELSE 0)
                                            + (IF m \in AskedOf(u) THEN 1 ELSE 0)
      /\ \A b \in Agents, k \in Partitions, u \in Token :
             k # p => Load(b, k, u)' = Load(b, k, u)
  BY <1>0, MailRead
<1>. SUFFICES ASSUME NEW u \in Token, u[1] \in Patient PROVE TokenOK(u[1], u)'
  BY DEF PatientInv
<1>2. TokenOK(u[1], u) /\ u[1] \in Agents
  BY TokenShape DEF PatientInv
<1>3. CASE u = t
  <2>. DEFINE a == u[1]
  <2>1a. PICK s \in Slots : \E o, vv : Knows(a, t, s, o, vv) /\ p = Partition(o) /\ Awaits(o, vv, r)
    BY <1>1, <1>2, <1>3, MailFinds
  <2>1b. PICK o, vv : Knows(a, t, s, o, vv) /\ p = Partition(o) /\ Awaits(o, vv, r)
    BY <2>1a
  <2>1. /\ Entry(a, s) /\ book[a][s] = o /\ o.otk = t /\ v_order[t] = vv
        /\ OrderStates(o, vv)
        /\ vv # Null => (vv.state # "LIVE" => OffBook(o))
        /\ \A k \in Partitions : \A x \in Mail(a, k) :
               x.otk = t => k = Partition(o) /\ Awaits(o, vv, x)
        /\ Load(a, Partition(o), t) = Awaiting(o)
        /\ p = Partition(o) /\ Awaits(o, vv, r)
    BY <2>1b DEF Knows
  <2>2. /\ OrderStates(o, w) /\ Awaits(o, w, m) /\ Asked(m)
        /\ w # Null => (w.state # "LIVE" => OffBook(o))
    BY <2>1
  <2>3. r \in AskedOf(t) /\ m \in AskedOf(t)
    BY <1>1, <2>2 DEF AskedOf, Asked, Requests
  <2>4. Load(a, p, t)' = Awaiting(o) /\ Load(a, p, t) <= 1
    <3>1. Load(a, p, t)' = Load(a, p, t) - 1 + 1 /\ Load(a, p, t) \in Nat
      BY <1>1, <1>2, <2>3
    <3>2. Load(a, p, t) = Awaiting(o) /\ Awaiting(o) <= 1
      BY <2>1 DEF Awaiting
    <3>. QED BY <3>1, <3>2
  <2>5. ASSUME NEW k \in Partitions, NEW x \in Mail(a, k)', x.otk = t
        PROVE  k = Partition(o) /\ Awaits(o, w, x)
    <3>1. CASE k = p /\ x = m
      BY <2>1, <2>2, <3>1
    <3>2. CASE x \in Mail(a, k) /\ ~ (k = p /\ x = m)
      <4>1. k = p /\ Awaits(o, v, x)
        BY <2>1, <2>5, <3>2
      <4>2. x \notin AskedOf(t)
        BY <1>0, <1>2, <2>3, <2>4, <2>5, <3>2, <4>1, ReadLast
      <4>3. ~ Asked(x)
        BY <1>0, <1>2, <2>5, <3>2, <4>2, MailTypes DEF AskedOf
      <4>4. x.type = "canceled" /\ x.state = "NOT_ON_BOOK"
        BY <4>3, UnaskedType
      <4>5. v # Null /\ v.state = "GONE"
        BY <4>1, <4>4 DEF Awaits
      <4>6. v = Null \/ v.state = "LIVE"
        BY <1>1, <2>1 DEF Awaits, AsVenue, Requests
      <4>. QED BY <4>5, <4>6
    <3>. QED BY <1>1, <1>2, <2>5, <3>1, <3>2
  <2>6. Entry(a, s)' /\ book'[a][s] = o
    BY <2>1 DEF Entry
  <2>. HIDE DEF a
  <2>7. TokenOK(a, t)'
    BY <2>1, <2>2, <2>4, <2>5, <2>6, MakeOK
  <2>. QED BY <1>3, <2>7 DEF a
<1>4. CASE u # t
  <2>1. r \notin AskedOf(u) /\ m \notin AskedOf(u)
    BY <1>4 DEF AskedOf
  <2>2. \A k \in Partitions : Load(u[1], k, u)' = Load(u[1], k, u)
    <3>1. Load(u[1], p, u)' = Load(u[1], p, u) - 0 + 0 /\ Load(u[1], p, u) \in Nat
      BY <1>1, <1>2, <2>1
    <3>2. Load(u[1], p, u)' = Load(u[1], p, u)
      BY <3>1
    <3>. QED BY <1>1, <1>2, <3>2
  <2>3. \A k \in Partitions : \A x \in Mail(u[1], k)' : x.otk = u => x \in Mail(u[1], k)
    BY <1>1, <1>2, <1>4
  <2>4. v_order'[u] = v_order[u]
    BY <1>4
  <2>. QED BY <1>2, <2>2, <2>3, <2>4, Untouched
<1>. QED BY <1>3, <1>4

LEMMA RejectPatient ==
    ASSUME TradesOne, BaseInv, BaseInv', PatientInv, NEW p \in Partitions,
           reject(p) \/ reject_unknown(p)
    PROVE  PatientInv'
<1>1. /\ wire[p] # <<>> /\ Read(p) /\ Schedule(p, Rejected(p))
      /\ UNCHANGED <<queue, inbox, book, v_order>>
      /\ \/ Head(wire[p]).type = "submit"
         \/ Head(wire[p]).type \in {"replace", "cancel"} /\ Home(p) = Null
  BY DEF reject, reject_unknown, Reads, agentVars
<1>2. PICK r \in Requests : /\ r = Head(wire[p]) /\ r.price \in Prices
                            /\ Home(p) = IF v_order[r.otk] = Null THEN Null ELSE r.otk
  BY <1>1, HeadRequest
<1>3. PICK t \in Token : t = r.otk
  BY DEF Requests
<1>5. PICK v : v = v_order[t]
  OBVIOUS
<1>7. Rejected(p) \in Answers /\ Rejected(p).type = "rejected" /\ Rejected(p).otk = t
  <2>1. Rejected(p) = [type |-> "rejected", otk |-> t, oid |-> 0, state |-> "LIVE",
                       price |-> r.price]
    BY <1>2, <1>3 DEF Rejected
  <2>. QED BY <1>2, <2>1 DEF Answers
<1>6. PICK m \in Answers : m = Rejected(p) /\ m.type = "rejected" /\ m.otk = t
  BY <1>7
<1>4. ASSUME NEW o, OrderStates(o, v), Awaits(o, v, r)
      PROVE  /\ OrderStates(o, v) /\ Awaits(o, v, m) /\ Asked(m)
             /\ v # Null => (v.state # "LIVE" => OffBook(o))
  <2>1. t # Null
    BY OrdersAssumption
  <2>2. r.type = "submit"
    BY <1>1, <1>2, <1>3, <1>4, <1>5, <2>1 DEF Awaits, AsVenue
  <2>3. Submitted(o) /\ v = Null
    BY <1>4, <2>2 DEF Awaits
  <2>. QED BY <1>4, <1>6, <2>3 DEF Awaits, Asked
<1>. QED BY <1>1, <1>2, <1>3, <1>4, <1>5, <1>6, ReadPatient

LEMMA AcceptPatient ==
    ASSUME TradesOne, BaseInv, BaseInv', PatientInv, NEW p \in Partitions,
           NEW state \in AcceptStates, accept(p, state)
    PROVE  PatientInv'
<1>0. Shape
  BY DEF BaseInv
<1>1a. PICK r \in Requests, t \in Token :
          /\ r = Head(wire[p]) /\ t = r.otk /\ r.type = "submit"
          /\ wire[p] # <<>> /\ r.series \in Series /\ r.price \in Prices
  BY HeadRequest DEF accept, Reads
<1>1b. PICK v : v = v_order[t]
  OBVIOUS
<1>1. /\ r = Head(wire[p]) /\ t = r.otk /\ v = v_order[t] /\ r.type = "submit"
      /\ wire[p] # <<>> /\ r.series \in Series /\ r.price \in Prices
  BY <1>1a, <1>1b
<1>2. PICK n : n = m_oid_gen[r.series] + 1
  OBVIOUS
<1>. DEFINE w == [series |-> r.series, oid |-> n, state |-> state, price |-> r.price]
<1>3. /\ v_order' = [v_order EXCEPT ![t] = w] /\ Schedule(p, Answer("accepted", t, w))
      /\ Read(p) /\ UNCHANGED <<queue, inbox, book>>
  BY <1>1, <1>2 DEF accept, agentVars
<1>4. n \in Nat /\ state \in {"LIVE", "NOT_ON_BOOK"}
  BY <1>0, <1>1, <1>2, OrdersAssumption DEF Shape
<1>5. w \in VenueOrders /\ w.price = r.price /\ w.state = state
  BY <1>1, <1>4 DEF VenueOrders
<1>6. PICK x \in VenueOrders : x = w
  BY <1>5
<1>. HIDE DEF w
<1>7. v_order'[t] = x /\ \A u \in Token : u # t => v_order'[u] = v_order[u]
  BY <1>0, <1>3, <1>6 DEF Shape
<1>8. PICK m \in Answers : /\ m = Answer("accepted", t, x) /\ m.type = "accepted" /\ m.otk = t
                           /\ m.state = x.state
  BY AnswerType
<1>9. ASSUME NEW o, OrderStates(o, v), Awaits(o, v, r)
      PROVE  /\ OrderStates(o, x) /\ Awaits(o, x, m) /\ Asked(m)
             /\ x # Null => (x.state # "LIVE" => OffBook(o))
  <2>1. Submitted(o) /\ v = Null /\ x.price = o.price /\ x # Null
    BY <1>1, <1>5, <1>6, <1>9, OrdersAssumption DEF Awaits
  <2>2. o.oid = 0
    BY <1>9, <2>1 DEF OrderStates, Submitted
  <2>. QED BY <1>8, <2>1, <2>2 DEF Awaits, Asked, OffBook, OrderStates, Submitted
<1>10. Schedule(p, m)
  BY <1>3, <1>6, <1>8
<1>. QED BY <1>1, <1>3, <1>7, <1>8, <1>9, <1>10, ReadPatient

LEMMA CancelAnswerPatient ==
    ASSUME TradesOne, BaseInv, BaseInv', PatientInv, NEW p \in Partitions, cancel(p)
    PROVE  PatientInv'
<1>0. Shape
  BY DEF BaseInv
<1>1. wire[p] # <<>> /\ Head(wire[p]).type = "cancel" /\ Home(p) # Null
  BY DEF cancel, Reads
<1>7. PICK r \in Requests : /\ r = Head(wire[p])
                            /\ Home(p) = IF v_order[r.otk] = Null THEN Null ELSE r.otk
  BY <1>1, HeadRequest
<1>8. PICK t \in Token : t = r.otk
  BY DEF Requests
<1>9. PICK v : v = v_order[t]
  OBVIOUS
<1>2. /\ r = Head(wire[p]) /\ t = r.otk /\ v = v_order[t] /\ v # Null /\ Home(p) = t
      /\ r.type = "cancel"
  BY <1>1, <1>7, <1>8, <1>9
<1>3. v \in VenueOrders
  BY <1>0, <1>2 DEF Shape
<1>4. PICK m \in Answers : /\ m = Answer("canceled", t, v) /\ m.type = "canceled" /\ m.otk = t
                           /\ m.state = v.state
  BY <1>3, AnswerType
<1>5. Schedule(p, m) /\ Read(p) /\ UNCHANGED <<queue, inbox, book, v_order>>
  BY <1>2, <1>4 DEF cancel, agentVars
<1>6. ASSUME NEW o, OrderStates(o, v), Awaits(o, v, r)
      PROVE  /\ OrderStates(o, v) /\ Awaits(o, v, m) /\ Asked(m)
             /\ v # Null => (v.state # "LIVE" => OffBook(o))
  <2>1. o.os = "live" /\ o.ps = {"cancel"} /\ AsVenue(o, v) /\ v.state = "LIVE"
    BY <1>2, <1>6 DEF Awaits, AsVenue
  <2>. QED BY <1>4, <1>6, <2>1 DEF Awaits, Asked
<1>10. /\ r = Head(wire[p]) /\ r.otk = t /\ m.otk = t /\ v_order[t] = v /\ v_order'[t] = v
       /\ \A u \in Token : u # t => v_order'[u] = v_order[u]
  BY <1>2, <1>4, <1>5
<1>. QED BY <1>1, <1>5, <1>6, <1>10, ReadPatient

LEMMA ReplacePatient ==
    ASSUME TradesOne, BaseInv, BaseInv', PatientInv, NEW p \in Partitions, replace(p)
    PROVE  PatientInv'
<1>0. Shape
  BY DEF BaseInv
<1>1. wire[p] # <<>> /\ Head(wire[p]).type = "replace" /\ Home(p) # Null
  BY DEF replace, Reads
<1>10. PICK r \in Requests : /\ r = Head(wire[p])
                             /\ Home(p) = IF v_order[r.otk] = Null THEN Null ELSE r.otk
  BY <1>1, HeadRequest
<1>11. PICK t \in Token : t = r.otk
  BY DEF Requests
<1>12. PICK v : v = v_order[t]
  OBVIOUS
<1>2. /\ r = Head(wire[p]) /\ t = r.otk /\ v = v_order[t] /\ v # Null /\ Home(p) = t
      /\ r.type = "replace" /\ r.price \in Prices
  BY <1>1, <1>10, <1>11, <1>12 DEF Requests
<1>3. v \in VenueOrders
  BY <1>0, <1>2 DEF Shape
<1>13. /\ [v EXCEPT !.price = r.price] \in VenueOrders
       /\ [v EXCEPT !.price = r.price].price = r.price
       /\ [v EXCEPT !.price = r.price].oid = v.oid
       /\ [v EXCEPT !.price = r.price].state = v.state
  BY <1>2, <1>3 DEF VenueOrders
<1>4. PICK w \in VenueOrders : /\ w = [v EXCEPT !.price = r.price] /\ w.price = r.price
                               /\ w.oid = v.oid /\ w.state = v.state
  BY <1>13
<1>5. /\ v_order' = [v_order EXCEPT ![t].price = r.price]
      /\ Schedule(p, Answer("replaced", t, v_order'[t]))
      /\ Read(p) /\ UNCHANGED <<queue, inbox, book>>
  BY <1>2 DEF replace, agentVars
<1>6. v_order'[t] = w /\ \A u \in Token : u # t => v_order'[u] = v_order[u]
  BY <1>0, <1>2, <1>4, <1>5 DEF Shape
<1>7. PICK m \in Answers : /\ m = Answer("replaced", t, w) /\ m.type = "replaced" /\ m.otk = t
                           /\ m.state = w.state /\ m.price = w.price
  BY AnswerType
<1>8. Schedule(p, m)
  BY <1>5, <1>6, <1>7
<1>9. ASSUME NEW o, OrderStates(o, v), Awaits(o, v, r)
      PROVE  /\ OrderStates(o, w) /\ Awaits(o, w, m) /\ Asked(m)
             /\ w # Null => (w.state # "LIVE" => OffBook(o))
  <2>1. o.os = "live" /\ o.ps = {"replace"} /\ v.state = "LIVE" /\ v.oid = o.oid
    BY <1>2, <1>9 DEF Awaits, AsVenue
  <2>2. w # Null
    BY OrdersAssumption
  <2>3. OrderStates(o, w)
    BY <1>4, <2>1, <2>2 DEF OrderStates
  <2>4. Awaits(o, w, m) /\ Asked(m)
    BY <1>4, <1>7, <2>1, <2>2 DEF Awaits, Asked
  <2>. QED BY <1>4, <2>1, <2>3, <2>4
<1>14. /\ r = Head(wire[p]) /\ r.otk = t /\ m.otk = t /\ v_order[t] = v /\ v_order'[t] = w
       /\ \A u \in Token : u # t => v_order'[u] = v_order[u]
  BY <1>2, <1>6, <1>7
<1>15. Read(p) /\ UNCHANGED <<queue, inbox, book>>
  BY <1>5
<1>. QED BY <1>1, <1>8, <1>9, <1>14, <1>15, ReadPatient

LEMMA EvaluatePatient ==
    ASSUME TradesOne, BaseInv, BaseInv', PatientInv, NEW p \in Partitions, evaluate(p)
    PROVE  PatientInv'
<1>0. Shape /\ Shape'
  BY DEF BaseInv
<1>1. UNCHANGED <<book, v_order>>
  BY DEF evaluate, agentVars
<1>2. /\ \A b \in Agents, k \in Partitions : \A x \in Mail(b, k)' : x \in Mail(b, k)
      /\ \A b \in Agents, k \in Partitions, t \in Token :
             k # p \/ p \in PartitionMask(b) => Load(b, k, t)' = Load(b, k, t)
  BY <1>0, MailDue
<1>. SUFFICES ASSUME NEW u \in Token, u[1] \in Patient PROVE TokenOK(u[1], u)'
  BY DEF PatientInv
<1>3. TokenOK(u[1], u) /\ u[1] \in Agents
  BY TokenShape DEF PatientInv
<1>4. \A k \in Partitions : k \in PartitionMask(u[1]) => Load(u[1], k, u)' = Load(u[1], k, u)
  BY <1>2, <1>3
<1>. QED BY <1>1, <1>2, <1>3, <1>4, Untouched

LEMMA FollowUpPatient ==
    ASSUME TradesOne, BaseInv, BaseInv', PatientInv, NEW p \in Partitions, NEW t \in Token,
           follow_up(p, t)
    PROVE  PatientInv'
<1>0. Shape /\ Shape' /\ TokenInv
  BY DEF BaseInv
<1>1. PICK v : /\ v = v_order[t] /\ v # Null /\ v.state = "NOT_ON_BOOK" /\ PartitionOf[v.series] = p
               /\ v_order' = [v_order EXCEPT ![t].state = "GONE"]
               /\ Schedule(p, Answer("canceled", t, v))
               /\ UNCHANGED <<queue, wire, inbox, book>>
  BY DEF follow_up, agentVars
<1>2. v \in VenueOrders
  BY <1>0, <1>1 DEF Shape
<1>10. /\ [v EXCEPT !.state = "GONE"] \in VenueOrders
       /\ [v EXCEPT !.state = "GONE"].state = "GONE"
       /\ [v EXCEPT !.state = "GONE"].oid = v.oid
       /\ [v EXCEPT !.state = "GONE"].price = v.price
  BY <1>2 DEF VenueOrders
<1>3. PICK w \in VenueOrders : /\ w = [v EXCEPT !.state = "GONE"] /\ w.state = "GONE"
                               /\ w.oid = v.oid /\ w.price = v.price
  BY <1>10
<1>4. v_order'[t] = w /\ \A u \in Token : u # t => v_order'[u] = v_order[u]
  BY <1>0, <1>1, <1>3 DEF Shape
<1>5. PICK m \in Answers : /\ m = Answer("canceled", t, v) /\ m.type = "canceled" /\ m.otk = t
                           /\ m.state = "NOT_ON_BOOK"
  BY <1>1, <1>2, AnswerType
<1>6. /\ \A b \in Agents, k \in Partitions : \A x \in Mail(b, k)' :
             x \in Mail(b, k) \/ (k = p /\ x = m)
      /\ \A b \in Agents, k \in Partitions, u \in Token : Load(b, k, u)' = Load(b, k, u)
  <2>1. ~ Asked(m) /\ Schedule(p, m)
    BY <1>1, <1>5 DEF Asked
  <2>. QED BY <1>0, <1>1, <2>1, MailScheduled
<1>. SUFFICES ASSUME NEW u \in Token, u[1] \in Patient PROVE TokenOK(u[1], u)'
  BY DEF PatientInv
<1>7. TokenOK(u[1], u) /\ u[1] \in Agents
  BY TokenShape DEF PatientInv
<1>8. CASE u = t
  <2>1. PICK a \in Agents : a = t[1]
    BY <1>7, <1>8
  <2>2. ~ Forgotten(a, t, v_order[t])
    BY <1>1 DEF Forgotten
  <2>3a. PICK s \in Slots : \E o, vv : Knows(a, t, s, o, vv)
    BY <1>7, <1>8, <2>1, <2>2, UseOK
  <2>3b. PICK o, vv : Knows(a, t, s, o, vv)
    BY <2>3a
  <2>3. /\ Entry(a, s) /\ book[a][s] = o /\ o.otk = t /\ v_order[t] = vv
        /\ OrderStates(o, vv)
        /\ vv # Null => (vv.state # "LIVE" => OffBook(o))
        /\ \A k \in Partitions : \A x \in Mail(a, k) :
               x.otk = t => k = Partition(o) /\ Awaits(o, vv, x)
        /\ Load(a, Partition(o), t) = Awaiting(o)
    BY <2>3b DEF Knows
  <2>4. OffBook(o) /\ OrderStates(o, v)
    BY <1>1, <2>3
  <2>5. w # Null
    BY OrdersAssumption
  <2>6. OrderStates(o, w)
    BY <1>3, <2>4, <2>5 DEF OrderStates, OffBook, Submitted
  <2>7. p = Partition(o)
    <3>1. v.series \in Trades[a]
      BY <1>0, <1>1, <2>1 DEF TokenInv, SeriesOK
    <3>2. p \in PartitionMask(a)
      BY <1>1, <3>1 DEF PartitionMask
    <3>. QED BY <2>3, <3>2, HomeOf
  <2>8. ASSUME NEW k \in Partitions, NEW x \in Mail(a, k)', x.otk = t
        PROVE  k = Partition(o) /\ Awaits(o, w, x)
    <3>1. CASE k = p /\ x = m
      BY <1>3, <1>5, <2>4, <2>5, <2>7, <3>1 DEF Awaits
    <3>2. CASE x \in Mail(a, k)
      <4>1. k = Partition(o) /\ Awaits(o, v, x)
        BY <1>1, <2>3, <2>8, <3>2
      <4>2. Awaits(o, w, x)
        BY <1>1, <1>3, <2>5, <4>1 DEF Awaits, AsVenue
      <4>. QED BY <4>1, <4>2
    <3>. QED BY <1>6, <2>8, <3>1, <3>2
  <2>9. Partition(o) \in Partitions
    BY <2>7
  <2>10. Load(a, Partition(o), t)' = Awaiting(o)
    BY <1>6, <2>3, <2>9
  <2>11. Entry(a, s)' /\ book'[a][s] = o
    BY <1>1, <2>3 DEF Entry
  <2>12. TokenOK(a, t)'
    BY <1>4, <2>3, <2>4, <2>6, <2>8, <2>10, <2>11, MakeOK
  <2>. QED BY <1>8, <2>1, <2>12
<1>9. CASE u # t
  <2>1. \A k \in Partitions : \A x \in Mail(u[1], k)' : x.otk = u => x \in Mail(u[1], k)
    BY <1>5, <1>6, <1>7, <1>9
  <2>2. v_order'[u] = v_order[u]
    BY <1>4, <1>9
  <2>. QED BY <1>1, <1>6, <1>7, <2>1, <2>2, Untouched
<1>. QED BY <1>8, <1>9

-----------------------------------------------------------------------------
(* The steps of the listener keep PatientInv. *)

(* NoLoad, one step later. *)
LEMMA NoLoadNext ==
    ASSUME Shape, Shape', NEW a \in Agents, NEW p \in Partitions, NEW t, Load(a, p, t)' = 0,
           NEW m \in Mail(a, p)', m.otk = t
    PROVE  ~ Asked(m)
<1>. DEFINE M == AskedOf(t)
<1>0. /\ queue'[a] \in Seq(Requests) /\ wire'[p] \in Seq(Requests)
      /\ action_queue'[p] \in Seq(Answers) /\ inbox'[a][p] \in Seq(Answers)
  BY DEF Shape
<1>1. PICK q, w, d, i \in Nat : LoadIs(a, p, t, q, w, d, i)'
  BY LoadDiffers
<1>2. /\ q = Count(queue'[a], M) /\ w = Count(wire'[p], M)
      /\ d = Count(action_queue'[p], M) /\ i = Count(inbox'[a][p], M)
      /\ Load(a, p, t)' = q + w + d + i
  BY <1>1 DEF LoadIs
<1>. HIDE DEF M
<1>12. q + w + d + i = 0
  BY <1>2
<1>3. q = 0 /\ w = 0 /\ d = 0 /\ i = 0
  BY <1>12
<1>4. /\ Count(queue'[a], M) = 0 /\ Count(wire'[p], M) = 0
      /\ Count(action_queue'[p], M) = 0 /\ Count(inbox'[a][p], M) = 0
  BY <1>2, <1>3
<1>5. \A x \in ToSet(queue'[a]) : x \notin M
  BY <1>0, <1>4, CountType
<1>6. \A x \in ToSet(wire'[p]) : x \notin M
  BY <1>0, <1>4, CountType
<1>7. \A x \in ToSet(action_queue'[p]) : x \notin M
  BY <1>0, <1>4, CountType
<1>8. \A x \in ToSet(inbox'[a][p]) : x \notin M
  BY <1>0, <1>4, CountType
<1>9. m \in ToSet(queue'[a]) \cup ToSet(wire'[p]) \cup ToSet(action_queue'[p])
                \cup ToSet(inbox'[a][p])
  BY DEF Mail
<1>10. m \in Requests \cup Answers
  <2>1. ToSet(queue'[a]) \subseteq Requests /\ ToSet(wire'[p]) \subseteq Requests
    BY <1>0, ToSetType
  <2>2. ToSet(action_queue'[p]) \subseteq Answers /\ ToSet(inbox'[a][p]) \subseteq Answers
    BY <1>0, ToSetType
  <2>. QED BY <1>9, <2>1, <2>2
<1>11. m \notin M
  BY <1>5, <1>6, <1>7, <1>8, <1>9
<1>. QED BY <1>10, <1>11 DEF AskedOf, M

(* What message m makes of order o of the agent that consumes it. *)
Moved(o, w, m) ==
    /\ w.otk = o.otk /\ w.series = o.series
    /\ ~ Expected(o, m) => w.os = "ERROR" /\ w.ps = o.ps
    /\ Expected(o, m) =>
        /\ m.type = "accepted" =>
               /\ w.oid = m.oid /\ w.price = o.price
               /\ m.state = "LIVE" => w.os = "live" /\ w.ps = {}
               /\ m.state # "LIVE" => w.os = "done" /\ w.ps = {"finalize"}
        /\ m.type = "rejected" /\ o.os = "created" => w.os = "done" /\ w.ps = {}
        /\ m.type = "replaced" /\ m.state = "LIVE" =>
               w.oid = o.oid /\ w.price = m.price /\ w.os = "live" /\ w.ps = {}
        /\ m.type = "canceled" => w.os = "done" /\ w.ps = {}

LEMMA VisitEffect ==
    ASSUME TradesOne, BaseInv, NEW a \in Agents, NEW p \in Partitions, visit(a, p),
           NEW m, m = Head(inbox[a][p]), NEW s, s = Found(a, m),
           NEW o, o = book[a][s], NEW w, w = book'[a][s]
    PROVE  /\ inbox[a][p] # <<>> /\ Consume(a, p)
           /\ s = Null => book' = book
           /\ s # Null => /\ s \in Slots /\ Entry(a, s) /\ Entry(a, s)' /\ Moved(o, w, m)
                          /\ \A b \in Agents, k \in Slots :
                                 b # a \/ k # s => book'[b][k] = book[b][k]
<1>0. Shape
  BY DEF BaseInv
<1>1. inbox[a][p] # <<>> /\ Consume(a, p)
  BY DEF visit, order_accepted, order_rejected, order_replaced, order_canceled,
         unexpected, not_in_book, Consumes
<1>2. CASE s = Null
  <2>1. not_in_book(a, p)
    BY <1>2 DEF visit, order_accepted, order_rejected, order_replaced, order_canceled, unexpected
  <2>. QED BY <1>1, <1>2, <2>1 DEF not_in_book
<1>3. CASE s # Null
  <2>. DEFINE Frame == /\ Entry(a, s) /\ Entry(a, s)'
                       /\ \A b \in Agents, k \in Slots :
                              b # a \/ k # s => book'[b][k] = book[b][k]
  <2>1. s \in Slots /\ Entry(a, s) /\ m \in Answers
    BY <1>1, <1>3, FoundEntry
  <2>2. ASSUME NEW os, NEW ps, NEW price, Restated(a, s, os, ps, price)
        PROVE  /\ Frame /\ w.otk = o.otk /\ w.series = o.series /\ w.oid = o.oid
               /\ w.os = os /\ w.ps = ps /\ w.price = price
    BY <1>0, <2>2, RestatedBook
  <2>. HIDE DEF Frame
  <2>3. CASE order_accepted(a, p)
    <3>1. m.type = "accepted" /\ Expected(o, m)
      BY <2>3 DEF order_accepted, Consumes
    <3>6. \A b \in Agents, k \in Slots :
              b # a \/ k # Found(a, Head(inbox[a][p])) => book'[b][k] = book[b][k]
      BY <2>3, AcceptedBook
    <3>4. \A b \in Agents, k \in Slots : b # a \/ k # s => book'[b][k] = book[b][k]
      BY <3>6
    <3>5. Entry(a, s)'
      BY <2>1, <2>3, AcceptedBook
    <3>2. /\ w.otk = o.otk /\ w.series = o.series /\ w.oid = m.oid /\ w.price = o.price
          /\ w.os = IF m.state = "LIVE" THEN "live" ELSE "done"
          /\ w.ps = IF m.state = "LIVE" THEN {} ELSE {"finalize"}
      BY <2>3, AcceptedBook
    <3>3. Moved(o, w, m)
      BY <3>1, <3>2 DEF Moved
    <3>. QED BY <1>1, <1>3, <2>1, <3>3, <3>4, <3>5
  <2>4. CASE order_rejected(a, p)
    <3>1. PICK os, price : /\ m.type = "rejected" /\ Expected(o, m)
                           /\ os = IF o.os = "created" THEN "done" ELSE "live"
                           /\ Restated(a, s, os, {}, price)
      BY <2>4, RejectedEffect
    <3>4. Restated(a, s, os, {}, price)
      BY <3>1
    <3>2. /\ Frame /\ w.otk = o.otk /\ w.series = o.series /\ w.os = os /\ w.ps = {}
      BY <2>2, <3>4
    <3>3. Moved(o, w, m)
      BY <3>1, <3>2 DEF Moved
    <3>. QED BY <1>1, <1>3, <2>1, <3>2, <3>3 DEF Frame
  <2>5. CASE order_replaced(a, p)
    <3>1. m.type = "replaced" /\ Expected(o, m)
      BY <2>5 DEF order_replaced, Consumes
    <3>2. CASE m.state = "LIVE"
      <4>1. PICK price : price = m.price /\ Restated(a, s, "live", {}, price)
        BY <2>5, <3>2, ReplacedEffect
      <4>2. /\ Frame /\ w.otk = o.otk /\ w.series = o.series /\ w.oid = o.oid
            /\ w.os = "live" /\ w.ps = {} /\ w.price = m.price
        BY <2>2, <4>1
      <4>3. Moved(o, w, m)
        BY <3>1, <4>2 DEF Moved
      <4>. QED BY <1>1, <1>3, <2>1, <4>2, <4>3 DEF Frame
    <3>3. CASE m.state # "LIVE"
      <4>1. PICK price : Restated(a, s, "done", {"finalize"}, price)
        BY <2>5, <3>3, ReplacedEffect
      <4>2. Frame /\ w.otk = o.otk /\ w.series = o.series
        BY <2>2, <4>1
      <4>3. Moved(o, w, m)
        BY <3>1, <3>3, <4>2 DEF Moved
      <4>. QED BY <1>1, <1>3, <2>1, <4>2, <4>3 DEF Frame
    <3>. QED BY <3>2, <3>3
  <2>6. CASE order_canceled(a, p)
    <3>1. PICK price : /\ m.type = "canceled" /\ Expected(o, m)
                       /\ Restated(a, s, "done", {}, price)
      BY <2>6, CanceledEffect
    <3>2. Frame /\ w.otk = o.otk /\ w.series = o.series /\ w.os = "done" /\ w.ps = {}
      BY <2>2, <3>1
    <3>3. Moved(o, w, m)
      BY <3>1, <3>2 DEF Moved
    <3>. QED BY <1>1, <1>3, <2>1, <3>2, <3>3 DEF Frame
  <2>7. CASE unexpected(a, p)
    <3>1. PICK ps, price : /\ ~ Expected(o, m) /\ ps = o.ps
                           /\ Restated(a, s, "ERROR", ps, price)
      BY <2>7, UnexpectedEffect
    <3>4. Restated(a, s, "ERROR", ps, price)
      BY <3>1
    <3>5. Frame /\ w.otk = o.otk /\ w.series = o.series /\ w.os = "ERROR" /\ w.ps = ps
      BY <2>2, <3>4
    <3>2. Frame /\ w.otk = o.otk /\ w.series = o.series /\ w.os = "ERROR" /\ w.ps = o.ps
      BY <3>1, <3>5
    <3>3. Moved(o, w, m)
      BY <3>1, <3>2 DEF Moved
    <3>. QED BY <1>1, <1>3, <2>1, <3>2, <3>3 DEF Frame
  <2>8. ~ not_in_book(a, p)
    BY <1>3 DEF not_in_book
  <2>. QED BY <2>3, <2>4, <2>5, <2>6, <2>7, <2>8 DEF visit
<1>. QED BY <1>2, <1>3

(* A patient agent finds the order the message is about. *)
LEMMA FoundOwn ==
    ASSUME HearsOne, BaseInv, PatientInv, NEW a \in Patient, NEW p \in Partitions,
           inbox[a][p] # <<>>, NEW m, m = Head(inbox[a][p]), NEW s, s = Found(a, m), s # Null,
           m \in Mail(a, p)
    PROVE  m.otk \in Token /\ m.otk[1] = a /\ s \in Slots /\ Entry(a, s) /\ book[a][s].otk = m.otk
<1>1. a \in Agents
  BY DEF Patient
<1>2. m.otk \in Token /\ s \in Slots /\ Entry(a, s) /\ m.otk \in Tokens(book[a][s])
  BY <1>1, FoundEntry, FoundIsNamed
<1>3. m.otk[1] = a
  BY <1>1, <1>2 DEF BaseInv, TokenInv, BookDrawn
<1>4. TokenOK(a, m.otk)
  BY <1>2, <1>3 DEF PatientInv
<1>5. PICK t \in Token : t = m.otk
  BY <1>2
<1>6a. PICK k \in Slots : \E o, v : Knows(a, t, k, o, v) /\ p = Partition(o) /\ Awaits(o, v, m)
  BY <1>4, <1>5, MailFinds
<1>6b. PICK o, v : Knows(a, t, k, o, v) /\ p = Partition(o) /\ Awaits(o, v, m)
  BY <1>6a
<1>6. /\ Entry(a, k) /\ book[a][k] = o /\ o.otk = t /\ v_order[t] = v
      /\ OrderStates(o, v)
      /\ v # Null => (v.state # "LIVE" => OffBook(o))
      /\ \A j \in Partitions : \A x \in Mail(a, j) :
             x.otk = t => j = Partition(o) /\ Awaits(o, v, x)
      /\ Load(a, Partition(o), t) = Awaiting(o)
      /\ p = Partition(o) /\ Awaits(o, v, m)
  BY <1>6b DEF Knows
<1>7. k = s
  BY <1>1, <1>2, <1>5, <1>6, OneSlot
<1>. QED BY <1>2, <1>3, <1>5, <1>6, <1>7

(* The orders a message is not about. *)
LEMMA VisitElse ==
    ASSUME HearsOne, BaseInv, BaseInv', PatientInv, NEW a \in Agents, NEW p \in Partitions,
           visit(a, p), NEW m, m = Head(inbox[a][p]),
           NEW u \in Token, u[1] \in Patient, u[1] # a \/ m.otk # u
    PROVE  TokenOK(u[1], u)'
<1>0. TradesOne /\ Shape /\ Shape'
  BY HearsOneTradesOne DEF BaseInv
<1>1. PICK b \in Agents : b = u[1]
  BY TokenShape
<1>2. PICK s : s = Found(a, m)
  OBVIOUS
<1>3. /\ inbox[a][p] # <<>> /\ Consume(a, p)
      /\ s = Null => book' = book
      /\ s # Null => /\ s \in Slots /\ Entry(a, s) /\ Entry(a, s)'
                     /\ Moved(book[a][s], book'[a][s], m)
                     /\ \A c \in Agents, k \in Slots :
                            c # a \/ k # s => book'[c][k] = book[c][k]
  <2>1. PICK o, w : o = book[a][s] /\ w = book'[a][s]
    OBVIOUS
  <2>. QED BY <1>0, <1>2, <2>1, VisitEffect
<1>4. /\ m \in Mail(a, p)
      /\ \A c \in Agents, k \in Partitions : \A x \in Mail(c, k)' : x \in Mail(c, k)
      /\ \A c \in Agents, k \in Partitions, t \in Token :
             c # a \/ k # p => Load(c, k, t)' = Load(c, k, t)
      /\ \A t \in Token :
             Load(a, p, t) \in Nat /\
             Load(a, p, t)' = Load(a, p, t) - IF m \in AskedOf(t) THEN 1 ELSE 0
  BY <1>0, <1>3, MailConsumed
<1>5. v_order'[u] = v_order[u]
  BY <1>3 DEF Consume, venueVars
<1>6. \A k \in Partitions : k \in PartitionMask(b) => Load(b, k, u)' = Load(b, k, u)
  <2>1. CASE b = a
    <3>1. m \notin AskedOf(u)
      BY <1>1, <2>1 DEF AskedOf
    <3>2. Load(a, p, u)' = Load(a, p, u)
      <4>1. Load(a, p, u)' = Load(a, p, u) - 0 /\ Load(a, p, u) \in Nat
        BY <1>4, <3>1
      <4>. QED BY <4>1
    <3>. QED BY <1>4, <2>1, <3>2
  <2>2. CASE b # a
    BY <1>4, <2>2
  <2>. QED BY <2>1, <2>2
<1>7. ASSUME NEW k \in Slots,
             (Entry(b, k) /\ book[b][k].otk = u) \/ (Entry(b, k)' /\ book'[b][k].otk = u)
      PROVE  book'[b][k] = book[b][k]
  <2>1. CASE s = Null
    BY <1>3, <2>1
  <2>2. CASE s # Null /\ (b # a \/ k # s)
    BY <1>3, <2>2
  <2>3. CASE s # Null /\ b = a /\ k = s
    <3>1. book[a][s].otk = m.otk
      BY <1>1, <1>2, <1>3, <1>4, <2>3, FoundOwn
    <3>2. book'[a][s].otk = book[a][s].otk
      BY <1>3, <2>3 DEF Moved
    <3>. QED BY <1>1, <1>7, <2>3, <3>1, <3>2
  <2>. QED BY <2>1, <2>2, <2>3
<1>8. TokenOK(b, u)
  BY <1>1 DEF PatientInv
<1>9. \A k \in Partitions : \A x \in Mail(b, k)' : x.otk = u => x \in Mail(b, k)
  BY <1>4
<1>10. TokenOK(b, u)'
  BY <1>0, <1>5, <1>6, <1>7, <1>8, <1>9, Untouched
<1>. QED BY <1>1, <1>10

(* The order message m is about, o before the agent consumes it and w after. *)
LEMMA VisitMade ==
    ASSUME BaseInv, BaseInv', NEW a \in Agents, NEW p \in Partitions,
           inbox[a][p] # <<>>, Consume(a, p), NEW m, m = Head(inbox[a][p]),
           NEW t \in Token, m.otk = t, NEW s \in Slots, NEW o, NEW v, NEW w,
           v_order[t] = v, v # Null => (v.state # "LIVE" => OffBook(w)),
           \A k \in Partitions : \A x \in Mail(a, k) :
               x.otk = t => k = Partition(o) /\ Awaits(o, v, x),
           Load(a, Partition(o), t) = Awaiting(o), p = Partition(o),
           Entry(a, s)', book'[a][s] = w, w.otk = t, w.series = o.series, OrderStates(w, v),
           Asked(m) => Awaiting(w) = 0,
           ~ Asked(m) => Awaiting(w) = Awaiting(o) /\ \A x : Awaits(o, v, x) => Awaits(w, v, x)
    PROVE  TokenOK(a, t)'
<1>0. Shape /\ Shape'
  BY DEF BaseInv
<1>1. /\ m \in Answers
      /\ \A k \in Partitions : \A x \in Mail(a, k)' : x \in Mail(a, k)
      /\ Load(a, p, t) \in Nat
      /\ Load(a, p, t)' = Load(a, p, t) - IF m \in AskedOf(t) THEN 1 ELSE 0
  BY <1>0, MailConsumed
<1>2. v_order'[t] = v /\ Partition(w) = p
  BY DEF Consume, venueVars, Partition
<1>3. m \in AskedOf(t) <=> Asked(m)
  BY <1>1 DEF AskedOf
<1>4. CASE Asked(m)
  <2>1. Load(a, p, t)' = 0
    <3>1. Load(a, p, t)' = Load(a, p, t) - 1 /\ Load(a, p, t) <= 1 /\ Load(a, p, t) \in Nat
      BY <1>1, <1>3, <1>4 DEF Awaiting
    <3>2. Load(a, p, t)' \in Nat
      <4>1. PICK q, ww, d, i \in Nat : LoadIs(a, p, t, q, ww, d, i)'
        BY <1>0, LoadDiffers
      <4>2. Load(a, p, t)' = q + ww + d + i
        BY <4>1 DEF LoadIs
      <4>. QED BY <4>2
    <3>. QED BY <3>1, <3>2
  <2>2. ASSUME NEW k \in Partitions, NEW x \in Mail(a, k)', x.otk = t
        PROVE  k = Partition(w) /\ Awaits(w, v, x)
    <3>1. k = p /\ Awaits(o, v, x)
      BY <1>1, <2>2
    <3>2. ~ Asked(x)
      BY <1>0, <2>1, <2>2, <3>1, NoLoadNext
    <3>3. x.type = "canceled" /\ x.state = "NOT_ON_BOOK"
      BY <3>2, UnaskedType
    <3>4. v # Null /\ v.state = "GONE"
      BY <3>1, <3>3 DEF Awaits
    <3>. QED BY <1>2, <3>1, <3>3, <3>4 DEF Awaits
  <2>3. Load(a, Partition(w), t)' = Awaiting(w)
    BY <1>2, <1>4, <2>1
  <2>. QED BY <1>2, <2>2, <2>3, MakeOK
<1>5. CASE ~ Asked(m)
  <2>1. Load(a, p, t)' = Load(a, p, t)
    <3>1. Load(a, p, t)' = Load(a, p, t) - 0 /\ Load(a, p, t) \in Nat
      BY <1>1, <1>3, <1>5
    <3>. QED BY <3>1
  <2>2. ASSUME NEW k \in Partitions, NEW x \in Mail(a, k)', x.otk = t
        PROVE  k = Partition(w) /\ Awaits(w, v, x)
    BY <1>1, <1>2, <1>5, <2>2
  <2>3. Load(a, Partition(w), t)' = Awaiting(w)
    BY <1>2, <1>5, <2>1
  <2>. QED BY <1>2, <2>2, <2>3, MakeOK
<1>. QED BY <1>4, <1>5

(* An answer that was asked for finds its order, which expects it. *)
LEMMA AnswerFinds ==
    ASSUME BaseInv, NEW a \in Agents, NEW p \in Partitions, inbox[a][p] # <<>>,
           NEW m, m = Head(inbox[a][p]), NEW t, m.otk = t, NEW s \in Slots, Entry(a, s),
           NEW o, o = book[a][s], o.otk = t, NEW v, v = v_order[t], Awaits(o, v, m), Asked(m)
    PROVE  Found(a, m) = s /\ Expected(o, m) /\ (m.type # "rejected" => v.oid = m.oid)
<1>1. /\ m \in Answers /\ t \in Token
      /\ m.type # "rejected" => m.oid \in Oid /\ v.oid = m.oid
  BY FoundEntry
<1>2. MapsInv
  BY DEF BaseInv
<1>3. CASE m.type \in ByToken
  <2>1. m_otk_map[a][t] = s
    <3>1. t \in Tokens(book[a][s])
      BY DEF Tokens
    <3>. QED BY <1>1, <1>2, <3>1 DEF MapsInv, TokenMapOK
  <2>2. Submitted(o)
    BY <1>3 DEF Awaits, ByToken
  <2>. QED BY <1>1, <1>3, <2>1, <2>2 DEF Found, Expected, Submitted, ByToken
<1>4. CASE m.type \notin ByToken
  <2>1. m.type \in {"replaced", "canceled"}
    BY <1>1, <1>4 DEF Answers, ByToken
  <2>2. o.os = "live" /\ v.oid = o.oid
    BY <2>1 DEF Awaits, Asked, AsVenue
  <2>3. m.oid \in Oid /\ o.oid = m.oid
    BY <1>1, <2>1, <2>2
  <2>4. m_oid_map[a][m.oid] = s
    BY <1>2, <2>3 DEF MapsInv, OidMapOK
  <2>. QED BY <1>1, <1>4, <2>1, <2>2, <2>4 DEF Found, Expected
<1>. QED BY <1>3, <1>4

(* What the answer makes of the order is what the venue has. *)
LEMMA AnswerSettles ==
    ASSUME NEW m \in Answers, NEW o, NEW v, NEW w, Awaits(o, v, m), Asked(m), Expected(o, m),
           Moved(o, w, m), m.type # "rejected" => v.oid = m.oid,
           v # Null => v.state \in {"LIVE", "NOT_ON_BOOK", "GONE"}
    PROVE  /\ OrderStates(w, v) /\ Awaiting(w) = 0
           /\ v # Null => (v.state # "LIVE" => OffBook(w))
<1>1. CASE m.type = "accepted"
  <2>1. v # Null /\ v.price = o.price /\ (m.state = "LIVE" <=> v.state = "LIVE") /\ v.oid = m.oid
    BY <1>1 DEF Awaits
  <2>2. CASE m.state = "LIVE"
    <3>1. w.oid = m.oid /\ w.price = o.price /\ w.os = "live" /\ w.ps = {}
      BY <1>1, <2>2 DEF Moved
    <3>. QED BY <2>1, <2>2, <3>1 DEF OrderStates, AsVenue, Awaiting
  <2>3. CASE m.state # "LIVE"
    <3>1. w.os = "done" /\ w.ps = {"finalize"}
      BY <1>1, <2>3 DEF Moved
    <3>. QED BY <2>1, <2>3, <3>1 DEF OrderStates, OffBook, Awaiting
  <2>. QED BY <2>2, <2>3
<1>2. CASE m.type = "rejected"
  <2>1. Submitted(o) /\ v = Null
    BY <1>2 DEF Awaits
  <2>2. w.os = "done" /\ w.ps = {}
    BY <1>2, <2>1 DEF Moved, Submitted
  <2>. QED BY <2>1, <2>2 DEF OrderStates, Awaiting
<1>3. CASE m.type = "replaced"
  <2>1. m.state = "LIVE" /\ v # Null /\ v.state = "LIVE" /\ v.oid = o.oid /\ v.price = m.price
    BY <1>3 DEF Awaits
  <2>2. w.oid = o.oid /\ w.price = m.price /\ w.os = "live" /\ w.ps = {}
    BY <1>3, <2>1 DEF Moved
  <2>. QED BY <2>1, <2>2 DEF OrderStates, AsVenue, Awaiting
<1>4. CASE m.type = "canceled"
  <2>1. v # Null /\ v.state = "LIVE"
    BY <1>4 DEF Awaits, Asked, AsVenue
  <2>2. w.os = "done" /\ w.ps = {}
    BY <1>4 DEF Moved
  <2>. QED BY <2>1, <2>2 DEF OrderStates, Awaiting
<1>. QED BY <1>1, <1>2, <1>3, <1>4 DEF Answers

(* A cancellation nobody asked for finds no order to be submitted, and what it
   finds it leaves to be finalized. *)
LEMMA UnaskedKeeps ==
    ASSUME NEW m, NEW o, NEW v, NEW w, Awaits(o, v, m), ~ Asked(m), OrderStates(o, v),
           Moved(o, w, m), o.oid # 0
    PROVE  /\ OrderStates(w, v) /\ Awaiting(w) = Awaiting(o) /\ OffBook(w)
           /\ \A x : Awaits(o, v, x) => Awaits(w, v, x)
<1>1. m.type = "canceled" /\ m.state = "NOT_ON_BOOK"
  BY UnaskedType
<1>2. OffBook(o) /\ v # Null /\ v.state = "GONE"
  BY <1>1 DEF Awaits
<1>3. o.os \in {"done", "ERROR"} /\ o.ps = {"finalize"}
  BY <1>2 DEF OffBook, OrderStates, Submitted
<1>4. w.os = "ERROR" /\ w.ps = {"finalize"}
  BY <1>1, <1>3 DEF Moved, Expected
<1>5. OffBook(w) /\ OrderStates(w, v) /\ Awaiting(w) = Awaiting(o)
  BY <1>2, <1>3, <1>4 DEF OffBook, OrderStates, Awaiting
<1>6. ASSUME NEW x, Awaits(o, v, x) PROVE Awaits(w, v, x)
  BY <1>2, <1>3, <1>5, <1>6 DEF Awaits, Submitted
<1>. QED BY <1>5, <1>6

LEMMA VisitOwn ==
    ASSUME HearsOne, BaseInv, BaseInv', PatientInv, NEW a \in Patient, NEW p \in Partitions,
           visit(a, p), NEW m, m = Head(inbox[a][p]), NEW t \in Token, m.otk = t, t[1] = a
    PROVE  TokenOK(a, t)'
<1>0. TradesOne /\ Shape /\ Shape' /\ a \in Agents
  BY HearsOneTradesOne DEF BaseInv, Patient
<1>1. inbox[a][p] # <<>> /\ Consume(a, p)
  BY <1>0 DEF visit, order_accepted, order_rejected, order_replaced, order_canceled,
              unexpected, not_in_book, Consumes
<1>2. m \in Mail(a, p) /\ m \in Answers
  BY <1>0, <1>1, MailConsumed
<1>3. TokenOK(a, t)
  BY DEF PatientInv
<1>4a. PICK s \in Slots : \E o, v : Knows(a, t, s, o, v) /\ p = Partition(o) /\ Awaits(o, v, m)
  BY <1>2, <1>3, MailFinds
<1>4b. PICK o, v : Knows(a, t, s, o, v) /\ p = Partition(o) /\ Awaits(o, v, m)
  BY <1>4a
<1>4. /\ Entry(a, s) /\ book[a][s] = o /\ o.otk = t /\ v_order[t] = v
      /\ OrderStates(o, v)
      /\ v # Null => (v.state # "LIVE" => OffBook(o))
      /\ \A k \in Partitions : \A x \in Mail(a, k) :
             x.otk = t => k = Partition(o) /\ Awaits(o, v, x)
      /\ Load(a, Partition(o), t) = Awaiting(o)
      /\ p = Partition(o) /\ Awaits(o, v, m)
  BY <1>4b DEF Knows
<1>5. PICK f : f = Found(a, m)
  OBVIOUS
<1>6. f # Null => f = s
  <2>1. f # Null => f \in Slots /\ Entry(a, f) /\ book[a][f].otk = t
    BY <1>1, <1>2, <1>5, FoundOwn
  <2>2. f # Null => book[a][s].otk \in Tokens(book[a][f])
    BY <1>4, <2>1 DEF Tokens
  <2>. QED BY <1>0, <1>4, <2>1, <2>2, OneSlot
<1>7. PICK w : w = book'[a][s]
  OBVIOUS
<1>8. f = Null => book' = book
  <2>1. PICK oo, ww : oo = book[a][f] /\ ww = book'[a][f]
    OBVIOUS
  <2>. QED BY <1>0, <1>5, <2>1, VisitEffect
<1>9. f # Null => Entry(a, s)' /\ Moved(o, w, m)
  <2>. SUFFICES ASSUME f # Null PROVE Entry(a, s)' /\ Moved(o, w, m)
    OBVIOUS
  <2>1. s = Found(a, m) /\ s # Null
    BY <1>5, <1>6
  <2>. QED BY <1>0, <1>4, <1>7, <2>1, VisitEffect
<1>10. f = Null => w = o /\ Entry(a, s)'
  BY <1>4, <1>7, <1>8 DEF Entry
<1>11. Entry(a, s)' /\ w.otk = t /\ w.series = o.series
  BY <1>4, <1>9, <1>10 DEF Moved
<1>12. CASE Asked(m)
  <2>1. f = s /\ Expected(o, m) /\ (m.type # "rejected" => v.oid = m.oid)
    BY <1>0, <1>1, <1>4, <1>5, <1>12, AnswerFinds
  <2>2. f # Null
    BY <2>1, OrdersAssumption
  <2>3. v # Null => v.state \in {"LIVE", "NOT_ON_BOOK", "GONE"}
    BY <1>0, <1>4 DEF Shape, VenueOrders
  <2>4. /\ OrderStates(w, v) /\ Awaiting(w) = 0
        /\ v # Null => (v.state # "LIVE" => OffBook(w))
    BY <1>2, <1>4, <1>9, <1>12, <2>1, <2>2, <2>3, AnswerSettles
  <2>. QED BY <1>0, <1>1, <1>4, <1>7, <1>11, <1>12, <2>4, VisitMade
<1>13. CASE ~ Asked(m)
  <2>1. CASE f = Null
    <3>1. w = o
      BY <1>10, <2>1
    <3>2. /\ OrderStates(w, v) /\ Awaiting(w) = Awaiting(o)
          /\ v # Null => (v.state # "LIVE" => OffBook(w))
          /\ \A x : Awaits(o, v, x) => Awaits(w, v, x)
      BY <1>4, <3>1
    <3>. QED BY <1>0, <1>1, <1>4, <1>7, <1>11, <1>13, <3>2, VisitMade
  <2>2. CASE f # Null
    <3>1. o.oid # 0
      <4>1. m.type = "canceled"
        BY <1>13, UnaskedType
      <4>2. m.oid \in Oid /\ o.oid = m.oid
        BY <1>0, <1>1, <1>4, <1>5, <1>6, <2>2, <4>1, FoundEntry DEF ByToken
      <4>. QED BY <4>2 DEF Oid
    <3>2. /\ OrderStates(w, v) /\ Awaiting(w) = Awaiting(o) /\ OffBook(w)
          /\ \A x : Awaits(o, v, x) => Awaits(w, v, x)
      BY <1>4, <1>9, <1>13, <2>2, <3>1, UnaskedKeeps
    <3>. QED BY <1>0, <1>1, <1>4, <1>7, <1>11, <1>13, <3>2, VisitMade
  <2>. QED BY <2>1, <2>2
<1>. QED BY <1>12, <1>13

LEMMA VisitPatient ==
    ASSUME HearsOne, BaseInv, BaseInv', PatientInv, NEW a \in Agents, NEW p \in Partitions,
           visit(a, p)
    PROVE  PatientInv'
<1>. SUFFICES ASSUME NEW u \in Token, u[1] \in Patient PROVE TokenOK(u[1], u)'
  BY DEF PatientInv
<1>1. PICK m : m = Head(inbox[a][p])
  OBVIOUS
<1>2. CASE u[1] # a \/ m.otk # u
  BY <1>1, <1>2, VisitElse
<1>3. CASE u[1] = a /\ m.otk = u
  <2>1. a \in Patient
    BY <1>3
  <2>2. TokenOK(a, u)'
    BY <1>1, <1>3, <2>1, VisitOwn
  <2>. QED BY <1>3, <2>2
<1>. QED BY <1>2, <1>3

-----------------------------------------------------------------------------
(* Every step keeps PatientInv, and what it gives.                         *)

LEMMA PatientNext ==
    ASSUME HearsOne, BaseInv, BaseInv', PatientInv, [Next]_vars
    PROVE  PatientInv'
<1>0. TradesOne
  BY HearsOneTradesOne
<1>1. ASSUME NEW a \in Agents, NEW s \in Slots, NEW x \in Series, NEW price \in Prices,
             submit_order(a, s, x, price)
      PROVE  PatientInv'
  BY <1>0, <1>1, SubmitPatient
<1>2. ASSUME NEW a \in Agents, NEW s \in Slots, NEW price \in Prices, modify_order(a, s, price)
      PROVE  PatientInv'
  BY <1>0, <1>2, ModifyPatient
<1>3. ASSUME NEW a \in Agents, NEW s \in Slots, cancel_order(a, s)
      PROVE  PatientInv'
  BY <1>0, <1>3, CancelPatient
<1>4. ASSUME NEW a \in Agents, NEW s \in Slots, erase_order(a, s)
      PROVE  PatientInv'
  BY <1>0, <1>4, ErasePatient
<1>5. ASSUME NEW a \in Agents, emit(a)
      PROVE  PatientInv'
  BY <1>0, <1>5, EmitPatient
<1>6. ASSUME NEW p \in Partitions, venue(p)
      PROVE  PatientInv'
  BY <1>0, <1>6, AcceptPatient, RejectPatient, ReplacePatient, CancelAnswerPatient,
     EvaluatePatient, FollowUpPatient DEF venue
<1>7. ASSUME NEW a \in Agents, NEW p \in Partitions, visit(a, p)
      PROVE  PatientInv'
  BY <1>7, VisitPatient
<1>8. CASE Quiet
  BY <1>8, PatientStutter DEF Quiet
<1>9. CASE UNCHANGED vars
  BY <1>9, PatientStutter
<1>. QED BY <1>1, <1>2, <1>3, <1>4, <1>5, <1>6, <1>7, <1>8, <1>9 DEF Next, evaluate_agent

(* An order in a patient agent's book. *)
LEMMA OrderKnown ==
    ASSUME BaseInv, PatientInv, NEW a \in Patient, NEW s \in Slots, Entry(a, s),
           NEW o, o = book[a][s], NEW t, t = o.otk, NEW v, v = v_order[t]
    PROVE  /\ t \in Token /\ t[1] = a /\ OrderStates(o, v)
           /\ Load(a, Partition(o), t) = Awaiting(o)
           /\ \A p \in Partitions : \A m \in Mail(a, p) : m.otk \in Tokens(o) => m.otk = t
<1>0. a \in Agents /\ Shape
  BY DEF Patient, BaseInv
<1>1. t \in Token /\ t \in Tokens(o) /\ Tokens(o) \subseteq Token
  BY <1>0, EntryTypes
<1>2. \A u \in Tokens(o) : u[1] = a
  BY <1>0 DEF BaseInv, TokenInv, BookDrawn
<1>3. TokenOK(a, t)
  BY <1>1, <1>2 DEF PatientInv
<1>4. ~ Forgotten(a, t, v_order[t])
  BY DEF Forgotten
<1>5a. PICK k \in Slots : \E oo, vv : Knows(a, t, k, oo, vv)
  BY <1>3, <1>4, UseOK
<1>5b. PICK oo, vv : Knows(a, t, k, oo, vv)
  BY <1>5a
<1>5. /\ Entry(a, k) /\ book[a][k] = oo /\ oo.otk = t /\ v_order[t] = vv
      /\ OrderStates(oo, vv)
      /\ vv # Null => (vv.state # "LIVE" => OffBook(oo))
      /\ \A p \in Partitions : \A m \in Mail(a, p) :
             m.otk = t => p = Partition(oo) /\ Awaits(oo, vv, m)
      /\ Load(a, Partition(oo), t) = Awaiting(oo)
  BY <1>5b DEF Knows
<1>6. k = s
  BY <1>0, <1>1, <1>5, OneSlot
<1>7. ASSUME NEW p \in Partitions, NEW m \in Mail(a, p), m.otk \in Tokens(o)
      PROVE  m.otk = t
  <2>1. PICK u \in Token : u = m.otk /\ u \in Tokens(o) /\ u[1] = a
    BY <1>1, <1>2, <1>7
  <2>2. TokenOK(a, u)
    BY <2>1 DEF PatientInv
  <2>3a. PICK j \in Slots : \E x, y : Knows(a, u, j, x, y) /\ p = Partition(x) /\ Awaits(x, y, m)
    BY <2>1, <2>2, MailFinds
  <2>3b. PICK x, y : Knows(a, u, j, x, y) /\ p = Partition(x) /\ Awaits(x, y, m)
    BY <2>3a
  <2>3. /\ Entry(a, j) /\ book[a][j] = x /\ x.otk = u /\ v_order[u] = y
        /\ OrderStates(x, y)
        /\ y # Null => (y.state # "LIVE" => OffBook(x))
        /\ \A q \in Partitions : \A z \in Mail(a, q) :
               z.otk = u => q = Partition(x) /\ Awaits(x, y, z)
        /\ Load(a, Partition(x), u) = Awaiting(x)
        /\ p = Partition(x) /\ Awaits(x, y, m)
    BY <2>3b DEF Knows
  <2>4. j = s
    BY <1>0, <2>1, <2>3, OneSlot
  <2>. QED BY <2>1, <2>3, <2>4
<1>. QED BY <1>1, <1>2, <1>5, <1>6, <1>7

LEMMA NamedIsCount ==
    ASSUME NEW x, NEW o, NEW t, t = o.otk, ToSet(x) \subseteq Requests \cup Answers,
           \A m \in ToSet(x) : m.otk \in Tokens(o) => m.otk = t
    PROVE  Named(x, o) = Count(x, AskedOf(t))
<1>1. \A i \in DOMAIN x : x[i] \in ToSet(x)
  BY DEF ToSet
<1>2. t \in Tokens(o)
  BY DEF Tokens
<1>3. \A i \in DOMAIN x : x[i].otk \in Tokens(o) /\ Asked(x[i]) <=> x[i] \in AskedOf(t)
  BY <1>1, <1>2 DEF AskedOf
<1>4. {i \in DOMAIN x : x[i].otk \in Tokens(o) /\ Asked(x[i])} = At(x, AskedOf(t))
  BY <1>3 DEF At
<1>. QED BY <1>4 DEF Named, Count

LEMMA PendingOf ==
    ASSUME NEW o, NEW v, OrderStates(o, v)
    PROVE  Cardinality(o.ps \ {"finalize"}) = Awaiting(o)
<1>1. CASE o.ps \in {{}, {"finalize"}}
  <2>1. o.ps \ {"finalize"} = {}
    BY <1>1
  <2>. QED BY <1>1, <2>1, FS_EmptySet DEF Awaiting
<1>2. CASE o.ps \notin {{}, {"finalize"}}
  <2>1. o.ps = {"submit"} \/ o.ps = {"replace"} \/ o.ps = {"cancel"}
    BY <1>2 DEF OrderStates
  <2>2. PICK r : r # "finalize" /\ o.ps = {r}
    BY <2>1
  <2>3. o.ps \ {"finalize"} = {r}
    BY <2>2
  <2>. QED BY <1>2, <2>3, FS_Singleton DEF Awaiting
<1>. QED BY <1>1, <1>2

LEMMA PatientGivesPending ==
    ASSUME BaseInv, PatientInv
    PROVE  PendingIsUnanswered
<1>0. Shape
  BY DEF BaseInv
<1>. SUFFICES ASSUME NEW a \in Patient, NEW s \in Slots, Entry(a, s)
              PROVE  Unanswered(a, book[a][s]) = Cardinality(book[a][s].ps \ {"finalize"})
  BY DEF PendingIsUnanswered
<1>1. PICK o : o = book[a][s]
  OBVIOUS
<1>2. PICK t : t = o.otk
  OBVIOUS
<1>3. PICK v : v = v_order[t]
  OBVIOUS
<1>4. PICK p : p = Partition(o)
  OBVIOUS
<1>5. a \in Agents /\ p \in Partitions
  BY <1>0, <1>1, <1>4, EntryTypes DEF Patient
<1>6. /\ OrderStates(o, v) /\ Load(a, p, t) = Awaiting(o)
      /\ \A k \in Partitions : \A m \in Mail(a, k) : m.otk \in Tokens(o) => m.otk = t
  BY <1>1, <1>2, <1>3, <1>4, OrderKnown
<1>7. /\ ToSet(queue[a]) \subseteq Requests /\ ToSet(wire[p]) \subseteq Requests
      /\ ToSet(action_queue[p]) \subseteq Answers /\ ToSet(inbox[a][p]) \subseteq Answers
  BY <1>0, <1>5, MessageTypes
<1>8. Named(queue[a], o) = Count(queue[a], AskedOf(t))
  <2>1. \A m \in ToSet(queue[a]) : m \in Mail(a, PartitionOf[m.series])
                                   /\ PartitionOf[m.series] \in Partitions
    BY <1>7, OrdersAssumption DEF Mail, Requests
  <2>. QED BY <1>2, <1>6, <1>7, <2>1, NamedIsCount
<1>9. Named(wire[p], o) = Count(wire[p], AskedOf(t))
  BY <1>2, <1>5, <1>6, <1>7, NamedIsCount DEF Mail
<1>10. Named(action_queue[p], o) = Count(action_queue[p], AskedOf(t))
  BY <1>2, <1>5, <1>6, <1>7, NamedIsCount DEF Mail
<1>11. Named(inbox[a][p], o) = Count(inbox[a][p], AskedOf(t))
  BY <1>2, <1>5, <1>6, <1>7, NamedIsCount DEF Mail
<1>12. Unanswered(a, o) = Load(a, p, t)
  BY <1>4, <1>8, <1>9, <1>10, <1>11 DEF Unanswered, Load
<1>13. Cardinality(o.ps \ {"finalize"}) = Awaiting(o)
  BY <1>6, PendingOf
<1>. QED BY <1>1, <1>6, <1>12, <1>13

LEMMA PatientGivesNothingLate ==
    ASSUME BaseInv, PatientInv
    PROVE  NothingLate
<1>0. Shape /\ MapsInv /\ TokenInv
  BY DEF BaseInv
<1>1. ASSUME NEW a \in Patient, NEW p \in Partitions, NEW m \in Mail(a, p), m.otk[1] = a
      PROVE  /\ m_otk_map[a][m.otk] # Null
             /\ m.type \in {"replace", "cancel"} => v_otk_map[m.otk] # Null
  <2>1. a \in Agents
    BY DEF Patient
  <2>2. PICK t \in Token : t = m.otk
    BY <1>0, <2>1, MailTypes
  <2>3. TokenOK(a, t)
    BY <1>1, <2>2 DEF PatientInv
  <2>4a. PICK s \in Slots : \E o, v : Knows(a, t, s, o, v) /\ p = Partition(o) /\ Awaits(o, v, m)
    BY <2>2, <2>3, MailFinds
  <2>4b. PICK o, v : Knows(a, t, s, o, v) /\ p = Partition(o) /\ Awaits(o, v, m)
    BY <2>4a
  <2>4. /\ Entry(a, s) /\ book[a][s] = o /\ o.otk = t /\ v_order[t] = v
        /\ OrderStates(o, v)
        /\ v # Null => (v.state # "LIVE" => OffBook(o))
        /\ \A k \in Partitions : \A x \in Mail(a, k) :
               x.otk = t => k = Partition(o) /\ Awaits(o, v, x)
        /\ Load(a, Partition(o), t) = Awaiting(o)
        /\ p = Partition(o) /\ Awaits(o, v, m)
    BY <2>4b DEF Knows
  <2>5. m_otk_map[a][t] = s
    <3>1. t \in Tokens(book[a][s])
      BY <2>4 DEF Tokens
    <3>. QED BY <1>0, <2>1, <2>4, <3>1 DEF MapsInv, TokenMapOK
  <2>6. m.type \in {"replace", "cancel"} => v_otk_map[t] # Null
    <3>. SUFFICES ASSUME m.type \in {"replace", "cancel"} PROVE v_otk_map[t] # Null
      OBVIOUS
    <3>1. v_order[t] # Null
      BY <2>4 DEF Awaits, AsVenue
    <3>2. t \in Primary
      BY <3>1 DEF Primary
    <3>3. v_otk_map[t] = t
      BY <1>0, <3>1, <3>2 DEF TokenInv, VenueMap
    <3>. QED BY <3>3, OrdersAssumption
  <2>. QED BY <2>2, <2>5, <2>6, OrdersAssumption
<1>2. ASSUME NEW p \in Partitions, NEW i \in DOMAIN wire[p],
             wire[p][i].type \in {"replace", "cancel"}, wire[p][i].otk[1] \in Patient
      PROVE  v_otk_map[wire[p][i].otk] # Null
  <2>1. PICK a \in Patient : a = wire[p][i].otk[1]
    BY <1>2
  <2>2. wire[p][i] \in Mail(a, p)
    BY DEF Mail, ToSet
  <2>. QED BY <1>1, <1>2, <2>1, <2>2
<1>3. RequestsAreKnown
  BY <1>2 DEF RequestsAreKnown
<1>4. ASSUME NEW a \in Patient, NEW p \in Partitions,
             NEW m \in ToSet(wire[p]) \cup ToSet(action_queue[p]) \cup ToSet(inbox[a][p]),
             m.otk[1] = a
      PROVE  m_otk_map[a][m.otk] # Null
  <2>1. m \in Mail(a, p)
    BY DEF Mail
  <2>. QED BY <1>1, <1>4, <2>1
<1>. QED BY <1>3, <1>4 DEF NothingLate

LEMMA PatientGivesVenues ==
    ASSUME BaseInv, PatientInv
    PROVE  BookIsVenues /\ NoOrderInError
<1>1. ASSUME NEW a \in Patient, NEW s \in Slots, Entry(a, s)
      PROVE  /\ book[a][s].os = "ERROR" => "finalize" \in book[a][s].ps
             /\ book[a][s].os = "live" /\ book[a][s].ps = {} =>
                    LET o == v_order[v_otk_map[book[a][s].otk]]
                    IN  o.oid = book[a][s].oid /\ o.price = book[a][s].price
  <2>1. PICK o : o = book[a][s]
    OBVIOUS
  <2>2. PICK t : t = o.otk
    OBVIOUS
  <2>3. PICK v : v = v_order[t]
    OBVIOUS
  <2>4. t \in Token /\ OrderStates(o, v)
    BY <1>1, <2>1, <2>2, <2>3, OrderKnown
  <2>5. o.os = "ERROR" => "finalize" \in o.ps
    BY <2>4 DEF OrderStates
  <2>6. ASSUME o.os = "live" /\ o.ps = {}
        PROVE  v_otk_map[t] = t /\ v.oid = o.oid /\ v.price = o.price
    <3>1. v # Null /\ v.oid = o.oid /\ v.price = o.price
      BY <2>4, <2>6 DEF OrderStates, AsVenue
    <3>2. t \in Primary
      BY <2>3, <2>4, <3>1 DEF Primary
    <3>3. v_otk_map[t] = t
      BY <2>3, <3>1, <3>2 DEF BaseInv, TokenInv, VenueMap
    <3>. QED BY <3>1, <3>3
  <2>. QED BY <2>1, <2>2, <2>3, <2>5, <2>6
<1>2. BookIsVenues
  BY <1>1 DEF BookIsVenues
<1>3. NoOrderInError
  BY <1>1 DEF NoOrderInError
<1>. QED BY <1>2, <1>3

(* Each message about an order of a patient agent finds it in the state that
   awaits it, at the agent and at the venue, and an order has one request that
   waits for its answer at most. *)
THEOREM PatientInvariant == ASSUME HearsOne PROVE Spec => [](BaseInv /\ PatientInv)
<1>0. TradesOne
  BY HearsOneTradesOne
<1>1. Init => PatientInv
  BY PatientInit
<1>2. Spec => []BaseInv
  BY <1>0, OrdersInvariant
<1>3. BaseInv /\ BaseInv' /\ PatientInv /\ [Next]_vars => PatientInv'
  BY PatientNext
<1>. QED BY <1>1, <1>2, <1>3, PTL DEF Spec

(* What is pending for an order of a patient agent is what it asked of the
   venue and has not been answered. *)
THEOREM PendingOrdersUnanswered == ASSUME HearsOne PROVE Spec => []PendingIsUnanswered
<1>1. BaseInv /\ PatientInv => PendingIsUnanswered
  BY PatientGivesPending
<1>. QED BY <1>1, PatientInvariant, PTL

(* No request or answer of a patient agent is about an order that is erased,
   or one the venue does not know. *)
THEOREM NothingComesLate == ASSUME HearsOne PROVE Spec => []NothingLate
<1>1. BaseInv /\ PatientInv => NothingLate
  BY PatientGivesNothingLate
<1>. QED BY <1>1, PatientInvariant, PTL

(* A patient agent's order that is live with nothing pending has the venue's
   id and price. *)
THEOREM BooksAgree == ASSUME HearsOne PROVE Spec => []BookIsVenues
<1>1. BaseInv /\ PatientInv => BookIsVenues
  BY PatientGivesVenues
<1>. QED BY <1>1, PatientInvariant, PTL

(* The messages a patient agent consumes are those its orders expect, but for
   the cancellation of an order that was accepted off the book. *)
THEOREM NoneInError == ASSUME HearsOne PROVE Spec => []NoOrderInError
<1>1. BaseInv /\ PatientInv => NoOrderInError
  BY PatientGivesVenues
<1>. QED BY <1>1, PatientInvariant, PTL
=============================================================================
