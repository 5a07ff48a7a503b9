------------------------- MODULE ReclamationProofs -------------------------
(***************************************************************************)
(* Proofs about Reclamation for every pool size, every set of readers and  *)
(* every payload: its type, that no descriptor is reused under a reader,   *)
(* and that none is lost or handed over twice.                             *)
(*                                                                         *)
(* The slots that are nowhere else are those of the reclaim stack.  The    *)
(* invariant says of each such slot only where its link leads and that     *)
(* no two links lead to the same one; with it a slot cannot be popped      *)
(* twice, or be in the pool and on the stack at once.  That each of them   *)
(* is found from an end of the stack takes the sequences they form.        *)
(***************************************************************************)
EXTENDS Reclamation, SequenceTheorems, FiniteSetTheorems, WellFoundedInduction, TLAPS

\* The slots on the stack, or popped from it and not yet released.
Stacked == Slots \ (Range(free) \cup Range(callbacks) \cup Range(batch)
                      \cup {m_published, m_current, retired})

\* Each of the other slots is in one place.
Apart ==
    /\ IsInjective(free) /\ IsInjective(callbacks) /\ IsInjective(batch)
    /\ Range(free) \cap Range(callbacks) = {}
    /\ Range(free) \cap Range(batch) = {}
    /\ Range(callbacks) \cap Range(batch) = {}
    /\ {m_published, m_current, retired}
          \cap (Range(free) \cup Range(callbacks) \cup Range(batch)) = {}
    /\ wpc # "retire" => retired = Null /\ m_current # m_published
    /\ wpc = "retire" => /\ m_current = m_published
                         /\ retired # Null /\ retired # m_published
                         /\ free # <<>>

\* The stack's links stay in the stack, and each slot has one way to it.
StackOK ==
    /\ m_pd_reclaim_head \in Stacked \cup {Null}
    /\ reclaim_i \in Stacked \cup {Null}
    /\ m_pd_reclaim_head # Null => m_pd_reclaim_head # reclaim_i
    /\ wpc # "walk" => reclaim_i = Null
    /\ \A s \in Stacked :
          /\ m_next[s] \in Stacked \cup {Null}
          /\ m_next[s] # Null => m_next[s] # m_pd_reclaim_head /\ m_next[s] # reclaim_i
    /\ \A s, t \in Stacked : m_next[s] # Null /\ m_next[s] = m_next[t] => s = t
    /\ pushing.loaded =>
          batch # <<>> /\ waiting = {} /\ m_next[Head(batch)] = pushing.head

\* A version somebody reads is published, or its grace period waits for him.
ReadersOK ==
    \A r \in Readers :
        /\ rpc[r] = "read" <=> reading[r] # Null
        /\ reading[r] # Null =>
              \/ reading[r] \in {m_published, retired} \cup Range(callbacks)
              \/ reading[r] \in Range(batch) /\ r \in waiting

IInv == TypeOK /\ Apart /\ StackOK /\ ReadersOK

-----------------------------------------------------------------------------
(* What the operations on sequences do to their ranges. *)

LEMMA EmptyRange ==
    Range(<<>>) = {} /\ IsInjective(<<>>)
BY DEF Range, IsInjective

LEMMA AppendRange ==
    ASSUME NEW S, NEW q \in Seq(S), NEW e \in S
    PROVE  /\ Append(q, e) \in Seq(S)
           /\ Range(Append(q, e)) = Range(q) \cup {e}
           /\ IsInjective(q) /\ e \notin Range(q) => IsInjective(Append(q, e))
<1>. DEFINE a == Append(q, e)
<1>1. /\ a \in Seq(S) /\ DOMAIN a = 1..(Len(q) + 1) /\ DOMAIN q = 1..Len(q)
      /\ Len(q) \in Nat /\ a[Len(q) + 1] = e
      /\ \A i \in 1..Len(q) : a[i] = q[i]
  OBVIOUS
<1>. HIDE DEF a
<1>2. Range(a) = Range(q) \cup {e}
  <2>1. Range(a) \subseteq Range(q) \cup {e}
    <3>. SUFFICES ASSUME NEW x \in Range(a) PROVE x \in Range(q) \cup {e}
      OBVIOUS
    <3>1. PICK i \in 1..(Len(q) + 1) : x = a[i]
      BY <1>1 DEF Range
    <3>2. i = Len(q) + 1 \/ i \in 1..Len(q)
      BY <1>1
    <3>. QED BY <1>1, <3>1, <3>2 DEF Range
  <2>2. \A i \in 1..Len(q) : i \in DOMAIN a
    BY <1>1
  <2>3. Len(q) + 1 \in DOMAIN a
    BY <1>1
  <2>. QED BY <1>1, <2>1, <2>2, <2>3 DEF Range
<1>3. ASSUME IsInjective(q), e \notin Range(q), NEW i \in DOMAIN a, NEW j \in DOMAIN a, a[i] = a[j]
      PROVE  i = j
  <2>1. \A k \in 1..Len(q) : q[k] # e
    BY <1>1, <1>3 DEF Range
  <2>2. /\ i = Len(q) + 1 \/ i \in 1..Len(q)
        /\ j = Len(q) + 1 \/ j \in 1..Len(q)
    BY <1>1
  <2>. QED BY <1>1, <1>3, <2>1, <2>2 DEF IsInjective
<1>. QED BY <1>1, <1>2, <1>3 DEF IsInjective, a

LEMMA TailRange ==
    ASSUME NEW S, NEW q \in Seq(S), q # <<>>, IsInjective(q)
    PROVE  /\ Tail(q) \in Seq(S) /\ IsInjective(Tail(q))
           /\ Head(q) \in S /\ Head(q) \in Range(q)
           /\ Range(Tail(q)) = Range(q) \ {Head(q)}
<1>. DEFINE t == Tail(q)
<1>1. /\ t \in Seq(S) /\ DOMAIN t = 1..(Len(q) - 1) /\ DOMAIN q = 1..Len(q)
      /\ Len(q) \in Nat /\ Len(q) >= 1 /\ Head(q) = q[1] /\ q[1] \in S
      /\ \A i \in 1..(Len(q) - 1) : t[i] = q[i + 1]
  BY HeadTailProperties, EmptySeq
<1>. HIDE DEF t
<1>2. \A i, j \in 1..Len(q) : q[i] = q[j] => i = j
  BY <1>1 DEF IsInjective
<1>3. IsInjective(t)
  <2>. SUFFICES ASSUME NEW i \in 1..(Len(q) - 1), NEW j \in 1..(Len(q) - 1), t[i] = t[j]
                PROVE  i = j
    BY <1>1 DEF IsInjective
  <2>1. i + 1 \in 1..Len(q) /\ j + 1 \in 1..Len(q)
    BY <1>1
  <2>2. i + 1 = j + 1
    BY <1>1, <1>2, <2>1
  <2>. QED BY <2>2
<1>4. Range(t) \subseteq Range(q) \ {q[1]}
  <2>. SUFFICES ASSUME NEW x \in Range(t) PROVE x \in Range(q) \ {q[1]}
    OBVIOUS
  <2>1. PICK i \in 1..(Len(q) - 1) : x = t[i]
    BY <1>1 DEF Range
  <2>2. i + 1 \in 1..Len(q) /\ i + 1 # 1 /\ 1 \in 1..Len(q) /\ x = q[i + 1]
    BY <1>1, <2>1
  <2>. QED BY <1>1, <1>2, <2>2 DEF Range
<1>5. Range(q) \ {q[1]} \subseteq Range(t)
  <2>. SUFFICES ASSUME NEW x \in Range(q) \ {q[1]} PROVE x \in Range(t)
    OBVIOUS
  <2>1. PICK i \in 1..Len(q) : x = q[i]
    BY <1>1 DEF Range
  <2>2. i - 1 \in 1..(Len(q) - 1) /\ x = t[i - 1]
    BY <1>1, <2>1
  <2>. QED BY <1>1, <2>2 DEF Range
<1>6. q[1] \in Range(q)
  BY <1>1 DEF Range
<1>. QED BY <1>1, <1>3, <1>4, <1>5, <1>6 DEF t

LEMMA ConsRange ==
    ASSUME NEW S, NEW q \in Seq(S), NEW e \in S
    PROVE  /\ <<e>> \o q \in Seq(S)
           /\ Range(<<e>> \o q) = Range(q) \cup {e}
           /\ IsInjective(q) /\ e \notin Range(q) => IsInjective(<<e>> \o q)
<1>. DEFINE c == <<e>> \o q
<1>1. /\ c \in Seq(S) /\ DOMAIN c = 1..(Len(q) + 1) /\ DOMAIN q = 1..Len(q)
      /\ Len(q) \in Nat /\ c[1] = e
      /\ \A i \in 2..(Len(q) + 1) : c[i] = q[i - 1]
  <2>1. <<e>> \in Seq(S) /\ Len(<<e>>) = 1
    OBVIOUS
  <2>. QED BY <2>1, ConcatProperties
<1>. HIDE DEF c
<1>2. Range(c) = Range(q) \cup {e}
  <2>1. Range(c) \subseteq Range(q) \cup {e}
    <3>. SUFFICES ASSUME NEW x \in Range(c) PROVE x \in Range(q) \cup {e}
      OBVIOUS
    <3>1. PICK i \in 1..(Len(q) + 1) : x = c[i]
      BY <1>1 DEF Range
    <3>2. i = 1 \/ (i \in 2..(Len(q) + 1) /\ i - 1 \in 1..Len(q))
      BY <1>1
    <3>. QED BY <1>1, <3>1, <3>2 DEF Range
  <2>2. Range(q) \subseteq Range(c)
    <3>1. \A i \in 1..Len(q) : i + 1 \in DOMAIN c /\ c[i + 1] = q[i]
      BY <1>1
    <3>. QED BY <1>1, <3>1 DEF Range
  <2>3. e \in Range(c)
    BY <1>1 DEF Range
  <2>. QED BY <2>1, <2>2, <2>3
<1>3. ASSUME IsInjective(q), e \notin Range(q), NEW i \in DOMAIN c, NEW j \in DOMAIN c, c[i] = c[j]
      PROVE  i = j
  <2>1. \A k \in 1..Len(q) : q[k] # e
    BY <1>1, <1>3 DEF Range
  <2>2. /\ i = 1 \/ (i \in 2..(Len(q) + 1) /\ i - 1 \in 1..Len(q))
        /\ j = 1 \/ (j \in 2..(Len(q) + 1) /\ j - 1 \in 1..Len(q))
    BY <1>1
  <2>. QED BY <1>1, <1>3, <2>1, <2>2 DEF IsInjective
<1>. QED BY <1>1, <1>2, <1>3 DEF IsInjective, c

LEMMA RangeType ==
    ASSUME NEW S, NEW q \in Seq(S)
    PROVE  Range(q) \subseteq S
BY DEF Range

LEMMA NullIsNoSlot == Null \notin Slots
BY DEF Null, Slots

-----------------------------------------------------------------------------
(* Numbers that grow along a sequence of slots, under the operations on it. *)

SortedBy(q, w) ==
    \A i, j \in 1..Len(q) : i <= j => w[q[i]] <= w[q[j]]

LEMMA SortedAppend ==
    ASSUME NEW S, NEW q \in Seq(S), NEW e \in S, NEW w, SortedBy(q, w), w[e] \in Int,
           \A x \in Range(q) : w[x] <= w[e]
    PROVE  SortedBy(Append(q, e), w)
<1>. DEFINE a == Append(q, e)
<1>1. /\ Len(a) = Len(q) + 1 /\ Len(q) \in Nat /\ a[Len(q) + 1] = e /\ DOMAIN q = 1..Len(q)
      /\ \A i \in 1..Len(q) : a[i] = q[i]
  OBVIOUS
<1>. HIDE DEF a
<1>2. SUFFICES ASSUME NEW i \in 1..Len(a), NEW j \in 1..Len(a), i <= j
               PROVE  w[a[i]] <= w[a[j]]
  BY DEF SortedBy, a
<1>3. CASE j \in 1..Len(q)
  BY <1>1, <1>2, <1>3 DEF SortedBy
<1>4. CASE j = Len(q) + 1 /\ i \in 1..Len(q)
  <2>1. q[i] \in Range(q)
    BY <1>1, <1>4 DEF Range
  <2>. QED BY <1>1, <1>4, <2>1
<1>5. CASE j = Len(q) + 1 /\ i = Len(q) + 1
  BY <1>1, <1>5
<1>. QED BY <1>1, <1>2, <1>3, <1>4, <1>5

LEMMA SortedTail ==
    ASSUME NEW S, NEW q \in Seq(S), q # <<>>, NEW w, SortedBy(q, w)
    PROVE  /\ SortedBy(Tail(q), w)
           /\ \A x \in Range(q) : w[Head(q)] <= w[x]
<1>. DEFINE t == Tail(q)
<1>1. /\ Len(q) \in Nat /\ Len(q) >= 1 /\ Len(t) = Len(q) - 1 /\ Head(q) = q[1]
      /\ DOMAIN q = 1..Len(q) /\ \A i \in 1..(Len(q) - 1) : t[i] = q[i + 1]
  BY HeadTailProperties, EmptySeq
<1>. HIDE DEF t
<1>2. SortedBy(t, w)
  <2>. SUFFICES ASSUME NEW i \in 1..Len(t), NEW j \in 1..Len(t), i <= j
                PROVE  w[t[i]] <= w[t[j]]
    BY DEF SortedBy
  <2>1. i + 1 \in 1..Len(q) /\ j + 1 \in 1..Len(q) /\ i + 1 <= j + 1
    BY <1>1
  <2>. QED BY <1>1, <2>1 DEF SortedBy
<1>3. ASSUME NEW x \in Range(q) PROVE w[Head(q)] <= w[x]
  <2>1. PICK i \in 1..Len(q) : x = q[i]
    BY <1>1 DEF Range
  <2>2. 1 \in 1..Len(q) /\ 1 <= i
    BY <1>1, <2>1
  <2>. QED BY <1>1, <2>1, <2>2 DEF SortedBy
<1>. QED BY <1>2, <1>3 DEF t

LEMMA SortedSame ==
    ASSUME NEW S, NEW q \in Seq(S), NEW w, NEW v, SortedBy(q, w),
           \A x \in Range(q) : v[x] = w[x]
    PROVE  SortedBy(q, v)
<1>1. \A i \in 1..Len(q) : q[i] \in Range(q)
  BY DEF Range
<1>. QED BY <1>1 DEF SortedBy

LEMMA SortedEmpty ==
    ASSUME NEW w PROVE SortedBy(<<>>, w)
BY DEF SortedBy

-----------------------------------------------------------------------------
(* Each action keeps the invariant. *)

LEMMA InitKeeps == Init => IInv
<1>. SUFFICES ASSUME Init PROVE IInv
  OBVIOUS
<1>. USE ReclamationAssumption
<1>1. /\ 0 \in Slots /\ 1 \in Slots /\ Null \in SlotOrNull
      /\ free \in Seq(Slots) /\ IsInjective(free)
      /\ Range(free) = 2..PoolSize - 1
  <2>1. /\ free = [i \in 1..PoolSize - 2 |-> i + 1] /\ PoolSize - 2 \in Nat
        /\ \A i \in 1..PoolSize - 2 : i + 1 \in Slots
    BY DEF Init, Slots
  <2>2. free \in Seq(Slots)
    BY <2>1
  <2>3. IsInjective(free)
    BY <2>1 DEF IsInjective
  <2>4. ASSUME NEW x \in 2..PoolSize - 1 PROVE x \in Range(free)
    <3>1. x - 1 \in 1..PoolSize - 2 /\ (x - 1) + 1 = x
      OBVIOUS
    <3>. QED BY <2>1, <3>1 DEF Range
  <2>5. Range(free) \subseteq 2..PoolSize - 1
    BY <2>1 DEF Range
  <2>6. Range(free) = 2..PoolSize - 1
    BY <2>4, <2>5
  <2>7. 0 \in Slots /\ 1 \in Slots
    BY DEF Slots
  <2>. QED BY <2>2, <2>3, <2>6, <2>7 DEF SlotOrNull
<1>2. callbacks = <<>> /\ batch = <<>> /\ Range(<<>>) = {} /\ IsInjective(<<>>)
  BY EmptyRange DEF Init
<1>3. TypeOK
  BY <1>1, <1>2 DEF Init, TypeOK, Threads
<1>4. Apart
  <2>1. /\ m_published = 0 /\ m_current = 1 /\ retired = -1 /\ wpc = "poll"
        /\ 0 \notin Range(free) /\ 1 \notin Range(free) /\ -1 \notin Range(free)
    BY <1>1 DEF Init, Null
  <2>2. Range(callbacks) = {} /\ Range(batch) = {}
    BY <1>2
  <2>3. IsInjective(callbacks) /\ IsInjective(batch)
    BY <1>2
  <2>4. {m_published, m_current, retired} \cap Range(free) = {}
    BY <2>1
  <2>. QED BY <1>1, <2>1, <2>2, <2>3, <2>4 DEF Apart, Null
<1>5. StackOK
  <2>1. Stacked = {}
    <3>1. Slots = (2..PoolSize - 1) \cup {0, 1}
      BY DEF Slots
    <3>. QED BY <1>1, <3>1 DEF Init, Stacked
  <2>. QED BY <2>1 DEF Init, StackOK
<1>6. ReadersOK
  BY DEF Init, ReadersOK
<1>. QED BY <1>3, <1>4, <1>5, <1>6 DEF IInv

LEMMA PublishKeeps ==
    ASSUME IInv, NEW v \in Payload, publish(v)
    PROVE  IInv'
<1>. USE NullIsNoSlot DEF IInv
<1>1. TypeOK'
  BY DEF TypeOK, publish, SlotOrNull, stackVars, readerVars, rcuVars
<1>2. Stacked' = Stacked
  <2>1. /\ m_published' = m_current /\ m_current' = m_current /\ retired' = m_published
        /\ retired = Null /\ free' = free /\ callbacks' = callbacks /\ batch' = batch
    BY DEF Apart, publish, rcuVars
  <2>. QED BY <2>1 DEF Stacked
<1>3. Apart'
  BY DEF TypeOK, Apart, publish, rcuVars
<1>4. StackOK'
  BY <1>2 DEF StackOK, publish, stackVars, rcuVars
<1>5. ReadersOK'
  BY DEF ReadersOK, Apart, publish, readerVars, rcuVars
<1>. QED BY <1>1, <1>3, <1>4, <1>5

LEMMA RetireKeeps ==
    ASSUME IInv, retire
    PROVE  IInv'
<1>. USE NullIsNoSlot DEF IInv
<1>1. /\ free # <<>> /\ retired \in Slots /\ retired \notin Range(callbacks)
      /\ free \in Seq(Slots) /\ callbacks \in Seq(Slots)
      /\ IsInjective(free) /\ IsInjective(callbacks)
  BY DEF retire, Apart, TypeOK, SlotOrNull
<1>2. /\ free' \in Seq(Slots) /\ IsInjective(free')
      /\ Head(free) \in Slots /\ Head(free) \in Range(free)
      /\ Range(free') = Range(free) \ {Head(free)}
  BY <1>1, TailRange DEF retire
<1>3. /\ callbacks' \in Seq(Slots) /\ IsInjective(callbacks')
      /\ Range(callbacks') = Range(callbacks) \cup {retired}
  BY <1>1, AppendRange DEF retire
<1>4. /\ m_current' = Head(free) /\ retired' = Null /\ m_published' = m_published
      /\ wpc = "retire" /\ wpc' = "pop" /\ batch' = batch
      /\ m_next' = [m_next EXCEPT ![Head(free)] = Null]
  BY DEF retire
<1>5. TypeOK'
  BY <1>2, <1>3 DEF TypeOK, retire, SlotOrNull, readerVars
<1>6. Stacked' = Stacked
  BY <1>2, <1>3, <1>4 DEF Apart, Stacked
<1>7. Apart'
  <2>1. /\ Range(free') \cap Range(callbacks') = {}
        /\ Range(free') \cap Range(batch') = {}
        /\ Range(callbacks') \cap Range(batch') = {}
    BY <1>2, <1>3, <1>4 DEF Apart
  <2>2. {m_published, Head(free)}
           \cap ((Range(free) \ {Head(free)}) \cup Range(callbacks) \cup {retired} \cup Range(batch)) = {}
    BY <1>2 DEF Apart, retire
  <2>3. Null \notin Range(free') \cup Range(callbacks') \cup Range(batch')
    BY <1>2, <1>3, <1>4, RangeType DEF TypeOK
  <2>4. {m_published', m_current', retired'}
           \cap (Range(free') \cup Range(callbacks') \cup Range(batch')) = {}
    BY <1>2, <1>3, <1>4, <2>2, <2>3
  <2>5. m_current' # m_published'
    BY <1>2, <1>4 DEF Apart
  <2>. QED BY <1>2, <1>3, <1>4, <2>1, <2>4, <2>5 DEF Apart
<1>8. StackOK'
  <2>1. \A s \in Stacked : s # Head(free)
    BY <1>2 DEF Stacked
  <2>2. \A s \in Stacked : m_next'[s] = m_next[s]
    BY <1>4, <2>1 DEF TypeOK, Stacked
  <2>3. pushing.loaded => m_next'[Head(batch)] = m_next[Head(batch)]
    <3>. SUFFICES ASSUME pushing.loaded PROVE m_next'[Head(batch)] = m_next[Head(batch)]
      OBVIOUS
    <3>1. Head(batch) \in Slots /\ Head(batch) \in Range(batch)
      BY TailRange DEF StackOK, Apart, TypeOK
    <3>. QED BY <1>2, <1>4, <3>1 DEF Apart, TypeOK
  <2>. QED BY <1>4, <1>6, <2>2, <2>3 DEF StackOK, retire
<1>9. ReadersOK'
  BY <1>3, <1>4 DEF ReadersOK, retire, readerVars
<1>. QED BY <1>5, <1>7, <1>8, <1>9

LEMMA NoNewsKeeps ==
    ASSUME IInv, no_news
    PROVE  IInv'
<1>. USE DEF IInv, no_news, stackVars, readerVars, rcuVars
<1>1. TypeOK' /\ Stacked' = Stacked
  BY DEF TypeOK, Stacked
<1>2. Apart' /\ StackOK' /\ ReadersOK'
  BY <1>1 DEF Apart, StackOK, ReadersOK
<1>. QED BY <1>1, <1>2

LEMMA PopAllKeeps ==
    ASSUME IInv, pop_all
    PROVE  IInv'
<1>. USE NullIsNoSlot DEF IInv, pop_all
<1>1. TypeOK' /\ Stacked' = Stacked
  BY DEF TypeOK, Stacked, SlotOrNull, readerVars, rcuVars
<1>2. Apart' /\ ReadersOK'
  BY DEF Apart, ReadersOK, readerVars, rcuVars
<1>3. StackOK'
  BY <1>1 DEF StackOK, rcuVars
<1>. QED BY <1>1, <1>2, <1>3

LEMMA ReleaseNextKeeps ==
    ASSUME IInv, release_next
    PROVE  IInv'
<1>. USE NullIsNoSlot DEF IInv
<1>1. /\ reclaim_i \in Stacked /\ reclaim_i \in Slots /\ free \in Seq(Slots)
      /\ reclaim_i \notin Range(free) /\ IsInjective(free)
  BY DEF release_next, StackOK, Stacked, Apart, TypeOK
<1>2. /\ free' \in Seq(Slots) /\ IsInjective(free')
      /\ Range(free') = Range(free) \cup {reclaim_i}
  BY <1>1, ConsRange DEF release_next
<1>3. /\ wpc = "walk" /\ wpc' = "walk" /\ reclaim_i' = m_next[reclaim_i]
      /\ m_published' = m_published /\ m_current' = m_current /\ retired' = retired
      /\ callbacks' = callbacks /\ batch' = batch
  BY DEF release_next, rcuVars
<1>4. TypeOK'
  BY <1>1, <1>2 DEF TypeOK, release_next, stackVars, readerVars, rcuVars
<1>5. Stacked' = Stacked \ {reclaim_i}
  BY <1>2, <1>3 DEF Stacked
<1>6. Apart'
  BY <1>1, <1>2, <1>3 DEF Apart, Stacked
<1>7. StackOK'
  <2>1. /\ m_next' = m_next /\ m_pd_reclaim_head' = m_pd_reclaim_head /\ pushing' = pushing
        /\ waiting' = waiting
    BY DEF release_next, stackVars, rcuVars
  <2>2. m_next[reclaim_i] \in Stacked \cup {Null} /\ m_next[reclaim_i] # reclaim_i
    BY <1>1, NullIsNoSlot DEF StackOK
  <2>3. \A s \in Stacked \ {reclaim_i} : m_next[s] # Null => m_next[s] # m_next[reclaim_i]
    BY <1>1 DEF StackOK
  <2>4. m_pd_reclaim_head \in (Stacked \ {reclaim_i}) \cup {Null}
    BY <1>1 DEF StackOK
  <2>. QED BY <1>1, <1>3, <1>5, <2>1, <2>2, <2>3, <2>4 DEF StackOK
<1>8. ReadersOK'
  BY <1>3 DEF ReadersOK, release_next, readerVars, rcuVars
<1>. QED BY <1>4, <1>6, <1>7, <1>8

LEMMA WalkedKeeps ==
    ASSUME IInv, walked
    PROVE  IInv'
<1>. USE DEF IInv, walked, stackVars, readerVars, rcuVars
<1>1. TypeOK' /\ Stacked' = Stacked
  BY DEF TypeOK, Stacked
<1>2. Apart' /\ StackOK' /\ ReadersOK'
  BY <1>1 DEF Apart, StackOK, ReadersOK
<1>. QED BY <1>1, <1>2

\* The writer reads no version, so that nobody loses a grace period with it.
LEMMA WriterQuiescentKeeps ==
    ASSUME IInv, writer_quiescent
    PROVE  IInv'
<1>. USE DEF IInv, writer_quiescent, stackVars, readerVars
<1>1. TypeOK' /\ Stacked' = Stacked
  BY DEF TypeOK, Stacked
<1>2. Apart' /\ StackOK'
  BY <1>1 DEF Apart, StackOK
<1>3. ReadersOK'
  BY WriterAssumption DEF ReadersOK
<1>. QED BY <1>1, <1>2, <1>3

LEMMA PollKeeps ==
    ASSUME IInv, NEW r \in Readers, poll(r)
    PROVE  IInv'
<1>. USE DEF IInv, poll, writerVars, stackVars, rcuVars
<1>1. TypeOK' /\ Stacked' = Stacked
  BY DEF TypeOK, Stacked, SlotOrNull
<1>2. Apart' /\ StackOK'
  BY <1>1 DEF Apart, StackOK
<1>3. ReadersOK'
  BY NullIsNoSlot DEF ReadersOK, TypeOK
<1>. QED BY <1>1, <1>2, <1>3

LEMMA ReadUnlockKeeps ==
    ASSUME IInv, NEW r \in Readers, read_unlock(r)
    PROVE  IInv'
<1>. USE DEF IInv, read_unlock, writerVars, stackVars, rcuVars
<1>1. TypeOK' /\ Stacked' = Stacked
  BY DEF TypeOK, Stacked, SlotOrNull
<1>2. Apart' /\ StackOK'
  BY <1>1 DEF Apart, StackOK
<1>3. ReadersOK'
  BY DEF ReadersOK, TypeOK
<1>. QED BY <1>1, <1>2, <1>3

LEMMA ReaderQuiescentKeeps ==
    ASSUME IInv, NEW r \in Readers, reader_quiescent(r)
    PROVE  IInv'
<1>. USE DEF IInv, reader_quiescent, writerVars, stackVars
<1>1. TypeOK' /\ Stacked' = Stacked
  BY DEF TypeOK, Stacked
<1>2. Apart' /\ StackOK'
  BY <1>1 DEF Apart, StackOK
<1>3. ReadersOK'
  BY DEF ReadersOK, TypeOK
<1>. QED BY <1>1, <1>2, <1>3

LEMMA GraceBeginKeeps ==
    ASSUME IInv, grace_begin
    PROVE  IInv'
<1>. USE DEF IInv, grace_begin, writerVars, stackVars, readerVars
<1>1. Range(batch) = {} /\ Range(callbacks') = {} /\ IsInjective(callbacks')
  BY EmptyRange
<1>2. TypeOK'
  BY DEF TypeOK, Threads
<1>3. Stacked' = Stacked
  BY <1>1 DEF Stacked
<1>4. Apart'
  BY <1>1 DEF Apart
<1>5. StackOK'
  BY <1>3 DEF StackOK
<1>6. ReadersOK'
  BY <1>1 DEF ReadersOK, Threads
<1>. QED BY <1>2, <1>4, <1>5, <1>6

\* What is written into the link of the batch's head concerns no stacked slot.
LEMMA BatchHead ==
    ASSUME IInv, batch # <<>>
    PROVE  /\ Head(batch) \in Slots \ Stacked /\ Head(batch) \in Range(batch)
           /\ Tail(batch) \in Seq(Slots) /\ IsInjective(Tail(batch))
           /\ Range(Tail(batch)) = Range(batch) \ {Head(batch)}
<1>1. batch \in Seq(Slots) /\ IsInjective(batch)
  BY DEF IInv, TypeOK, Apart
<1>. QED BY <1>1, TailRange DEF Stacked

LEMMA PushLoadKeeps ==
    ASSUME IInv, push_load \/ push_retry
    PROVE  IInv'
<1>. USE DEF IInv, push_load, push_retry, writerVars, readerVars
<1>1. batch # <<>> /\ waiting = {}
  BY DEF StackOK
<1>2. Head(batch) \in Slots \ Stacked
  BY <1>1, BatchHead
<1>3. TypeOK' /\ Stacked' = Stacked
  <2>1. /\ m_next' \in [Slots -> SlotOrNull] /\ m_pd_reclaim_head \in SlotOrNull
        /\ pushing' = [loaded |-> TRUE, head |-> m_pd_reclaim_head]
    BY <1>2 DEF TypeOK
  <2>. QED BY <2>1 DEF TypeOK, Stacked
<1>4. Apart' /\ ReadersOK'
  BY DEF Apart, ReadersOK
<1>5. StackOK'
  <2>1. \A s \in Stacked : m_next'[s] = m_next[s]
    BY <1>2 DEF TypeOK, Stacked
  <2>2. pushing'.loaded => m_next'[Head(batch)] = pushing'.head
    BY <1>2 DEF TypeOK
  <2>. QED BY <1>1, <1>3, <2>1, <2>2 DEF StackOK
<1>. QED BY <1>3, <1>4, <1>5

LEMMA PushCasKeeps ==
    ASSUME IInv, push_cas
    PROVE  IInv'
<1>. USE NullIsNoSlot DEF IInv
<1>1. /\ batch # <<>> /\ waiting = {} /\ m_next[Head(batch)] = m_pd_reclaim_head
      /\ m_pd_reclaim_head' = Head(batch) /\ batch' = Tail(batch)
      /\ pushing' = [loaded |-> FALSE, head |-> Null] /\ waiting' = waiting
      /\ m_next' = m_next /\ callbacks' = callbacks
      /\ UNCHANGED <<writerVars, readerVars>>
  BY DEF push_cas, StackOK
<1>2. /\ Head(batch) \in Slots \ Stacked /\ Head(batch) \in Range(batch)
      /\ batch' \in Seq(Slots) /\ IsInjective(batch')
      /\ Range(batch') = Range(batch) \ {Head(batch)}
  BY <1>1, BatchHead
<1>3. TypeOK'
  BY <1>1, <1>2 DEF TypeOK, SlotOrNull, writerVars, readerVars
<1>4. Stacked' = Stacked \cup {Head(batch)}
  BY <1>1, <1>2 DEF Stacked, Apart, writerVars
<1>5. Apart'
  BY <1>1, <1>2 DEF Apart, writerVars
<1>6. StackOK'
  <2>1. reclaim_i' = reclaim_i /\ wpc' = wpc
    BY <1>1 DEF writerVars
  <2>2. m_pd_reclaim_head \in Stacked \cup {Null} /\ m_pd_reclaim_head # Head(batch)
    BY <1>2 DEF StackOK
  <2>3. reclaim_i # Head(batch) /\ \A s \in Stacked : m_next[s] # Head(batch)
    BY <1>2 DEF StackOK
  <2>4. /\ m_pd_reclaim_head # Null => m_pd_reclaim_head # reclaim_i
        /\ \A s \in Stacked : m_next[s] # Null => m_next[s] # m_pd_reclaim_head
    BY DEF StackOK
  <2>. QED BY <1>1, <1>2, <1>4, <2>1, <2>2, <2>3, <2>4 DEF StackOK
<1>7. ReadersOK'
  BY <1>1 DEF ReadersOK, writerVars, readerVars
<1>. QED BY <1>3, <1>5, <1>6, <1>7

LEMMA StutterKeeps ==
    ASSUME IInv, UNCHANGED vars
    PROVE  IInv'
BY DEF IInv, TypeOK, Apart, StackOK, Stacked, ReadersOK, vars, writerVars,
       stackVars, readerVars, rcuVars

-----------------------------------------------------------------------------
(* For the modules that extend Reclamation: what is true of versions that     *)
(* carry a number w which only grows from one published version to the next.  *)

\* The versions that readers may have, or will get.
Live == Range(batch) \cup Range(callbacks) \cup {m_published} \cup ({retired} \ {Null})

\* Numbers grow over the callbacks, in their order, to the published version.
Ordered(b, c, ret, pub, w) ==
    /\ SortedBy(b, w) /\ SortedBy(c, w)
    /\ \A s \in Range(b), t \in Range(c) : w[s] <= w[t]
    /\ \A s \in Range(b) \cup Range(c) : ret # Null => w[s] <= w[ret]
    /\ \A s \in Range(b) \cup Range(c) \cup ({ret} \ {Null}) : w[s] <= w[pub]

InOrder(w) == Ordered(batch, callbacks, retired, m_published, w)

\* None of the reclaimed versions is ahead of one somebody may read.
Behind(w) == \A s \in Stacked, t \in Live : w[s] <= w[t]

LEMMA SlotsOfVersions ==
    ASSUME IInv
    PROVE  /\ Live \subseteq Slots /\ Stacked \subseteq Slots /\ m_published \in Live
           /\ Live \cap Stacked = {}
           /\ Range(free) \cap (Live \cup Stacked) = {}
           /\ wpc # "retire" => m_current \notin Live \cup Stacked
BY NullIsNoSlot, RangeType DEF IInv, TypeOK, Apart, Live, Stacked, SlotOrNull

LEMMA ReadVersionsAreLive ==
    ASSUME IInv, NEW r \in Readers, reading[r] # Null
    PROVE  reading[r] \in Live
BY NullIsNoSlot DEF IInv, ReadersOK, Live

LEMMA PublishedIsLast ==
    ASSUME IInv, NEW w \in [Slots -> Int], InOrder(w)
    PROVE  \A s \in Live : w[s] <= w[m_published]
<1>1. w[m_published] \in Int
  BY DEF IInv, TypeOK
<1>. QED BY <1>1 DEF InOrder, Ordered, Live

LEMMA PublishOrders ==
    ASSUME IInv, NEW v \in Payload, publish(v),
           NEW w \in [Slots -> Int], NEW u \in [Slots -> Int], InOrder(w), Behind(w),
           \A s \in Slots \ {m_current} : u[s] = w[s],
           w[m_published] <= u[m_current]
    PROVE  /\ Ordered(batch', callbacks', retired', m_published', u)
           /\ \A s \in Stacked', t \in Live' : u[s] <= u[t]
           /\ Live' = Live \cup {m_current} /\ Stacked' = Stacked
           /\ m_current \in Slots \ (Live \cup Stacked)
<1>1. /\ m_published' = m_current /\ retired' = m_published /\ wpc = "poll"
      /\ callbacks' = callbacks /\ batch' = batch /\ free' = free /\ m_current' = m_current
  BY DEF publish, rcuVars
<1>2. /\ m_current \in Slots \ (Live \cup Stacked) /\ m_published \in Live
      /\ Live \subseteq Slots /\ Stacked \subseteq Slots /\ retired = Null
      /\ m_published # Null /\ m_current # Null
  BY <1>1, SlotsOfVersions, NullIsNoSlot DEF TypeOK, IInv, Apart
<1>3. Live' = Live \cup {m_current} /\ Stacked' = Stacked
  <2>1. Live' = Live \cup {m_current}
    BY <1>1, <1>2 DEF Live
  <2>2. Stacked' = Stacked
    BY <1>1, <1>2, NullIsNoSlot DEF Stacked
  <2>. QED BY <2>1, <2>2
<1>4. /\ batch \in Seq(Slots) /\ callbacks \in Seq(Slots)
      /\ Range(batch) \subseteq Live /\ Range(callbacks) \subseteq Live
  BY DEF IInv, TypeOK, Live
<1>5. \A s \in Live \cup Stacked : u[s] = w[s] /\ w[s] \in Int
  BY <1>2
<1>6. SortedBy(batch, u) /\ SortedBy(callbacks, u)
  BY <1>4, <1>5, SortedSame DEF InOrder, Ordered
<1>7. \A s \in Live \cup Stacked : w[s] <= w[m_published]
  BY <1>2, PublishedIsLast DEF Behind
<1>8. /\ \A s \in Live : u[s] <= u[m_published]
      /\ \A s \in Live \cup Stacked : u[s] <= u[m_current]
      /\ u[m_current] \in Int
  BY <1>2, <1>5, <1>7
<1>9. Ordered(batch', callbacks', retired', m_published', u)
  <2>1. \A s \in Range(batch), t \in Range(callbacks) : u[s] <= u[t]
    BY <1>4, <1>5 DEF InOrder, Ordered
  <2>2. \A s \in Range(batch) \cup Range(callbacks) : u[s] <= u[m_published]
    BY <1>4, <1>8
  <2>3. \A s \in Range(batch) \cup Range(callbacks) \cup {m_published} : u[s] <= u[m_current]
    BY <1>2, <1>4, <1>8
  <2>. QED BY <1>1, <1>6, <2>1, <2>2, <2>3 DEF Ordered
<1>10. \A s \in Stacked', t \in Live' : u[s] <= u[t]
  BY <1>3, <1>5, <1>8 DEF Behind
<1>. QED BY <1>2, <1>3, <1>9, <1>10

\* The slot taken from the pool for the next version is no other version's.
LEMMA SlotTaken ==
    ASSUME IInv, retire
    PROVE  Head(free) \in Slots \ (Live \cup Stacked)
<1>1. free \in Seq(Slots) /\ free # <<>> /\ IsInjective(free)
  BY DEF IInv, TypeOK, Apart, retire
<1>. QED BY <1>1, TailRange, SlotsOfVersions

LEMMA RetireOrders ==
    ASSUME IInv, retire, NEW w \in [Slots -> Int], NEW u \in [Slots -> Int],
           InOrder(w), Behind(w), \A s \in Live \cup Stacked : u[s] = w[s]
    PROVE  /\ Ordered(batch', callbacks', retired', m_published', u)
           /\ \A s \in Stacked', t \in Live' : u[s] <= u[t]
           /\ Live' = Live /\ Stacked' = Stacked
<1>1. /\ m_published' = m_published /\ batch' = batch /\ retired' = Null
      /\ callbacks' = Append(callbacks, retired)
      /\ m_current' = Head(free) /\ free' = Tail(free) /\ wpc = "retire"
  BY DEF retire
<1>2. /\ free \in Seq(Slots) /\ free # <<>> /\ IsInjective(free)
      /\ callbacks \in Seq(Slots) /\ batch \in Seq(Slots)
      /\ retired \in Slots /\ retired # Null /\ m_current = m_published
  BY <1>1 DEF TypeOK, IInv, Apart, SlotOrNull
<1>3. /\ Head(free) \in Slots /\ Head(free) \in Range(free)
      /\ Range(free') = Range(free) \ {Head(free)}
      /\ Range(callbacks') = Range(callbacks) \cup {retired}
  BY <1>1, <1>2, TailRange, AppendRange
<1>4. /\ Head(free) \notin Live \cup Stacked /\ Live \subseteq Slots /\ m_published \in Live
      /\ Range(callbacks) \subseteq Live /\ Range(batch) \subseteq Live /\ retired \in Live
  BY <1>2, <1>3, SlotsOfVersions DEF Live
<1>5. Live' = Live /\ Stacked' = Stacked
  BY <1>1, <1>2, <1>3, <1>4, NullIsNoSlot DEF Live, Stacked
<1>6. SortedBy(batch, u) /\ SortedBy(callbacks, u)
  BY <1>2, <1>4, SortedSame DEF InOrder, Ordered
<1>7. \A x \in Range(batch) \cup Range(callbacks) : u[x] <= u[retired]
  BY <1>2, <1>4 DEF InOrder, Ordered
<1>8. SortedBy(callbacks', u)
  BY <1>1, <1>2, <1>6, <1>7, SortedAppend
<1>9. \A s \in Range(batch'), t \in Range(callbacks') : u[s] <= u[t]
  BY <1>1, <1>3, <1>4, <1>7 DEF InOrder, Ordered
<1>10. \A s \in Live : u[s] <= u[m_published]
  BY <1>4, PublishedIsLast
<1>11. Ordered(batch', callbacks', retired', m_published', u)
  BY <1>1, <1>3, <1>4, <1>6, <1>8, <1>9, <1>10 DEF Ordered
<1>. QED BY <1>3, <1>4, <1>5, <1>11 DEF Behind

LEMMA ReleaseOrders ==
    ASSUME IInv, release_next
    PROVE  /\ Live' = Live /\ Stacked' \subseteq Stacked /\ reclaim_i \in Stacked
           /\ UNCHANGED <<batch, callbacks, retired, m_published>>
<1>1. /\ reclaim_i \in Stacked /\ free \in Seq(Slots) /\ free' = <<reclaim_i>> \o free
      /\ UNCHANGED <<batch, callbacks, retired, m_published, m_current>>
  BY DEF IInv, StackOK, TypeOK, release_next, readerVars, rcuVars
<1>2. reclaim_i \in Slots
  BY <1>1 DEF Stacked
<1>3. Range(free') = Range(free) \cup {reclaim_i}
  BY <1>1, <1>2, ConsRange
<1>4. Stacked' \subseteq Stacked
  BY <1>1, <1>3 DEF Stacked
<1>. QED BY <1>1, <1>4 DEF Live

LEMMA GraceOrders ==
    ASSUME IInv, grace_begin, NEW w, InOrder(w)
    PROVE  /\ Ordered(batch', callbacks', retired', m_published', w)
           /\ Live' = Live /\ Stacked' = Stacked
<1>1. /\ batch = <<>> /\ batch' = callbacks /\ callbacks' = <<>>
      /\ UNCHANGED <<m_published, m_current, free, retired>>
  BY DEF grace_begin, writerVars
<1>2. Live' = Live /\ Stacked' = Stacked /\ Range(callbacks') = {} /\ Range(batch) = {}
  BY <1>1, EmptyRange DEF Live, Stacked
<1>3. SortedBy(callbacks', w)
  BY <1>1, SortedEmpty
<1>. QED BY <1>1, <1>2, <1>3 DEF InOrder, Ordered

\* The version pushed is the oldest of those not pushed before.
LEMMA PushOrders ==
    ASSUME IInv, push_cas, NEW w \in [Slots -> Int], InOrder(w), Behind(w)
    PROVE  /\ Ordered(batch', callbacks', retired', m_published', w)
           /\ \A s \in Stacked', t \in Live' : w[s] <= w[t]
           /\ Live' \subseteq Live
<1>. DEFINE h == Head(batch)
<1>1. /\ batch' = Tail(batch) /\ batch # <<>> /\ batch \in Seq(Slots)
      /\ UNCHANGED <<m_published, m_current, free, retired, callbacks>>
  BY DEF IInv, StackOK, TypeOK, push_cas, writerVars
<1>2. h \in Range(batch) /\ Range(batch') = Range(batch) \ {h}
  BY <1>1, BatchHead
<1>3. Live' \subseteq Live /\ h \in Live /\ Live \subseteq Slots /\ Stacked' \subseteq Stacked \cup {h}
  BY <1>1, <1>2, SlotsOfVersions DEF Live, Stacked
<1>4. SortedBy(batch', w) /\ \A x \in Range(batch) : w[h] <= w[x]
  BY <1>1, SortedTail DEF InOrder, Ordered
<1>5. \A t \in Live : w[h] <= w[t]
  BY <1>2, <1>4 DEF InOrder, Ordered, Live
<1>6. \A s \in Stacked', t \in Live' : w[s] <= w[t]
  BY <1>3, <1>5 DEF Behind
<1>7. Ordered(batch', callbacks', retired', m_published', w)
  BY <1>1, <1>2, <1>4 DEF InOrder, Ordered
<1>. QED BY <1>3, <1>6, <1>7

-----------------------------------------------------------------------------
(* For every pool size and set of readers the four parts of IInv hold at all  *)
(* times: types, each slot in one place, a sound stack, and no version whose  *)
(* grace period is over in a reader's hands.                                  *)
THEOREM ReclamationInvariant == Spec => []IInv
<1>1. Init => IInv
  BY InitKeeps
<1>2. IInv /\ [Next]_vars => IInv'
  <2>. SUFFICES ASSUME IInv, [Next]_vars PROVE IInv'
    OBVIOUS
  <2>1. CASE writer_step
    BY <2>1, PublishKeeps, RetireKeeps, NoNewsKeeps, PopAllKeeps,
       ReleaseNextKeeps, WalkedKeeps, WriterQuiescentKeeps DEF writer_step
  <2>2. ASSUME NEW r \in Readers, reader_step(r) PROVE IInv'
    BY <2>2, PollKeeps, ReadUnlockKeeps, ReaderQuiescentKeeps DEF reader_step
  <2>3. CASE rcu_step
    BY <2>3, GraceBeginKeeps, PushLoadKeeps, PushCasKeeps DEF rcu_step, callback
  <2>4. CASE UNCHANGED vars
    BY <2>4, StutterKeeps
  <2>. QED BY <2>1, <2>2, <2>3, <2>4 DEF Next
<1>. QED BY <1>1, <1>2, PTL DEF Spec

(* The variables keep their types: no link or slot number is ever outside the *)
(* pool, whatever is pushed, popped and reused.                               *)
THEOREM ReclamationTypeCorrect == Spec => []TypeOK
<1>1. IInv => TypeOK
  BY DEF IInv
<1>. QED BY <1>1, ReclamationInvariant, PTL

(* A version an agent polled and has not finished reading is neither back in  *)
(* the pool nor the one the feed fills next, for every number of agents and   *)
(* every pool (poll() under rcu_read_lock(), release_poll_descriptor()).      *)
THEOREM ReadersAreSafe == Spec => []NoUseAfterReclaim
<1>1. IInv => NoUseAfterReclaim
  <2>. SUFFICES ASSUME IInv, NEW r \in Readers, reading[r] # Null
                PROVE  reading[r] \notin Range(free) \cup Spare
    BY DEF NoUseAfterReclaim
  <2>1. \/ reading[r] \in {m_published, retired} \cup Range(callbacks)
        \/ reading[r] \in Range(batch)
    BY DEF IInv, ReadersOK
  <2>2. reading[r] \notin Range(free)
    BY <2>1 DEF IInv, Apart
  <2>3. reading[r] \notin Spare
    BY <2>1 DEF IInv, Apart, Spare
  <2>. QED BY <2>2, <2>3
<1>. QED BY <1>1, ReclamationInvariant, PTL

-----------------------------------------------------------------------------
(* A nonempty set of numbers has a least one. *)
LEMMA LeastNumber ==
    ASSUME NEW T \in SUBSET Nat, T # {}
    PROVE  \E x \in T : \A y \in T : x <= y
<1>. DEFINE R == {ss \in Nat \X Nat : ss[1] < ss[2]}
<1>1. IsWellFoundedOn(R, Nat)
  BY NatLessThanWellFounded DEF OpToRel
<1>. HIDE DEF R
<1>2. PICK x \in T : \A y \in T : ~ (<<y, x>> \in R)
  BY <1>1, WFMin
<1>3. ASSUME NEW y \in T PROVE x <= y
  <2>1. ~(y < x)
    BY <1>2 DEF R
  <2>. QED BY <2>1
<1>. QED BY <1>3

-----------------------------------------------------------------------------
(* The slots of q, in this order, are those that the links next lead to from s. *)
LinkedList(next, s, q) ==
    /\ q \in Seq(Slots) /\ IsInjective(q)
    /\ q = <<>> <=> s = Null
    /\ q # <<>> => q[1] = s
    /\ \A i \in 1..Len(q) : next[q[i]] = IF i < Len(q) THEN q[i + 1] ELSE Null

LEMMA ChainEmpty ==
    ASSUME NEW next PROVE LinkedList(next, Null, <<>>)
BY EmptyRange DEF LinkedList

LEMMA ChainSame ==
    ASSUME NEW next, NEW other, NEW s, NEW q, LinkedList(next, s, q),
           \A x \in Range(q) : other[x] = next[x]
    PROVE  LinkedList(other, s, q)
<1>1. \A i \in 1..Len(q) : q[i] \in Range(q)
  BY DEF LinkedList, Range
<1>. QED BY <1>1 DEF LinkedList

LEMMA ChainCons ==
    ASSUME NEW next, NEW s, NEW q, LinkedList(next, s, q),
           NEW e \in Slots, e \notin Range(q), next[e] = s
    PROVE  /\ LinkedList(next, e, <<e>> \o q)
           /\ Range(<<e>> \o q) = Range(q) \cup {e}
<1>. DEFINE c == <<e>> \o q
<1>1. /\ q \in Seq(Slots) /\ c \in Seq(Slots) /\ IsInjective(c)
      /\ Range(c) = Range(q) \cup {e}
  BY ConsRange DEF LinkedList
<1>2. /\ Len(q) \in Nat /\ Len(c) = Len(q) + 1 /\ c[1] = e
      /\ \A i \in 2..(Len(q) + 1) : c[i] = q[i - 1]
  <2>1. <<e>> \in Seq(Slots) /\ Len(<<e>>) = 1
    OBVIOUS
  <2>. QED BY <1>1, <2>1, ConcatProperties
<1>. HIDE DEF c
<1>3. c # <<>> /\ e # Null
  BY <1>1, <1>2, NullIsNoSlot, EmptySeq
<1>4. ASSUME NEW i \in 1..Len(c)
      PROVE  next[c[i]] = IF i < Len(c) THEN c[i + 1] ELSE Null
  <2>1. CASE i = 1
    <3>1. CASE q = <<>>
      <4>1. Len(q) = 0 /\ s = Null
        BY <3>1 DEF LinkedList
      <4>. QED BY <1>2, <2>1, <4>1
    <3>2. CASE q # <<>>
      <4>1. Len(q) >= 1 /\ q[1] = s
        BY <1>1, <3>2, EmptySeq DEF LinkedList
      <4>. QED BY <1>2, <2>1, <4>1
    <3>. QED BY <3>1, <3>2
  <2>2. CASE i # 1
    <3>1. i - 1 \in 1..Len(q) /\ i \in 2..(Len(q) + 1)
      BY <1>2, <2>2
    <3>2. next[q[i - 1]] = IF i - 1 < Len(q) THEN q[(i - 1) + 1] ELSE Null
      BY <3>1 DEF LinkedList
    <3>3. c[i] = q[i - 1]
      BY <1>2, <3>1
    <3>4. i < Len(c) => i + 1 \in 2..(Len(q) + 1) /\ c[i + 1] = q[(i + 1) - 1]
      BY <1>2, <3>1
    <3>. QED BY <1>2, <3>1, <3>2, <3>3, <3>4
  <2>. QED BY <2>1, <2>2
<1>. QED BY <1>1, <1>2, <1>3, <1>4 DEF LinkedList, c

LEMMA ChainTail ==
    ASSUME NEW next, NEW s, NEW q, LinkedList(next, s, q), s # Null
    PROVE  /\ LinkedList(next, next[s], Tail(q))
           /\ s \in Range(q) /\ Range(Tail(q)) = Range(q) \ {s}
<1>. DEFINE t == Tail(q)
<1>1. /\ q \in Seq(Slots) /\ q # <<>> /\ q[1] = s /\ IsInjective(q)
  BY DEF LinkedList
<1>2. /\ t \in Seq(Slots) /\ Len(q) \in Nat /\ Len(q) >= 1 /\ Len(t) = Len(q) - 1 /\ Head(q) = q[1]
      /\ \A i \in 1..(Len(q) - 1) : t[i] = q[i + 1]
  BY <1>1, HeadTailProperties, EmptySeq
<1>3. /\ IsInjective(t) /\ s \in Range(q) /\ Range(t) = Range(q) \ {s}
  BY <1>1, <1>2, TailRange
<1>. HIDE DEF t
<1>4. next[s] = IF 1 < Len(q) THEN q[2] ELSE Null
  BY <1>1, <1>2 DEF LinkedList
<1>5. t = <<>> <=> next[s] = Null
  <2>1. CASE Len(q) = 1
    BY <1>2, <1>4, <2>1, EmptySeq
  <2>2. CASE Len(q) > 1
    <3>1. q[2] \in Slots
      BY <1>1, <1>2, <2>2
    <3>2. t # <<>>
      BY <1>2, <2>2, EmptySeq
    <3>. QED BY <1>4, <2>2, <3>1, <3>2, NullIsNoSlot
  <2>. QED BY <1>2, <2>1, <2>2
<1>6. t # <<>> => t[1] = next[s]
  <2>. SUFFICES ASSUME t # <<>> PROVE t[1] = next[s]
    OBVIOUS
  <2>1. Len(t) >= 1
    BY <1>2, EmptySeq
  <2>. QED BY <1>2, <1>4, <2>1
<1>7. ASSUME NEW i \in 1..Len(t)
      PROVE  next[t[i]] = IF i < Len(t) THEN t[i + 1] ELSE Null
  <2>1. i + 1 \in 1..Len(q) /\ t[i] = q[i + 1]
    BY <1>2
  <2>2. next[q[i + 1]] = IF i + 1 < Len(q) THEN q[(i + 1) + 1] ELSE Null
    BY <2>1 DEF LinkedList
  <2>3. i < Len(t) => t[i + 1] = q[(i + 1) + 1]
    BY <1>2
  <2>. QED BY <1>2, <2>1, <2>2, <2>3
<1>. QED BY <1>2, <1>3, <1>5, <1>6, <1>7 DEF LinkedList, t

-----------------------------------------------------------------------------
(* A sequence of different slots is no longer than the pool. *)
LEMMA ChainIsShort ==
    ASSUME NEW q \in Seq(Slots), IsInjective(q)
    PROVE  Cardinality(Slots) = PoolSize /\ Len(q) <= PoolSize
<1>1. PoolSize \in Nat /\ PoolSize >= 2
  BY ReclamationAssumption
<1>2. IsFiniteSet(Slots) /\ Cardinality(Slots) = PoolSize
  BY <1>1, FS_Interval DEF Slots
<1>3. Len(q) \in Nat /\ q \in [1..Len(q) -> Slots]
  OBVIOUS
<1>4. IsFiniteSet(1..Len(q)) /\ Cardinality(1..Len(q)) = Len(q)
  BY <1>3, FS_Interval
<1>5. \A x, y \in 1..Len(q) : x # y => q[x] # q[y]
  BY <1>3 DEF IsInjective
<1>6. ~ Cardinality(Slots) < Cardinality(1..Len(q))
  BY <1>2, <1>3, <1>4, <1>5, FS_PigeonHole
<1>. QED BY <1>1, <1>2, <1>3, <1>4, <1>6

(* What follows the links one by one finds the slots of the chain. *)
LEMMA LinkedIsChain ==
    ASSUME NEW s, NEW q, LinkedList(m_next, s, q), s \in SlotOrNull
    PROVE  Linked(s) = Range(q)
<1>. DEFINE N == Cardinality(Slots)
            g == [n \in 0..N |-> IF n < Len(q) THEN q[n + 1] ELSE Null]
            Follows(f) == f = [n \in 0..N |-> IF n = 0 THEN s
                                ELSE IF f[n - 1] = Null THEN Null ELSE m_next[f[n - 1]]]
<1>1. /\ q \in Seq(Slots) /\ Len(q) \in Nat /\ N \in Nat /\ Len(q) <= N
      /\ \A i \in 1..Len(q) : q[i] # Null
  BY ChainIsShort, ReclamationAssumption, NullIsNoSlot DEF LinkedList
<1>2. ASSUME NEW n \in 0..N
      PROVE  g[n] = IF n = 0 THEN s
                    ELSE IF g[n - 1] = Null THEN Null ELSE m_next[g[n - 1]]
  <2>1. CASE n = 0
    <3>1. CASE q = <<>>
      <4>1. Len(q) = 0 /\ s = Null
        BY <3>1 DEF LinkedList
      <4>. QED BY <1>1, <2>1, <4>1
    <3>2. CASE q # <<>>
      <4>1. Len(q) >= 1 /\ q[1] = s
        BY <1>1, <3>2, EmptySeq DEF LinkedList
      <4>. QED BY <1>1, <2>1, <4>1
    <3>. QED BY <3>1, <3>2
  <2>2. CASE n # 0 /\ n - 1 < Len(q)
    <3>1. n \in 1..Len(q) /\ n - 1 \in 0..N /\ g[n - 1] = q[n]
      BY <1>1, <2>2
    <3>2. m_next[q[n]] = IF n < Len(q) THEN q[n + 1] ELSE Null
      BY <3>1 DEF LinkedList
    <3>. QED BY <1>1, <2>2, <3>1, <3>2
  <2>3. CASE n # 0 /\ ~(n - 1 < Len(q))
    <3>1. n - 1 \in 0..N /\ g[n - 1] = Null /\ g[n] = Null
      BY <1>1, <2>3
    <3>. QED BY <2>3, <3>1
  <2>. QED BY <2>1, <2>2, <2>3
<1>3. Follows(g)
  BY <1>2
<1>4. ASSUME NEW f, Follows(f) PROVE f = g
  <2>. DEFINE D == {n \in 0..N : f[n] # g[n]}
  <2>1. f = [n \in 0..N |-> f[n]] /\ g = [n \in 0..N |-> g[n]]
    BY <1>4
  <2>2. \A n \in 0..N : f[n] = IF n = 0 THEN s
                               ELSE IF f[n - 1] = Null THEN Null ELSE m_next[f[n - 1]]
    BY <1>4
  <2>. HIDE DEF g, Follows
  <2>3. D = {}
    <3>. SUFFICES ASSUME D # {} PROVE FALSE
      OBVIOUS
    <3>1. D \in SUBSET Nat
      BY <1>1
    <3>2. PICK n \in D : \A k \in D : n <= k
      BY <3>1, LeastNumber
    <3>3. n \in 0..N /\ f[n] # g[n]
      OBVIOUS
    <3>4. n # 0
      BY <1>2, <2>2, <3>3
    <3>5. n - 1 \in 0..N /\ n - 1 \notin D
      BY <1>1, <3>2, <3>3, <3>4
    <3>6. f[n - 1] = g[n - 1]
      BY <3>5
    <3>. QED BY <1>2, <2>2, <3>3, <3>4, <3>6
  <2>. QED BY <2>1, <2>3
<1>5. Linked(s) = Range(g) \ {Null}
  <2>1. Linked(s) = Range(CHOOSE f : Follows(f)) \ {Null}
    BY DEF Linked
  <2>. HIDE DEF Follows, g
  <2>. QED BY <1>3, <1>4, <2>1
<1>6. Range(g) \ {Null} = Range(q)
  <2>1. ASSUME NEW x \in Range(g), x # Null PROVE x \in Range(q)
    <3>1. PICK n \in 0..N : x = g[n]
      BY <2>1 DEF Range
    <3>2. n + 1 \in 1..Len(q) /\ x = q[n + 1]
      BY <1>1, <2>1, <3>1
    <3>. QED BY <3>2 DEF Range
  <2>2. ASSUME NEW x \in Range(q) PROVE x \in Range(g) /\ x # Null
    <3>1. PICK i \in 1..Len(q) : x = q[i]
      BY <2>2 DEF Range
    <3>2. i - 1 \in 0..N /\ g[i - 1] = q[i]
      BY <1>1, <3>1
    <3>. QED BY <1>1, <3>1, <3>2 DEF Range
  <2>. QED BY <2>1, <2>2
<1>. QED BY <1>5, <1>6

-----------------------------------------------------------------------------
(* No slot is lost: those that are nowhere else are linked from the head of   *)
(* the stack or from the slot that step() releases next.                      *)
StackHolds(next, head, next_released, S) ==
    \E h, w \in Seq(Slots) :
        /\ LinkedList(next, head, h) /\ LinkedList(next, next_released, w)
        /\ Range(h) \cap Range(w) = {} /\ Range(h) \cup Range(w) = S

NoneLost == StackHolds(m_next, m_pd_reclaim_head, reclaim_i, Stacked)

\* What changes elsewhere changes no link of a stacked slot.
LEMMA HoldsStill ==
    ASSUME NEW next, NEW other, NEW head, NEW i, NEW S, StackHolds(next, head, i, S),
           \A s \in S : other[s] = next[s]
    PROVE  StackHolds(other, head, i, S)
<1>1. PICK h \in Seq(Slots), w \in Seq(Slots) :
         /\ LinkedList(next, head, h) /\ LinkedList(next, i, w)
         /\ Range(h) \cap Range(w) = {} /\ Range(h) \cup Range(w) = S
  BY DEF StackHolds
<1>2. LinkedList(other, head, h)
  BY <1>1, ChainSame
<1>3. LinkedList(other, i, w)
  BY <1>1, ChainSame
<1>. QED BY <1>1, <1>2, <1>3 DEF StackHolds

LEMMA InitHoldsAll == Init => NoneLost
<1>. SUFFICES ASSUME Init PROVE NoneLost
  OBVIOUS
<1>1. Stacked = {}
  <2>1. ASSUME NEW s \in Slots, s # 0, s # 1 PROVE s \in Range(free)
    <3>1. /\ free = [i \in 1..PoolSize - 2 |-> i + 1] /\ PoolSize \in Nat /\ s \in 0..PoolSize - 1
      BY ReclamationAssumption DEF Init, Slots
    <3>2. s - 1 \in 1..PoolSize - 2 /\ s = (s - 1) + 1
      BY <2>1, <3>1
    <3>. QED BY <3>1, <3>2 DEF Range
  <2>. QED BY <2>1 DEF Init, Stacked
<1>2. LinkedList(m_next, Null, <<>>) /\ Range(<<>>) = {} /\ <<>> \in Seq(Slots)
  BY ChainEmpty, EmptyRange
<1>3. m_pd_reclaim_head = Null /\ reclaim_i = Null
  BY DEF Init
<1>. QED BY <1>1, <1>2, <1>3 DEF NoneLost, StackHolds

\* Steps that leave both ends of the stack alone.
LEMMA ElsewhereHolds ==
    ASSUME NoneLost, Stacked' = Stacked, \A s \in Stacked : m_next'[s] = m_next[s],
           UNCHANGED <<m_pd_reclaim_head, reclaim_i>>
    PROVE  NoneLost'
BY HoldsStill DEF NoneLost

LEMMA PopHolds ==
    ASSUME IInv, NoneLost, pop_all
    PROVE  NoneLost'
<1>1. PICK h \in Seq(Slots), w \in Seq(Slots) :
         /\ LinkedList(m_next, m_pd_reclaim_head, h) /\ LinkedList(m_next, reclaim_i, w)
         /\ Range(h) \cap Range(w) = {} /\ Range(h) \cup Range(w) = Stacked
  BY DEF NoneLost, StackHolds
<1>2. reclaim_i = Null
  BY DEF IInv, StackOK, pop_all
<1>3. w = <<>>
  BY <1>1, <1>2 DEF LinkedList
<1>4. Range(<<>>) = {} /\ LinkedList(m_next, Null, <<>>) /\ <<>> \in Seq(Slots)
  BY EmptyRange, ChainEmpty
<1>5. /\ m_next' = m_next /\ m_pd_reclaim_head' = Null /\ reclaim_i' = m_pd_reclaim_head
      /\ Stacked' = Stacked
  BY DEF pop_all, Stacked, rcuVars
<1>6. Range(<<>>) \cap Range(h) = {} /\ Range(<<>>) \cup Range(h) = Stacked
  BY <1>1, <1>3, <1>4
<1>. QED BY <1>1, <1>4, <1>5, <1>6 DEF NoneLost, StackHolds

LEMMA ReleaseHolds ==
    ASSUME IInv, NoneLost, release_next
    PROVE  NoneLost'
<1>1. PICK h \in Seq(Slots), w \in Seq(Slots) :
         /\ LinkedList(m_next, m_pd_reclaim_head, h) /\ LinkedList(m_next, reclaim_i, w)
         /\ Range(h) \cap Range(w) = {} /\ Range(h) \cup Range(w) = Stacked
  BY DEF NoneLost, StackHolds
<1>2. /\ reclaim_i # Null /\ reclaim_i' = m_next[reclaim_i] /\ m_next' = m_next
      /\ m_pd_reclaim_head' = m_pd_reclaim_head /\ free' = <<reclaim_i>> \o free
      /\ UNCHANGED <<m_published, m_current, retired, callbacks, batch>>
  BY DEF release_next, stackVars, rcuVars
<1>3. /\ LinkedList(m_next, m_next[reclaim_i], Tail(w))
      /\ reclaim_i \in Range(w) /\ Range(Tail(w)) = Range(w) \ {reclaim_i}
  BY <1>1, <1>2, ChainTail
<1>4. reclaim_i \in Slots /\ free \in Seq(Slots)
  BY <1>1, <1>3 DEF Stacked, IInv, TypeOK
<1>5. Range(free') = Range(free) \cup {reclaim_i}
  BY <1>2, <1>4, ConsRange
<1>6. Stacked' = Stacked \ {reclaim_i}
  BY <1>2, <1>5 DEF Stacked
<1>7. Tail(w) \in Seq(Slots)
  BY <1>3 DEF LinkedList
<1>8. /\ Range(h) \cap Range(Tail(w)) = {}
      /\ Range(h) \cup Range(Tail(w)) = Stacked'
  BY <1>1, <1>3, <1>6
<1>. QED BY <1>1, <1>2, <1>3, <1>7, <1>8 DEF NoneLost, StackHolds

LEMMA PushHolds ==
    ASSUME IInv, NoneLost, push_cas
    PROVE  NoneLost'
<1>1. PICK h \in Seq(Slots), w \in Seq(Slots) :
         /\ LinkedList(m_next, m_pd_reclaim_head, h) /\ LinkedList(m_next, reclaim_i, w)
         /\ Range(h) \cap Range(w) = {} /\ Range(h) \cup Range(w) = Stacked
  BY DEF NoneLost, StackHolds
<1>2. PICK e : e = Head(batch)
  OBVIOUS
<1>3. /\ batch # <<>> /\ m_next[e] = m_pd_reclaim_head
      /\ m_pd_reclaim_head' = e /\ m_next' = m_next /\ reclaim_i' = reclaim_i
      /\ batch' = Tail(batch)
      /\ UNCHANGED <<m_published, m_current, retired, callbacks, free>>
  BY <1>2 DEF push_cas, IInv, StackOK, writerVars
<1>4. /\ e \in Slots \ Stacked /\ e \in Range(batch)
      /\ Range(batch') = Range(batch) \ {e}
  BY <1>2, <1>3, BatchHead
<1>5. Stacked' = Stacked \cup {e}
  BY <1>3, <1>4 DEF Stacked, IInv, Apart
<1>6. /\ LinkedList(m_next, e, <<e>> \o h) /\ Range(<<e>> \o h) = Range(h) \cup {e}
  BY <1>1, <1>3, <1>4, ChainCons
<1>7. <<e>> \o h \in Seq(Slots)
  BY <1>6 DEF LinkedList
<1>8. /\ Range(<<e>> \o h) \cap Range(w) = {}
      /\ Range(<<e>> \o h) \cup Range(w) = Stacked'
  BY <1>1, <1>4, <1>5, <1>6
<1>. QED BY <1>1, <1>3, <1>6, <1>7, <1>8 DEF NoneLost, StackHolds

LEMMA NoneLostKept ==
    ASSUME IInv, NoneLost, [Next]_vars
    PROVE  NoneLost'
<1>1. CASE pop_all
  BY <1>1, PopHolds
<1>2. CASE release_next
  BY <1>2, ReleaseHolds
<1>3. CASE push_cas
  BY <1>3, PushHolds
<1>4. CASE push_load \/ push_retry
  <2>1. batch # <<>>
    BY <1>4 DEF push_load, push_retry, IInv, StackOK
  <2>2. /\ Head(batch) \notin Stacked /\ m_next \in [Slots -> SlotOrNull]
        /\ m_next' = [m_next EXCEPT ![Head(batch)] = m_pd_reclaim_head]
        /\ Stacked' = Stacked /\ UNCHANGED <<m_pd_reclaim_head, reclaim_i>>
    BY <1>4, <2>1, BatchHead DEF push_load, push_retry, IInv, TypeOK, Stacked, writerVars
  <2>3. \A s \in Stacked : m_next'[s] = m_next[s]
    BY <2>2 DEF Stacked
  <2>. QED BY <2>2, <2>3, ElsewhereHolds
<1>5. CASE retire
  <2>1. /\ Head(free) \notin Stacked /\ m_next' = [m_next EXCEPT ![Head(free)] = Null]
        /\ m_next \in [Slots -> SlotOrNull]
        /\ UNCHANGED <<m_pd_reclaim_head, reclaim_i>>
    BY <1>5, SlotTaken DEF retire, IInv, TypeOK
  <2>2. Stacked' = Stacked
    <3>1. /\ free # <<>> /\ free \in Seq(Slots) /\ IsInjective(free) /\ retired \in Slots
          /\ callbacks \in Seq(Slots) /\ m_current = m_published
      BY <1>5, NullIsNoSlot DEF retire, IInv, Apart, TypeOK, SlotOrNull
    <3>2. /\ Range(free') = Range(free) \ {Head(free)} /\ Head(free) \in Range(free)
          /\ Range(callbacks') = Range(callbacks) \cup {retired}
      BY <1>5, <3>1, TailRange, AppendRange DEF retire
    <3>. QED BY <1>5, <3>1, <3>2, NullIsNoSlot DEF Stacked, retire
  <2>3. \A s \in Stacked : m_next'[s] = m_next[s]
    BY <2>1 DEF Stacked
  <2>. QED BY <2>1, <2>2, <2>3, ElsewhereHolds
<1>6. ASSUME NEW v \in Payload, publish(v) PROVE NoneLost'
  <2>1. retired = Null /\ Stacked' = Stacked
    BY <1>6, NullIsNoSlot DEF publish, IInv, Apart, Stacked, rcuVars
  <2>. QED BY <1>6, <2>1, ElsewhereHolds DEF publish, stackVars
<1>7. CASE no_news \/ walked \/ writer_quiescent
  <2>1. Stacked' = Stacked /\ UNCHANGED <<m_next, m_pd_reclaim_head, reclaim_i>>
    BY <1>7 DEF no_news, walked, writer_quiescent, Stacked, stackVars, rcuVars
  <2>. QED BY <2>1, ElsewhereHolds
<1>8. ASSUME NEW r \in Readers, reader_step(r) PROVE NoneLost'
  <2>1. Stacked' = Stacked /\ UNCHANGED <<m_next, m_pd_reclaim_head, reclaim_i>>
    BY <1>8 DEF reader_step, poll, read_unlock, reader_quiescent, Stacked, writerVars, stackVars, rcuVars
  <2>. QED BY <2>1, ElsewhereHolds
<1>9. CASE grace_begin
  <2>1. UNCHANGED <<m_next, m_pd_reclaim_head, reclaim_i>>
    BY <1>9 DEF grace_begin, writerVars, stackVars
  <2>2. Stacked' = Stacked
    BY <1>9, EmptyRange DEF grace_begin, Stacked, writerVars
  <2>. QED BY <2>1, <2>2, ElsewhereHolds
<1>10. CASE UNCHANGED vars
  <2>1. Stacked' = Stacked /\ UNCHANGED <<m_next, m_pd_reclaim_head, reclaim_i>>
    BY <1>10 DEF vars, Stacked, writerVars, stackVars, rcuVars
  <2>. QED BY <2>1, ElsewhereHolds
<1>. QED BY <1>1, <1>2, <1>3, <1>4, <1>5, <1>6, <1>7, <1>8, <1>9, <1>10
     DEF Next, writer_step, rcu_step, callback

(* Each slot of the pool is in exactly one place at all times, for every pool *)
(* size and every number of readers, however the pushes of the callbacks and  *)
(* the pops of the feed interleave: none is lost and none handed over twice.  *)
THEOREM NoSlotLostNorDoubled == Spec => []SlotInOnePlace
<1>1. Init => IInv /\ NoneLost
  BY InitKeeps, InitHoldsAll
<1>2. NoneLost /\ IInv /\ [Next]_vars => NoneLost'
  BY NoneLostKept
<1>3. IInv /\ NoneLost => SlotInOnePlace
  <2>. SUFFICES ASSUME IInv, NoneLost PROVE SlotInOnePlace
    OBVIOUS
  <2>1. PICK h \in Seq(Slots), w \in Seq(Slots) :
           /\ LinkedList(m_next, m_pd_reclaim_head, h) /\ LinkedList(m_next, reclaim_i, w)
           /\ Range(h) \cap Range(w) = {} /\ Range(h) \cup Range(w) = Stacked
    BY DEF NoneLost, StackHolds
  <2>2. m_pd_reclaim_head \in SlotOrNull /\ reclaim_i \in SlotOrNull
    BY DEF IInv, TypeOK
  <2>3. Linked(m_pd_reclaim_head) = Range(h) /\ Linked(reclaim_i) = Range(w)
    BY <2>1, <2>2, LinkedIsChain
  <2>. DEFINE L == Linked(m_pd_reclaim_head)
              W == Linked(reclaim_i)
  <2>. HIDE DEF L, W
  <2>4. L \cap W = {} /\ L \cup W = Stacked
    BY <2>1, <2>3 DEF L, W
  <2>5. Places = << Range(free), {m_published}, Spare, {retired} \ {Null},
                    Range(callbacks), Range(batch), L, W >>
    BY DEF Places, L, W
  <2>6. /\ Range(free) \subseteq Slots /\ Range(callbacks) \subseteq Slots
        /\ Range(batch) \subseteq Slots /\ m_published \in Slots /\ m_current \in Slots
        /\ retired \in Slots \cup {Null}
    BY RangeType DEF IInv, TypeOK, SlotOrNull
  <2>7. UNION Range(Places) = Slots
    <3>1. UNION Range(Places) = Range(free) \cup {m_published} \cup Spare \cup ({retired} \ {Null})
                                  \cup Range(callbacks) \cup Range(batch) \cup L \cup W
      <4>1. DOMAIN Places = 1..8
        BY <2>5
      <4>2. Range(Places) = {Places[1], Places[2], Places[3], Places[4], Places[5], Places[6],
                             Places[7], Places[8]}
        BY <4>1 DEF Range
      <4>. QED BY <2>5, <4>2
    <3>2. m_current \in Spare \cup {m_published} /\ Spare \subseteq {m_current}
      BY DEF Spare, IInv, Apart
    <3>3. UNION Range(Places) = Range(free) \cup {m_published} \cup Spare \cup ({retired} \ {Null})
                                  \cup Range(callbacks) \cup Range(batch) \cup Stacked
      BY <2>4, <3>1
    <3>4. ASSUME NEW s \in Slots PROVE s \in UNION Range(Places)
      BY <3>2, <3>3, NullIsNoSlot DEF Stacked
    <3>5. UNION Range(Places) \subseteq Slots
      BY <2>6, <3>2, <3>3 DEF Stacked
    <3>. QED BY <3>4, <3>5
  <2>8. ASSUME NEW i \in DOMAIN Places, NEW j \in DOMAIN Places, i # j
        PROVE  Places[i] \cap Places[j] = {}
    <3>. DEFINE F == Range(free)
                C == Range(callbacks)
                B == Range(batch)
                R == {retired} \ {Null}
    <3>1. /\ F \cap {m_published} = {} /\ F \cap Spare = {} /\ F \cap R = {}
          /\ F \cap C = {} /\ F \cap B = {} /\ F \cap L = {} /\ F \cap W = {}
      BY <2>4 DEF IInv, Apart, Spare, Stacked
    <3>2. /\ {m_published} \cap Spare = {} /\ {m_published} \cap R = {}
          /\ {m_published} \cap C = {} /\ {m_published} \cap B = {}
          /\ {m_published} \cap L = {} /\ {m_published} \cap W = {}
      BY <2>4, <2>6, NullIsNoSlot DEF IInv, Apart, Spare, Stacked
    <3>3. /\ Spare \cap R = {} /\ Spare \cap C = {} /\ Spare \cap B = {}
          /\ Spare \cap L = {} /\ Spare \cap W = {}
      BY <2>4 DEF IInv, Apart, Spare, Stacked
    <3>4. /\ R \cap C = {} /\ R \cap B = {} /\ R \cap L = {} /\ R \cap W = {}
      BY <2>4 DEF IInv, Apart, Stacked
    <3>5. /\ C \cap B = {} /\ C \cap L = {} /\ C \cap W = {} /\ B \cap L = {} /\ B \cap W = {}
      BY <2>4 DEF IInv, Apart, Stacked
    <3>6. i \in 1..8 /\ j \in 1..8
      BY <2>5
    <3>. HIDE DEF F, C, B, R
    <3>7. Places = <<F, {m_published}, Spare, R, C, B, L, W>>
      BY <2>5 DEF F, C, B, R
    <3>8. \A m, n \in 1..8 : m < n => Places[m] \cap Places[n] = {}
      BY <2>4, <3>1, <3>2, <3>3, <3>4, <3>5, <3>7
    <3>9. i < j \/ j < i
      BY <2>8, <3>6
    <3>. QED BY <3>6, <3>8, <3>9
  <2>9. IsInjective(free) /\ IsInjective(callbacks) /\ IsInjective(batch)
    BY DEF IInv, Apart
  <2>. QED BY <2>7, <2>8, <2>9 DEF SlotInOnePlace
<1>. QED BY <1>1, <1>2, <1>3, ReclamationInvariant, PTL DEF Spec
=============================================================================
