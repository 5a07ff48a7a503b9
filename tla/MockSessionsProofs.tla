-------------------------- MODULE MockSessionsProofs --------------------------
(* Proofs about MockSessions, for any clients, requests, delays, time-outs and *)
(* number of heartbeats that wait.                                             *)
(*                                                                             *)
(* stop() leaves no connection behind: a link is only where a connection is    *)
(* accepted or a session, nothing is accepted once the listener has ended, and *)
(* the sessions are closed after that (LinksInv).                              *)
(*                                                                             *)
(* A client gets whole answers, one to each request: the units of a session    *)
(* follow each other from the last one its client got to the last one in its   *)
(* send buffer, only the answer at the head of the queue may be half-written,  *)
(* and each request of a session that serves is in one place (AnswersInv).     *)
EXTENDS MockSessions, FunctionTheorems, FiniteSetTheorems, SequenceTheorems,
        WellFoundedInduction, TLAPS

Unlinked == {"none", "gone"}

LinksTypeOK ==
    /\ place \in [Clients -> {"m_accepted", "m_sessions"} \cup Unlinked]
    /\ m_data_link \in [Clients -> BOOLEAN]

\* What each connection has in the end is gone with the place it was in.
LinksOK ==
    /\ \A s \in Clients : place[s] \in Unlinked => ~m_data_link[s]
    /\ listener # "up" => \A s \in Clients : place[s] # "m_accepted"
    /\ phase = "stopped" => /\ listener # "up"
                            /\ \A s \in Clients : place[s] # "m_sessions"

LinksInv == LinksTypeOK /\ LinksOK

-------------------------------------------------------------------------------
\* Work of a step, of clients and of the clock moves no connection and makes none.
Works ==
    /\ UNCHANGED <<place, listener>> /\ (phase' = "stopped" => phase = "stopped")
    /\ \/ m_data_link' = m_data_link
       \/ \E s \in Clients : m_data_link' = [m_data_link EXCEPT ![s] = FALSE]

\* Such work keeps what is known of links.
LEMMA WorksKeeps == ASSUME LinksInv, Works PROVE LinksInv'
<1>1. /\ m_data_link' \in [Clients -> BOOLEAN]
      /\ \A s \in Clients : m_data_link'[s] => m_data_link[s]
  BY DEF LinksInv, LinksTypeOK, Works
<1>2. place' = place /\ listener' = listener /\ (phase' = "stopped" => phase = "stopped")
  BY DEF Works
<1>. QED BY <1>1, <1>2 DEF LinksInv, LinksTypeOK, LinksOK

\* A connection is accepted with its link, by a listener that is up.
LEMMA ConnectKeeps == ASSUME LinksInv, NEW s \in Clients, connect(s) PROVE LinksInv'
<1>1. /\ place' = [place EXCEPT ![s] = "m_accepted"] /\ place[s] = "none"
      /\ m_data_link' = [m_data_link EXCEPT ![s] = TRUE]
      /\ listener = "up" /\ listener' = listener /\ phase' = phase
  BY DEF connect, server
<1>2. LinksTypeOK'
  BY <1>1 DEF LinksInv, LinksTypeOK
<1>3. \A r \in Clients : place'[r] \in Unlinked => ~m_data_link'[r]
  BY <1>1 DEF LinksInv, LinksTypeOK, LinksOK, Unlinked
<1>. QED BY <1>1, <1>2, <1>3 DEF LinksInv, LinksOK

\* Accepted connections that become sessions keep their links.
LEMMA EndStepKeeps == ASSUME LinksInv, NEW take \in BOOLEAN, end_step(take) PROVE LinksInv'
<1>1. /\ place' = [s \in Clients |-> IF take /\ place[s] = "m_accepted" THEN "m_sessions" ELSE place[s]]
      /\ m_data_link' = m_data_link /\ listener' = listener /\ phase' = "idle"
  BY DEF end_step, Taken, sess
<1>2. LinksTypeOK'
  BY <1>1 DEF LinksInv, LinksTypeOK
<1>3. \A s \in Clients : place'[s] \in Unlinked => place[s] \in Unlinked
  BY <1>1 DEF Unlinked
<1>4. \A s \in Clients : place'[s] = "m_accepted" => place[s] = "m_accepted"
  BY <1>1
<1>. QED BY <1>1, <1>2, <1>3, <1>4 DEF LinksInv, LinksOK

\* What Drop leaves: no connection of S in its place, nor its link.
LEMMA DropLeaves ==
    ASSUME LinksInv, NEW S, Drop(S)
    PROVE  /\ LinksTypeOK'
           /\ \A s \in Clients : place'[s] \in Unlinked => ~m_data_link'[s]
           /\ \A s \in Clients : place'[s] = (IF s \in S THEN "gone" ELSE place[s])
<1>1. /\ place' = [s \in Clients |-> IF s \in S THEN "gone" ELSE place[s]]
      /\ m_data_link' = [s \in Clients |-> m_data_link[s] /\ s \notin S]
  BY DEF Drop
<1>2. /\ \A s \in Clients : place'[s] = (IF s \in S THEN "gone" ELSE place[s])
      /\ \A s \in Clients : m_data_link'[s] <=> m_data_link[s] /\ s \notin S
  BY <1>1
<1>3. place' \in [Clients -> {"m_accepted", "m_sessions"} \cup Unlinked]
  BY <1>1 DEF LinksInv, LinksTypeOK, Unlinked
<1>4. m_data_link' \in [Clients -> BOOLEAN]
  BY <1>1
<1>5. ASSUME NEW s \in Clients, place'[s] \in Unlinked PROVE ~m_data_link'[s]
  BY <1>2, <1>5 DEF LinksInv, LinksOK
<1>. QED BY <1>2, <1>3, <1>4, <1>5 DEF LinksTypeOK

\* The listener ends and takes what it accepted with it.
LEMMA ListenerEndKeeps == ASSUME LinksInv, listener_end PROVE LinksInv'
<1>1. /\ Drop({s \in Clients : place[s] = "m_accepted"})
      /\ listener = "up" /\ listener' = "down" /\ phase' = phase
  BY DEF listener_end, server
<1>2. /\ LinksTypeOK'
      /\ \A s \in Clients : place'[s] \in Unlinked => ~m_data_link'[s]
      /\ \A s \in Clients : place'[s] = (IF s \in {r \in Clients : place[r] = "m_accepted"}
                                         THEN "gone" ELSE place[s])
  BY <1>1, DropLeaves
<1>. QED BY <1>1, <1>2 DEF LinksInv, LinksOK

\* The sessions are closed once the listener is down.
LEMMA StopSessionsKeeps == ASSUME LinksInv, stop_sessions PROVE LinksInv'
<1>1. /\ Drop({s \in Clients : place[s] = "m_sessions"})
      /\ listener = "down" /\ listener' = listener /\ phase' = "stopped"
  BY DEF stop_sessions
<1>2. /\ LinksTypeOK'
      /\ \A s \in Clients : place'[s] \in Unlinked => ~m_data_link'[s]
      /\ \A s \in Clients : place'[s] = (IF s \in {r \in Clients : place[r] = "m_sessions"}
                                         THEN "gone" ELSE place[s])
  BY <1>1, DropLeaves
<1>. QED BY <1>1, <1>2 DEF LinksInv, LinksOK

\* All other steps are such work.
LEMMA OthersWork ==
    ASSUME \/ \E b \in BOOLEAN : begin_step(b)
           \/ evaluate \/ stop \/ UNCHANGED msvars
           \/ \E s \in Clients : request(s) \/ disconnect(s) \/ serve(s)
    PROVE  Works
<1>1. ASSUME NEW b \in BOOLEAN, begin_step(b) PROVE Works
  BY <1>1 DEF begin_step, Works
<1>2. CASE evaluate
  <2>1. CASE evaluate_heartbeat
    BY <2>1 DEF evaluate_heartbeat, Evaluating, Rest, Works
  <2>2. CASE evaluate_first
    BY <2>2 DEF evaluate_first, ToSessions, Rest, Works
  <2>3. CASE evaluate_last
    BY <2>3 DEF evaluate_last, server, Rest, Works
  <2>4. CASE evaluate_none
    BY <2>4 DEF evaluate_none, ToSessions, Rest, Works
  <2>. QED BY <1>2, <2>1, <2>2, <2>3, <2>4 DEF evaluate
<1>3. CASE stop
  BY <1>3 DEF stop, sess, Works
<1>4. CASE UNCHANGED msvars
  BY <1>4 DEF msvars, sess, server, Works
<1>5. ASSUME NEW s \in Clients, request(s) \/ disconnect(s) PROVE Works
  BY <1>5 DEF request, disconnect, sess, server, Works
<1>6. ASSUME NEW s \in Clients, serve(s) PROVE Works
  <2>1. CASE skip_closed(s)
    BY <2>1 DEF skip_closed, sess, Works
  <2>2. CASE io_null(s)
    BY <2>2 DEF io_null, sess, Works
  <2>3. CASE io_eof(s)
    BY <2>3 DEF io_eof, Close, Works
  <2>4. ASSUME NEW ds \in DelaysOf(s), io_close(s, ds) PROVE Works
    BY <2>4 DEF io_close, Close, Works
  <2>5. ASSUME NEW ds \in DelaysOf(s), NEW rc \in 0..m_send_committed[s], NEW beat \in BOOLEAN, io(s, ds, rc, beat)
        PROVE  Works
    BY <2>5 DEF io, Works
  <2>. QED BY <1>6, <2>1, <2>2, <2>3, <2>4, <2>5 DEF serve
<1>. QED BY <1>1, <1>2, <1>3, <1>4, <1>5, <1>6

(* After stop() no connection is left, whatever clients do meanwhile: one     *)
(* accepted while stop() runs is closed by the listener when it ends, and the *)
(* sessions after it has been joined (mock_ouch_server::stop ()).             *)
THEOREM StopDisconnectsAll == SessionsSpec => []NothingConnected
<1>1. SessionsInit => LinksInv
  BY DEF SessionsInit, LinksInv, LinksTypeOK, LinksOK, Unlinked
<1>2. LinksInv /\ [SessionsNext]_msvars => LinksInv'
  BY WorksKeeps, OthersWork, ConnectKeeps, EndStepKeeps, ListenerEndKeeps, StopSessionsKeeps DEF SessionsNext
<1>3. LinksInv => NothingConnected
  BY DEF LinksInv, LinksTypeOK, LinksOK, NothingConnected, Unlinked
<1>. QED BY <1>1, <1>2, <1>3, PTL DEF SessionsSpec

-------------------------------------------------------------------------------
(* Sequences: how many of their members are in a set. *)

At(s, M) == {i \in DOMAIN s : s[i] \in M}
Count(s, M) == Cardinality(At(s, M))

\* A count is a number, and zero if no member is in the set.
LEMMA CountType ==
    ASSUME NEW T, NEW s \in Seq(T), NEW M
    PROVE  /\ IsFiniteSet(At(s, M)) /\ Count(s, M) \in Nat
           /\ Count(s, M) = 0 <=> \A i \in 1..Len(s) : s[i] \notin M
<1>1. DOMAIN s = 1..Len(s) /\ Len(s) \in Nat
  BY LenProperties
<1>2. At(s, M) \subseteq 1..Len(s) /\ IsFiniteSet(1..Len(s))
  BY <1>1, FS_Interval DEF At
<1>3. IsFiniteSet(At(s, M))
  BY <1>2, FS_Subset
<1>4. Count(s, M) \in Nat /\ (Count(s, M) = 0 <=> At(s, M) = {})
  BY <1>3, FS_CardinalityType, FS_EmptySet DEF Count
<1>5. At(s, M) = {} <=> \A i \in 1..Len(s) : s[i] \notin M
  BY <1>1 DEF At
<1>. QED
  <2>1. Count(s, M) = 0 <=> \A i \in 1..Len(s) : s[i] \notin M
    BY <1>4, <1>5
  <2>. QED BY <1>3, <1>4, <2>1

\* Sequences that agree on two sets count alike.
LEMMA CountSame ==
    ASSUME NEW s, NEW r, NEW M, NEW N, DOMAIN s = DOMAIN r,
           \A i \in DOMAIN s : s[i] \in M <=> r[i] \in N
    PROVE  Count(s, M) = Count(r, N)
<1>1. At(s, M) = At(r, N)
  BY DEF At
<1>. QED BY <1>1 DEF Count

\* The count of one member.
LEMMA CountOne ==
    ASSUME NEW e, NEW M
    PROVE  Count(<<e>>, M) = (IF e \in M THEN 1 ELSE 0)
<1>1. DOMAIN <<e>> = {1} /\ <<e>>[1] = e
  OBVIOUS
<1>2. At(<<e>>, M) = IF e \in M THEN {1} ELSE {}
  BY <1>1 DEF At
<1>3. Cardinality({1}) = 1 /\ Cardinality({}) = 0
  BY FS_EmptySet, FS_Singleton
<1>. QED BY <1>2, <1>3 DEF Count

\* Counts of parts add up.
LEMMA CountConcat ==
    ASSUME NEW T, NEW p \in Seq(T), NEW q \in Seq(T), NEW M
    PROVE  /\ p \o q \in Seq(T)
           /\ Count(p \o q, M) = Count(p, M) + Count(q, M)
<1>. DEFINE r == p \o q
            n == Len(p)
            m == Len(q)
<1>1. /\ r \in Seq(T) /\ Len(r) = n + m /\ n \in Nat /\ m \in Nat
      /\ \A i \in 1..(n + m) : r[i] = IF i <= n THEN p[i] ELSE q[i - n]
  BY ConcatProperties, LenProperties
<1>2. DOMAIN r = 1..(n + m) /\ DOMAIN p = 1..n /\ DOMAIN q = 1..m
  BY <1>1, LenProperties
<1>. DEFINE A == At(p, M)
            B == At(q, M)
            D == {i \in (n + 1)..(n + m) : r[i] \in M}
            f == [k \in B |-> n + k]
<1>. HIDE DEF r, n, m
<1>3. IsFiniteSet(A) /\ IsFiniteSet(B) /\ Cardinality(A) \in Nat /\ Cardinality(B) \in Nat
  BY CountType, FS_CardinalityType
<1>4. At(r, M) = A \cup D /\ A \cap D = {}
  BY <1>1, <1>2 DEF At
<1>5. Cardinality(D) = Cardinality(B) /\ IsFiniteSet(D)
  <2>1. \A k \in B : k \in 1..m /\ q[k] \in M
    BY <1>2 DEF At
  <2>2. \A k \in B : f[k] \in D
    BY <1>1, <2>1
  <2>3. \A i \in D : i - n \in B /\ f[i - n] = i
    <3>1. ASSUME NEW i \in D PROVE i - n \in B
      BY <1>1, <1>2 DEF At
    <3>. QED BY <1>1, <3>1
  <2>4. \A j \in B, k \in B : f[j] = f[k] => j = k
    BY <1>1, <2>1
  <2>. HIDE DEF B, D
  <2>5. f \in Bijection(B, D)
    <3>1. f \in [B -> D]
      BY <2>2
    <3>2. f \in Injection(B, D)
      BY <3>1, <2>4, Fun_IsInj
    <3>3. \A i \in D : \E k \in B : f[k] = i
      BY <2>3
    <3>4. f \in Surjection(B, D)
      BY <3>1, <3>3, Fun_IsSurj
    <3>. QED BY <3>2, <3>4 DEF Bijection
  <2>6. ExistsBijection(B, D)
    BY <2>5 DEF ExistsBijection
  <2>. QED BY <1>3, <2>6, FS_Bijection
<1>6. Cardinality(At(r, M)) = Cardinality(A) + Cardinality(B)
  <2>. HIDE DEF A, B, D
  <2>1. Cardinality(A \cup D) = Cardinality(A) + Cardinality(D) - Cardinality(A \cap D)
    BY <1>3, <1>5, FS_Union
  <2>2. Cardinality(A \cap D) = 0
    BY <1>4, FS_EmptySet
  <2>. QED BY <1>3, <1>4, <1>5, <2>1, <2>2
<1>7. r \in Seq(T) /\ Count(r, M) = Count(p, M) + Count(q, M)
  BY <1>1, <1>6 DEF Count
<1>. QED BY <1>7 DEF r

\* A sequence is its first c members and the others.
Cut(q, c, p, z) ==
    /\ p = SubSeq(q, 1, c) /\ z = SubSeq(q, c + 1, Len(q)) /\ q = p \o z
    /\ Len(p) = c /\ \A i \in 1..c : p[i] = q[i]
    /\ Len(z) = Len(q) - c /\ \A i \in 1..(Len(q) - c) : z[i] = q[c + i]

\* Any length within a sequence cuts it.
LEMMA CutSeq ==
    ASSUME NEW T, NEW q \in Seq(T), NEW c \in 0..Len(q)
    PROVE  /\ SubSeq(q, 1, c) \in Seq(T) /\ SubSeq(q, c + 1, Len(q)) \in Seq(T)
           /\ Cut(q, c, SubSeq(q, 1, c), SubSeq(q, c + 1, Len(q)))
           /\ \A M : Count(q, M) = Count(SubSeq(q, 1, c), M) + Count(SubSeq(q, c + 1, Len(q)), M)
<1>1. PICK n \in Nat : n = Len(q)
  BY LenProperties
<1>2. \A i \in 1..n : q[i] \in T
  BY <1>1, ElementOfSeq
<1>3. /\ SubSeq(q, 1, c) \in Seq(T) /\ Len(SubSeq(q, 1, c)) = c
      /\ \A i \in 1..c : SubSeq(q, 1, c)[i] = q[i]
  <2>1. \A i \in 1..c : q[i] \in T
    BY <1>1, <1>2
  <2>2. /\ SubSeq(q, 1, c) \in Seq(T) /\ Len(SubSeq(q, 1, c)) = (IF 1 <= c THEN c - 1 + 1 ELSE 0)
        /\ \A i \in 1..(c - 1 + 1) : SubSeq(q, 1, c)[i] = q[1 + i - 1]
    BY <1>1, <2>1, SubSeqProperties
  <2>. QED BY <1>1, <2>2
<1>4. /\ SubSeq(q, c + 1, n) \in Seq(T) /\ Len(SubSeq(q, c + 1, n)) = n - c
      /\ \A i \in 1..(n - c) : SubSeq(q, c + 1, n)[i] = q[c + i]
  <2>1. PICK m \in Nat : m = c + 1
    BY <1>1
  <2>2. \A i \in m..n : q[i] \in T
    BY <1>1, <1>2, <2>1
  <2>3. /\ SubSeq(q, m, n) \in Seq(T) /\ Len(SubSeq(q, m, n)) = (IF m <= n THEN n - m + 1 ELSE 0)
        /\ \A i \in 1..(n - m + 1) : SubSeq(q, m, n)[i] = q[m + i - 1]
    BY <1>1, <2>2, SubSeqProperties
  <2>. QED BY <1>1, <2>1, <2>3
<1>5. SubSeq(q, 1, c) \o SubSeq(q, c + 1, n) = q
  <2>1. 1 \in 1..(Len(q) + 1) /\ c \in (1 - 1)..Len(q) /\ n \in c..Len(q)
    BY <1>1
  <2>2. SubSeq(q, 1, c) \o SubSeq(q, c + 1, n) = SubSeq(q, 1, n)
    BY <2>1, ConcatAdjacentSubSeq
  <2>. QED BY <1>1, <2>2, SubSeqFull
<1>6. ASSUME NEW M
      PROVE  Count(q, M) = Count(SubSeq(q, 1, c), M) + Count(SubSeq(q, c + 1, n), M)
  <2>1. PICK p \in Seq(T) : p = SubSeq(q, 1, c)
    BY <1>3
  <2>2. PICK z \in Seq(T) : z = SubSeq(q, c + 1, n)
    BY <1>4
  <2>3. Count(p \o z, M) = Count(p, M) + Count(z, M)
    BY CountConcat
  <2>. QED BY <1>5, <2>1, <2>2, <2>3
<1>7. Cut(q, c, SubSeq(q, 1, c), SubSeq(q, c + 1, n))
  BY <1>1, <1>3, <1>4, <1>5 DEF Cut
<1>. QED BY <1>1, <1>3, <1>4, <1>6, <1>7

\* The sequence r is q with e behind its first c members.
Inserted(q, c, e, r) ==
    /\ Len(r) = Len(q) + 1
    /\ \A i \in 1..(Len(q) + 1) : r[i] = IF i <= c THEN q[i] ELSE IF i = c + 1 THEN e ELSE q[i - 1]
    /\ \A M : Count(r, M) = Count(q, M) + IF e \in M THEN 1 ELSE 0

\* InsertAt puts one member in, wherever that is.
LEMMA CountInsert ==
    ASSUME NEW T, NEW q \in Seq(T), NEW c \in 0..Len(q), NEW e \in T
    PROVE  \E r \in Seq(T) : r = InsertAt(q, c + 1, e) /\ Inserted(q, c, e, r)
<1>1. PICK n \in Nat : n = Len(q)
  BY LenProperties
<1>2. PICK p \in Seq(T), z \in Seq(T) :
         Cut(q, c, p, z) /\ \A M : Count(q, M) = Count(p, M) + Count(z, M)
  <2>1. PICK p \in Seq(T) : p = SubSeq(q, 1, c)
    BY CutSeq
  <2>2. PICK z \in Seq(T) : z = SubSeq(q, c + 1, Len(q))
    BY CutSeq
  <2>3. Cut(q, c, p, z) /\ \A M : Count(q, M) = Count(p, M) + Count(z, M)
    BY <2>1, <2>2, CutSeq
  <2>. QED BY <2>3
<1>3. /\ <<e>> \in Seq(T) /\ Len(<<e>>) = 1 /\ <<e>>[1] = e
  OBVIOUS
<1>4. PICK o \in Seq(T) : o = <<e>>
  BY <1>3
<1>5. PICK po \in Seq(T) : po = p \o o
  BY ConcatProperties
<1>6. Len(po) = c + 1 /\ \A i \in 1..(c + 1) : po[i] = IF i <= c THEN q[i] ELSE e
  <2>1. Len(p) = c /\ Len(o) = 1 /\ o[1] = e /\ c \in Nat /\ \A i \in 1..c : p[i] = q[i]
    <3>1. Len(p) = c /\ \A i \in 1..c : p[i] = q[i]
      BY <1>2 DEF Cut
    <3>. QED BY <1>1, <1>3, <1>4, <3>1
  <2>2. Len(po) = Len(p) + Len(o)
        /\ \A i \in 1..(Len(p) + Len(o)) : po[i] = IF i <= Len(p) THEN p[i] ELSE o[i - Len(p)]
    BY <1>5, ConcatProperties
  <2>. QED BY <2>1, <2>2
<1>7. PICK r \in Seq(T) : r = po \o z
  BY ConcatProperties
<1>8. /\ Len(r) = n + 1
      /\ \A i \in 1..(n + 1) : r[i] = IF i <= c + 1 THEN po[i] ELSE z[i - (c + 1)]
  <2>1. /\ Len(r) = Len(po) + Len(z)
        /\ \A i \in 1..(Len(po) + Len(z)) : r[i] = IF i <= Len(po) THEN po[i] ELSE z[i - Len(po)]
    BY <1>7, ConcatProperties
  <2>2. Len(po) + Len(z) = n + 1
    <3>1. Len(z) = n - c
      BY <1>1, <1>2 DEF Cut
    <3>. QED BY <1>1, <1>6, <3>1
  <2>. QED BY <1>6, <2>1, <2>2
<1>9. InsertAt(q, c + 1, e) = r
  <2>1. (c + 1) - 1 = c
    BY <1>1
  <2>. QED BY <1>1, <1>2, <1>4, <1>5, <1>7, <2>1 DEF InsertAt, Cut
<1>10. ASSUME NEW i \in 1..(n + 1)
       PROVE  r[i] = IF i <= c THEN q[i] ELSE IF i = c + 1 THEN e ELSE q[i - 1]
  <2>1. CASE i <= c + 1
    BY <1>1, <1>6, <1>8, <2>1
  <2>2. CASE i > c + 1
    <3>1. i - (c + 1) \in 1..(n - c) /\ c + (i - (c + 1)) = i - 1
      BY <1>1, <2>2
    <3>2. z[i - (c + 1)] = q[i - 1]
      BY <1>1, <1>2, <3>1 DEF Cut
    <3>. QED BY <1>1, <1>8, <2>2, <3>2
  <2>. QED BY <1>1, <2>1, <2>2
<1>11. ASSUME NEW M PROVE Count(r, M) = Count(q, M) + IF e \in M THEN 1 ELSE 0
  <2>1. Count(q, M) = Count(p, M) + Count(z, M)
    BY <1>2
  <2>2. Count(po, M) = Count(p, M) + Count(o, M)
    BY <1>5, CountConcat
  <2>3. Count(r, M) = Count(po, M) + Count(z, M)
    BY <1>7, CountConcat
  <2>4. Count(o, M) = IF e \in M THEN 1 ELSE 0
    BY <1>4, CountOne
  <2>5. Count(p, M) \in Nat /\ Count(z, M) \in Nat
    BY CountType
  <2>. QED BY <2>1, <2>2, <2>3, <2>4, <2>5
<1>12. Inserted(q, c, e, r)
  BY <1>1, <1>8, <1>10, <1>11 DEF Inserted
<1>. QED BY <1>9, <1>12

\* A sequence is its head and its tail.
LEMMA CountTail ==
    ASSUME NEW T, NEW q \in Seq(T), q # <<>>
    PROVE  /\ Tail(q) \in Seq(T) /\ Head(q) = q[1] /\ q[1] \in T /\ 1 \in 1..Len(q)
           /\ Len(Tail(q)) = Len(q) - 1 /\ \A i \in 1..(Len(q) - 1) : Tail(q)[i] = q[i + 1]
           /\ \A M : Count(q, M) = Count(Tail(q), M) + IF q[1] \in M THEN 1 ELSE 0
<1>1. Len(q) \in Nat /\ 1 \in 1..Len(q) /\ q[1] \in T /\ Head(q) = q[1]
  BY LenProperties, ElementOfSeq
<1>2. PICK z \in Seq(T) : z = Tail(q)
  BY HeadTailProperties
<1>3. Len(z) = Len(q) - 1 /\ \A i \in 1..(Len(q) - 1) : z[i] = q[i + 1]
  BY <1>1, <1>2, HeadTailProperties
<1>4. PICK p \in Seq(T) : p = <<q[1]>>
  <2>1. <<q[1]>> \in Seq(T)
    BY <1>1
  <2>. QED BY <2>1
<1>5. q = p \o z
  <2>1. Len(p) = 1 /\ p[1] = q[1]
    BY <1>4
  <2>2. /\ p \o z \in Seq(T) /\ Len(p \o z) = Len(q)
        /\ \A i \in 1..Len(q) : (p \o z)[i] = IF i <= 1 THEN p[i] ELSE z[i - 1]
    <3>1. /\ p \o z \in Seq(T) /\ Len(p \o z) = Len(p) + Len(z)
          /\ \A i \in 1..(Len(p) + Len(z)) :
                (p \o z)[i] = IF i <= Len(p) THEN p[i] ELSE z[i - Len(p)]
      BY ConcatProperties
    <3>2. Len(p) + Len(z) = Len(q)
      BY <1>1, <1>3, <2>1
    <3>. QED BY <2>1, <3>1, <3>2
  <2>3. \A i \in 1..Len(q) : (p \o z)[i] = q[i]
    BY <1>1, <1>3, <2>1, <2>2
  <2>. QED BY <2>2, <2>3, SeqEqual
<1>6. ASSUME NEW M PROVE Count(q, M) = Count(z, M) + IF q[1] \in M THEN 1 ELSE 0
  <2>1. Count(q, M) = Count(p, M) + Count(z, M)
    BY <1>5, CountConcat
  <2>2. Count(p, M) = IF q[1] \in M THEN 1 ELSE 0
    BY <1>4, CountOne
  <2>3. Count(z, M) \in Nat
    BY CountType
  <2>. QED BY <2>1, <2>2, <2>3
<1>. QED BY <1>1, <1>2, <1>3, <1>6

(* A nonempty set of numbers has a least one. *)
LEMMA LeastNumber ==
    ASSUME NEW T \in SUBSET Nat, T # {}
    PROVE  \E x \in T : \A y \in T : x <= y
<1>. DEFINE R == {ss \in Nat \X Nat : ss[1] < ss[2]}
<1>1. IsWellFoundedOn(R, Nat)
  BY NatLessThanWellFounded DEF OpToRel
<1>. HIDE DEF R
<1>2. PICK x \in T : \A y \in T : ~ (<<y, x>> \in R)
  BY <1>1, WFMin
<1>3. ASSUME NEW y \in T PROVE x <= y
  <2>1. ~(y < x)
    BY <1>2 DEF R
  <2>. QED BY <2>1
<1>. QED BY <1>3

-------------------------------------------------------------------------------
(* The queue of answers. *)

\* The events that may be queued.
Ev == [s : Clients, type : {"L", "U", "H"}, n : Int, due : Nat, step : {0, 1}]

\* Only the answer at the head may be half-written, and then it is due.
HeadOnly(q) == \A k \in 1..Len(q) : q[k].step = 1 => k = 1 /\ q[k].due = 0 /\ q[k].type # "H"
Begun(q) == Len(q) > 0 /\ q[1].step = 1

\* What is put into a queue does not get before a half-written answer.
Joined(q, r) ==
    /\ r \in Seq(Ev) /\ HeadOnly(r)
    /\ Begun(q) <=> Begun(r)
    /\ Begun(q) => r[1] = q[1]

\* Enqueue puts an event that is not begun behind one that is, and adds it.
LEMMA EnqueueJoins ==
    ASSUME NEW q \in Seq(Ev), HeadOnly(q), NEW e \in Ev, e.step = 0
    PROVE  /\ Joined(q, Enqueue(q, e))
           /\ \A M : Count(Enqueue(q, e), M) = Count(q, M) + IF e \in M THEN 1 ELSE 0
<1>1. PICK n \in Nat : n = Len(q) /\ DOMAIN q = 1..n /\ \A k \in 1..n : q[k] \in Ev
  BY LenProperties, ElementOfSeq
<1>2. PICK D : D = {k \in DOMAIN q : q[k].due <= e.due}
  OBVIOUS
<1>3. PICK c \in 0..n : c = Cardinality(D) /\ (Begun(q) => c >= 1)
  <2>1. IsFiniteSet(1..n) /\ Cardinality(1..n) = n
    <3>1. IsFiniteSet(1..n) /\ Cardinality(1..n) = (IF 1 > n THEN 0 ELSE n - 1 + 1)
      BY FS_Interval
    <3>. QED BY <3>1
  <2>2. D \subseteq 1..n
    BY <1>1, <1>2
  <2>3. IsFiniteSet(D) /\ Cardinality(D) \in Nat /\ Cardinality(D) <= n
    BY <2>1, <2>2, FS_Subset, FS_CardinalityType
  <2>4. ASSUME Begun(q) PROVE D # {}
    <3>1. 1 \in 1..n /\ q[1].due = 0 /\ e.due \in Nat
      BY <1>1, <2>4 DEF Begun, HeadOnly, Ev
    <3>. QED BY <1>1, <1>2, <3>1
  <2>5. Begun(q) => Cardinality(D) # 0
    BY <2>3, <2>4, FS_EmptySet
  <2>. QED BY <1>1, <2>3, <2>5
<1>4. PICK r \in Seq(Ev) :
         /\ r = Enqueue(q, e) /\ Len(r) = n + 1
         /\ \A i \in 1..(n + 1) : r[i] = IF i <= c THEN q[i] ELSE IF i = c + 1 THEN e ELSE q[i - 1]
         /\ \A M : Count(r, M) = Count(q, M) + IF e \in M THEN 1 ELSE 0
  <2>1. Enqueue(q, e) = InsertAt(q, c + 1, e)
    BY <1>2, <1>3 DEF Enqueue
  <2>2. PICK r \in Seq(Ev) : r = InsertAt(q, c + 1, e) /\ Inserted(q, c, e, r)
    BY <1>1, CountInsert
  <2>. QED BY <1>1, <2>1, <2>2 DEF Inserted
<1>5. HeadOnly(r)
  <2>1. ASSUME NEW i \in 1..(n + 1), r[i].step = 1
        PROVE  i = 1 /\ r[i].due = 0 /\ r[i].type # "H"
    <3>1. CASE i <= c
      BY <1>1, <1>4, <2>1, <3>1 DEF HeadOnly
    <3>2. CASE i = c + 1
      BY <1>1, <1>4, <2>1, <3>2
    <3>3. CASE i > c + 1
      <4>1. r[i] = q[i - 1] /\ i - 1 \in 1..n
        BY <1>1, <1>4, <3>3
      <4>2. i - 1 = 1
        BY <1>1, <2>1, <4>1 DEF HeadOnly
      <4>3. Begun(q)
        BY <1>1, <2>1, <4>1, <4>2 DEF Begun
      <4>. QED BY <1>3, <3>3, <4>2, <4>3
    <3>. QED BY <3>1, <3>2, <3>3
  <2>. QED BY <1>4, <2>1 DEF HeadOnly
<1>6. Begun(q) => Begun(r) /\ r[1] = q[1]
  <2>1. ASSUME Begun(q) PROVE Begun(r) /\ r[1] = q[1]
    <3>1. 1 \in 1..(n + 1) /\ 1 <= c
      BY <1>3, <2>1
    <3>2. r[1] = q[1]
      BY <1>4, <3>1
    <3>. QED BY <1>4, <2>1, <3>2 DEF Begun
  <2>. QED BY <2>1
<1>7. Begun(r) => Begun(q)
  <2>1. ASSUME Begun(r) PROVE Begun(q)
    <3>1. 1 \in 1..(n + 1) /\ r[1].step = 1
      BY <2>1 DEF Begun
    <3>2. c # 0
      BY <1>4, <3>1
    <3>3. r[1] = q[1] /\ n > 0
      BY <1>3, <1>4, <3>1, <3>2
    <3>. QED BY <1>1, <3>1, <3>3 DEF Begun
  <2>. QED BY <2>1
<1>. QED BY <1>4, <1>5, <1>6, <1>7 DEF Joined

\* The queues that answers A make of q, one after the other.
After(q, A, f, m) == f = [k \in 0..m |-> IF k = 0 THEN q ELSE Enqueue(f[k - 1], A[k])]

\* There is such a function, for any number of answers.
LEMMA AfterExists ==
    ASSUME NEW q, NEW A, NEW n \in Nat
    PROVE  \E f : After(q, A, f, n)
<1>. DEFINE T == {m \in Nat : ~ \E f : After(q, A, f, m)}
<1>1. SUFFICES ASSUME T # {} PROVE FALSE
  OBVIOUS
<1>2. PICK x \in T : \A y \in T : x <= y
  <2>1. T \in SUBSET Nat
    OBVIOUS
  <2>. HIDE DEF T
  <2>. QED BY <1>1, <2>1, LeastNumber
<1>3. x # 0
  <2>1. After(q, A, [k \in 0..0 |-> q], 0)
    BY DEF After
  <2>. QED BY <2>1
<1>4. PICK g : After(q, A, g, x - 1)
  <2>1. x - 1 \in Nat /\ ~(x <= x - 1)
    BY <1>3
  <2>2. x - 1 \notin T
    BY <1>2, <2>1
  <2>. QED BY <2>1, <2>2
<1>5. PICK e : e = Enqueue(g[x - 1], A[x])
  OBVIOUS
<1>6. PICK f : f = [k \in 0..x |-> IF k = x THEN e ELSE g[k]]
  OBVIOUS
<1>7. \A k \in 0..(x - 1) : f[k] = g[k] /\ g[k] = IF k = 0 THEN q ELSE Enqueue(g[k - 1], A[k])
  BY <1>4, <1>6 DEF After
<1>8. \A k \in 0..x : f[k] = IF k = 0 THEN q ELSE Enqueue(f[k - 1], A[k])
  <2>1. ASSUME NEW k \in 0..x, k # x PROVE f[k] = IF k = 0 THEN q ELSE Enqueue(f[k - 1], A[k])
    <3>1. k \in 0..(x - 1) /\ (k # 0 => k - 1 \in 0..(x - 1))
      BY <2>1
    <3>. QED BY <1>7, <3>1
  <2>2. f[x] = Enqueue(f[x - 1], A[x])
    <3>1. x - 1 \in 0..(x - 1) /\ x \in 0..x
      BY <1>3
    <3>2. f[x - 1] = g[x - 1] /\ f[x] = e
      BY <1>6, <1>7, <3>1
    <3>. QED BY <1>5, <3>2
  <2>. QED BY <1>3, <2>1, <2>2
<1>9. f = [k \in 0..x |-> f[k]]
  BY <1>6
<1>10. After(q, A, f, x)
  BY <1>8, <1>9 DEF After
<1>. QED BY <1>10

\* Members of r are those of q and of p.
Gathers(q, p, r) == \A M : Count(r, M) = Count(q, M) + Count(p, M)

\* The last of these queues has the members of q and of A.
LEMMA AfterJoins ==
    ASSUME NEW q \in Seq(Ev), HeadOnly(q),
           NEW A \in Seq(Ev), \A k \in 1..Len(A) : A[k].step = 0,
           NEW f, After(q, A, f, Len(A))
    PROVE  Joined(q, f[Len(A)]) /\ Gathers(q, A, f[Len(A)])
<1>1. PICK n \in Nat : n = Len(A)
  BY LenProperties
<1>. DEFINE P(k) == Joined(q, f[k]) /\ Gathers(q, SubSeq(A, 1, k), f[k])
            T == {k \in 0..n : ~ P(k)}
<1>2. P(0)
  <2>1. f[0] = q
    BY <1>1 DEF After
  <2>2. Joined(q, q)
    BY DEF Joined
  <2>3. SubSeq(A, 1, 0) = <<>>
    BY SubSeqEmpty
  <2>4. \A M : Count(q, M) \in Nat /\ Count(<<>>, M) = 0
    <3>1. \A M : Count(q, M) \in Nat
      BY CountType
    <3>2. \A M : At(<<>>, M) = {}
      BY DEF At
    <3>. QED BY <3>1, <3>2, FS_EmptySet DEF Count
  <2>5. \A M : Count(q, M) = Count(q, M) + Count(<<>>, M)
    BY <2>4
  <2>. QED BY <2>1, <2>2, <2>3, <2>5 DEF Gathers
<1>3. ASSUME NEW k \in 1..n, P(k - 1) PROVE P(k)
  <2>1. PICK r \in Seq(Ev) : r = f[k - 1] /\ HeadOnly(r) /\ Joined(q, r)
    BY <1>3 DEF Joined
  <2>2. PICK e \in Ev : e = A[k] /\ e.step = 0
    BY <1>1, ElementOfSeq
  <2>3. f[k] = Enqueue(r, e)
    BY <1>1, <2>1, <2>2 DEF After
  <2>4. PICK t : t = Enqueue(r, e) /\ Joined(r, t) /\ \A M : Count(t, M) = Count(r, M) + IF e \in M THEN 1 ELSE 0
    BY <2>1, <2>2, EnqueueJoins
  <2>5. Joined(q, t)
    BY <2>1, <2>4 DEF Joined
  <2>6. PICK a \in Seq(Ev) : a = SubSeq(A, 1, k - 1)
    <3>1. k - 1 \in 0..Len(A)
      BY <1>1
    <3>. QED BY <3>1, CutSeq
  <2>7. SubSeq(A, 1, k) = a \o <<e>>
    <3>1. 1 \in 1..Len(A) /\ k \in 1..Len(A)
      BY <1>1
    <3>. QED BY <2>2, <2>6, <3>1, SubSeqRecursiveSecond
  <2>8. PICK o \in Seq(Ev) : o = <<e>>
    <3>1. <<e>> \in Seq(Ev)
      BY <2>2
    <3>. QED BY <3>1
  <2>9. ASSUME NEW M PROVE Count(t, M) = Count(q, M) + Count(SubSeq(A, 1, k), M)
    <3>1. Count(r, M) = Count(q, M) + Count(a, M)
      BY <1>3, <2>1, <2>6 DEF Gathers
    <3>2. Count(a \o o, M) = Count(a, M) + Count(o, M)
      BY CountConcat
    <3>3. Count(o, M) = IF e \in M THEN 1 ELSE 0
      BY <2>8, CountOne
    <3>4. Count(t, M) = Count(r, M) + Count(o, M)
      BY <2>4, <3>3
    <3>5. Count(q, M) \in Nat /\ Count(a, M) \in Nat /\ Count(o, M) \in Nat
      BY CountType
    <3>6. Count(SubSeq(A, 1, k), M) = Count(a, M) + Count(o, M)
      BY <2>7, <2>8, <3>2
    <3>. QED BY <3>1, <3>4, <3>5, <3>6
  <2>. QED BY <2>3, <2>4, <2>5, <2>9 DEF Gathers
<1>. HIDE DEF P
<1>4. T = {}
  <2>1. SUFFICES ASSUME T # {} PROVE FALSE
    OBVIOUS
  <2>2. PICK x \in T : \A y \in T : x <= y
    <3>1. T \in SUBSET Nat
      OBVIOUS
    <3>. HIDE DEF T
    <3>. QED BY <2>1, <3>1, LeastNumber
  <2>3. x \in 1..n /\ x - 1 \in 0..n /\ ~(x <= x - 1)
    BY <1>2
  <2>4. P(x - 1)
    BY <2>2, <2>3
  <2>. QED BY <1>3, <2>3, <2>4
<1>5. P(n)
  BY <1>4
<1>6. SubSeq(A, 1, n) = A
  BY <1>1, SubSeqFull
<1>. QED BY <1>1, <1>5, <1>6 DEF P

\* The answers to what has arrived.
Answers(s, ds) == [k \in 1..Len(arrived[s]) |-> Answer(s, k, ds[k])]

\* So has the queue that Consumed makes.
LEMMA ConsumedJoins ==
    ASSUME NEW s \in Clients, arrived[s] \in Seq({"L", "U"}), asked[s] \in Int,
           NEW ds \in DelaysOf(s), NEW q \in Seq(Ev), HeadOnly(q)
    PROVE  /\ Answers(s, ds) \in Seq(Ev) /\ Len(Answers(s, ds)) = Len(arrived[s])
           /\ Joined(q, Consumed(s, q, ds)) /\ Gathers(q, Answers(s, ds), Consumed(s, q, ds))
<1>1. PICK n \in Nat : n = Len(arrived[s])
  BY LenProperties
<1>2. PICK A : A = Answers(s, ds)
  OBVIOUS
<1>3. ASSUME NEW k \in 1..n PROVE A[k] \in Ev /\ A[k].step = 0 /\ A[k] = Answer(s, k, ds[k])
  <2>1. arrived[s][k] \in {"L", "U"} /\ ds[k] \in Nat
    BY <1>1, ElementOfSeq, SessionsAssumption DEF DelaysOf
  <2>2. A[k] = Answer(s, k, ds[k])
    BY <1>1, <1>2 DEF Answers
  <2>3. (IF arrived[s][k] = "L" THEN 0 ELSE asked[s] - n + k) \in Int
    OBVIOUS
  <2>. QED BY <1>1, <2>1, <2>2, <2>3 DEF Answer, Event, Ev
<1>4. A \in Seq(Ev) /\ Len(A) = n
  <2>1. A = [k \in 1..n |-> A[k]]
    BY <1>1, <1>2 DEF Answers
  <2>2. A \in [1..n -> Ev]
    BY <1>3, <2>1
  <2>. QED BY <2>2
<1>5. PICK g : g = [k \in 0..n |-> IF k = 0 THEN q ELSE Enqueue(g[k - 1], Answer(s, k, ds[k]))]
               /\ Consumed(s, q, ds) = g[n]
  <2>1. PICK f : After(q, A, f, n)
    BY AfterExists
  <2>2. f = [k \in 0..n |-> IF k = 0 THEN q ELSE Enqueue(f[k - 1], Answer(s, k, ds[k]))]
    BY <1>3, <2>1 DEF After
  <2>. DEFINE E(h) == h = [k \in 0..n |-> IF k = 0 THEN q ELSE Enqueue(h[k - 1], Answer(s, k, ds[k]))]
  <2>3. E(CHOOSE h : E(h))
    <3>1. E(f)
      BY <2>2
    <3>. HIDE DEF E
    <3>. QED BY <3>1
  <2>4. Consumed(s, q, ds) = (CHOOSE h : E(h))[n]
    BY <1>1, Zenon DEF Consumed
  <2>. QED BY <2>3, <2>4
<1>6. After(q, A, g, n)
  BY <1>3, <1>5 DEF After
<1>7. Joined(q, g[n]) /\ Gathers(q, A, g[n])
  BY <1>3, <1>4, <1>6, AfterJoins
<1>. QED BY <1>1, <1>2, <1>4, <1>5, <1>7

-------------------------------------------------------------------------------
(* The units of a session: the last one the client got, then the send buffer. *)

\* Halves of answers to logins and orders, and heartbeats.
Unit == ({"L", "U"} \X Int \X {1, 2}) \cup {<<"H", 0, 2>>}

\* What units are made of.
LEMMA UnitParts ==
    /\ <<"H", 0, 2>> \in Unit
    /\ \A t \in {"L", "U"}, n \in Int, h \in {1, 2} : <<t, n, h>> \in Unit
    /\ \A u \in Unit : /\ u[3] \in {1, 2} /\ u[1] \in {"L", "U", "H"}
                       /\ u[1] = "H" => u[3] = 2
  BY DEF Unit

\* The unit v may be the next one after u; the k-th of a client's units, l being
\* the last one it got and b the buffer; and the last of them.
Follows(u, v) == IF u[3] = 1 THEN v = <<u[1], u[2], 2>> ELSE v = <<"H", 0, 2>> \/ v[3] = 1
Nth(l, b, k) == IF k = 0 THEN l ELSE b[k]
Linked(l, b) == \A k \in 1..Len(b) : Follows(Nth(l, b, k - 1), b[k])
End(l, b) == Nth(l, b, Len(b))

\* Units that follow the last one may be put behind it.
LEMMA LinkedConcat ==
    ASSUME NEW l \in Unit, NEW b \in Seq(Unit), NEW f \in Seq(Unit),
           Linked(l, b), Linked(End(l, b), f)
    PROVE  /\ b \o f \in Seq(Unit) /\ Len(b \o f) = Len(b) + Len(f)
           /\ Linked(l, b \o f) /\ End(l, b \o f) = End(End(l, b), f)
<1>1. PICK n \in Nat, m \in Nat : n = Len(b) /\ m = Len(f)
  BY LenProperties
<1>2. PICK r \in Seq(Unit) : r = b \o f
  BY ConcatProperties
<1>3. Len(r) = n + m /\ \A i \in 1..(n + m) : r[i] = IF i <= n THEN b[i] ELSE f[i - n]
  BY <1>1, <1>2, ConcatProperties
<1>4. PICK e : e = End(l, b)
  OBVIOUS
<1>5. e = IF n = 0 THEN l ELSE b[n]
  BY <1>1, <1>4 DEF End, Nth
<1>6. ASSUME NEW k \in 1..(n + m) PROVE Follows(Nth(l, r, k - 1), r[k])
  <2>1. CASE k <= n
    <3>1. Nth(l, r, k - 1) = Nth(l, b, k - 1) /\ r[k] = b[k] /\ k \in 1..n
      BY <1>3, <2>1 DEF Nth
    <3>. QED BY <1>1, <3>1 DEF Linked
  <2>2. CASE k > n
    <3>1. k - n \in 1..m /\ r[k] = f[k - n]
      BY <1>3, <2>2
    <3>2. Nth(l, r, k - 1) = Nth(e, f, k - n - 1)
      <4>1. CASE k = n + 1
        <5>1. k - 1 = n /\ k - n - 1 = 0
          BY <4>1
        <5>2. n # 0 => r[n] = b[n]
          BY <1>3
        <5>. QED BY <1>5, <5>1, <5>2 DEF Nth
      <4>2. CASE k > n + 1
        <5>1. k - 1 \in 1..(n + m) /\ k - 1 > n /\ (k - 1) - n = k - n - 1 /\ k - n - 1 # 0 /\ k - 1 # 0
          BY <4>2
        <5>2. r[k - 1] = f[k - n - 1]
          BY <1>3, <5>1
        <5>. QED BY <5>1, <5>2 DEF Nth
      <4>. QED BY <2>2, <4>1, <4>2
    <3>3. Follows(Nth(e, f, k - n - 1), f[k - n])
      BY <1>1, <1>4, <3>1 DEF Linked
    <3>. QED BY <3>1, <3>2, <3>3
  <2>. QED BY <2>1, <2>2
<1>7. Linked(l, r)
  BY <1>3, <1>6 DEF Linked
<1>8. End(l, r) = End(e, f)
  <2>1. CASE m = 0
    BY <1>1, <1>3, <1>5, <2>1 DEF End, Nth
  <2>2. CASE m # 0
    <3>1. n + m \in 1..(n + m) /\ ~(n + m <= n) /\ (n + m) - n = m /\ n + m # 0
      BY <2>2
    <3>2. r[n + m] = f[m]
      BY <1>3, <3>1
    <3>. QED BY <1>1, <1>3, <2>2, <3>1, <3>2 DEF End, Nth
  <2>. QED BY <2>1, <2>2
<1>. QED BY <1>1, <1>2, <1>3, <1>4, <1>7, <1>8

\* The units behind any one of them follow it.
LEMMA LinkedCut ==
    ASSUME NEW l \in Unit, NEW b \in Seq(Unit), NEW c \in 0..Len(b), Linked(l, b)
    PROVE  /\ Linked(Nth(l, b, c), SubSeq(b, c + 1, Len(b)))
           /\ End(Nth(l, b, c), SubSeq(b, c + 1, Len(b))) = End(l, b)
           /\ Nth(l, b, c) \in Unit
<1>1. PICK n \in Nat : n = Len(b)
  BY LenProperties
<1>2. PICK z \in Seq(Unit) : z = SubSeq(b, c + 1, Len(b))
  BY CutSeq
<1>3. Len(z) = n - c /\ \A i \in 1..(n - c) : z[i] = b[c + i]
  <2>1. Cut(b, c, SubSeq(b, 1, c), z)
    BY <1>2, CutSeq
  <2>. QED BY <1>1, <2>1 DEF Cut
<1>4. PICK d : d = Nth(l, b, c)
  OBVIOUS
<1>5. \A i \in 0..(n - c) : Nth(d, z, i) = Nth(l, b, c + i)
  BY <1>1, <1>3, <1>4 DEF Nth
<1>6. ASSUME NEW i \in 1..(n - c) PROVE Follows(Nth(d, z, i - 1), z[i])
  <2>1. i - 1 \in 0..(n - c) /\ c + i \in 1..n /\ c + (i - 1) = (c + i) - 1
    BY <1>1
  <2>2. Follows(Nth(l, b, (c + i) - 1), b[c + i])
    BY <1>1, <2>1 DEF Linked
  <2>. QED BY <1>3, <1>5, <2>1, <2>2
<1>7. Linked(d, z)
  BY <1>3, <1>6 DEF Linked
<1>8. End(d, z) = End(l, b)
  <2>1. n - c \in 0..(n - c) /\ c + (n - c) = n
    BY <1>1
  <2>. QED BY <1>1, <1>3, <1>5, <2>1 DEF End
<1>9. d \in Unit
  <2>1. c # 0 => b[c] \in Unit
    BY <1>1, ElementOfSeq
  <2>. QED BY <1>4, <2>1 DEF Nth
<1>. QED BY <1>2, <1>4, <1>7, <1>8, <1>9

\* The last unit is a unit.
LEMMA EndIsUnit ==
    ASSUME NEW l \in Unit, NEW b \in Seq(Unit)
    PROVE  End(l, b) \in Unit
<1>1. Len(b) \in Nat /\ (Len(b) # 0 => b[Len(b)] \in Unit)
  BY LenProperties, ElementOfSeq
<1>. QED BY <1>1 DEF End, Nth

-------------------------------------------------------------------------------
(* The invariant. *)

\* How many answers of each kind are queued for a session, and where its requests
\* are otherwise: not read, or answered in what may be sent.
OrderEvents(s) == {e \in Ev : e.s = s /\ e.type = "U"}
LoginEvents(s) == {e \in Ev : e.s = s /\ e.type = "L"}
BeatEvents(s) == {e \in Ev : e.s = s /\ e.type = "H"}
Lasts == {u \in Unit : u[1] = "U" /\ u[3] = 2}

NOrders(s) == Count(m_action_queue, OrderEvents(s))
NLogins(s) == Count(m_action_queue, LoginEvents(s))
NBeats(s) == Count(m_action_queue, BeatEvents(s))
Unread(s) == Count(arrived[s], {"U"})
Written(s) == Count(SubSeq(m_send_buffer[s], 1, m_send_committed[s]), Lasts)

\* An answer of this session is half-written; a session that has sent and holds nothing.
BegunFor(s) == Begun(m_action_queue) /\ m_action_queue[1].s = s
Size(s) == Len(m_send_buffer[s])
EndOf(s) == End(last[s], m_send_buffer[s])
Fresh(s) == last[s] = <<"H", 0, 2>> /\ m_send_buffer[s] = <<>> /\ m_send_committed[s] = 0

AnswersTypeOK ==
    /\ place \in [Clients -> {"none", "m_accepted", "m_sessions", "gone"}]
    /\ m_state \in [Clients -> {"login", "serving", "closing", "closed"}]
    /\ m_data_link \in [Clients -> BOOLEAN]
    /\ m_send_buffer \in [Clients -> Seq(Unit)] /\ m_send_committed \in [Clients -> Nat]
    /\ m_action_queue \in Seq(Ev)
    /\ phase \in {"idle", "queue", "io", "crashed", "join", "stopped"} /\ todo \subseteq Clients
    /\ arrived \in [Clients -> Seq({"L", "U"})]
    /\ last \in [Clients -> Unit] /\ accepted \in [Clients -> BOOLEAN]
    /\ asked \in [Clients -> Int] /\ told \in [Clients -> Int]

\* A session's units follow each other; the last one of a whole answer is there,
\* and all of them may go but it, if its answer is half-written.
BufferOK(s) ==
    /\ Linked(last[s], m_send_buffer[s])
    /\ m_send_committed[s] <= Size(s)
    /\ m_data_link[s] \/ ~Disabled(s) => EndOf(s)[3] = 2
    /\ ~Disabled(s) => m_send_committed[s] = Size(s) - (IF BegunFor(s) THEN 1 ELSE 0)
    /\ ~Disabled(s) /\ BegunFor(s) => EndOf(s)[1] = m_action_queue[1].type

\* Where the answers to a session's requests are.
AccountsOK(s) ==
    /\ ~Disabled(s) => asked[s] = Unread(s) + NOrders(s) + Written(s) + told[s]
    /\ ~accepted[s] => asked[s] = 0 /\ Unread(s) = 0 /\ NOrders(s) = 0

\* A login comes first and alone.
Knocking(s) == place[s] = "none" \/ arrived[s] = <<"L">>
KnocksOK(s) ==
    /\ (\E k \in 1..Len(arrived[s]) : arrived[s][k] = "L") => arrived[s] = <<"L">>
    /\ place[s] = "none" => arrived[s] = <<>> /\ m_state[s] = "login"
    /\ place[s] = "m_accepted" => arrived[s] = <<"L">>
    /\ NLogins(s) \in (IF Knocking(s) THEN {0} ELSE {0, 1})

\* Until it is answered the session has nothing but the answer to it.
LoginPending(s) == Knocking(s) \/ NLogins(s) # 0
LoginBegun(s) == BegunFor(s) /\ m_state[s] = "login"
LoginOK(s) == LoginPending(s) =>
    /\ ~accepted[s] /\ told[s] = 0 /\ m_state[s] \in {"login", "closed"} /\ NBeats(s) = 0
    /\ LoginBegun(s) => \/ Size(s) = 2 /\ last[s] = <<"H", 0, 2>>
                        \/ Size(s) = 1 /\ ~(phase = "io" /\ s \in todo)
    /\ ~LoginBegun(s) /\ phase # "stopped" => Fresh(s)

SessionOK(s) == BufferOK(s) /\ AccountsOK(s) /\ KnocksOK(s) /\ LoginOK(s)

QueueOK == HeadOnly(m_action_queue)
TodoOK == phase = "io" => \A s \in todo : place[s] = "m_sessions"

AnswersInv == AnswersTypeOK /\ QueueOK /\ TodoOK /\ \A s \in Clients : SessionOK(s)

-------------------------------------------------------------------------------
(* A session that a step leaves as it was. *)

Untouched(r) ==
    /\ m_state'[r] = m_state[r] /\ m_data_link'[r] = m_data_link[r]
    /\ m_send_buffer'[r] = m_send_buffer[r] /\ m_send_committed'[r] = m_send_committed[r]
    /\ last'[r] = last[r] /\ accepted'[r] = accepted[r]
    /\ asked'[r] = asked[r] /\ told'[r] = told[r] /\ arrived'[r] = arrived[r]
    /\ place[r] = "none" <=> place'[r] = "none"
    /\ place'[r] = "m_accepted" => place[r] = "m_accepted"

\* Its answers in a queue that changes from q to p.
SameAnswers(r, q, p) ==
    /\ \A M \in {OrderEvents(r), LoginEvents(r), BeatEvents(r)} : Count(p, M) = Count(q, M)
    /\ Begun(p) /\ p[1].s = r <=> Begun(q) /\ q[1].s = r
    /\ Begun(q) /\ q[1].s = r => p[1].type = q[1].type

PhaseKeeps(r) ==
    /\ phase = "stopped" => phase' = "stopped"
    /\ phase' = "io" /\ r \in todo' /\ BegunFor(r) => phase = "io" /\ r \in todo

\* Such a session keeps its part of the invariant.
LEMMA UntouchedKeeps ==
    ASSUME NEW r, SessionOK(r), Untouched(r),
           SameAnswers(r, m_action_queue, m_action_queue'), PhaseKeeps(r)
    PROVE  SessionOK(r)'
<1>1. /\ NOrders(r)' = NOrders(r) /\ NLogins(r)' = NLogins(r) /\ NBeats(r)' = NBeats(r)
      /\ BegunFor(r)' <=> BegunFor(r)
      /\ BegunFor(r) => m_action_queue'[1].type = m_action_queue[1].type
  BY DEF SameAnswers, NOrders, NLogins, NBeats, BegunFor
<1>2. /\ Unread(r)' = Unread(r) /\ Written(r)' = Written(r) /\ Size(r)' = Size(r) /\ EndOf(r)' = EndOf(r)
      /\ Disabled(r)' <=> Disabled(r)
      /\ Knocking(r)' <=> Knocking(r)
      /\ Fresh(r)' <=> Fresh(r)
      /\ LoginPending(r)' <=> LoginPending(r)
      /\ LoginBegun(r)' <=> LoginBegun(r)
  BY <1>1 DEF Untouched, Unread, Written, Size, EndOf, Disabled, Knocking, Fresh, LoginPending, LoginBegun
<1>3. BufferOK(r)'
  BY <1>1, <1>2 DEF SessionOK, BufferOK, Untouched
<1>4. AccountsOK(r)'
  BY <1>1, <1>2 DEF SessionOK, AccountsOK, Untouched
<1>5. KnocksOK(r)'
  BY <1>1, <1>2 DEF SessionOK, KnocksOK, Untouched
<1>6. LoginOK(r)'
  <2>1. SUFFICES ASSUME LoginPending(r)'
                 PROVE  /\ ~accepted'[r] /\ told'[r] = 0 /\ m_state'[r] \in {"login", "closed"} /\ NBeats(r)' = 0
                        /\ LoginBegun(r)' => \/ Size(r)' = 2 /\ last'[r] = <<"H", 0, 2>>
                                             \/ Size(r)' = 1 /\ ~(phase' = "io" /\ r \in todo')
                        /\ ~LoginBegun(r)' /\ phase' # "stopped" => Fresh(r)'
    BY DEF LoginOK
  <2>2. /\ ~accepted[r] /\ told[r] = 0 /\ m_state[r] \in {"login", "closed"} /\ NBeats(r) = 0
        /\ LoginBegun(r) => \/ Size(r) = 2 /\ last[r] = <<"H", 0, 2>>
                            \/ Size(r) = 1 /\ ~(phase = "io" /\ r \in todo)
        /\ ~LoginBegun(r) /\ phase # "stopped" => Fresh(r)
    BY <1>2, <2>1 DEF SessionOK, LoginOK
  <2>3. ~accepted'[r] /\ told'[r] = 0 /\ m_state'[r] \in {"login", "closed"} /\ NBeats(r)' = 0
    BY <1>1, <2>2 DEF Untouched
  <2>4. ASSUME LoginBegun(r)'
        PROVE  \/ Size(r)' = 2 /\ last'[r] = <<"H", 0, 2>>
               \/ Size(r)' = 1 /\ ~(phase' = "io" /\ r \in todo')
    <3>1. LoginBegun(r) /\ BegunFor(r)
      BY <1>2, <2>4 DEF LoginBegun
    <3>. QED BY <1>2, <2>2, <3>1 DEF Untouched, PhaseKeeps
  <2>5. ~LoginBegun(r)' /\ phase' # "stopped" => Fresh(r)'
    BY <1>2, <2>2 DEF PhaseKeeps
  <2>. QED BY <2>3, <2>4, <2>5
<1>. QED BY <1>3, <1>4, <1>5, <1>6 DEF SessionOK

\* Where a connection may be, and the server's thread.
Places == {"none", "m_accepted", "m_sessions", "gone"}
Phases == {"idle", "queue", "io", "crashed", "join", "stopped"}

\* A half-written answer is at the head and due.
LEMMA TheHead ==
    ASSUME AnswersInv
    PROVE  /\ Begun(m_action_queue) => m_action_queue # <<>> /\ First.step = 1 /\ First.due = 0 /\ First.type # "H"
           /\ m_action_queue # <<>> =>
                 /\ First = m_action_queue[1] /\ First \in Ev /\ 1 \in 1..Len(m_action_queue)
                 /\ First.step = 1 => Begun(m_action_queue)
<1>1. m_action_queue \in Seq(Ev) /\ HeadOnly(m_action_queue)
  BY DEF AnswersInv, AnswersTypeOK, QueueOK
<1>2. ASSUME m_action_queue # <<>>
      PROVE  /\ First = m_action_queue[1] /\ First \in Ev /\ 1 \in 1..Len(m_action_queue)
             /\ First.step = 1 => Begun(m_action_queue)
  <2>1. Head(m_action_queue) = m_action_queue[1] /\ m_action_queue[1] \in Ev /\ 1 \in 1..Len(m_action_queue)
    BY <1>1, <1>2, CountTail
  <2>. QED BY <1>1, <2>1, LenProperties DEF First, Begun
<1>3. ASSUME Begun(m_action_queue) PROVE m_action_queue # <<>>
  BY <1>1, <1>3, LenProperties DEF Begun
<1>. QED BY <1>1, <1>2, <1>3 DEF Begun, HeadOnly

\* Nothing moves but places, the phase and the sessions left to serve.
Quiet ==
    /\ UNCHANGED <<m_state, m_data_link, m_send_buffer, m_send_committed, m_action_queue,
                   arrived, client, asked>>
    /\ place' \in [Clients -> Places] /\ phase' \in Phases /\ todo' \subseteq Clients
    /\ TodoOK'
    /\ \A r \in Clients : /\ place[r] = "none" <=> place'[r] = "none"
                          /\ place'[r] = "m_accepted" => place[r] = "m_accepted"
                          /\ PhaseKeeps(r)

\* Such a step keeps the invariant.
LEMMA QuietKeeps == ASSUME AnswersInv, Quiet PROVE AnswersInv'
<1>1. AnswersTypeOK' /\ QueueOK' /\ TodoOK'
  BY DEF AnswersInv, AnswersTypeOK, QueueOK, Quiet, client, Places, Phases
<1>2. ASSUME NEW r \in Clients PROVE SessionOK(r)'
  <2>1. Untouched(r) /\ PhaseKeeps(r) /\ m_action_queue' = m_action_queue
    BY DEF Quiet, Untouched, client
  <2>2. SameAnswers(r, m_action_queue, m_action_queue')
    BY <2>1 DEF SameAnswers
  <2>. QED BY <2>1, <2>2, UntouchedKeeps DEF AnswersInv
<1>. QED BY <1>1, <1>2 DEF AnswersInv

\* These steps are quiet.
LEMMA QuietSteps ==
    ASSUME AnswersInv,
           \/ \E s \in Clients : disconnect(s) \/ skip_closed(s) \/ io_null(s)
           \/ \E b \in BOOLEAN : end_step(b)
           \/ stop \/ evaluate_none \/ UNCHANGED msvars
    PROVE  Quiet
<1>1. /\ place \in [Clients -> Places] /\ phase \in Phases /\ todo \subseteq Clients /\ TodoOK
      /\ phase = "queue" /\ Begun(m_action_queue) => Evaluating
  <2>1. phase = "queue" /\ Begun(m_action_queue) => Evaluating
    BY TheHead DEF Evaluating
  <2>. QED BY <2>1 DEF AnswersInv, AnswersTypeOK, Places, Phases
<1>2. ASSUME NEW s \in Clients, disconnect(s) PROVE Quiet
  BY <1>1, <1>2 DEF disconnect, sess, server, Quiet, PhaseKeeps, TodoOK
<1>3. ASSUME NEW s \in Clients, skip_closed(s) PROVE Quiet
  BY <1>1, <1>3 DEF skip_closed, Serving, sess, Quiet, PhaseKeeps, TodoOK
<1>4. ASSUME NEW s \in Clients, io_null(s) PROVE Quiet
  BY <1>1, <1>4 DEF io_null, Serving, sess, Quiet, PhaseKeeps, TodoOK, Phases
<1>5. ASSUME NEW b \in BOOLEAN, end_step(b) PROVE Quiet
  <2>1. /\ UNCHANGED <<sess, m_action_queue, todo, arrived, client, asked>>
        /\ place' = [s \in Clients |-> IF b /\ place[s] = "m_accepted" THEN "m_sessions" ELSE place[s]]
        /\ phase = "io" /\ phase' = "idle"
    BY <1>5 DEF end_step, Taken
  <2>2. /\ place' \in [Clients -> Places]
        /\ \A r \in Clients : /\ place[r] = "none" <=> place'[r] = "none"
                              /\ place'[r] = "m_accepted" => place[r] = "m_accepted"
    BY <1>1, <2>1 DEF Places
  <2>. QED BY <1>1, <2>1, <2>2 DEF sess, Quiet, PhaseKeeps, TodoOK, Phases
<1>6. CASE stop
  BY <1>1, <1>6 DEF stop, sess, Quiet, PhaseKeeps, TodoOK, Phases
<1>7. CASE evaluate_none
  <2>1. ~Begun(m_action_queue)
    BY <1>1, <1>7 DEF evaluate_none
  <2>. QED BY <1>1, <1>7, <2>1
           DEF evaluate_none, ToSessions, Rest, client, Quiet, PhaseKeeps, TodoOK, Phases, BegunFor
<1>8. CASE UNCHANGED msvars
  BY <1>1, <1>8 DEF msvars, sess, server, Quiet, PhaseKeeps, TodoOK
<1>. QED BY <1>2, <1>3, <1>4, <1>5, <1>6, <1>7, <1>8

\* An event whose time changes is otherwise the same.
LEMMA EventDue ==
    ASSUME NEW e \in Ev, NEW d \in Nat
    PROVE  /\ [e EXCEPT !.due = d] \in Ev /\ [e EXCEPT !.due = d].s = e.s
           /\ [e EXCEPT !.due = d].type = e.type /\ [e EXCEPT !.due = d].due = d
           /\ [e EXCEPT !.due = d].step = e.step
  BY DEF Ev

\* The events of a queue get closer.
Closer(q) == [k \in DOMAIN q |-> [q[k] EXCEPT !.due = IF @ > 0 THEN @ - 1 ELSE 0]]

\* Events that get closer are otherwise the same.
LEMMA CloserAlike ==
    ASSUME NEW q \in Seq(Ev)
    PROVE  /\ Closer(q) \in Seq(Ev) /\ Len(Closer(q)) = Len(q)
           /\ \A k \in 1..Len(q) : /\ Closer(q)[k] \in Ev
                                   /\ Closer(q)[k].s = q[k].s /\ Closer(q)[k].type = q[k].type
                                   /\ Closer(q)[k].step = q[k].step
                                   /\ q[k].due = 0 => Closer(q)[k].due = 0
<1>1. PICK n \in Nat : n = Len(q) /\ DOMAIN q = 1..n /\ \A k \in 1..n : q[k] \in Ev
  BY LenProperties, ElementOfSeq
<1>2. ASSUME NEW k \in 1..n
      PROVE  /\ Closer(q)[k] \in Ev
             /\ Closer(q)[k].s = q[k].s /\ Closer(q)[k].type = q[k].type
             /\ Closer(q)[k].step = q[k].step
             /\ q[k].due = 0 => Closer(q)[k].due = 0
  <2>1. PICK e \in Ev : e = q[k]
    BY <1>1
  <2>2. PICK d \in Nat : d = (IF e.due > 0 THEN e.due - 1 ELSE 0)
    BY <2>1 DEF Ev
  <2>3. Closer(q)[k] = [e EXCEPT !.due = d] /\ (e.due = 0 => d = 0)
    BY <1>1, <2>1, <2>2 DEF Closer
  <2>. QED BY <2>1, <2>3, EventDue
<1>3. Closer(q) \in [1..n -> Ev]
  BY <1>1, <1>2 DEF Closer
<1>4. Closer(q) \in Seq(Ev) /\ Len(Closer(q)) = n
  BY <1>3
<1>. QED BY <1>1, <1>2, <1>4

\* A step begins: time passes, and nothing is added or lost.
LEMMA BeginStepKeeps == ASSUME AnswersInv, NEW b \in BOOLEAN, begin_step(b) PROVE AnswersInv'
<1>1. /\ phase = "idle" /\ phase' = "queue"
      /\ UNCHANGED <<place, m_state, m_data_link, m_send_buffer, m_send_committed, todo, arrived, client, asked>>
      /\ \/ m_action_queue' = m_action_queue
         \/ m_action_queue' = Closer(m_action_queue)
  BY DEF begin_step, Closer
<1>2. PICK q \in Seq(Ev) : q = m_action_queue /\ HeadOnly(q)
  BY DEF AnswersInv, AnswersTypeOK, QueueOK
<1>3. PICK p \in Seq(Ev) : p = m_action_queue'
  BY <1>1, <1>2, CloserAlike
<1>4. /\ Len(p) = Len(q)
      /\ \A k \in 1..Len(q) : /\ p[k].s = q[k].s /\ p[k].type = q[k].type /\ p[k].step = q[k].step
                              /\ q[k].due = 0 => p[k].due = 0
  <2>1. CASE p = q
    BY <2>1
  <2>2. CASE p = Closer(q)
    BY <2>2, CloserAlike
  <2>. QED BY <1>1, <1>2, <1>3, <2>1, <2>2
<1>5. HeadOnly(p) /\ (Begun(p) <=> Begun(q)) /\ (Begun(q) => p[1].s = q[1].s /\ p[1].type = q[1].type)
  <2>1. Len(q) \in Nat /\ (Len(q) > 0 => 1 \in 1..Len(q))
    BY LenProperties
  <2>2. HeadOnly(p)
    <3>1. ASSUME NEW k \in 1..Len(q), p[k].step = 1 PROVE k = 1 /\ p[k].due = 0 /\ p[k].type # "H"
      <4>1. q[k].step = 1
        BY <1>4, <3>1
      <4>2. k = 1 /\ q[k].due = 0 /\ q[k].type # "H"
        BY <1>2, <4>1 DEF HeadOnly
      <4>. QED BY <1>4, <4>2
    <3>. QED BY <1>4, <3>1 DEF HeadOnly
  <2>. QED BY <1>4, <2>1, <2>2 DEF Begun
<1>6. AnswersTypeOK' /\ QueueOK' /\ TodoOK'
  BY <1>1, <1>3, <1>4, <1>5 DEF AnswersInv, AnswersTypeOK, QueueOK, TodoOK, client
<1>7. ASSUME NEW r \in Clients PROVE SessionOK(r)'
  <2>1. Untouched(r) /\ PhaseKeeps(r)
    BY <1>1 DEF Untouched, PhaseKeeps, client
  <2>2. ASSUME NEW M \in {OrderEvents(r), LoginEvents(r), BeatEvents(r)} PROVE Count(p, M) = Count(q, M)
    <3>1. ASSUME NEW k \in 1..Len(q) PROVE p[k] \in M <=> q[k] \in M
      <4>1. q[k] \in Ev /\ p[k] \in Ev /\ p[k].s = q[k].s /\ p[k].type = q[k].type
        BY <1>4, ElementOfSeq
      <4>2. PICK t \in {"U", "L", "H"} : M = {e \in Ev : e.s = r /\ e.type = t}
        BY <2>2 DEF OrderEvents, LoginEvents, BeatEvents
      <4>. QED BY <4>1, <4>2
    <3>2. DOMAIN p = 1..Len(q) /\ DOMAIN q = 1..Len(q)
      BY <1>4, LenProperties
    <3>. QED BY <3>1, <3>2, CountSame
  <2>3. SameAnswers(r, q, p)
    BY <1>5, <2>2 DEF SameAnswers
  <2>. QED BY <1>2, <1>3, <2>1, <2>3, UntouchedKeeps DEF AnswersInv
<1>. QED BY <1>6, <1>7 DEF AnswersInv

-------------------------------------------------------------------------------
(* Steps of a client. *)

\* Nothing of a session is in the queue.
LEMMA NothingQueued ==
    ASSUME AnswersInv, NEW s \in Clients, NOrders(s) = 0, NLogins(s) = 0, NBeats(s) = 0
    PROVE  ~BegunFor(s)
<1>1. SUFFICES ASSUME BegunFor(s) PROVE FALSE
  OBVIOUS
<1>2. PICK e \in Ev : e = m_action_queue[1] /\ e.s = s /\ 1 \in 1..Len(m_action_queue)
  BY <1>1, TheHead DEF BegunFor
<1>3. e.type \in {"L", "U", "H"}
  BY <1>2 DEF Ev
<1>4. e \in OrderEvents(s) \/ e \in LoginEvents(s) \/ e \in BeatEvents(s)
  BY <1>2, <1>3 DEF OrderEvents, LoginEvents, BeatEvents
<1>5. m_action_queue \in Seq(Ev)
  BY DEF AnswersInv, AnswersTypeOK
<1>6. \A M : Count(m_action_queue, M) = 0 => e \notin M
  BY <1>2, <1>5, CountType
<1>. QED BY <1>4, <1>6 DEF NOrders, NLogins, NBeats

\* A sequence of one request.
LEMMA CountOf ==
    ASSUME NEW t \in {"L", "U"}
    PROVE  /\ <<t>> \in Seq({"L", "U"}) /\ Len(<<t>>) = 1 /\ <<t>>[1] = t
           /\ Count(<<t>>, {"U"}) = (IF t = "U" THEN 1 ELSE 0)
<1>1. <<t>> \in Seq({"L", "U"}) /\ Len(<<t>>) = 1 /\ <<t>>[1] = t
  OBVIOUS
<1>2. t \in {"U"} <=> t = "U"
  OBVIOUS
<1>. QED BY <1>1, <1>2, CountOne

\* The types of what the accounts speak of.
LEMMA CountTypes ==
    ASSUME AnswersInv, NEW s \in Clients
    PROVE  /\ NOrders(s) \in Nat /\ NLogins(s) \in Nat /\ NBeats(s) \in Nat
           /\ Unread(s) \in Nat /\ Written(s) \in Nat /\ asked[s] \in Int /\ told[s] \in Int
           /\ m_send_buffer[s] \in Seq(Unit) /\ m_send_committed[s] \in 0..Len(m_send_buffer[s])
           /\ last[s] \in Unit /\ SessionOK(s)
<1>1. /\ m_action_queue \in Seq(Ev) /\ arrived[s] \in Seq({"L", "U"}) /\ m_send_buffer[s] \in Seq(Unit)
      /\ asked[s] \in Int /\ told[s] \in Int /\ last[s] \in Unit /\ m_send_committed[s] \in Nat
      /\ SessionOK(s)
  BY DEF AnswersInv, AnswersTypeOK
<1>2. m_send_committed[s] \in 0..Len(m_send_buffer[s])
  BY <1>1, LenProperties DEF SessionOK, BufferOK, Size
<1>3. PICK z \in Seq(Unit) : z = SubSeq(m_send_buffer[s], 1, m_send_committed[s])
  BY <1>1, <1>2, CutSeq
<1>4. Written(s) \in Nat
  BY <1>3, CountType DEF Written
<1>5. NOrders(s) \in Nat /\ NLogins(s) \in Nat /\ NBeats(s) \in Nat /\ Unread(s) \in Nat
  BY <1>1, CountType DEF NOrders, NLogins, NBeats, Unread
<1>. QED BY <1>1, <1>2, <1>4, <1>5

\* A new client has one request, its login.
LEMMA ConnectAnswers == ASSUME AnswersInv, LinksInv, NEW s \in Clients, connect(s) PROVE AnswersInv'
<1>1. /\ place[s] = "none" /\ listener = "up" /\ place' = [place EXCEPT ![s] = "m_accepted"]
      /\ m_data_link' = [m_data_link EXCEPT ![s] = TRUE]
      /\ arrived' = [arrived EXCEPT ![s] = <<"L">>]
      /\ UNCHANGED <<m_state, m_send_buffer, m_send_committed, m_action_queue, phase, todo,
                     last, accepted, told, asked>>
  BY DEF connect, server, client
<1>2. AnswersTypeOK' /\ QueueOK' /\ TodoOK'
  <2>1. <<"L">> \in Seq({"L", "U"})
    BY CountOf
  <2>2. phase = "io" => s \notin todo
    BY <1>1 DEF AnswersInv, TodoOK
  <2>3. TodoOK'
    BY <1>1, <2>2 DEF AnswersInv, AnswersTypeOK, TodoOK
  <2>4. AnswersTypeOK'
    BY <1>1, <2>1 DEF AnswersInv, AnswersTypeOK
  <2>. QED BY <1>1, <2>3, <2>4 DEF AnswersInv, QueueOK
<1>3. ASSUME NEW r \in Clients, r # s PROVE SessionOK(r)'
  <2>1. Untouched(r) /\ PhaseKeeps(r) /\ SameAnswers(r, m_action_queue, m_action_queue')
    BY <1>1, <1>3 DEF Untouched, PhaseKeeps, SameAnswers, AnswersInv, AnswersTypeOK
  <2>. QED BY <2>1, UntouchedKeeps DEF AnswersInv
<1>4. /\ SessionOK(s) /\ Knocking(s) /\ LoginPending(s) /\ phase # "stopped"
  BY <1>1 DEF AnswersInv, LinksInv, LinksOK, Knocking, LoginPending
<1>5. /\ NLogins(s) = 0 /\ NBeats(s) = 0 /\ ~accepted[s] /\ told[s] = 0 /\ m_state[s] = "login"
      /\ asked[s] = 0 /\ NOrders(s) = 0
  BY <1>1, <1>4 DEF SessionOK, KnocksOK, LoginOK, AccountsOK
<1>6. ~BegunFor(s)
  BY <1>5, NothingQueued
<1>7. Fresh(s)
  BY <1>4, <1>6 DEF SessionOK, LoginOK, LoginBegun
<1>8. /\ NLogins(s)' = 0 /\ NBeats(s)' = 0 /\ NOrders(s)' = 0 /\ ~BegunFor(s)' /\ Fresh(s)'
      /\ Written(s)' = Written(s) /\ Size(s)' = Size(s) /\ EndOf(s)' = EndOf(s)
      /\ ~accepted'[s] /\ told'[s] = 0 /\ m_state'[s] = "login" /\ asked'[s] = 0
      /\ arrived'[s] = <<"L">> /\ place'[s] = "m_accepted"
  BY <1>1, <1>5, <1>6, <1>7
     DEF NLogins, NBeats, NOrders, BegunFor, Fresh, Written, Size, EndOf, AnswersInv, AnswersTypeOK
<1>9. Unread(s)' = 0
  BY <1>8, CountOf DEF Unread
<1>10. Written(s) = 0
  <2>1. SubSeq(m_send_buffer[s], 1, m_send_committed[s]) = <<>>
    BY <1>7, SubSeqEmpty DEF Fresh
  <2>2. At(<<>>, Lasts) = {}
    BY DEF At
  <2>. QED BY <2>1, <2>2, FS_EmptySet DEF Written, Count
<1>11. BufferOK(s)'
  <2>1. EndOf(s)[3] = 2
    BY <1>7 DEF Fresh, EndOf, End, Nth
  <2>. QED BY <1>1, <1>4, <1>8, <2>1 DEF SessionOK, BufferOK, Fresh, Size, Disabled
<1>12. AccountsOK(s)'
  BY <1>8, <1>9, <1>10 DEF AccountsOK
<1>13. KnocksOK(s)'
  BY <1>8 DEF KnocksOK
<1>14. LoginOK(s)'
  BY <1>8 DEF LoginOK, LoginBegun
<1>15. SessionOK(s)'
  BY <1>11, <1>12, <1>13, <1>14 DEF SessionOK
<1>. QED BY <1>2, <1>3, <1>15 DEF AnswersInv

\* A request is one more asked and one more unread.
LEMMA RequestAnswers == ASSUME AnswersInv, NEW s \in Clients, request(s) PROVE AnswersInv'
<1>1. /\ accepted[s] /\ asked' = [asked EXCEPT ![s] = @ + 1]
      /\ arrived' = [arrived EXCEPT ![s] = Append(@, "U")]
      /\ UNCHANGED <<place, m_state, m_data_link, m_send_buffer, m_send_committed, m_action_queue,
                     phase, todo, last, accepted, told>>
  BY DEF request, sess, server, client
<1>2. PICK a \in Seq({"L", "U"}) : a = arrived[s]
  BY DEF AnswersInv, AnswersTypeOK
<1>3. PICK b \in Seq({"L", "U"}) : b = Append(a, "U")
  BY AppendProperties
<1>4. /\ Len(a) \in Nat /\ Len(b) = Len(a) + 1 /\ b[Len(a) + 1] = "U"
      /\ \A i \in 1..Len(a) : b[i] = a[i]
  BY <1>3, AppendProperties, LenProperties
<1>5. Count(b, {"U"}) = Count(a, {"U"}) + 1
  <2>1. b = a \o <<"U">>
    BY <1>3, AppendIsConcat
  <2>2. PICK o \in Seq({"L", "U"}) : o = <<"U">> /\ Count(o, {"U"}) = 1
    BY CountOf
  <2>3. Count(a \o o, {"U"}) = Count(a, {"U"}) + Count(o, {"U"})
    BY CountConcat
  <2>. QED BY <2>1, <2>2, <2>3
<1>6. arrived'[s] = b /\ asked'[s] = asked[s] + 1
  BY <1>1, <1>2, <1>3 DEF AnswersInv, AnswersTypeOK
<1>7. AnswersTypeOK' /\ QueueOK' /\ TodoOK'
  <2>1. arrived' \in [Clients -> Seq({"L", "U"})]
    BY <1>1, <1>2, <1>3 DEF AnswersInv, AnswersTypeOK
  <2>2. asked' \in [Clients -> Int]
    BY <1>1 DEF AnswersInv, AnswersTypeOK
  <2>. QED BY <1>1, <2>1, <2>2 DEF AnswersInv, AnswersTypeOK, QueueOK, TodoOK
<1>8. ASSUME NEW r \in Clients, r # s PROVE SessionOK(r)'
  <2>1. Untouched(r) /\ PhaseKeeps(r) /\ SameAnswers(r, m_action_queue, m_action_queue')
    BY <1>1, <1>8 DEF Untouched, PhaseKeeps, SameAnswers, AnswersInv, AnswersTypeOK
  <2>. QED BY <2>1, UntouchedKeeps DEF AnswersInv
<1>9. SessionOK(s) /\ ~LoginPending(s)
  BY <1>1 DEF AnswersInv, SessionOK, LoginOK
<1>10. /\ NLogins(s)' = NLogins(s) /\ NBeats(s)' = NBeats(s) /\ NOrders(s)' = NOrders(s)
       /\ BegunFor(s)' <=> BegunFor(s)
       /\ Written(s)' = Written(s) /\ Size(s)' = Size(s) /\ EndOf(s)' = EndOf(s)
       /\ Disabled(s)' <=> Disabled(s)
  BY <1>1 DEF NLogins, NBeats, NOrders, BegunFor, Written, Size, EndOf, Disabled
<1>11. ~Knocking(s)' /\ ~Knocking(s) /\ NLogins(s) = 0
  <2>1. place[s] # "none" /\ arrived[s] # <<"L">> /\ NLogins(s) = 0
    BY <1>9 DEF LoginPending, Knocking
  <2>2. b # <<"L">>
    BY <1>4, CountOf
  <2>. QED BY <1>1, <1>6, <2>1, <2>2 DEF Knocking
<1>12. BufferOK(s)'
  BY <1>1, <1>9, <1>10 DEF SessionOK, BufferOK
<1>13. AccountsOK(s)'
  <2>1. Unread(s)' = Unread(s) + 1
    BY <1>2, <1>5, <1>6 DEF Unread
  <2>2. /\ NOrders(s) \in Nat /\ Unread(s) \in Nat /\ Written(s) \in Nat
        /\ told[s] \in Int /\ asked[s] \in Int
    BY CountTypes
  <2>4. ~Disabled(s) => asked[s] = Unread(s) + NOrders(s) + Written(s) + told[s]
    BY <1>9 DEF SessionOK, AccountsOK
  <2>5. ~Disabled(s) => asked[s] + 1 = (Unread(s) + 1) + NOrders(s) + Written(s) + told[s]
    BY <2>2, <2>4
  <2>. QED BY <1>1, <1>6, <1>10, <2>1, <2>5 DEF AccountsOK
<1>14. KnocksOK(s)'
  <2>1. ~ \E k \in 1..Len(a) : a[k] = "L"
    BY <1>2, <1>9, <1>11 DEF SessionOK, KnocksOK, Knocking
  <2>2. ~ \E k \in 1..Len(b) : b[k] = "L"
    BY <1>4, <2>1
  <2>3. place'[s] # "none" /\ place'[s] # "m_accepted"
    BY <1>1, <1>9, <1>11 DEF SessionOK, KnocksOK, Knocking
  <2>. QED BY <1>6, <1>10, <1>11, <2>2, <2>3 DEF KnocksOK
<1>15. LoginOK(s)'
  BY <1>10, <1>11 DEF LoginOK, LoginPending
<1>16. SessionOK(s)'
  BY <1>12, <1>13, <1>14, <1>15 DEF SessionOK
<1>. QED BY <1>7, <1>8, <1>16 DEF AnswersInv

-------------------------------------------------------------------------------
(* Evaluation of the event at the head. *)

\* The event at the head goes, and its session has one less in the queue.
LEMMA DequeueEffect ==
    ASSUME AnswersInv, m_action_queue # <<>>, Dequeue, NEW s, s = First.s
    PROVE  /\ m_action_queue' \in Seq(Ev) /\ QueueOK' /\ First \in Ev
           /\ \A r : ~BegunFor(r)'
           /\ \A r : r # s => SameAnswers(r, m_action_queue, m_action_queue')
           /\ NOrders(s) = NOrders(s)' + IF First.type = "U" THEN 1 ELSE 0
           /\ NLogins(s) = NLogins(s)' + IF First.type = "L" THEN 1 ELSE 0
           /\ NBeats(s) = NBeats(s)' + IF First.type = "H" THEN 1 ELSE 0
           /\ NOrders(s)' \in Nat /\ NLogins(s)' \in Nat /\ NBeats(s)' \in Nat
<1>1. PICK q \in Seq(Ev) : q = m_action_queue /\ HeadOnly(q) /\ q # <<>>
  BY DEF AnswersInv, AnswersTypeOK, QueueOK
<1>2. PICK p \in Seq(Ev) : p = m_action_queue' /\ p = Tail(q)
  BY <1>1, CountTail DEF Dequeue
<1>3. PICK e \in Ev : e = First /\ e = q[1] /\ (Begun(q) => e.step = 1)
  BY <1>1, CountTail DEF First, Begun
<1>4. Len(q) \in Nat /\ Len(p) = Len(q) - 1 /\ \A i \in 1..(Len(q) - 1) : p[i] = q[i + 1]
  BY <1>1, <1>2, CountTail, LenProperties
<1>5. \A i \in 1..Len(p) : p[i].step # 1
  <2>1. ASSUME NEW i \in 1..Len(p), p[i].step = 1 PROVE FALSE
    <3>1. i + 1 \in 1..Len(q) /\ q[i + 1].step = 1 /\ i + 1 # 1
      BY <1>4, <2>1
    <3>. QED BY <1>1, <3>1 DEF HeadOnly
  <2>. QED BY <2>1
<1>6. HeadOnly(p) /\ ~Begun(p)
  <2>1. HeadOnly(p)
    BY <1>5 DEF HeadOnly
  <2>2. Len(p) \in Nat /\ (Len(p) > 0 => 1 \in 1..Len(p))
    BY LenProperties
  <2>. QED BY <1>5, <2>1, <2>2 DEF Begun
<1>7. \A M : Count(q, M) = Count(p, M) + IF e \in M THEN 1 ELSE 0
  <2>1. ASSUME NEW M PROVE Count(q, M) = Count(p, M) + IF e \in M THEN 1 ELSE 0
    BY <1>1, <1>2, <1>3, CountTail
  <2>. QED BY <2>1
<1>8. \A M : Count(p, M) \in Nat
  BY CountType
<1>9. ASSUME NEW r, r # e.s PROVE SameAnswers(r, q, p)
  <2>1. e \notin OrderEvents(r) /\ e \notin LoginEvents(r) /\ e \notin BeatEvents(r)
    BY <1>9 DEF OrderEvents, LoginEvents, BeatEvents
  <2>2. ASSUME NEW M \in {OrderEvents(r), LoginEvents(r), BeatEvents(r)} PROVE Count(p, M) = Count(q, M)
    BY <1>7, <1>8, <2>1
  <2>. QED BY <1>3, <1>6, <1>9, <2>2 DEF SameAnswers
<1>10. /\ e \in OrderEvents(e.s) <=> e.type = "U"
       /\ e \in LoginEvents(e.s) <=> e.type = "L"
       /\ e \in BeatEvents(e.s) <=> e.type = "H"
  BY DEF OrderEvents, LoginEvents, BeatEvents
<1>11. /\ Count(q, OrderEvents(e.s)) = Count(p, OrderEvents(e.s)) + IF e.type = "U" THEN 1 ELSE 0
       /\ Count(q, LoginEvents(e.s)) = Count(p, LoginEvents(e.s)) + IF e.type = "L" THEN 1 ELSE 0
       /\ Count(q, BeatEvents(e.s)) = Count(p, BeatEvents(e.s)) + IF e.type = "H" THEN 1 ELSE 0
  BY <1>7, <1>10
<1>12. QueueOK' /\ \A r : ~BegunFor(r)'
  BY <1>2, <1>6 DEF QueueOK, BegunFor
<1>13. \A r : r # s => SameAnswers(r, m_action_queue, m_action_queue')
  BY <1>1, <1>2, <1>3, <1>9
<1>14. /\ NOrders(s) = NOrders(s)' + IF e.type = "U" THEN 1 ELSE 0
       /\ NLogins(s) = NLogins(s)' + IF e.type = "L" THEN 1 ELSE 0
       /\ NBeats(s) = NBeats(s)' + IF e.type = "H" THEN 1 ELSE 0
       /\ NOrders(s)' \in Nat /\ NLogins(s)' \in Nat /\ NBeats(s)' \in Nat
  BY <1>1, <1>2, <1>3, <1>8, <1>11 DEF NOrders, NLogins, NBeats
<1>. QED BY <1>2, <1>3, <1>12, <1>13, <1>14

\* The first c members of a sequence.
Prefix(g, b, c) == g = SubSeq(b, 1, c)

\* One more unit that may go, r being b and f, and g and h what may go before and after.
LEMMA CountMore ==
    ASSUME NEW b \in Seq(Unit), NEW f \in Seq(Unit), NEW r \in Seq(Unit), Prefix(b \o f, r, Len(r)),
           NEW c \in 0..Len(b), NEW d \in 1..Len(r), c < d, d <= c + 1,
           NEW g, Prefix(g, b, c), NEW h, Prefix(h, r, d), NEW M
    PROVE  Count(h, M) = Count(g, M) + IF r[d] \in M THEN 1 ELSE 0
<1>1. r = b \o f
  BY SubSeqFull DEF Prefix
<1>2. /\ Len(b) \in Nat /\ Len(f) \in Nat /\ Len(r) = Len(b) + Len(f)
      /\ \A i \in 1..Len(b) : r[i] = b[i]
  <2>1. \A i \in 1..(Len(b) + Len(f)) : r[i] = IF i <= Len(b) THEN b[i] ELSE f[i - Len(b)]
    BY <1>1, ConcatProperties
  <2>. QED BY <1>1, <2>1, ConcatProperties, LenProperties
<1>3. d - 1 = c /\ d = c + 1 /\ c \in 0..Len(r)
  BY <1>2
<1>4. PICK p \in Seq(Unit) : p = SubSeq(b, 1, c) /\ Len(p) = c /\ \A i \in 1..c : p[i] = b[i]
  <2>1. SubSeq(b, 1, c) \in Seq(Unit) /\ Cut(b, c, SubSeq(b, 1, c), SubSeq(b, c + 1, Len(b)))
    BY <1>3, CutSeq
  <2>. QED BY <2>1 DEF Cut
<1>5. PICK z \in Seq(Unit) : z = SubSeq(r, 1, c) /\ Len(z) = c /\ \A i \in 1..c : z[i] = r[i]
  <2>1. SubSeq(r, 1, c) \in Seq(Unit) /\ Cut(r, c, SubSeq(r, 1, c), SubSeq(r, c + 1, Len(r)))
    BY <1>3, CutSeq
  <2>. QED BY <2>1 DEF Cut
<1>6. z = p
  BY <1>2, <1>4, <1>5, SeqEqual
<1>7. PICK o \in Seq(Unit) : o = <<r[d]>>
  <2>1. <<r[d]>> \in Seq(Unit)
    BY ElementOfSeq
  <2>. QED BY <2>1
<1>8. SubSeq(r, 1, d) = z \o o
  <2>1. 1 \in 1..Len(r) /\ d \in 1..Len(r)
    BY <1>2, <1>3
  <2>2. SubSeq(r, 1, d) = SubSeq(r, 1, d - 1) \o <<r[d]>>
    BY <2>1, SubSeqRecursiveSecond
  <2>. QED BY <1>3, <1>5, <1>7, <2>2
<1>9. Count(z \o o, M) = Count(z, M) + Count(o, M)
  BY CountConcat
<1>10. Count(o, M) = IF r[d] \in M THEN 1 ELSE 0
  BY <1>7, CountOne
<1>11. g = p /\ h = z \o o
  BY <1>4, <1>8 DEF Prefix
<1>. QED BY <1>6, <1>9, <1>10, <1>11

\* A frame behind the last unit of a session, and one more unit that may go.
LEMMA AllocateEffect ==
    ASSUME AnswersInv, NEW s \in Clients, NEW f \in Seq(Unit), Allocate(s, f, 1),
           Linked(EndOf(s), f), m_send_committed[s] + 1 <= Size(s) + Len(f), last' = last
    PROVE  /\ m_send_buffer' \in [Clients -> Seq(Unit)] /\ m_send_committed' \in [Clients -> Nat]
           /\ \A r \in Clients : r # s => /\ m_send_buffer'[r] = m_send_buffer[r]
                                        /\ m_send_committed'[r] = m_send_committed[r]
           /\ Linked(last'[s], m_send_buffer'[s])
           /\ Size(s)' = Size(s) + Len(f) /\ EndOf(s)' = End(EndOf(s), f)
           /\ m_send_committed'[s] = m_send_committed[s] + 1
           /\ m_send_buffer'[s] = m_send_buffer[s] \o f
           /\ Written(s)' = Written(s) + IF (m_send_buffer[s] \o f)[m_send_committed[s] + 1] \in Lasts
                                         THEN 1 ELSE 0
<1>1. PICK b \in Seq(Unit), c \in Nat, l \in Unit :
         b = m_send_buffer[s] /\ c = m_send_committed[s] /\ l = last[s] /\ c \in 0..Len(b)
  BY CountTypes, LenProperties
<1>2. /\ Linked(l, b) /\ Size(s) = Len(b) /\ EndOf(s) = End(l, b)
      /\ Len(b) \in Nat /\ Len(f) \in Nat /\ c \in Nat
  BY <1>1, CountTypes, LenProperties DEF SessionOK, BufferOK, Size, EndOf
<1>3. /\ m_send_buffer' = [m_send_buffer EXCEPT ![s] = b \o f]
      /\ m_send_committed' = [m_send_committed EXCEPT ![s] = c + 1]
  BY <1>1 DEF Allocate
<1>4. /\ b \o f \in Seq(Unit) /\ Len(b \o f) = Len(b) + Len(f)
      /\ Linked(l, b \o f) /\ End(l, b \o f) = End(End(l, b), f)
  BY <1>2, LinkedConcat
<1>5. /\ m_send_buffer \in [Clients -> Seq(Unit)] /\ m_send_committed \in [Clients -> Nat]
  BY DEF AnswersInv, AnswersTypeOK
<1>6. PICK d \in Seq(Unit) : d = b \o f
  BY <1>4
<1>7. m_send_buffer'[s] = d /\ m_send_committed'[s] = c + 1
  BY <1>3, <1>5, <1>6
<1>8. /\ m_send_buffer' \in [Clients -> Seq(Unit)] /\ m_send_committed' \in [Clients -> Nat]
      /\ \A r \in Clients : r # s => /\ m_send_buffer'[r] = m_send_buffer[r]
                                   /\ m_send_committed'[r] = m_send_committed[r]
  BY <1>2, <1>3, <1>5, <1>6
<1>9. PICK n \in 1..Len(d) : n = c + 1 /\ c < n /\ n <= c + 1
  <2>1. Len(d) = Len(b) + Len(f) /\ c + 1 <= Len(b) + Len(f)
    BY <1>1, <1>2, <1>4, <1>6
  <2>2. c + 1 \in 1..Len(d) /\ c < c + 1
    BY <1>2, <2>1
  <2>. QED BY <2>2
<1>10. Written(s)' = Written(s) + IF d[n] \in Lasts THEN 1 ELSE 0
  <2>1. PICK g : Prefix(g, b, c)
    BY DEF Prefix
  <2>2. PICK h : Prefix(h, d, n)
    BY DEF Prefix
  <2>3. Prefix(b \o f, d, Len(d))
    BY <1>6, SubSeqFull DEF Prefix
  <2>4. Count(h, Lasts) = Count(g, Lasts) + IF d[n] \in Lasts THEN 1 ELSE 0
    BY <1>1, <1>9, <2>1, <2>2, <2>3, CountMore
  <2>5. Written(s) = Count(g, Lasts)
    BY <1>1, <2>1 DEF Written, Prefix
  <2>6. Written(s)' = Count(h, Lasts)
    BY <1>7, <1>9, <2>2 DEF Written, Prefix
  <2>. QED BY <2>4, <2>5, <2>6
<1>11. Size(s)' = Len(b) + Len(f) /\ EndOf(s)' = End(End(l, b), f) /\ Linked(l, d)
  BY <1>1, <1>4, <1>6, <1>7 DEF Size, EndOf
<1>. QED BY <1>1, <1>2, <1>6, <1>7, <1>8, <1>9, <1>10, <1>11

\* The units of an event, in its own session.
LEMMA HeadFrame ==
    ASSUME NEW e \in Ev
    PROVE  /\ Frame(e) \in Seq(Unit) /\ Len(Frame(e)) = (IF e.type = "H" THEN 1 ELSE 2)
           /\ e.type = "H" => Frame(e)[1] = <<"H", 0, 2>>
           /\ e.type # "H" => Frame(e)[1] = <<e.type, e.n, 1>> /\ Frame(e)[2] = <<e.type, e.n, 2>>
<1>1. CASE e.type = "H"
  <2>1. <<"H", 0, 2>> \in Unit
    BY UnitParts
  <2>2. Frame(e) = <<<<"H", 0, 2>>>>
    BY <1>1 DEF Frame
  <2>. QED BY <1>1, <2>1, <2>2
<1>2. CASE e.type # "H"
  <2>1. e.type \in {"L", "U"} /\ e.n \in Int
    BY <1>2 DEF Ev
  <2>2. PICK u \in Unit, v \in Unit : u = <<e.type, e.n, 1>> /\ v = <<e.type, e.n, 2>>
    BY <2>1, UnitParts
  <2>3. Frame(e) = <<u, v>>
    BY <1>2, <2>2 DEF Frame
  <2>. QED BY <1>2, <2>2, <2>3
<1>. QED BY <1>1, <1>2

\* The frame of an event follows a whole one.
LEMMA FrameLinks ==
    ASSUME NEW e \in Ev, NEW l \in Unit, l[3] = 2
    PROVE  /\ Linked(l, Frame(e))
           /\ End(l, Frame(e))[3] = 2 /\ End(l, Frame(e))[1] = e.type
<1>1. PICK f \in Seq(Unit) : f = Frame(e)
  BY HeadFrame
<1>2. CASE e.type = "H"
  <2>1. Len(f) = 1 /\ f[1] = <<"H", 0, 2>>
    BY <1>1, <1>2, HeadFrame
  <2>2. ASSUME NEW k \in 1..1 PROVE Follows(Nth(l, f, k - 1), f[k])
    BY <2>1 DEF Follows, Nth
  <2>. QED BY <1>1, <1>2, <2>1, <2>2 DEF Linked, End, Nth
<1>3. CASE e.type # "H"
  <2>1. Len(f) = 2 /\ f[1] = <<e.type, e.n, 1>> /\ f[2] = <<e.type, e.n, 2>>
    BY <1>1, <1>3, HeadFrame
  <2>2. Follows(l, f[1]) /\ Follows(f[1], f[2])
    BY <2>1 DEF Follows
  <2>3. Nth(l, f, 1 - 1) = l /\ Nth(l, f, 2 - 1) = f[1]
    BY DEF Nth
  <2>4. ASSUME NEW k \in 1..2 PROVE Follows(Nth(l, f, k - 1), f[k])
    <3>1. k = 1 \/ k = 2
      OBVIOUS
    <3>. QED BY <2>2, <2>3, <3>1
  <2>. QED BY <1>1, <2>1, <2>4 DEF Linked, End, Nth
<1>. QED BY <1>2, <1>3

\* A heartbeat is written whole, or the server crashes for want of a link.
LEMMA HeartbeatAnswers == ASSUME AnswersInv, evaluate_heartbeat PROVE AnswersInv'
<1>1. /\ m_action_queue # <<>> /\ First.type = "H" /\ Dequeue /\ phase = "queue"
      /\ UNCHANGED <<place, m_state, m_data_link, todo, arrived, last, accepted, told, asked>>
  BY DEF evaluate_heartbeat, Evaluating, Rest, client
<1>2. PICK s \in Clients, e \in Ev : s = First.s /\ e = First /\ e.type = "H"
  <2>1. First \in Ev /\ First.s \in Clients
    BY <1>1, TheHead DEF Ev
  <2>. QED BY <1>1, <2>1
<1>3. /\ m_action_queue' \in Seq(Ev) /\ QueueOK'
      /\ \A r : ~BegunFor(r)'
      /\ \A r : r # s => SameAnswers(r, m_action_queue, m_action_queue')
      /\ NOrders(s) = NOrders(s)' /\ NLogins(s) = NLogins(s)' /\ NBeats(s) # 0
  <2>1. /\ m_action_queue' \in Seq(Ev) /\ QueueOK' /\ \A r : ~BegunFor(r)'
        /\ \A r : r # s => SameAnswers(r, m_action_queue, m_action_queue')
        /\ NOrders(s) = NOrders(s)' + 0 /\ NLogins(s) = NLogins(s)' + 0 /\ NBeats(s) = NBeats(s)' + 1
        /\ NOrders(s)' \in Nat /\ NLogins(s)' \in Nat /\ NBeats(s)' \in Nat
    BY <1>1, <1>2, DequeueEffect
  <2>. QED BY <2>1
<1>4. ~BegunFor(s)
  BY <1>1, TheHead DEF BegunFor
<1>5. SessionOK(s) /\ ~LoginPending(s) /\ ~LoginPending(s)'
  <2>1. SessionOK(s) /\ ~LoginPending(s)
    BY <1>3 DEF AnswersInv, SessionOK, LoginOK
  <2>. QED BY <1>1, <1>3, <2>1 DEF LoginPending, Knocking
<1>6. Unread(s)' = Unread(s) /\ (Disabled(s)' <=> Disabled(s))
  BY <1>1 DEF Unread, Disabled
<1>7. /\ m_send_buffer' \in [Clients -> Seq(Unit)] /\ m_send_committed' \in [Clients -> Nat]
      /\ phase' \in {"queue", "crashed"}
      /\ \A r \in Clients : r # s => /\ m_send_buffer'[r] = m_send_buffer[r]
                                   /\ m_send_committed'[r] = m_send_committed[r]
      /\ BufferOK(s)'
      /\ ~Disabled(s) => Written(s)' = Written(s)
  <2>1. CASE m_data_link[s]
    <3>1. Allocate(s, Frame(e), 1) /\ phase' = phase
      BY <1>2, <2>1 DEF evaluate_heartbeat
    <3>2. PICK f \in Seq(Unit) : f = Frame(e) /\ Len(f) = 1 /\ f[1] = <<"H", 0, 2>>
      BY <1>2, HeadFrame
    <3>3. EndOf(s) \in Unit /\ EndOf(s)[3] = 2
      BY <1>5, <2>1, CountTypes, EndIsUnit DEF SessionOK, BufferOK, EndOf
    <3>4. Linked(EndOf(s), f) /\ End(EndOf(s), f)[3] = 2
      BY <3>2, <3>3, FrameLinks
    <3>5. PICK b \in Seq(Unit), c \in Nat : /\ b = m_send_buffer[s] /\ c = m_send_committed[s]
                                            /\ c <= Len(b) /\ Len(b) \in Nat
      BY CountTypes, LenProperties
    <3>6. m_send_committed[s] + 1 <= Size(s) + Len(f)
      BY <3>2, <3>5 DEF Size
    <3>7. /\ m_send_buffer' \in [Clients -> Seq(Unit)] /\ m_send_committed' \in [Clients -> Nat]
          /\ \A r \in Clients : r # s => /\ m_send_buffer'[r] = m_send_buffer[r]
                                       /\ m_send_committed'[r] = m_send_committed[r]
          /\ Linked(last'[s], m_send_buffer'[s])
          /\ Size(s)' = Size(s) + Len(f) /\ EndOf(s)' = End(EndOf(s), f)
          /\ m_send_committed'[s] = m_send_committed[s] + 1
          /\ Written(s)' = Written(s) + IF (m_send_buffer[s] \o f)[m_send_committed[s] + 1] \in Lasts
                                        THEN 1 ELSE 0
      BY <1>1, <3>1, <3>2, <3>4, <3>6, AllocateEffect
    <3>8. ~Disabled(s) => c = Len(b)
      BY <1>4, <1>5, <3>5 DEF SessionOK, BufferOK, Size
    <3>9. BufferOK(s)'
      <4>1. m_send_committed'[s] <= Size(s)' /\ (~Disabled(s)' => m_send_committed'[s] = Size(s)')
        BY <1>6, <3>2, <3>5, <3>7, <3>8 DEF Size
      <4>2. Size(s)' \in Nat
        BY <3>2, <3>5, <3>7 DEF Size
      <4>. QED BY <1>3, <3>4, <3>7, <4>1, <4>2 DEF BufferOK
    <3>10. ~Disabled(s) => (b \o f)[c + 1] \notin Lasts
      <4>1. \A i \in 1..(Len(b) + Len(f)) : (b \o f)[i] = IF i <= Len(b) THEN b[i] ELSE f[i - Len(b)]
        BY ConcatProperties
      <4>2. ASSUME ~Disabled(s) PROVE (b \o f)[c + 1] = f[1]
        <5>1. c + 1 \in 1..(Len(b) + Len(f)) /\ ~(c + 1 <= Len(b)) /\ c + 1 - Len(b) = 1
          BY <3>2, <3>5, <3>8, <4>2
        <5>. QED BY <4>1, <5>1
      <4>3. f[1] \notin Lasts
        BY <3>2 DEF Lasts
      <4>. QED BY <4>2, <4>3
    <3>11. ~Disabled(s) => Written(s)' = Written(s)
      <4>1. Written(s) \in Nat
        BY CountTypes
      <4>2. ~Disabled(s) => (m_send_buffer[s] \o f)[m_send_committed[s] + 1] \notin Lasts
        BY <3>5, <3>10
      <4>3. PICK w : w = IF (m_send_buffer[s] \o f)[m_send_committed[s] + 1] \in Lasts THEN 1 ELSE 0
        OBVIOUS
      <4>4. Written(s)' = Written(s) + w
        BY <3>7, <4>3
      <4>5. ~Disabled(s) => w = 0
        BY <4>2, <4>3
      <4>. QED BY <4>1, <4>4, <4>5
    <3>. QED BY <1>1, <3>1, <3>7, <3>9, <3>11
  <2>2. CASE ~m_data_link[s]
    <3>1. phase' = "crashed" /\ UNCHANGED <<m_send_buffer, m_send_committed>>
      BY <1>2, <2>2 DEF evaluate_heartbeat
    <3>2. /\ Size(s)' = Size(s) /\ EndOf(s)' = EndOf(s) /\ Written(s)' = Written(s)
      BY <1>1, <3>1 DEF Size, EndOf, Written
    <3>3. BufferOK(s)'
      BY <1>1, <1>3, <1>4, <1>5, <1>6, <3>1, <3>2 DEF SessionOK, BufferOK
    <3>. QED BY <3>1, <3>2, <3>3 DEF AnswersInv, AnswersTypeOK
  <2>. QED BY <2>1, <2>2
<1>8. AnswersTypeOK' /\ TodoOK'
  BY <1>1, <1>3, <1>7 DEF AnswersInv, AnswersTypeOK, TodoOK
<1>9. ASSUME NEW r \in Clients, r # s PROVE SessionOK(r)'
  <2>1. Untouched(r) /\ PhaseKeeps(r)
    BY <1>1, <1>7, <1>9 DEF Untouched, PhaseKeeps
  <2>. QED BY <1>3, <1>9, <2>1, UntouchedKeeps DEF AnswersInv
<1>10. SessionOK(s)'
  <2>1. AccountsOK(s)' /\ KnocksOK(s)'
    <3>1. AccountsOK(s)'
      BY <1>1, <1>3, <1>5, <1>6, <1>7 DEF SessionOK, AccountsOK
    <3>2. KnocksOK(s)'
      BY <1>1, <1>3, <1>5 DEF SessionOK, KnocksOK, Knocking
    <3>. QED BY <3>1, <3>2
  <2>2. LoginOK(s)'
    BY <1>5 DEF LoginOK
  <2>. QED BY <1>7, <2>1, <2>2 DEF SessionOK
<1>. QED BY <1>3, <1>8, <1>9, <1>10 DEF AnswersInv

\* The answer at the head is half-written from here on.
LEMMA BeginEffect ==
    ASSUME AnswersInv, m_action_queue # <<>>, First.type # "H", First.step = 0, First.due = 0,
           m_action_queue' = [m_action_queue EXCEPT ![1].step = 1]
    PROVE  /\ m_action_queue' \in Seq(Ev) /\ QueueOK' /\ Begun(m_action_queue') /\ ~Begun(m_action_queue)
           /\ m_action_queue'[1].s = First.s /\ m_action_queue'[1].type = First.type
           /\ \A r : /\ NOrders(r)' = NOrders(r) /\ NLogins(r)' = NLogins(r) /\ NBeats(r)' = NBeats(r)
                     /\ r # First.s => SameAnswers(r, m_action_queue, m_action_queue')
<1>1. PICK q \in Seq(Ev) : q = m_action_queue /\ HeadOnly(q) /\ q # <<>>
  BY DEF AnswersInv, AnswersTypeOK, QueueOK
<1>2. PICK e \in Ev : /\ e = First /\ e = q[1] /\ 1 \in 1..Len(q) /\ ~Begun(q)
                      /\ e.type # "H" /\ e.step = 0 /\ e.due = 0
  BY <1>1, TheHead DEF Begun
<1>3. PICK d \in Ev : d = [e EXCEPT !.step = 1] /\ d.s = e.s /\ d.type = e.type /\ d.due = 0 /\ d.step = 1
  <2>1. /\ [e EXCEPT !.step = 1] \in Ev /\ [e EXCEPT !.step = 1].s = e.s
        /\ [e EXCEPT !.step = 1].type = e.type /\ [e EXCEPT !.step = 1].due = e.due
        /\ [e EXCEPT !.step = 1].step = 1
    BY DEF Ev
  <2>. QED BY <1>2, <2>1
<1>4. PICK n \in Nat : n = Len(q) /\ DOMAIN q = 1..n /\ q \in [1..n -> Ev]
  BY LenProperties
<1>5. m_action_queue' = [q EXCEPT ![1] = d]
  BY <1>1, <1>2, <1>3
<1>6. [q EXCEPT ![1] = d] \in [1..n -> Ev]
  BY <1>4
<1>7. PICK p \in Seq(Ev) : p = m_action_queue' /\ Len(p) = n /\ DOMAIN p = 1..n /\ p = [q EXCEPT ![1] = d]
  <2>1. [q EXCEPT ![1] = d] \in Seq(Ev) /\ Len([q EXCEPT ![1] = d]) = n
    BY <1>4, <1>6
  <2>. QED BY <1>5, <1>6, <2>1
<1>8. p[1] = d /\ \A k \in 1..n : k # 1 => p[k] = q[k]
  BY <1>2, <1>4, <1>7
<1>9. HeadOnly(p) /\ Begun(p)
  <2>1. ASSUME NEW k \in 1..n, p[k].step = 1 PROVE k = 1 /\ p[k].due = 0 /\ p[k].type # "H"
    <3>1. k = 1
      <4>1. SUFFICES ASSUME k # 1 PROVE FALSE
        OBVIOUS
      <4>2. q[k].step = 1
        BY <1>8, <2>1, <4>1
      <4>. QED BY <1>1, <1>4, <4>1, <4>2 DEF HeadOnly
    <3>. QED BY <1>2, <1>3, <1>8, <3>1
  <2>. QED BY <1>2, <1>3, <1>4, <1>7, <1>8, <2>1 DEF HeadOnly, Begun
<1>10. ASSUME NEW r, NEW M \in {OrderEvents(r), LoginEvents(r), BeatEvents(r)} PROVE Count(p, M) = Count(q, M)
  <2>1. PICK t : M = {x \in Ev : x.s = r /\ x.type = t}
    BY <1>10 DEF OrderEvents, LoginEvents, BeatEvents
  <2>2. ASSUME NEW k \in 1..n PROVE p[k] \in M <=> q[k] \in M
    <3>1. CASE k = 1
      BY <1>2, <1>3, <1>8, <2>1, <3>1
    <3>. QED BY <1>8, <3>1
  <2>3. DOMAIN p = DOMAIN q /\ \A k \in DOMAIN p : p[k] \in M <=> q[k] \in M
    BY <1>4, <1>7, <2>2
  <2>. QED BY <2>3, CountSame
<1>11. ASSUME NEW r, r # e.s PROVE SameAnswers(r, q, p)
  BY <1>2, <1>3, <1>8, <1>9, <1>10, <1>11 DEF SameAnswers
<1>12. \A r : NOrders(r)' = NOrders(r) /\ NLogins(r)' = NLogins(r) /\ NBeats(r)' = NBeats(r)
  BY <1>1, <1>7, <1>10 DEF NOrders, NLogins, NBeats
<1>13. QueueOK' /\ Begun(m_action_queue') /\ ~Begun(m_action_queue)
  BY <1>1, <1>2, <1>7, <1>9 DEF QueueOK
<1>14. m_action_queue'[1].s = First.s /\ m_action_queue'[1].type = First.type
  BY <1>2, <1>3, <1>7, <1>8
<1>15. \A r : r # First.s => SameAnswers(r, m_action_queue, m_action_queue')
  <2>1. ASSUME NEW r, r # First.s PROVE SameAnswers(r, m_action_queue, m_action_queue')
    <3>1. SameAnswers(r, q, p)
      BY <1>2, <1>11, <2>1
    <3>. QED BY <1>1, <1>7, <3>1
  <2>. QED BY <2>1
<1>. QED BY <1>7, <1>12, <1>13, <1>14, <1>15

\* The first portion of an answer is written behind a whole unit.
LEMMA FirstAnswers == ASSUME AnswersInv, evaluate_first PROVE AnswersInv'
<1>1. /\ m_action_queue # <<>> /\ First.type # "H" /\ First.step = 0 /\ First.due = 0 /\ phase = "queue"
      /\ ~Disabled(First.s)
      /\ UNCHANGED <<place, m_state, m_data_link, arrived, last, accepted, told, asked>>
  BY DEF evaluate_first, Evaluating, Rest, client
<1>2. PICK s \in Clients, e \in Ev : s = First.s /\ e = First /\ e.type # "H" /\ ~Disabled(s)
  <2>1. First \in Ev /\ First.s \in Clients
    BY <1>1, TheHead DEF Ev
  <2>. QED BY <1>1, <2>1
<1>3. CASE ~m_data_link[s]
  <2>1. /\ phase' = "crashed" /\ UNCHANGED <<m_send_buffer, m_send_committed, m_action_queue, todo>>
    BY <1>2, <1>3 DEF evaluate_first
  <2>2. Quiet
    BY <1>1, <2>1 DEF Quiet, PhaseKeeps, TodoOK, Places, Phases, client, AnswersInv, AnswersTypeOK
  <2>. QED BY <2>2, QuietKeeps
<1>4. CASE m_data_link[s]
  <2>1. /\ Allocate(s, Frame(e), 1) /\ m_action_queue' = [m_action_queue EXCEPT ![1].step = 1]
        /\ phase' = "io" /\ todo' = {r \in Clients : place[r] = "m_sessions"}
    BY <1>2, <1>4 DEF evaluate_first, ToSessions
  <2>2. /\ m_action_queue' \in Seq(Ev) /\ QueueOK' /\ Begun(m_action_queue') /\ ~Begun(m_action_queue)
        /\ m_action_queue'[1].s = s /\ m_action_queue'[1].type = e.type
        /\ \A r : /\ NOrders(r)' = NOrders(r) /\ NLogins(r)' = NLogins(r) /\ NBeats(r)' = NBeats(r)
                  /\ r # s => SameAnswers(r, m_action_queue, m_action_queue')
    BY <1>1, <1>2, <2>1, BeginEffect
  <2>3. SessionOK(s) /\ BegunFor(s)' /\ ~BegunFor(s)
        /\ (LoginPending(s)' <=> LoginPending(s)) /\ (Disabled(s)' <=> Disabled(s)) /\ Unread(s)' = Unread(s)
    BY <1>1, <2>2 DEF AnswersInv, BegunFor, LoginPending, Knocking, Disabled, Unread
  <2>4. PICK f \in Seq(Unit) : /\ f = Frame(e) /\ Len(f) = 2 /\ f[1] = <<e.type, e.n, 1>>
    BY <1>2, HeadFrame
  <2>5. EndOf(s) \in Unit /\ EndOf(s)[3] = 2
    BY <1>2, <2>3, CountTypes, EndIsUnit DEF SessionOK, BufferOK, EndOf
  <2>6. Linked(EndOf(s), f) /\ End(EndOf(s), f)[3] = 2 /\ End(EndOf(s), f)[1] = e.type
    BY <2>4, <2>5, FrameLinks
  <2>7. PICK b \in Seq(Unit), c \in Nat : /\ b = m_send_buffer[s] /\ c = m_send_committed[s]
                                          /\ c = Len(b) /\ Len(b) \in Nat
    <3>1. /\ m_send_buffer[s] \in Seq(Unit) /\ Len(m_send_buffer[s]) \in Nat
          /\ m_send_committed[s] \in 0..Len(m_send_buffer[s])
      BY CountTypes, LenProperties
    <3>2. m_send_committed[s] = Len(m_send_buffer[s]) - 0
      BY <1>2, <2>3 DEF SessionOK, BufferOK, Size
    <3>. QED BY <3>1, <3>2
  <2>8. m_send_committed[s] + 1 <= Size(s) + Len(f)
    BY <2>4, <2>7 DEF Size
  <2>9. /\ m_send_buffer' \in [Clients -> Seq(Unit)] /\ m_send_committed' \in [Clients -> Nat]
        /\ \A r \in Clients : r # s => /\ m_send_buffer'[r] = m_send_buffer[r]
                                     /\ m_send_committed'[r] = m_send_committed[r]
        /\ Linked(last'[s], m_send_buffer'[s])
        /\ Size(s)' = Size(s) + Len(f) /\ EndOf(s)' = End(EndOf(s), f)
        /\ m_send_committed'[s] = m_send_committed[s] + 1
        /\ Written(s)' = Written(s) + IF (m_send_buffer[s] \o f)[m_send_committed[s] + 1] \in Lasts
                                      THEN 1 ELSE 0
    BY <1>1, <2>1, <2>4, <2>6, <2>8, AllocateEffect
  <2>10. BufferOK(s)'
    <3>1. Size(s)' = Len(b) + 2 /\ m_send_committed'[s] = Len(b) + 1
      BY <2>4, <2>7, <2>9 DEF Size
    <3>2. m_send_committed'[s] <= Size(s)' /\ m_send_committed'[s] = Size(s)' - 1
      BY <2>7, <3>1
    <3>. QED BY <2>2, <2>3, <2>6, <2>9, <3>2 DEF BufferOK
  <2>11. Written(s)' = Written(s)
    <3>1. \A i \in 1..(Len(b) + Len(f)) : (b \o f)[i] = IF i <= Len(b) THEN b[i] ELSE f[i - Len(b)]
      BY ConcatProperties
    <3>2. c + 1 \in 1..(Len(b) + Len(f)) /\ ~(c + 1 <= Len(b)) /\ c + 1 - Len(b) = 1
      BY <2>4, <2>7
    <3>3. (b \o f)[c + 1] = f[1]
      BY <3>1, <3>2
    <3>4. f[1] \notin Lasts
      BY <2>4 DEF Lasts
    <3>5. PICK w : w = IF (m_send_buffer[s] \o f)[m_send_committed[s] + 1] \in Lasts THEN 1 ELSE 0
      OBVIOUS
    <3>6. w = 0
      BY <2>7, <3>3, <3>4, <3>5
    <3>7. Written(s)' = Written(s) + w /\ Written(s) \in Nat
      BY <2>9, <3>5, CountTypes
    <3>. QED BY <3>6, <3>7
  <2>12. AccountsOK(s)' /\ KnocksOK(s)'
    <3>1. AccountsOK(s)'
      BY <1>1, <2>2, <2>3, <2>11 DEF SessionOK, AccountsOK
    <3>2. KnocksOK(s)'
      BY <1>1, <2>2, <2>3 DEF SessionOK, KnocksOK, Knocking
    <3>. QED BY <3>1, <3>2
  <2>13. LoginOK(s)'
    <3>1. SUFFICES ASSUME LoginPending(s)
                   PROVE  /\ ~accepted'[s] /\ told'[s] = 0 /\ m_state'[s] \in {"login", "closed"} /\ NBeats(s)' = 0
                          /\ LoginBegun(s)' /\ Size(s)' = 2 /\ last'[s] = <<"H", 0, 2>>
      BY <2>3 DEF LoginOK
    <3>2. ~LoginBegun(s) /\ phase # "stopped"
      BY <1>1, <2>3 DEF LoginBegun
    <3>3. ~accepted[s] /\ told[s] = 0 /\ m_state[s] = "login" /\ NBeats(s) = 0 /\ Fresh(s)
      BY <1>2, <2>3, <3>1, <3>2 DEF SessionOK, LoginOK, Disabled
    <3>4. Size(s) = 0
      BY <3>3 DEF Fresh, Size
    <3>. QED BY <1>1, <2>2, <2>3, <2>4, <2>9, <3>3, <3>4 DEF LoginBegun, Fresh
  <2>14. AnswersTypeOK' /\ TodoOK'
    BY <1>1, <2>1, <2>2, <2>9 DEF AnswersInv, AnswersTypeOK, TodoOK
  <2>15. ASSUME NEW r \in Clients, r # s PROVE SessionOK(r)'
    <3>1. Untouched(r) /\ PhaseKeeps(r)
      BY <1>1, <2>2, <2>9, <2>15 DEF Untouched, PhaseKeeps, BegunFor
    <3>. QED BY <2>2, <2>15, <3>1, UntouchedKeeps DEF AnswersInv
  <2>. QED BY <2>2, <2>10, <2>12, <2>13, <2>14, <2>15 DEF AnswersInv, SessionOK
<1>. QED BY <1>3, <1>4

\* The rest of an answer goes out.
LEMMA CommitEffect ==
    ASSUME AnswersInv, NEW s \in Clients, ~Disabled(s), BegunFor(s), Allocate(s, <<>>, 1), last' = last
    PROVE  /\ m_send_buffer' \in [Clients -> Seq(Unit)] /\ m_send_committed' \in [Clients -> Nat]
           /\ \A r \in Clients : r # s => /\ m_send_buffer'[r] = m_send_buffer[r]
                                        /\ m_send_committed'[r] = m_send_committed[r]
           /\ Linked(last'[s], m_send_buffer'[s])
           /\ m_send_committed'[s] = Size(s)' /\ Size(s)' \in Nat /\ EndOf(s)'[3] = 2
           /\ Written(s)' = Written(s) + IF m_action_queue[1].type = "U" THEN 1 ELSE 0
<1>1. PICK b \in Seq(Unit), c \in Nat, l \in Unit :
         /\ b = m_send_buffer[s] /\ c = m_send_committed[s] /\ l = last[s]
         /\ Len(b) \in Nat /\ c + 1 = Len(b)
  <2>1. /\ m_send_buffer[s] \in Seq(Unit) /\ last[s] \in Unit /\ Len(m_send_buffer[s]) \in Nat
        /\ m_send_committed[s] \in 0..Len(m_send_buffer[s]) /\ SessionOK(s)
    BY CountTypes, LenProperties
  <2>2. m_send_committed[s] = Len(m_send_buffer[s]) - 1
    BY <2>1 DEF SessionOK, BufferOK, Size
  <2>3. m_send_committed[s] \in Nat /\ m_send_committed[s] + 1 = Len(m_send_buffer[s])
    BY <2>1, <2>2
  <2>. QED BY <2>1, <2>3
<1>2. EndOf(s) \in Unit /\ EndOf(s)[3] = 2 /\ EndOf(s)[1] = m_action_queue[1].type
  <2>1. SessionOK(s) /\ EndOf(s) \in Unit
    BY CountTypes, EndIsUnit DEF EndOf
  <2>. QED BY <2>1 DEF SessionOK, BufferOK
<1>3. EndOf(s) = b[c + 1]
  BY <1>1 DEF EndOf, End, Nth
<1>4. PICK f \in Seq(Unit) : f = <<>> /\ Len(f) = 0
  <2>1. <<>> \in Seq(Unit) /\ Len(<<>>) = 0
    OBVIOUS
  <2>. QED BY <2>1
<1>5. Linked(EndOf(s), f) /\ End(EndOf(s), f) = EndOf(s)
  BY <1>4 DEF Linked, End, Nth
<1>6. b \o f = b
  BY <1>4, ConcatEmptySeq
<1>7. Allocate(s, f, 1) /\ m_send_committed[s] + 1 <= Size(s) + Len(f)
  BY <1>1, <1>4 DEF Size
<1>8. /\ m_send_buffer' \in [Clients -> Seq(Unit)] /\ m_send_committed' \in [Clients -> Nat]
      /\ \A r \in Clients : r # s => /\ m_send_buffer'[r] = m_send_buffer[r]
                                   /\ m_send_committed'[r] = m_send_committed[r]
      /\ Linked(last'[s], m_send_buffer'[s])
      /\ Size(s)' = Size(s) + Len(f) /\ EndOf(s)' = End(EndOf(s), f)
      /\ m_send_committed'[s] = m_send_committed[s] + 1
      /\ Written(s)' = Written(s) + IF (m_send_buffer[s] \o f)[m_send_committed[s] + 1] \in Lasts
                                    THEN 1 ELSE 0
  BY <1>5, <1>7, AllocateEffect
<1>9. b[c + 1] \in Lasts <=> m_action_queue[1].type = "U"
  BY <1>2, <1>3 DEF Lasts
<1>10. Written(s)' = Written(s) + IF m_action_queue[1].type = "U" THEN 1 ELSE 0
  BY <1>1, <1>6, <1>8, <1>9
<1>11. m_send_committed'[s] = Size(s)' /\ Size(s)' \in Nat
  BY <1>1, <1>4, <1>8 DEF Size
<1>. QED BY <1>2, <1>5, <1>8, <1>10, <1>11

\* The last portion: the answer leaves the queue and is counted as written.
LEMMA LastAnswers == ASSUME AnswersInv, evaluate_last PROVE AnswersInv'
<1>1. /\ m_action_queue # <<>> /\ First.type # "H" /\ Dequeue /\ phase = "queue"
      /\ Disabled(First.s) \/ First.step = 1
      /\ m_state' = IF First.type = "L" THEN [m_state EXCEPT ![First.s] = "serving"] ELSE m_state
      /\ UNCHANGED <<place, m_data_link, phase, todo, arrived, last, accepted, told, asked>>
  BY DEF evaluate_last, Evaluating, Rest, client, server
<1>2. PICK s \in Clients, e \in Ev : s = First.s /\ e = First /\ e.type \in {"L", "U"} /\ e.s = s
  <2>1. First \in Ev /\ First.s \in Clients /\ First.type \in {"L", "U", "H"}
    BY <1>1, TheHead DEF Ev
  <2>. QED BY <1>1, <2>1
<1>3. /\ m_action_queue' \in Seq(Ev) /\ QueueOK'
      /\ \A r : ~BegunFor(r)'
      /\ \A r : r # s => SameAnswers(r, m_action_queue, m_action_queue')
      /\ NOrders(s) = NOrders(s)' + IF e.type = "U" THEN 1 ELSE 0
      /\ NLogins(s) = NLogins(s)' + IF e.type = "L" THEN 1 ELSE 0
      /\ NBeats(s) = NBeats(s)'
      /\ NOrders(s)' \in Nat /\ NLogins(s)' \in Nat /\ NBeats(s)' \in Nat
  <2>1. /\ m_action_queue' \in Seq(Ev) /\ QueueOK' /\ \A r : ~BegunFor(r)'
        /\ \A r : r # s => SameAnswers(r, m_action_queue, m_action_queue')
        /\ NOrders(s) = NOrders(s)' + IF e.type = "U" THEN 1 ELSE 0
        /\ NLogins(s) = NLogins(s)' + IF e.type = "L" THEN 1 ELSE 0
        /\ NBeats(s) = NBeats(s)' + 0
        /\ NOrders(s)' \in Nat /\ NLogins(s)' \in Nat /\ NBeats(s)' \in Nat
    BY <1>1, <1>2, DequeueEffect
  <2>. QED BY <2>1
<1>4. SessionOK(s) /\ NOrders(s) \in Nat /\ NLogins(s) \in Nat
  BY CountTypes
<1>5. Unread(s)' = Unread(s) /\ (Knocking(s)' <=> Knocking(s))
  BY <1>1 DEF Unread, Knocking
<1>6. ~LoginPending(s)'
  <2>1. CASE e.type = "L"
    <3>1. NLogins(s) # 0
      BY <1>3, <1>4, <2>1
    <3>2. ~Knocking(s) /\ NLogins(s) = 1
      BY <1>4, <3>1 DEF SessionOK, KnocksOK
    <3>3. NLogins(s)' = 0
      BY <1>3, <2>1, <3>2
    <3>. QED BY <1>5, <3>2, <3>3 DEF LoginPending
  <2>2. CASE e.type = "U"
    <3>1. NOrders(s) # 0 /\ NLogins(s)' = NLogins(s)
      BY <1>3, <1>4, <2>2
    <3>2. accepted[s]
      BY <1>4, <3>1 DEF SessionOK, AccountsOK
    <3>3. ~LoginPending(s)
      BY <1>4, <3>2 DEF SessionOK, LoginOK
    <3>. QED BY <1>5, <3>1, <3>3 DEF LoginPending
  <2>. QED BY <1>2, <2>1, <2>2
<1>7. ~accepted[s] => asked[s] = 0 /\ Unread(s) = 0 /\ NOrders(s) = 0 /\ NOrders(s)' = 0
  <2>1. ~accepted[s] => asked[s] = 0 /\ Unread(s) = 0 /\ NOrders(s) = 0
    BY <1>4 DEF SessionOK, AccountsOK
  <2>2. NOrders(s) = 0 => NOrders(s)' = 0
    BY <1>3
  <2>. QED BY <2>1, <2>2
<1>8. KnocksOK(s)'
  <2>1. place[s] # "none"
    <3>1. CASE e.type = "L"
      <4>1. NLogins(s) # 0
        BY <1>3, <3>1
      <4>. QED BY <1>4, <4>1 DEF SessionOK, KnocksOK, Knocking
    <3>2. CASE e.type = "U"
      <4>1. NOrders(s) # 0
        BY <1>3, <3>2
      <4>2. accepted[s]
        BY <1>7, <4>1
      <4>. QED BY <1>4, <4>2 DEF SessionOK, LoginOK, LoginPending, Knocking
    <3>. QED BY <1>2, <3>1, <3>2
  <2>2. NLogins(s)' = 0 /\ ~Knocking(s)'
    BY <1>6 DEF LoginPending
  <2>. QED BY <1>1, <1>4, <2>1, <2>2 DEF SessionOK, KnocksOK
<1>9. m_state \in [Clients -> {"login", "serving", "closing", "closed"}]
  BY DEF AnswersInv, AnswersTypeOK
<1>10. /\ m_state' \in [Clients -> {"login", "serving", "closing", "closed"}]
       /\ \A r \in Clients : r # s => m_state'[r] = m_state[r]
       /\ m_state'[s] = IF e.type = "L" THEN "serving" ELSE m_state[s]
  BY <1>1, <1>2, <1>9
<1>11. /\ m_send_buffer' \in [Clients -> Seq(Unit)] /\ m_send_committed' \in [Clients -> Nat]
       /\ \A r \in Clients : r # s => /\ m_send_buffer'[r] = m_send_buffer[r]
                                    /\ m_send_committed'[r] = m_send_committed[r]
       /\ BufferOK(s)'
       /\ ~Disabled(s)' => asked'[s] = Unread(s)' + NOrders(s)' + Written(s)' + told'[s]
  <2>0. /\ Unread(s) \in Nat /\ Written(s) \in Nat /\ told[s] \in Int /\ asked[s] \in Int
    BY CountTypes
  <2>1. CASE ~Disabled(s)
    <3>1. Allocate(s, <<>>, 1) /\ First.step = 1
      BY <1>1, <1>2, <2>1 DEF evaluate_last
    <3>2. BegunFor(s) /\ m_action_queue[1] = e
      BY <1>1, <1>2, <3>1, TheHead DEF BegunFor
    <3>3. /\ m_send_buffer' \in [Clients -> Seq(Unit)] /\ m_send_committed' \in [Clients -> Nat]
          /\ \A r \in Clients : r # s => /\ m_send_buffer'[r] = m_send_buffer[r]
                                       /\ m_send_committed'[r] = m_send_committed[r]
          /\ Linked(last'[s], m_send_buffer'[s])
          /\ m_send_committed'[s] = Size(s)' /\ Size(s)' \in Nat /\ EndOf(s)'[3] = 2
          /\ Written(s)' = Written(s) + IF e.type = "U" THEN 1 ELSE 0
      BY <1>1, <2>1, <3>1, <3>2, CommitEffect
    <3>4. BufferOK(s)'
      BY <1>3, <3>3 DEF BufferOK
    <3>5. asked[s] = Unread(s) + NOrders(s) + Written(s) + told[s]
      BY <1>4, <2>1 DEF SessionOK, AccountsOK
    <3>6. asked[s] = Unread(s) + NOrders(s)' + Written(s)' + told[s]
      BY <1>3, <2>0, <3>3, <3>5
    <3>. QED BY <1>1, <1>5, <3>3, <3>4, <3>6
  <2>2. CASE Disabled(s)
    <3>1. UNCHANGED <<m_send_buffer, m_send_committed>>
      BY <1>2, <2>2 DEF evaluate_last
    <3>2. Size(s)' = Size(s) /\ EndOf(s)' = EndOf(s) /\ Written(s)' = Written(s)
      BY <1>1, <3>1 DEF Size, EndOf, Written
    <3>3. CASE e.type = "L"
      <4>1. NLogins(s) # 0
        BY <1>3, <3>3
      <4>2. LoginPending(s) /\ ~LoginBegun(s) /\ phase # "stopped"
        BY <1>1, <2>2, <4>1 DEF LoginPending, LoginBegun, Disabled
      <4>3. Fresh(s) /\ ~accepted[s] /\ told[s] = 0
        BY <1>4, <4>2 DEF SessionOK, LoginOK
      <4>4. Size(s) = 0 /\ EndOf(s) = <<"H", 0, 2>> /\ m_send_committed[s] = 0
        BY <4>3 DEF Fresh, Size, EndOf, End, Nth
      <4>5. Written(s) = 0
        <5>1. SubSeq(m_send_buffer[s], 1, m_send_committed[s]) = <<>>
          BY <4>3, SubSeqEmpty DEF Fresh
        <5>2. At(<<>>, Lasts) = {}
          BY DEF At
        <5>. QED BY <5>1, <5>2, FS_EmptySet DEF Written, Count
      <4>6. BufferOK(s)'
        <5>1. Linked(last'[s], m_send_buffer'[s])
          BY <1>1, <1>4, <3>1 DEF SessionOK, BufferOK
        <5>2. m_send_committed'[s] = Size(s)' /\ Size(s)' \in Nat
          BY <3>1, <3>2, <4>4
        <5>3. EndOf(s)'[3] = 2
          BY <3>2, <4>4
        <5>. QED BY <1>3, <5>1, <5>2, <5>3 DEF BufferOK
      <4>. QED BY <1>1, <1>5, <1>7, <3>1, <3>2, <4>3, <4>5, <4>6 DEF AnswersInv, AnswersTypeOK
    <3>4. CASE e.type = "U"
      <4>1. Disabled(s)'
        BY <1>10, <2>2, <3>4 DEF Disabled
      <4>2. BufferOK(s)'
        BY <1>1, <1>4, <2>2, <3>1, <3>2, <4>1 DEF SessionOK, BufferOK
      <4>. QED BY <3>1, <4>1, <4>2 DEF AnswersInv, AnswersTypeOK
    <3>. QED BY <1>2, <3>3, <3>4
  <2>. QED BY <2>1, <2>2
<1>12. AccountsOK(s)'
  BY <1>1, <1>5, <1>7, <1>11 DEF AccountsOK
<1>13. LoginOK(s)'
  BY <1>6 DEF LoginOK
<1>14. AnswersTypeOK' /\ TodoOK'
  BY <1>1, <1>3, <1>10, <1>11 DEF AnswersInv, AnswersTypeOK, TodoOK
<1>15. ASSUME NEW r \in Clients, r # s PROVE SessionOK(r)'
  <2>1. Untouched(r) /\ PhaseKeeps(r)
    BY <1>1, <1>10, <1>11, <1>15 DEF Untouched, PhaseKeeps
  <2>. QED BY <1>3, <1>15, <2>1, UntouchedKeeps DEF AnswersInv
<1>. QED BY <1>3, <1>8, <1>11, <1>12, <1>13, <1>14, <1>15 DEF AnswersInv, SessionOK

-------------------------------------------------------------------------------
(* The end: connections are dropped. *)

\* Sessions that are dropped owe no answers.
LEMMA DropAnswers ==
    ASSUME AnswersInv, NEW S \in SUBSET Clients, Drop(S),
           UNCHANGED <<m_send_buffer, m_send_committed, m_action_queue, todo, arrived,
                       last, accepted, told, asked>>,
           phase' = phase \/ phase' = "stopped",
           \A s \in S : place[s] = "m_accepted" \/ (place[s] = "m_sessions" /\ phase' = "stopped")
    PROVE  AnswersInv'
<1>1. /\ place' \in [Clients -> Places]
      /\ m_state' \in [Clients -> {"login", "serving", "closing", "closed"}]
      /\ m_data_link' \in [Clients -> BOOLEAN]
      /\ \A r \in Clients : r \notin S => place'[r] = place[r] /\ m_state'[r] = m_state[r]
                                          /\ m_data_link'[r] = m_data_link[r]
      /\ \A r \in S : place'[r] = "gone" /\ m_state'[r] = "closed" /\ ~m_data_link'[r]
  BY DEF AnswersInv, AnswersTypeOK, Drop, Places
<1>2. AnswersTypeOK' /\ QueueOK'
  BY <1>1 DEF AnswersInv, AnswersTypeOK, QueueOK, Places
<1>3. TodoOK'
  <2>1. SUFFICES ASSUME phase' = "io", NEW r \in todo' PROVE place'[r] = "m_sessions"
    BY DEF TodoOK
  <2>2. r \in Clients /\ place[r] = "m_sessions" /\ r \notin S
    BY <2>1 DEF AnswersInv, AnswersTypeOK, TodoOK
  <2>. QED BY <1>1, <2>2
<1>4. ASSUME NEW r \in Clients, r \notin S PROVE SessionOK(r)'
  <2>1. Untouched(r) /\ PhaseKeeps(r) /\ SameAnswers(r, m_action_queue, m_action_queue')
    BY <1>1, <1>4 DEF Untouched, PhaseKeeps, SameAnswers, AnswersInv, AnswersTypeOK
  <2>. QED BY <2>1, UntouchedKeeps DEF AnswersInv
<1>5. ASSUME NEW s \in S PROVE SessionOK(s)'
  <2>1. /\ SessionOK(s) /\ s \in Clients /\ place'[s] = "gone" /\ m_state'[s] = "closed" /\ ~m_data_link'[s]
        /\ place[s] # "none"
    BY <1>1, <1>5 DEF AnswersInv
  <2>2. /\ NOrders(s)' = NOrders(s) /\ NLogins(s)' = NLogins(s) /\ NBeats(s)' = NBeats(s)
        /\ Unread(s)' = Unread(s) /\ Size(s)' = Size(s)
        /\ Knocking(s)' <=> Knocking(s)
        /\ Fresh(s)' <=> Fresh(s)
        /\ LoginPending(s)' <=> LoginPending(s)
        /\ ~LoginBegun(s)' /\ Disabled(s)'
    BY <2>1 DEF NOrders, NLogins, NBeats, Unread, Size, Knocking, Fresh, LoginPending, LoginBegun, Disabled
  <2>3. BufferOK(s)'
    BY <2>1, <2>2 DEF SessionOK, BufferOK
  <2>4. AccountsOK(s)'
    BY <2>1, <2>2 DEF SessionOK, AccountsOK
  <2>5. KnocksOK(s)'
    BY <2>1, <2>2 DEF SessionOK, KnocksOK
  <2>6. LoginOK(s)'
    <3>1. SUFFICES ASSUME LoginPending(s)
                   PROVE  /\ ~accepted[s] /\ told[s] = 0 /\ NBeats(s) = 0
                          /\ phase' # "stopped" => Fresh(s)
      BY <2>1, <2>2 DEF LoginOK
    <3>2. /\ ~accepted[s] /\ told[s] = 0 /\ NBeats(s) = 0
          /\ ~LoginBegun(s) /\ phase # "stopped" => Fresh(s)
      BY <2>1, <3>1 DEF SessionOK, LoginOK
    <3>3. ASSUME phase' # "stopped" PROVE Fresh(s)
      <4>1. place[s] = "m_accepted" /\ phase # "stopped"
        BY <1>5, <3>3
      <4>2. NLogins(s) = 0 /\ NOrders(s) = 0
        BY <2>1, <3>2, <4>1 DEF SessionOK, KnocksOK, AccountsOK, Knocking
      <4>3. ~BegunFor(s)
        BY <2>1, <3>2, <4>2, NothingQueued
      <4>. QED BY <3>2, <4>1, <4>3 DEF LoginBegun
    <3>. QED BY <3>2, <3>3
  <2>. QED BY <2>3, <2>4, <2>5, <2>6 DEF SessionOK
<1>. QED BY <1>2, <1>3, <1>4, <1>5 DEF AnswersInv

\* Both ends drop sessions so.
LEMMA EndAnswers ==
    ASSUME AnswersInv, listener_end \/ stop_sessions
    PROVE  AnswersInv'
<1>1. CASE listener_end
  <2>1. PICK S \in SUBSET Clients : S = {s \in Clients : place[s] = "m_accepted"} /\ Drop(S)
    BY <1>1 DEF listener_end
  <2>2. /\ UNCHANGED <<m_send_buffer, m_send_committed, m_action_queue, todo, arrived,
                       last, accepted, told, asked>>
        /\ phase' = phase
    BY <1>1 DEF listener_end, server, client
  <2>. QED BY <2>1, <2>2, DropAnswers
<1>2. CASE stop_sessions
  <2>1. PICK S \in SUBSET Clients : S = {s \in Clients : place[s] = "m_sessions"} /\ Drop(S)
    BY <1>2 DEF stop_sessions
  <2>2. /\ UNCHANGED <<m_send_buffer, m_send_committed, m_action_queue, todo, arrived,
                       last, accepted, told, asked>>
        /\ phase' = "stopped"
    BY <1>2 DEF stop_sessions, client
  <2>3. \A s \in S : place[s] = "m_sessions" /\ phase' = "stopped"
    BY <2>1, <2>2
  <2>. QED BY <2>1, <2>2, <2>3, DropAnswers
<1>. QED BY <1>1, <1>2

-------------------------------------------------------------------------------
(* The I/O of a session. *)

\* The answers to what has arrived are as many, and its own.
LEMMA AnswersCounts ==
    ASSUME AnswersInv, NEW s \in Clients, NEW ds \in DelaysOf(s)
    PROVE  /\ Count(Answers(s, ds), OrderEvents(s)) = Unread(s)
           /\ Count(Answers(s, ds), LoginEvents(s)) = (IF arrived[s] = <<"L">> THEN 1 ELSE 0)
           /\ Count(Answers(s, ds), BeatEvents(s)) = 0
           /\ \A r : r # s => \A M \in {OrderEvents(r), LoginEvents(r), BeatEvents(r)} :
                                 Count(Answers(s, ds), M) = 0
<1>1. PICK a \in Seq({"L", "U"}) : a = arrived[s] /\ asked[s] \in Int
  BY DEF AnswersInv, AnswersTypeOK
<1>2. PICK A \in Seq(Ev) : A = Answers(s, ds) /\ Len(A) = Len(a)
  <2>1. m_action_queue \in Seq(Ev) /\ HeadOnly(m_action_queue)
    BY DEF AnswersInv, AnswersTypeOK, QueueOK
  <2>. QED BY <1>1, <2>1, ConsumedJoins
<1>3. PICK n \in Nat : n = Len(a) /\ DOMAIN a = 1..n /\ DOMAIN A = 1..n
  BY <1>2, LenProperties
<1>4. ASSUME NEW k \in 1..n PROVE A[k] \in Ev /\ A[k].s = s /\ A[k].type = a[k] /\ a[k] \in {"L", "U"}
  <2>1. A[k] = Answer(s, k, ds[k])
    BY <1>1, <1>2, <1>3 DEF Answers
  <2>2. A[k] \in Ev /\ a[k] \in {"L", "U"}
    BY <1>2, <1>3, ElementOfSeq
  <2>. QED BY <1>1, <2>1, <2>2 DEF Answer, Event
<1>5. Count(A, OrderEvents(s)) = Count(a, {"U"})
  <2>1. \A k \in DOMAIN A : A[k] \in OrderEvents(s) <=> a[k] \in {"U"}
    BY <1>3, <1>4 DEF OrderEvents
  <2>. QED BY <1>3, <2>1, CountSame
<1>6. Count(A, LoginEvents(s)) = Count(a, {"L"})
  <2>1. \A k \in DOMAIN A : A[k] \in LoginEvents(s) <=> a[k] \in {"L"}
    BY <1>3, <1>4 DEF LoginEvents
  <2>. QED BY <1>3, <2>1, CountSame
<1>7. ASSUME NEW M, \A k \in 1..n : A[k] \notin M PROVE Count(A, M) = 0
  <2>1. At(A, M) = {}
    BY <1>3, <1>7 DEF At
  <2>. QED BY <2>1, FS_EmptySet DEF Count
<1>8. Count(A, BeatEvents(s)) = 0
  <2>1. \A k \in 1..n : A[k] \notin BeatEvents(s)
    BY <1>4 DEF BeatEvents
  <2>. QED BY <1>7, <2>1
<1>9. ASSUME NEW r, r # s, NEW M \in {OrderEvents(r), LoginEvents(r), BeatEvents(r)} PROVE Count(A, M) = 0
  <2>1. \A k \in 1..n : A[k] \notin M
    BY <1>4, <1>9 DEF OrderEvents, LoginEvents, BeatEvents
  <2>. QED BY <1>7, <2>1
<1>10. Count(a, {"L"}) = IF a = <<"L">> THEN 1 ELSE 0
  <2>1. CASE a = <<"L">>
    <3>1. "L" \in {"L"}
      OBVIOUS
    <3>. QED BY <2>1, <3>1, CountOne
  <2>2. CASE a # <<"L">>
    <3>1. ~ \E k \in 1..Len(a) : a[k] = "L"
      BY <1>1, <2>2 DEF AnswersInv, SessionOK, KnocksOK
    <3>2. At(a, {"L"}) = {}
      BY <1>3, <3>1 DEF At
    <3>. QED BY <2>2, <3>2, FS_EmptySet DEF Count
  <2>. QED BY <2>1, <2>2
<1>. QED BY <1>1, <1>2, <1>5, <1>6, <1>8, <1>9, <1>10 DEF Unread

\* What the I/O of session s does to the queue.
QueuedFor(s) ==
    /\ m_action_queue' \in Seq(Ev) /\ QueueOK'
    /\ \A r : r # s => SameAnswers(r, m_action_queue, m_action_queue')
    /\ BegunFor(s)' <=> BegunFor(s)
    /\ BegunFor(s) => m_action_queue'[1].type = m_action_queue[1].type
    /\ NOrders(s)' = NOrders(s) + Unread(s)
    /\ NLogins(s)' = NLogins(s) + (IF arrived[s] = <<"L">> THEN 1 ELSE 0)

\* A round of I/O adds an answer to each request, and a heartbeat perhaps.
LEMMA IoQueue ==
    ASSUME AnswersInv, NEW s \in Clients, NEW ds \in DelaysOf(s),
           \/ m_action_queue' = Consumed(s, m_action_queue, ds)
           \/ m_action_queue' = Enqueue(Consumed(s, m_action_queue, ds), Event(s, "H", 0, 0))
    PROVE  /\ QueuedFor(s)
           /\ m_action_queue' = Consumed(s, m_action_queue, ds) => NBeats(s)' = NBeats(s)
<1>1. PICK q \in Seq(Ev) : q = m_action_queue /\ HeadOnly(q)
  BY DEF AnswersInv, AnswersTypeOK, QueueOK
<1>2. PICK A : A = Answers(s, ds)
  OBVIOUS
<1>3. PICK p \in Seq(Ev) : p = Consumed(s, q, ds) /\ Joined(q, p) /\ Gathers(q, A, p)
  <2>1. arrived[s] \in Seq({"L", "U"}) /\ asked[s] \in Int
    BY DEF AnswersInv, AnswersTypeOK
  <2>2. Joined(q, Consumed(s, q, ds)) /\ Gathers(q, A, Consumed(s, q, ds))
    BY <1>1, <1>2, <2>1, ConsumedJoins
  <2>. QED BY <2>2 DEF Joined
<1>4. PICK e \in Ev : e = Event(s, "H", 0, 0) /\ e.s = s /\ e.type = "H" /\ e.step = 0
  <2>1. Event(s, "H", 0, 0) \in Ev
    BY DEF Event, Ev
  <2>. QED BY <2>1 DEF Event
<1>5. /\ Joined(p, Enqueue(p, e))
      /\ \A M : Count(Enqueue(p, e), M) = Count(p, M) + IF e \in M THEN 1 ELSE 0
  BY <1>3, <1>4, EnqueueJoins DEF Joined
<1>6. PICK z \in Seq(Ev) : z = m_action_queue' /\ (z = p \/ z = Enqueue(p, e))
  BY <1>1, <1>3, <1>4, <1>5 DEF Joined
<1>7. Joined(q, z)
  BY <1>3, <1>5, <1>6 DEF Joined
<1>8. ASSUME NEW M, e \notin M \/ z = p PROVE Count(z, M) = Count(q, M) + Count(A, M)
  <2>1. Count(p, M) = Count(q, M) + Count(A, M)
    BY <1>3 DEF Gathers
  <2>2. Count(p, M) \in Nat
    BY CountType
  <2>. QED BY <1>5, <1>6, <1>8, <2>1, <2>2
<1>9. \A M : Count(q, M) \in Nat
  BY CountType
<1>10. ASSUME NEW r, r # s PROVE SameAnswers(r, q, z)
  <2>1. ASSUME NEW M \in {OrderEvents(r), LoginEvents(r), BeatEvents(r)} PROVE Count(z, M) = Count(q, M)
    <3>1. Count(A, M) = 0
      BY <1>2, <1>10, AnswersCounts
    <3>2. e \notin M
      BY <1>4, <1>10 DEF OrderEvents, LoginEvents, BeatEvents
    <3>3. Count(z, M) = Count(q, M) + Count(A, M)
      BY <1>8, <3>2
    <3>. QED BY <1>9, <3>1, <3>3
  <2>. QED BY <1>7, <2>1 DEF SameAnswers, Joined
<1>11. /\ Count(z, OrderEvents(s)) = Count(q, OrderEvents(s)) + Unread(s)
       /\ Count(z, LoginEvents(s)) = Count(q, LoginEvents(s)) + IF arrived[s] = <<"L">> THEN 1 ELSE 0
  <2>1. e \notin OrderEvents(s) /\ e \notin LoginEvents(s)
    BY <1>4 DEF OrderEvents, LoginEvents
  <2>2. /\ Count(z, OrderEvents(s)) = Count(q, OrderEvents(s)) + Count(A, OrderEvents(s))
        /\ Count(z, LoginEvents(s)) = Count(q, LoginEvents(s)) + Count(A, LoginEvents(s))
    BY <1>8, <2>1
  <2>. QED BY <1>2, <2>2, AnswersCounts
<1>12. z = p => Count(z, BeatEvents(s)) = Count(q, BeatEvents(s))
  <2>1. Count(A, BeatEvents(s)) = 0
    BY <1>2, AnswersCounts
  <2>2. z = p => Count(z, BeatEvents(s)) = Count(q, BeatEvents(s)) + Count(A, BeatEvents(s))
    BY <1>8
  <2>. QED BY <1>9, <2>1, <2>2
<1>13. QueueOK' /\ (BegunFor(s)' <=> BegunFor(s)) /\ (BegunFor(s) => m_action_queue'[1].type = m_action_queue[1].type)
  BY <1>1, <1>6, <1>7 DEF Joined, QueueOK, BegunFor
<1>14. \A r : r # s => SameAnswers(r, m_action_queue, m_action_queue')
  BY <1>1, <1>6, <1>10
<1>15. NOrders(s)' = NOrders(s) + Unread(s)
  BY <1>1, <1>6, <1>11 DEF NOrders
<1>16. NLogins(s)' = NLogins(s) + (IF arrived[s] = <<"L">> THEN 1 ELSE 0)
  BY <1>1, <1>6, <1>11 DEF NLogins
<1>17. m_action_queue' = Consumed(s, m_action_queue, ds) => NBeats(s)' = NBeats(s)
  BY <1>1, <1>3, <1>6, <1>12 DEF NBeats
<1>. QED BY <1>6, <1>13, <1>14, <1>15, <1>16, <1>17 DEF QueuedFor

\* Session s is served, and the others are left alone.
ServedOnly(s) ==
    /\ phase = "io" /\ s \in todo /\ phase' = "io" /\ todo' = todo \ {s}
    /\ place' = place /\ place[s] = "m_sessions" /\ asked' = asked
    /\ \A r \in Clients : r # s => Untouched(r) /\ SameAnswers(r, m_action_queue, m_action_queue')
    /\ m_action_queue' \in Seq(Ev) /\ QueueOK'

\* The invariant of the session served is enough.
LEMMA ServedKeeps ==
    ASSUME AnswersInv, NEW s \in Clients, ServedOnly(s), AnswersTypeOK', SessionOK(s)'
    PROVE  AnswersInv'
<1>1. TodoOK' /\ QueueOK'
  BY DEF AnswersInv, TodoOK, ServedOnly
<1>2. ASSUME NEW r \in Clients, r # s PROVE SessionOK(r)'
  <2>1. Untouched(r) /\ PhaseKeeps(r) /\ SameAnswers(r, m_action_queue, m_action_queue')
    BY <1>2 DEF ServedOnly, PhaseKeeps
  <2>. QED BY <2>1, UntouchedKeeps DEF AnswersInv
<1>. QED BY <1>1, <1>2 DEF AnswersInv

\* A closed session holds and owes nothing.
LEMMA ClosedBuffer ==
    ASSUME AnswersInv, NEW s \in Clients, Close(s), last' = last
    PROVE  /\ m_state'[s] = "closed" /\ ~m_data_link'[s] /\ m_send_buffer'[s] = <<>> /\ m_send_committed'[s] = 0
           /\ m_state' \in [Clients -> {"login", "serving", "closing", "closed"}]
           /\ m_data_link' \in [Clients -> BOOLEAN]
           /\ m_send_buffer' \in [Clients -> Seq(Unit)] /\ m_send_committed' \in [Clients -> Nat]
           /\ \A r \in Clients : r # s => /\ m_state'[r] = m_state[r] /\ m_data_link'[r] = m_data_link[r]
                                        /\ m_send_buffer'[r] = m_send_buffer[r]
                                        /\ m_send_committed'[r] = m_send_committed[r]
           /\ BufferOK(s)'
<1>1. /\ m_state \in [Clients -> {"login", "serving", "closing", "closed"}]
      /\ m_data_link \in [Clients -> BOOLEAN]
      /\ m_send_buffer \in [Clients -> Seq(Unit)] /\ m_send_committed \in [Clients -> Nat]
  BY DEF AnswersInv, AnswersTypeOK
<1>2. /\ m_state' = [m_state EXCEPT ![s] = "closed"]
      /\ m_data_link' = [m_data_link EXCEPT ![s] = FALSE]
      /\ m_send_buffer' = [m_send_buffer EXCEPT ![s] = <<>>]
      /\ m_send_committed' = [m_send_committed EXCEPT ![s] = 0]
  BY DEF Close
<1>3. <<>> \in Seq(Unit) /\ Len(<<>>) = 0
  OBVIOUS
<1>4. /\ m_state' \in [Clients -> {"login", "serving", "closing", "closed"}] /\ m_state'[s] = "closed"
      /\ \A r \in Clients : r # s => m_state'[r] = m_state[r]
  BY <1>1, <1>2
<1>5. /\ m_data_link' \in [Clients -> BOOLEAN] /\ ~m_data_link'[s]
      /\ \A r \in Clients : r # s => m_data_link'[r] = m_data_link[r]
  BY <1>1, <1>2
<1>6. /\ m_send_buffer' \in [Clients -> Seq(Unit)] /\ m_send_buffer'[s] = <<>>
      /\ \A r \in Clients : r # s => m_send_buffer'[r] = m_send_buffer[r]
  BY <1>1, <1>2, <1>3
<1>7. /\ m_send_committed' \in [Clients -> Nat] /\ m_send_committed'[s] = 0
      /\ \A r \in Clients : r # s => m_send_committed'[r] = m_send_committed[r]
  BY <1>1, <1>2
<1>8. BufferOK(s)'
  <2>1. Linked(last'[s], m_send_buffer'[s])
    BY <1>3, <1>6 DEF Linked
  <2>2. m_send_committed'[s] <= Size(s)' /\ Disabled(s)'
    BY <1>3, <1>4, <1>6, <1>7 DEF Size, Disabled
  <2>. QED BY <1>5, <2>1, <2>2 DEF BufferOK
<1>. QED BY <1>4, <1>5, <1>6, <1>7, <1>8

\* A client that hung up before its login was answered leaves a fresh session.
LEMMA EofAnswers == ASSUME AnswersInv, NEW s \in Clients, io_eof(s) PROVE AnswersInv'
<1>1. /\ phase = "io" /\ s \in todo /\ todo' = todo \ {s} /\ m_state[s] # "closed"
      /\ arrived[s] = <<>> /\ Close(s)
      /\ UNCHANGED <<place, m_action_queue, phase, arrived, last, accepted, told, asked>>
  BY DEF io_eof, Serving, client
<1>2. SessionOK(s) /\ place[s] = "m_sessions" /\ m_action_queue \in Seq(Ev) /\ QueueOK
  BY <1>1 DEF AnswersInv, AnswersTypeOK, TodoOK
<1>3. /\ m_state'[s] = "closed" /\ ~m_data_link'[s] /\ m_send_buffer'[s] = <<>> /\ m_send_committed'[s] = 0
      /\ m_state' \in [Clients -> {"login", "serving", "closing", "closed"}]
      /\ m_data_link' \in [Clients -> BOOLEAN]
      /\ m_send_buffer' \in [Clients -> Seq(Unit)] /\ m_send_committed' \in [Clients -> Nat]
      /\ \A r \in Clients : r # s => /\ m_state'[r] = m_state[r] /\ m_data_link'[r] = m_data_link[r]
                                   /\ m_send_buffer'[r] = m_send_buffer[r]
                                   /\ m_send_committed'[r] = m_send_committed[r]
      /\ BufferOK(s)'
  BY <1>1, ClosedBuffer
<1>4. ServedOnly(s)
  <2>1. ASSUME NEW r \in Clients, r # s PROVE Untouched(r) /\ SameAnswers(r, m_action_queue, m_action_queue')
    BY <1>1, <1>3, <2>1 DEF Untouched, SameAnswers
  <2>. QED BY <1>1, <1>2, <2>1 DEF ServedOnly, QueueOK
<1>5. AnswersTypeOK'
  BY <1>1, <1>3 DEF AnswersInv, AnswersTypeOK
<1>6. /\ NOrders(s)' = NOrders(s) /\ NLogins(s)' = NLogins(s) /\ NBeats(s)' = NBeats(s)
      /\ Unread(s)' = Unread(s) /\ (Knocking(s)' <=> Knocking(s))
      /\ (LoginPending(s)' <=> LoginPending(s)) /\ ~LoginBegun(s)' /\ Disabled(s)'
  BY <1>1, <1>3 DEF NOrders, NLogins, NBeats, Unread, Knocking, LoginPending, LoginBegun, Disabled
<1>7. AccountsOK(s)' /\ KnocksOK(s)'
  BY <1>1, <1>2, <1>6 DEF SessionOK, AccountsOK, KnocksOK
<1>8. LoginOK(s)'
  <2>1. SUFFICES ASSUME LoginPending(s)
                 PROVE  ~accepted[s] /\ told[s] = 0 /\ NBeats(s) = 0 /\ last[s] = <<"H", 0, 2>>
    BY <1>1, <1>3, <1>6 DEF LoginOK, Fresh
  <2>2. /\ ~accepted[s] /\ told[s] = 0 /\ NBeats(s) = 0
        /\ LoginBegun(s) => last[s] = <<"H", 0, 2>>
        /\ ~LoginBegun(s) => Fresh(s)
    BY <1>1, <1>2, <2>1 DEF SessionOK, LoginOK
  <2>. QED BY <2>2 DEF Fresh
<1>9. SessionOK(s)'
  BY <1>3, <1>7, <1>8 DEF SessionOK
<1>. QED BY <1>4, <1>5, <1>9, ServedKeeps

\* A session that closes has its login answered.
LEMMA CloseAnswers == ASSUME AnswersInv, NEW s \in Clients, NEW ds \in DelaysOf(s), io_close(s, ds) PROVE AnswersInv'
<1>1. /\ phase = "io" /\ s \in todo /\ todo' = todo \ {s} /\ m_state[s] = "closing" /\ Close(s)
      /\ m_action_queue' = Consumed(s, m_action_queue, ds) /\ arrived' = [arrived EXCEPT ![s] = <<>>]
      /\ UNCHANGED <<place, phase, last, accepted, told, asked>>
  BY DEF io_close, Serving, client
<1>2. SessionOK(s) /\ place[s] = "m_sessions" /\ QueuedFor(s)
  BY <1>1, IoQueue DEF AnswersInv, TodoOK
<1>3. /\ m_state'[s] = "closed" /\ ~m_data_link'[s] /\ m_send_buffer'[s] = <<>> /\ m_send_committed'[s] = 0
      /\ m_state' \in [Clients -> {"login", "serving", "closing", "closed"}]
      /\ m_data_link' \in [Clients -> BOOLEAN]
      /\ m_send_buffer' \in [Clients -> Seq(Unit)] /\ m_send_committed' \in [Clients -> Nat]
      /\ \A r \in Clients : r # s => /\ m_state'[r] = m_state[r] /\ m_data_link'[r] = m_data_link[r]
                                   /\ m_send_buffer'[r] = m_send_buffer[r]
                                   /\ m_send_committed'[r] = m_send_committed[r]
      /\ BufferOK(s)'
  BY <1>1, ClosedBuffer
<1>4. /\ arrived' \in [Clients -> Seq({"L", "U"})] /\ arrived'[s] = <<>>
      /\ \A r \in Clients : r # s => arrived'[r] = arrived[r]
  <2>1. <<>> \in Seq({"L", "U"}) /\ arrived \in [Clients -> Seq({"L", "U"})]
    BY DEF AnswersInv, AnswersTypeOK
  <2>. QED BY <1>1, <2>1
<1>5. ServedOnly(s)
  <2>1. ASSUME NEW r \in Clients, r # s PROVE Untouched(r) /\ SameAnswers(r, m_action_queue, m_action_queue')
    BY <1>1, <1>2, <1>3, <1>4, <2>1 DEF Untouched, QueuedFor
  <2>. QED BY <1>1, <1>2, <2>1 DEF ServedOnly, QueuedFor
<1>6. AnswersTypeOK'
  BY <1>1, <1>2, <1>3, <1>4 DEF AnswersInv, AnswersTypeOK, QueuedFor
<1>7. ~LoginPending(s) /\ arrived[s] # <<"L">> /\ NLogins(s) = 0
  <2>1. ~LoginPending(s)
    BY <1>1, <1>2 DEF SessionOK, LoginOK
  <2>. QED BY <2>1 DEF LoginPending, Knocking
<1>8. NLogins(s)' = 0 /\ ~Knocking(s)' /\ ~LoginPending(s)' /\ Disabled(s)'
  <2>1. <<>> # <<"L">>
    OBVIOUS
  <2>2. ~Knocking(s)'
    BY <1>1, <1>2, <1>4, <2>1 DEF Knocking
  <2>. QED BY <1>2, <1>3, <1>7, <2>2 DEF QueuedFor, LoginPending, Disabled
<1>9. Unread(s)' = 0
  <2>1. At(<<>>, {"U"}) = {}
    BY DEF At
  <2>. QED BY <1>4, <2>1, FS_EmptySet DEF Unread, Count
<1>10. AccountsOK(s)'
  <2>1. ~accepted[s] => asked[s] = 0 /\ Unread(s) = 0 /\ NOrders(s) = 0
    BY <1>2 DEF SessionOK, AccountsOK
  <2>2. ~accepted[s] => NOrders(s)' = 0
    BY <1>2, <2>1 DEF QueuedFor
  <2>. QED BY <1>1, <1>8, <1>9, <2>1, <2>2 DEF AccountsOK
<1>11. KnocksOK(s)' /\ LoginOK(s)'
  <2>1. Len(<<>>) = 0
    OBVIOUS
  <2>2. ~ \E k \in 1..Len(arrived'[s]) : arrived'[s][k] = "L"
    BY <1>4, <2>1
  <2>. QED BY <1>1, <1>2, <1>8, <2>2 DEF KnocksOK, LoginOK
<1>. QED BY <1>3, <1>5, <1>6, <1>10, <1>11, ServedKeeps DEF SessionOK

\* The members of a sequence behind its first c.
Suffix(z, b, c) == z = SubSeq(b, c + 1, Len(b))

\* What may go is what goes and what may go then.
LEMMA CountSent ==
    ASSUME NEW b \in Seq(Unit), NEW c \in 0..Len(b), NEW k \in 0..c, NEW d \in Nat, k + d <= c, c <= k + d,
           NEW z \in Seq(Unit), Suffix(z, b, k),
           NEW g, Prefix(g, b, c), NEW h, Prefix(h, b, k), NEW w, Prefix(w, z, d), NEW M
    PROVE  Count(g, M) = Count(h, M) + Count(w, M)
<1>1. PICK n \in Nat : n = Len(b)
  BY LenProperties
<1>2. PICK p \in Seq(Unit) : p = SubSeq(b, 1, c) /\ Len(p) = c /\ \A i \in 1..c : p[i] = b[i]
  <2>1. SubSeq(b, 1, c) \in Seq(Unit) /\ Cut(b, c, SubSeq(b, 1, c), SubSeq(b, c + 1, Len(b)))
    BY CutSeq
  <2>. QED BY <2>1 DEF Cut
<1>3. k \in 0..Len(b)
  BY <1>1
<1>4. PICK o \in Seq(Unit) : /\ o = SubSeq(b, 1, k) /\ Len(o) = k /\ \A i \in 1..k : o[i] = b[i]
                             /\ Len(z) = n - k /\ \A i \in 1..(n - k) : z[i] = b[k + i]
  <2>1. SubSeq(b, 1, k) \in Seq(Unit) /\ Cut(b, k, SubSeq(b, 1, k), SubSeq(b, k + 1, Len(b)))
    BY <1>3, CutSeq
  <2>. QED BY <1>1, <2>1 DEF Cut, Suffix
<1>5. PICK x \in Seq(Unit) : x = SubSeq(z, 1, d) /\ Len(x) = d /\ \A i \in 1..d : x[i] = z[i]
  <2>1. d \in 0..Len(z)
    BY <1>1, <1>4
  <2>2. SubSeq(z, 1, d) \in Seq(Unit) /\ Cut(z, d, SubSeq(z, 1, d), SubSeq(z, d + 1, Len(z)))
    BY <2>1, CutSeq
  <2>. QED BY <2>2 DEF Cut
<1>6. PICK y \in Seq(Unit) : y = o \o x
  BY ConcatProperties
<1>7. Len(y) = k + d /\ \A i \in 1..(k + d) : y[i] = IF i <= k THEN o[i] ELSE x[i - k]
  BY <1>4, <1>5, <1>6, ConcatProperties
<1>8. Len(y) = Len(p)
  BY <1>1, <1>2, <1>7
<1>9. ASSUME NEW i \in 1..Len(p) PROVE p[i] = y[i]
  <2>1. i \in 1..c /\ i \in 1..(k + d)
    BY <1>1, <1>2
  <2>2. CASE i <= k
    BY <1>1, <1>2, <1>4, <1>7, <2>1, <2>2
  <2>3. CASE i > k
    <3>1. i - k \in 1..d /\ i - k \in 1..(n - k) /\ k + (i - k) = i
      BY <1>1, <2>1, <2>3
    <3>2. x[i - k] = b[i]
      BY <1>4, <1>5, <3>1
    <3>. QED BY <1>1, <1>2, <1>7, <2>1, <2>3, <3>2
  <2>. QED BY <1>1, <2>1, <2>2, <2>3
<1>10. p = y
  BY <1>8, <1>9, SeqEqual
<1>11. Count(o \o x, M) = Count(o, M) + Count(x, M)
  BY CountConcat
<1>12. g = p /\ h = o /\ w = x
  BY <1>2, <1>4, <1>5 DEF Prefix
<1>. QED BY <1>6, <1>10, <1>11, <1>12

\* Answered counts the last units.
LEMMA AnsweredCount ==
    ASSUME NEW out \in Seq(Unit)
    PROVE  Cardinality(Answered(out)) = Count(out, Lasts)
<1>1. DOMAIN out = 1..Len(out) /\ \A k \in 1..Len(out) : out[k] \in Unit
  BY LenProperties, ElementOfSeq
<1>2. Answered(out) = At(out, Lasts)
  BY <1>1 DEF Answered, At, Lasts
<1>. QED BY <1>2 DEF Count

\* The units that go, of the session that sends them.
SentBy(s, rc) ==
    /\ m_send_buffer' \in [Clients -> Seq(Unit)] /\ m_send_committed' \in [Clients -> Nat]
    /\ last' \in [Clients -> Unit] /\ told' \in [Clients -> Int]
    /\ \A r \in Clients : r # s => /\ m_send_buffer'[r] = m_send_buffer[r]
                                 /\ m_send_committed'[r] = m_send_committed[r]
                                 /\ last'[r] = last[r] /\ told'[r] = told[r]
    /\ Linked(last'[s], m_send_buffer'[s]) /\ EndOf(s)' = EndOf(s)
    /\ Size(s)' = Size(s) - rc /\ m_send_committed'[s] = m_send_committed[s] - rc
    /\ Written(s)' + told'[s] = Written(s) + told[s] /\ Written(s)' \in Nat
    /\ Written(s) = 0 => told'[s] = told[s]
    /\ rc = 0 => m_send_buffer'[s] = m_send_buffer[s] /\ last'[s] = last[s]

\* The units that go are those at the front.
LEMMA SendEffect ==
    ASSUME AnswersInv, NEW s \in Clients, NEW rc \in 0..m_send_committed[s],
           NEW out, Prefix(out, m_send_buffer[s], rc),
           m_send_buffer' = [m_send_buffer EXCEPT ![s] = SubSeq(@, rc + 1, Len(@))],
           m_send_committed' = [m_send_committed EXCEPT ![s] = @ - rc],
           last' = IF rc > 0 THEN [last EXCEPT ![s] = out[rc]] ELSE last,
           told' = [told EXCEPT ![s] = @ + Cardinality(Answered(out))]
    PROVE  SentBy(s, rc)
<1>1. PICK b \in Seq(Unit), c \in Nat, n \in Nat, l \in Unit :
         b = m_send_buffer[s] /\ c = m_send_committed[s] /\ n = Len(b) /\ c <= n /\ l = last[s] /\ Linked(l, b)
  BY CountTypes, LenProperties DEF SessionOK, BufferOK
<1>2. rc \in 0..Len(b) /\ c \in 0..Len(b) /\ rc \in 0..c /\ rc \in Nat
  BY <1>1
<1>3. /\ m_send_buffer \in [Clients -> Seq(Unit)] /\ m_send_committed \in [Clients -> Nat]
      /\ last \in [Clients -> Unit] /\ told \in [Clients -> Int]
  BY DEF AnswersInv, AnswersTypeOK
<1>4. PICK z \in Seq(Unit) : Suffix(z, b, rc) /\ z = SubSeq(b, rc + 1, Len(b))
  BY <1>2, CutSeq DEF Suffix
<1>5. out \in Seq(Unit) /\ Cut(b, rc, out, z)
  BY <1>1, <1>2, <1>4, CutSeq DEF Prefix
<1>6. /\ m_send_buffer' \in [Clients -> Seq(Unit)] /\ m_send_buffer'[s] = z
      /\ \A r \in Clients : r # s => m_send_buffer'[r] = m_send_buffer[r]
  BY <1>1, <1>3, <1>4
<1>7. PICK d \in Nat : d = c - rc /\ rc + d <= c /\ c <= rc + d
  <2>1. c - rc \in Nat /\ rc + (c - rc) <= c /\ c <= rc + (c - rc)
    BY <1>1, <1>2
  <2>. QED BY <2>1
<1>8. /\ m_send_committed' \in [Clients -> Nat] /\ m_send_committed'[s] = d
      /\ \A r \in Clients : r # s => m_send_committed'[r] = m_send_committed[r]
  BY <1>1, <1>3, <1>7
<1>9. Linked(Nth(l, b, rc), z) /\ End(Nth(l, b, rc), z) = End(l, b) /\ Nth(l, b, rc) \in Unit
  BY <1>1, <1>2, <1>4, LinkedCut
<1>10. /\ last' \in [Clients -> Unit] /\ last'[s] = Nth(l, b, rc)
       /\ \A r \in Clients : r # s => last'[r] = last[r]
  <2>1. CASE rc = 0
    BY <1>1, <1>3, <2>1 DEF Nth
  <2>2. CASE rc # 0
    <3>1. rc > 0 /\ rc \in 1..rc
      BY <1>2, <2>2
    <3>2. out[rc] = b[rc] /\ Nth(l, b, rc) = b[rc]
      BY <1>5, <2>2, <3>1 DEF Cut, Nth
    <3>3. last' = [last EXCEPT ![s] = Nth(l, b, rc)]
      BY <3>1, <3>2
    <3>. QED BY <1>3, <1>9, <3>3
  <2>. QED BY <2>1, <2>2
<1>11. Cardinality(Answered(out)) = Count(out, Lasts) /\ Count(out, Lasts) \in Nat
  BY <1>5, AnsweredCount, CountType
<1>12. /\ told' \in [Clients -> Int] /\ told'[s] = told[s] + Count(out, Lasts)
       /\ \A r \in Clients : r # s => told'[r] = told[r]
  BY <1>3, <1>11
<1>13. Written(s) = Count(out, Lasts) + Written(s)'
  <2>1. PICK g : Prefix(g, b, c)
    BY DEF Prefix
  <2>2. PICK w : Prefix(w, z, d)
    BY DEF Prefix
  <2>3. Prefix(out, b, rc) /\ Suffix(z, b, rc) /\ rc + d <= c /\ c <= rc + d
    BY <1>1, <1>4, <1>7
  <2>4. Count(g, Lasts) = Count(out, Lasts) + Count(w, Lasts)
    BY <1>2, <2>1, <2>2, <2>3, CountSent
  <2>5. Written(s) = Count(g, Lasts) /\ Written(s)' = Count(w, Lasts)
    BY <1>1, <1>6, <1>8, <2>1, <2>2 DEF Written, Prefix
  <2>. QED BY <2>4, <2>5
<1>14. Written(s)' \in Nat /\ told[s] \in Int
  <2>1. d \in 0..Len(z)
    <3>1. Len(z) = n - rc
      BY <1>1, <1>5 DEF Cut
    <3>. QED BY <1>1, <1>2, <1>7, <3>1
  <2>2. PICK x \in Seq(Unit) : x = SubSeq(z, 1, d)
    BY <2>1, CutSeq
  <2>3. Count(x, Lasts) \in Nat
    BY CountType
  <2>. QED BY <1>3, <1>6, <1>8, <2>2, <2>3 DEF Written
<1>15. /\ Written(s)' + told'[s] = Written(s) + told[s]
       /\ Written(s) = 0 => told'[s] = told[s]
  BY <1>11, <1>12, <1>13, <1>14
<1>16. Size(s)' = Size(s) - rc /\ m_send_committed'[s] = m_send_committed[s] - rc
  <2>1. Len(z) = n - rc
    BY <1>1, <1>5 DEF Cut
  <2>. QED BY <1>1, <1>6, <1>7, <1>8, <2>1 DEF Size
<1>17. EndOf(s)' = EndOf(s) /\ Linked(last'[s], m_send_buffer'[s])
  BY <1>1, <1>6, <1>9, <1>10 DEF EndOf
<1>18. rc = 0 => m_send_buffer'[s] = m_send_buffer[s] /\ last'[s] = last[s]
  <2>1. ASSUME rc = 0 PROVE z = b
    <3>1. rc + 1 = 1
      BY <2>1
    <3>. QED BY <1>4, <3>1, SubSeqFull
  <2>2. rc = 0 => Nth(l, b, rc) = l
    BY DEF Nth
  <2>. QED BY <1>1, <1>6, <1>10, <2>1, <2>2
<1>. QED BY <1>6, <1>8, <1>10, <1>12, <1>14, <1>15, <1>16, <1>17, <1>18 DEF SentBy

\* The first of two units that may go, if the other is the rest of an answer.
LEMMA HalfIsFirst ==
    ASSUME NEW l \in Unit, l[3] = 2, NEW b \in Seq(Unit), Linked(l, b), Len(b) = 2,
           End(l, b)[3] = 2, End(l, b)[1] # "H"
    PROVE  b[1][3] = 1
<1>1. b[1] \in Unit /\ b[2] \in Unit /\ 1 \in 1..2 /\ 2 \in 1..2
  BY ElementOfSeq
<1>2. Nth(l, b, 1) = b[1] /\ End(l, b) = b[2] /\ Nth(l, b, 2 - 1) = b[1]
  BY DEF Nth, End
<1>3. Follows(b[1], b[2])
  BY <1>1, <1>2 DEF Linked
<1>4. b[2] # <<"H", 0, 2>>
  <2>1. <<"H", 0, 2>>[1] = "H"
    OBVIOUS
  <2>. QED BY <1>2, <2>1
<1>5. b[2][3] = 2
  BY <1>2
<1>6. b[1][3] # 1 => b[2][3] = 1
  BY <1>3, <1>4 DEF Follows
<1>. QED BY <1>5, <1>6

\* I/O of a session: requests read, units sent, time-outs of both sides.
LEMMA IoAnswers ==
    ASSUME AnswersInv, NEW s \in Clients, NEW ds \in DelaysOf(s), NEW rc \in 0..m_send_committed[s],
           NEW beat \in BOOLEAN, io(s, ds, rc, beat)
    PROVE  AnswersInv'
<1>1. /\ phase = "io" /\ s \in todo /\ todo' = todo \ {s} /\ m_state[s] # "closed" /\ m_data_link[s]
      /\ arrived' = [arrived EXCEPT ![s] = <<>>]
      /\ UNCHANGED <<place, m_data_link, phase, asked>>
  BY DEF io, Serving
<1>2. PICK out :
        /\ out = SubSeq(m_send_buffer[s], 1, rc)
        /\ m_send_buffer' = [m_send_buffer EXCEPT ![s] = SubSeq(@, rc + 1, Len(@))]
        /\ m_send_committed' = [m_send_committed EXCEPT ![s] = @ - rc]
        /\ last' = IF rc > 0 THEN [last EXCEPT ![s] = out[rc]] ELSE last
        /\ accepted' = [accepted EXCEPT ![s] = @ \/ <<"L", 0, 2>> \in ToSet(out)]
        /\ told' = [told EXCEPT ![s] = @ + Cardinality(Answered(out))]
  BY DEF io
<1>3. \/ m_state' = m_state
      \/ m_state[s] = "serving" /\ m_state' = [m_state EXCEPT ![s] = "closing"]
  BY DEF io
<1>4. \/ m_action_queue' = Consumed(s, m_action_queue, ds)
      \/ /\ m_state[s] = "serving"
         /\ m_action_queue' = Enqueue(Consumed(s, m_action_queue, ds), Event(s, "H", 0, 0))
  BY DEF io
<1>5. SentBy(s, rc)
  BY <1>2, SendEffect DEF Prefix
<1>6. QueuedFor(s) /\ (m_state[s] # "serving" => NBeats(s)' = NBeats(s))
  BY <1>4, IoQueue
<1>7. SessionOK(s) /\ place[s] = "m_sessions"
  BY <1>1 DEF AnswersInv, TodoOK
<1>8. /\ arrived' \in [Clients -> Seq({"L", "U"})] /\ arrived'[s] = <<>>
      /\ \A r \in Clients : r # s => arrived'[r] = arrived[r]
  <2>1. <<>> \in Seq({"L", "U"}) /\ arrived \in [Clients -> Seq({"L", "U"})]
    BY DEF AnswersInv, AnswersTypeOK
  <2>. QED BY <1>1, <2>1
<1>9. /\ accepted' \in [Clients -> BOOLEAN]
      /\ accepted'[s] <=> accepted[s] \/ <<"L", 0, 2>> \in ToSet(out)
      /\ \A r \in Clients : r # s => accepted'[r] = accepted[r]
  <2>1. accepted \in [Clients -> BOOLEAN]
    BY DEF AnswersInv, AnswersTypeOK
  <2>2. PICK v \in BOOLEAN : v = (accepted[s] \/ <<"L", 0, 2>> \in ToSet(out))
    OBVIOUS
  <2>3. accepted' = [accepted EXCEPT ![s] = v]
    BY <1>2, <2>2
  <2>. QED BY <2>1, <2>2, <2>3
<1>10. /\ m_state' \in [Clients -> {"login", "serving", "closing", "closed"}]
       /\ m_state'[s] = m_state[s] \/ (m_state[s] = "serving" /\ m_state'[s] = "closing")
       /\ \A r \in Clients : r # s => m_state'[r] = m_state[r]
  <2>1. m_state \in [Clients -> {"login", "serving", "closing", "closed"}]
    BY DEF AnswersInv, AnswersTypeOK
  <2>2. CASE m_state' = m_state
    BY <2>1, <2>2
  <2>3. CASE m_state[s] = "serving" /\ m_state' = [m_state EXCEPT ![s] = "closing"]
    BY <2>1, <2>3
  <2>. QED BY <1>3, <2>2, <2>3
<1>11. ServedOnly(s)
  <2>1. ASSUME NEW r \in Clients, r # s PROVE Untouched(r) /\ SameAnswers(r, m_action_queue, m_action_queue')
    BY <1>1, <1>5, <1>6, <1>8, <1>9, <1>10, <2>1 DEF Untouched, QueuedFor, SentBy
  <2>. QED BY <1>1, <1>6, <1>7, <2>1 DEF ServedOnly, QueuedFor
<1>12. AnswersTypeOK'
  BY <1>1, <1>5, <1>6, <1>8, <1>9, <1>10 DEF AnswersInv, AnswersTypeOK, QueuedFor, SentBy
<1>13. ~Disabled(s)' => ~Disabled(s)
  BY <1>10 DEF Disabled
<1>14. PICK h \in Nat, c \in Nat :
          /\ h = Size(s) /\ c = m_send_committed[s] /\ c <= h /\ rc <= c /\ rc \in Nat
  <2>1. Size(s) \in Nat /\ m_send_committed[s] \in 0..Size(s)
    BY CountTypes, LenProperties DEF Size
  <2>2. m_send_committed[s] \in Nat /\ m_send_committed[s] <= Size(s) /\ rc \in Nat /\ rc <= m_send_committed[s]
    BY <2>1
  <2>. QED BY <2>1, <2>2
<1>15. BufferOK(s)'
  <2>1. m_send_committed'[s] <= Size(s)'
    BY <1>5, <1>14 DEF SentBy
  <2>2. EndOf(s)[3] = 2 /\ EndOf(s)' = EndOf(s) /\ Linked(last'[s], m_send_buffer'[s])
    BY <1>1, <1>5, <1>7 DEF SessionOK, BufferOK, SentBy
  <2>3. ASSUME ~Disabled(s)'
        PROVE  m_send_committed'[s] = Size(s)' - (IF BegunFor(s)' THEN 1 ELSE 0)
    <3>1. m_send_committed[s] = Size(s) - (IF BegunFor(s) THEN 1 ELSE 0)
      BY <1>7, <1>13, <2>3 DEF SessionOK, BufferOK
    <3>2. PICK w \in Nat : w = IF BegunFor(s) THEN 1 ELSE 0
      OBVIOUS
    <3>3. (IF BegunFor(s)' THEN 1 ELSE 0) = w
      BY <1>6, <3>2 DEF QueuedFor
    <3>4. c = h - w /\ Size(s)' = h - rc /\ m_send_committed'[s] = c - rc
      BY <1>5, <1>14, <3>1, <3>2 DEF SentBy
    <3>5. c - rc = (h - rc) - w
      BY <1>14, <3>4
    <3>. QED BY <3>3, <3>4, <3>5
  <2>4. ~Disabled(s)' /\ BegunFor(s)' => EndOf(s)[1] = m_action_queue'[1].type
    BY <1>6, <1>7, <1>13 DEF SessionOK, BufferOK, QueuedFor
  <2>. QED BY <2>1, <2>2, <2>3, <2>4 DEF BufferOK
<1>16. Unread(s)' = 0
  <2>1. At(<<>>, {"U"}) = {}
    BY DEF At
  <2>. QED BY <1>8, <2>1, FS_EmptySet DEF Unread, Count
<1>17. /\ Unread(s) \in Nat /\ NOrders(s) \in Nat /\ NLogins(s) \in Nat /\ Written(s) \in Nat
       /\ told[s] \in Int /\ asked[s] \in Int
  BY CountTypes
<1>18. AccountsOK(s)'
  <2>1. ASSUME ~Disabled(s)' PROVE asked'[s] = Unread(s)' + NOrders(s)' + Written(s)' + told'[s]
    <3>1. asked[s] = Unread(s) + NOrders(s) + Written(s) + told[s]
      BY <1>7, <1>13, <2>1 DEF SessionOK, AccountsOK
    <3>2. Written(s)' + told'[s] = Written(s) + told[s] /\ told'[s] \in Int
      BY <1>5 DEF SentBy
    <3>3. NOrders(s)' = NOrders(s) + Unread(s)
      BY <1>6 DEF QueuedFor
    <3>4. Written(s)' \in Nat
      BY <1>5 DEF SentBy
    <3>5. asked[s] = 0 + (NOrders(s) + Unread(s)) + Written(s)' + told'[s]
      BY <1>17, <3>1, <3>2, <3>4
    <3>. QED BY <1>1, <1>16, <3>3, <3>5
  <2>2. ASSUME ~accepted'[s] PROVE asked'[s] = 0 /\ Unread(s)' = 0 /\ NOrders(s)' = 0
    <3>1. asked[s] = 0 /\ Unread(s) = 0 /\ NOrders(s) = 0
      BY <1>7, <1>9, <2>2 DEF SessionOK, AccountsOK
    <3>. QED BY <1>1, <1>6, <1>16, <3>1 DEF QueuedFor
  <2>. QED BY <2>1, <2>2 DEF AccountsOK
<1>19. ~Knocking(s)'
  <2>1. <<>> # <<"L">>
    OBVIOUS
  <2>. QED BY <1>1, <1>7, <1>8, <2>1 DEF Knocking
<1>20. KnocksOK(s)'
  <2>1. NLogins(s)' \in {0, 1}
    <3>1. CASE arrived[s] = <<"L">>
      <4>1. NLogins(s) = 0
        BY <1>7, <3>1 DEF SessionOK, KnocksOK, Knocking
      <4>. QED BY <1>6, <3>1, <4>1 DEF QueuedFor
    <3>2. CASE arrived[s] # <<"L">>
      <4>1. NLogins(s)' = NLogins(s)
        BY <1>6, <1>17, <3>2 DEF QueuedFor
      <4>. QED BY <1>7, <4>1 DEF SessionOK, KnocksOK
    <3>. QED BY <3>1, <3>2
  <2>2. Len(<<>>) = 0
    OBVIOUS
  <2>3. ~ \E k \in 1..Len(arrived'[s]) : arrived'[s][k] = "L"
    BY <1>8, <2>2
  <2>. QED BY <1>1, <1>7, <1>19, <2>1, <2>3 DEF KnocksOK
<1>21. LoginOK(s)'
  <2>1. SUFFICES ASSUME LoginPending(s)'
                 PROVE  /\ ~accepted'[s] /\ told'[s] = 0 /\ m_state'[s] \in {"login", "closed"} /\ NBeats(s)' = 0
                        /\ LoginBegun(s)' => \/ Size(s)' = 2 /\ last'[s] = <<"H", 0, 2>>
                                             \/ Size(s)' = 1 /\ ~(phase' = "io" /\ s \in todo')
                        /\ ~LoginBegun(s)' /\ phase' # "stopped" => Fresh(s)'
    BY DEF LoginOK
  <2>2. LoginPending(s)
    <3>1. NLogins(s)' # 0
      BY <1>19, <2>1 DEF LoginPending
    <3>2. arrived[s] = <<"L">> \/ NLogins(s) # 0
      BY <1>6, <3>1 DEF QueuedFor
    <3>. QED BY <3>2 DEF LoginPending, Knocking
  <2>3. /\ ~accepted[s] /\ told[s] = 0 /\ m_state[s] = "login" /\ NBeats(s) = 0
        /\ LoginBegun(s) => Size(s) = 2 /\ last[s] = <<"H", 0, 2>>
        /\ ~LoginBegun(s) => Fresh(s)
    BY <1>1, <1>7, <2>2 DEF SessionOK, LoginOK
  <2>4. /\ m_state'[s] = "login" /\ NBeats(s)' = 0 /\ ~Disabled(s)
        /\ LoginBegun(s)' <=> LoginBegun(s)
    BY <1>6, <1>10, <2>3 DEF LoginBegun, QueuedFor, Disabled
  <2>5. told'[s] = 0
    <3>1. asked[s] = 0 /\ Unread(s) = 0 /\ NOrders(s) = 0
          /\ asked[s] = Unread(s) + NOrders(s) + Written(s) + told[s]
      BY <1>7, <2>3, <2>4 DEF SessionOK, AccountsOK
    <3>2. Written(s) = 0
      BY <1>17, <2>3, <3>1
    <3>. QED BY <1>5, <2>3, <3>2 DEF SentBy
  <2>6. CASE ~LoginBegun(s)
    <3>1. Fresh(s) /\ rc = 0
      BY <1>14, <2>3, <2>6 DEF Fresh
    <3>2. out = <<>>
      BY <1>2, <3>1, SubSeqEmpty
    <3>3. <<"L", 0, 2>> \notin ToSet(out)
      BY <3>2 DEF ToSet
    <3>4. Fresh(s)'
      <4>1. m_send_committed'[s] = 0
        BY <1>5, <3>1 DEF SentBy, Fresh
      <4>. QED BY <1>5, <3>1, <4>1 DEF SentBy, Fresh
    <3>. QED BY <1>9, <2>3, <2>4, <2>5, <2>6, <3>3, <3>4
  <2>7. CASE LoginBegun(s)
    <3>1. /\ Size(s) = 2 /\ last[s] = <<"H", 0, 2>> /\ BegunFor(s)
      BY <2>3, <2>7 DEF LoginBegun
    <3>2. PICK b \in Seq(Unit) : b = m_send_buffer[s] /\ Len(b) = 2
      BY <3>1, CountTypes DEF Size
    <3>3. b[1][3] = 1
      <4>1. <<"H", 0, 2>>[3] = 2 /\ <<"H", 0, 2>> \in Unit
        BY UnitParts
      <4>2. /\ Linked(last[s], b) /\ End(last[s], b)[3] = 2 /\ End(last[s], b)[1] = m_action_queue[1].type
        BY <1>7, <2>4, <3>1, <3>2 DEF SessionOK, BufferOK, EndOf
      <4>3. m_action_queue[1].type # "H"
        BY <3>1, TheHead DEF BegunFor
      <4>. QED BY <3>1, <3>2, <4>1, <4>2, <4>3, HalfIsFirst
    <3>4. c = 1
      <4>1. m_send_committed[s] = Size(s) - 1
        BY <1>7, <2>4, <3>1 DEF SessionOK, BufferOK
      <4>. QED BY <1>14, <3>1, <4>1
    <3>5. Cut(b, rc, out, SubSeq(b, rc + 1, Len(b))) /\ out \in Seq(Unit)
      <4>1. rc \in 0..Len(b)
        BY <1>14, <3>2, <3>4
      <4>. QED BY <1>2, <3>2, <4>1, CutSeq
    <3>6. <<"L", 0, 2>> \notin ToSet(out)
      <4>1. DOMAIN out = 1..rc
        BY <3>5, LenProperties DEF Cut
      <4>2. \A i \in DOMAIN out : i = 1 /\ out[i] = b[1]
        <5>1. \A i \in 1..rc : i = 1
          BY <1>14, <3>4
        <5>2. \A i \in 1..rc : out[i] = b[i]
          BY <3>5 DEF Cut
        <5>. QED BY <4>1, <5>1, <5>2
      <4>3. <<"L", 0, 2>>[3] = 2
        OBVIOUS
      <4>4. \A i \in DOMAIN out : out[i] # <<"L", 0, 2>>
        BY <3>3, <4>2, <4>3
      <4>. QED BY <4>4 DEF ToSet
    <3>7. \/ Size(s)' = 2 /\ last'[s] = <<"H", 0, 2>>
          \/ Size(s)' = 1 /\ ~(phase' = "io" /\ s \in todo')
      <4>1. CASE rc = 0
        <5>1. Size(s)' = 2
          BY <1>5, <3>1, <4>1 DEF SentBy
        <5>. QED BY <1>5, <3>1, <4>1, <5>1 DEF SentBy
      <4>2. CASE rc # 0
        <5>1. rc = 1
          BY <1>14, <3>4, <4>2
        <5>2. Size(s)' = 1
          BY <1>5, <3>1, <5>1 DEF SentBy
        <5>. QED BY <1>1, <5>2
      <4>. QED BY <4>1, <4>2
    <3>. QED BY <1>9, <2>3, <2>4, <2>5, <2>7, <3>6, <3>7
  <2>. QED BY <2>6, <2>7
<1>. QED BY <1>11, <1>12, <1>15, <1>18, <1>20, <1>21, ServedKeeps DEF SessionOK

-------------------------------------------------------------------------------
\* At first there is nothing to answer.
LEMMA AnswersInit == SessionsInit => AnswersInv
<1>. SUFFICES ASSUME SessionsInit PROVE AnswersInv
  OBVIOUS
<1>1. \A T : <<>> \in Seq(T)
  OBVIOUS
<1>2. Len(<<>>) = 0 /\ \A T : At(<<>>, T) = {}
  BY DEF At
<1>3. \A T : Count(<<>>, T) = 0
  BY <1>2, FS_EmptySet DEF Count
<1>4. AnswersTypeOK
  BY <1>1, UnitParts DEF SessionsInit, AnswersTypeOK
<1>5. QueueOK /\ TodoOK /\ ~Begun(m_action_queue)
  BY <1>2 DEF SessionsInit, QueueOK, HeadOnly, TodoOK, Begun
<1>6. ASSUME NEW s \in Clients PROVE SessionOK(s)
  <2>1. /\ place[s] = "none" /\ m_state[s] = "login" /\ m_send_buffer[s] = <<>> /\ m_send_committed[s] = 0
        /\ arrived[s] = <<>> /\ last[s] = <<"H", 0, 2>> /\ ~accepted[s] /\ asked[s] = 0 /\ told[s] = 0
        /\ ~BegunFor(s) /\ m_action_queue = <<>>
    BY <1>5 DEF SessionsInit, BegunFor
  <2>2. NOrders(s) = 0 /\ NLogins(s) = 0 /\ NBeats(s) = 0 /\ Unread(s) = 0
    BY <1>3, <2>1 DEF NOrders, NLogins, NBeats, Unread
  <2>3. Written(s) = 0
    <3>1. SubSeq(m_send_buffer[s], 1, m_send_committed[s]) = <<>>
      BY <2>1, SubSeqEmpty
    <3>. QED BY <1>3, <3>1 DEF Written
  <2>4. BufferOK(s)
    <3>1. Linked(last[s], m_send_buffer[s])
      BY <1>2, <2>1 DEF Linked
    <3>2. Size(s) = 0 /\ EndOf(s) = <<"H", 0, 2>>
      BY <1>2, <2>1 DEF Size, EndOf, End, Nth
    <3>3. EndOf(s)[3] = 2
      BY <3>2
    <3>4. m_send_committed[s] = Size(s) /\ Size(s) \in Nat
      BY <2>1, <3>2
    <3>. QED BY <2>1, <3>1, <3>3, <3>4 DEF BufferOK
  <2>5. AccountsOK(s) /\ KnocksOK(s)
    BY <1>2, <2>1, <2>2, <2>3 DEF AccountsOK, KnocksOK
  <2>6. LoginOK(s)
    BY <2>1, <2>2 DEF LoginOK, LoginBegun, Fresh
  <2>. QED BY <2>4, <2>5, <2>6 DEF SessionOK
<1>. QED BY <1>4, <1>5, <1>6 DEF AnswersInv

\* The invariant is inductive, with that of the links.
LEMMA AnswersStep == AnswersInv /\ LinksInv /\ [SessionsNext]_msvars => AnswersInv'
<1>. SUFFICES ASSUME AnswersInv, LinksInv, [SessionsNext]_msvars PROVE AnswersInv'
  OBVIOUS
<1>1. ASSUME NEW b \in BOOLEAN, begin_step(b) PROVE AnswersInv'
  BY <1>1, BeginStepKeeps
<1>2. ASSUME \/ \E s \in Clients : disconnect(s) \/ skip_closed(s) \/ io_null(s)
             \/ \E b \in BOOLEAN : end_step(b)
             \/ stop \/ evaluate_none \/ UNCHANGED msvars
      PROVE  AnswersInv'
  BY <1>2, QuietSteps, QuietKeeps
<1>3. CASE evaluate
  BY <1>2, <1>3, HeartbeatAnswers, FirstAnswers, LastAnswers DEF evaluate
<1>4. ASSUME NEW s \in Clients, connect(s) \/ request(s) PROVE AnswersInv'
  BY <1>4, ConnectAnswers, RequestAnswers
<1>5. ASSUME NEW s \in Clients, serve(s) PROVE AnswersInv'
  <2>1. ASSUME NEW ds \in DelaysOf(s), io_close(s, ds) PROVE AnswersInv'
    BY <2>1, CloseAnswers
  <2>2. ASSUME NEW ds \in DelaysOf(s), NEW rc \in 0..m_send_committed[s], NEW beat \in BOOLEAN, io(s, ds, rc, beat)
        PROVE  AnswersInv'
    BY <2>2, IoAnswers
  <2>3. CASE io_eof(s)
    BY <2>3, EofAnswers
  <2>4. CASE skip_closed(s) \/ io_null(s)
    BY <1>2, <2>4
  <2>. QED BY <1>5, <2>1, <2>2, <2>3, <2>4 DEF serve
<1>6. CASE listener_end \/ stop_sessions
  BY <1>6, EndAnswers
<1>. QED BY <1>1, <1>2, <1>3, <1>4, <1>5, <1>6 DEF SessionsNext

\* Only the answer at the head is half-written.
LEMMA HalfIsBegun ==
    ASSUME AnswersInv, NEW s \in Clients
    PROVE  (Half(s) <=> BegunFor(s)) /\ (Half(s) => First.s = s /\ First.step = 1)
<1>1. m_action_queue \in Seq(Ev) /\ HeadOnly(m_action_queue)
  BY DEF AnswersInv, AnswersTypeOK, QueueOK
<1>2. DOMAIN m_action_queue = 1..Len(m_action_queue) /\ Len(m_action_queue) \in Nat
  BY <1>1, LenProperties
<1>3. Half(s) => BegunFor(s)
  BY <1>1, <1>2 DEF Half, HeadOnly, BegunFor, Begun
<1>4. ASSUME BegunFor(s) PROVE Half(s) /\ First.s = s /\ First.step = 1
  <2>1. First = m_action_queue[1] /\ 1 \in 1..Len(m_action_queue) /\ First.s = s /\ First.step = 1
    BY <1>4, TheHead DEF BegunFor
  <2>. QED BY <1>2, <2>1 DEF Half
<1>. QED BY <1>3, <1>4

\* The units a client has got or will get next, as the queue has them.
LEMMA OutgoingIs ==
    ASSUME AnswersInv, NEW s \in Clients
    PROVE  /\ Outgoing(s) \in Seq(Unit) /\ Len(Outgoing(s)) = m_send_committed[s] + 1
           /\ \A k \in 1..(m_send_committed[s] + 1) : Outgoing(s)[k] = Nth(last[s], m_send_buffer[s], k - 1)
           /\ Tail(Outgoing(s)) = SubSeq(m_send_buffer[s], 1, m_send_committed[s])
<1>1. PICK b \in Seq(Unit), c \in Nat, l \in Unit :
         b = m_send_buffer[s] /\ c = m_send_committed[s] /\ l = last[s] /\ c \in 0..Len(b)
  BY CountTypes, LenProperties
<1>2. PICK p \in Seq(Unit) : p = SubSeq(b, 1, c) /\ Len(p) = c /\ \A i \in 1..c : p[i] = b[i]
  <2>1. SubSeq(b, 1, c) \in Seq(Unit) /\ Cut(b, c, SubSeq(b, 1, c), SubSeq(b, c + 1, Len(b)))
    BY <1>1, CutSeq
  <2>. QED BY <2>1 DEF Cut
<1>3. PICK o \in Seq(Unit) : o = <<l>> /\ Len(o) = 1 /\ o[1] = l
  <2>1. <<l>> \in Seq(Unit) /\ Len(<<l>>) = 1 /\ <<l>>[1] = l
    OBVIOUS
  <2>. QED BY <2>1
<1>4. PICK u \in Seq(Unit) : u = o \o p
  BY ConcatProperties
<1>5. Len(u) = c + 1 /\ \A k \in 1..(c + 1) : u[k] = IF k <= 1 THEN o[k] ELSE p[k - 1]
  <2>1. /\ Len(u) = Len(o) + Len(p)
        /\ \A k \in 1..(Len(o) + Len(p)) : u[k] = IF k <= Len(o) THEN o[k] ELSE p[k - Len(o)]
    BY <1>4, ConcatProperties
  <2>2. Len(o) + Len(p) = c + 1
    BY <1>2, <1>3
  <2>. QED BY <1>3, <2>1, <2>2
<1>6. ASSUME NEW k \in 1..(c + 1) PROVE u[k] = Nth(l, b, k - 1)
  <2>1. CASE k = 1
    BY <1>3, <1>5, <2>1 DEF Nth
  <2>2. CASE k # 1
    <3>1. k - 1 \in 1..c /\ k - 1 # 0 /\ ~(k <= 1)
      BY <2>2
    <3>2. u[k] = b[k - 1]
      BY <1>2, <1>5, <3>1
    <3>. QED BY <3>1, <3>2 DEF Nth
  <2>. QED BY <2>1, <2>2
<1>7. Tail(u) = p
  <2>1. u # <<>>
    BY <1>1, <1>5
  <2>2. PICK z \in Seq(Unit) : /\ z = Tail(u) /\ Len(z) = Len(u) - 1
                               /\ \A i \in 1..(Len(u) - 1) : z[i] = u[i + 1]
    <3>1. /\ Tail(u) \in Seq(Unit) /\ Len(Tail(u)) = Len(u) - 1
          /\ \A i \in 1..(Len(u) - 1) : Tail(u)[i] = u[i + 1]
      BY <2>1, CountTail
    <3>. QED BY <3>1
  <2>3. Len(z) = c /\ Len(u) - 1 = c
    BY <1>1, <1>5, <2>2
  <2>4. ASSUME NEW i \in 1..c PROVE z[i] = p[i]
    <3>1. i + 1 \in 1..(c + 1) /\ ~(i + 1 <= 1) /\ (i + 1) - 1 = i
      BY <1>1
    <3>. QED BY <1>5, <2>2, <2>3, <3>1
  <2>5. Len(z) = Len(p) /\ \A i \in 1..Len(z) : z[i] = p[i]
    BY <1>2, <2>3, <2>4
  <2>6. z = p
    BY <2>5, SeqEqual
  <2>. QED BY <2>2, <2>6
<1>8. Outgoing(s) = u
  BY <1>1, <1>2, <1>3, <1>4 DEF Outgoing
<1>. QED BY <1>1, <1>2, <1>5, <1>6, <1>7, <1>8

\* A unit is the first half of an answer if and only if the other half follows.
LEMMA FollowsWhole ==
    ASSUME NEW u \in Unit, NEW v \in Unit, Follows(u, v)
    PROVE  u[3] = 1 <=> v[1] # "H" /\ v = <<u[1], u[2], 2>>
<1>1. CASE u[3] = 1
  <2>1. v = <<u[1], u[2], 2>> /\ u[1] # "H"
    BY <1>1, UnitParts DEF Follows
  <2>2. v[1] = u[1]
    BY <2>1
  <2>. QED BY <1>1, <2>1, <2>2
<1>2. CASE u[3] # 1
  <2>1. v = <<"H", 0, 2>> \/ v[3] = 1
    BY <1>2 DEF Follows
  <2>2. v = <<"H", 0, 2>> => v[1] = "H"
    OBVIOUS
  <2>3. v = <<u[1], u[2], 2>> => v[3] = 2
    OBVIOUS
  <2>. QED BY <1>2, <2>1, <2>2, <2>3
<1>. QED BY <1>1, <1>2

\* The invariant says what a client may count on.
LEMMA AnswersAreWhole == AnswersInv => WholeAnswersOnce
<1>. SUFFICES ASSUME AnswersInv, NEW s \in Clients
              PROVE  LET out == Outgoing(s)
                         unread == Cardinality({k \in DOMAIN arrived[s] : arrived[s][k] = "U"})
                         written == Cardinality(Answered(Tail(out)))
                         rest == Len(m_send_buffer[s]) - m_send_committed[s]
                     IN  /\ \A k \in 1..(Len(out) - 1) :
                               out[k][3] = 1 <=> out[k + 1][1] # "H" /\ out[k + 1] = <<out[k][1], out[k][2], 2>>
                         /\ ~Disabled(s) => /\ rest = (IF Half(s) THEN 1 ELSE 0)
                                            /\ out[Len(out)][3] = 1 <=> Half(s)
                                            /\ Half(s) => First.s = s /\ First.step = 1
                         /\ m_state[s] = "serving" /\ m_data_link[s] =>
                               asked[s] = unread + Cardinality(Queued(s)) + written + told[s]
  BY DEF WholeAnswersOnce
<1>1. PICK b \in Seq(Unit), c \in Nat, n \in Nat, l \in Unit :
         /\ b = m_send_buffer[s] /\ c = m_send_committed[s] /\ l = last[s] /\ n = Len(b) /\ c <= n
         /\ Linked(l, b)
  BY CountTypes, LenProperties DEF SessionOK, BufferOK
<1>2. PICK out \in Seq(Unit) : /\ out = Outgoing(s) /\ Len(out) = c + 1
                               /\ \A k \in 1..(c + 1) : out[k] = Nth(l, b, k - 1)
                               /\ Tail(out) = SubSeq(b, 1, c)
  BY <1>1, OutgoingIs
<1>3. SessionOK(s) /\ (Half(s) <=> BegunFor(s)) /\ (Half(s) => First.s = s /\ First.step = 1)
  BY HalfIsBegun DEF AnswersInv
<1>4. ASSUME NEW k \in 1..(Len(out) - 1)
      PROVE  out[k][3] = 1 <=> out[k + 1][1] # "H" /\ out[k + 1] = <<out[k][1], out[k][2], 2>>
  <2>1. k \in 1..c /\ k + 1 \in 1..(c + 1) /\ k \in 1..(c + 1) /\ (k + 1) - 1 = k /\ k # 0 /\ k \in 1..n
    BY <1>1, <1>2
  <2>2. out[k] = Nth(l, b, k - 1) /\ out[k + 1] = b[k] /\ out[k] \in Unit /\ out[k + 1] \in Unit
    BY <1>2, <2>1, ElementOfSeq DEF Nth
  <2>3. Follows(out[k], out[k + 1])
    BY <1>1, <2>1, <2>2 DEF Linked
  <2>. QED BY <2>2, <2>3, FollowsWhole
<1>5. ASSUME ~Disabled(s)
      PROVE  n - c = (IF Half(s) THEN 1 ELSE 0) /\ (out[Len(out)][3] = 1 <=> Half(s))
  <2>1. /\ m_send_committed[s] = Size(s) - (IF BegunFor(s) THEN 1 ELSE 0)
        /\ EndOf(s)[3] = 2 /\ (BegunFor(s) => EndOf(s)[1] = m_action_queue[1].type)
    BY <1>3, <1>5 DEF SessionOK, BufferOK
  <2>2. c + 1 \in 1..(c + 1) /\ out[Len(out)] = Nth(l, b, c)
    BY <1>1, <1>2
  <2>3. CASE ~Half(s)
    <3>1. m_send_committed[s] = Size(s) - 0
      BY <1>3, <2>1, <2>3
    <3>2. c = n
      BY <1>1, <3>1 DEF Size
    <3>3. EndOf(s) = Nth(l, b, c)
      BY <1>1, <3>2 DEF EndOf, End
    <3>. QED BY <1>1, <2>1, <2>2, <2>3, <3>2, <3>3
  <2>4. CASE Half(s)
    <3>1. m_send_committed[s] = Size(s) - 1
      BY <1>3, <2>1, <2>4
    <3>2. c = n - 1
      BY <1>1, <3>1 DEF Size
    <3>3. n \in 1..n /\ n # 0 /\ n - 1 = c
      BY <1>1, <3>2
    <3>4. EndOf(s) = b[n]
      BY <1>1, <3>3 DEF EndOf, End, Nth
    <3>5. Follows(Nth(l, b, c), b[n])
      BY <1>1, <3>3 DEF Linked
    <3>6. b[n] # <<"H", 0, 2>> /\ b[n][3] = 2
      <4>1. m_action_queue[1].type # "H"
        BY <1>3, <2>4, TheHead DEF BegunFor
      <4>2. <<"H", 0, 2>>[1] = "H"
        OBVIOUS
      <4>. QED BY <1>3, <2>1, <2>4, <3>4, <4>1, <4>2
    <3>7. Nth(l, b, c)[3] = 1
      BY <3>5, <3>6 DEF Follows
    <3>. QED BY <1>1, <2>2, <2>4, <3>2, <3>7
  <2>. QED BY <2>3, <2>4
<1>6. ASSUME m_state[s] = "serving"
      PROVE  asked[s] = Cardinality({k \in DOMAIN arrived[s] : arrived[s][k] = "U"})
                        + Cardinality(Queued(s)) + Cardinality(Answered(Tail(out))) + told[s]
  <2>1. asked[s] = Unread(s) + NOrders(s) + Written(s) + told[s]
    BY <1>3, <1>6 DEF SessionOK, AccountsOK, Disabled
  <2>2. Cardinality({k \in DOMAIN arrived[s] : arrived[s][k] = "U"}) = Unread(s)
    <3>1. {k \in DOMAIN arrived[s] : arrived[s][k] = "U"} = At(arrived[s], {"U"})
      BY DEF At
    <3>. QED BY <3>1 DEF Unread, Count
  <2>3. Cardinality(Queued(s)) = NOrders(s)
    <3>1. m_action_queue \in Seq(Ev)
      BY DEF AnswersInv, AnswersTypeOK
    <3>2. \A k \in DOMAIN m_action_queue : m_action_queue[k] \in Ev
      BY <3>1, ElementOfSeq, LenProperties
    <3>3. Queued(s) = At(m_action_queue, OrderEvents(s))
      BY <3>2 DEF Queued, At, OrderEvents
    <3>. QED BY <3>3 DEF NOrders, Count
  <2>4. Cardinality(Answered(Tail(out))) = Written(s)
    <3>1. PICK p \in Seq(Unit) : p = SubSeq(b, 1, c)
      <4>1. c \in 0..Len(b)
        BY <1>1
      <4>. QED BY <4>1, CutSeq
    <3>2. Cardinality(Answered(p)) = Count(p, Lasts)
      BY AnsweredCount
    <3>. QED BY <1>1, <1>2, <3>1, <3>2 DEF Written
  <2>. QED BY <2>1, <2>2, <2>3, <2>4
<1>. QED BY <1>1, <1>2, <1>3, <1>4, <1>5, <1>6

(* A client gets whole answers and no half of another one between, whatever    *)
(* the delays, however the socket cuts what is sent and wherever heartbeats    *)
(* come in, and each of its requests is unread, queued, being sent or answered *)
(* once (time_action_queue, ouch_response::evaluate (), the I/O of step ()).   *)
THEOREM EveryRequestAnsweredOnce == SessionsSpec => []WholeAnswersOnce
<1>1. SessionsInit => LinksInv /\ AnswersInv
  BY AnswersInit DEF SessionsInit, LinksInv, LinksTypeOK, LinksOK, Unlinked
<1>2. LinksInv /\ AnswersInv /\ [SessionsNext]_msvars => (LinksInv /\ AnswersInv)'
  <2>1. LinksInv /\ [SessionsNext]_msvars => LinksInv'
    BY WorksKeeps, OthersWork, ConnectKeeps, EndStepKeeps, ListenerEndKeeps, StopSessionsKeeps DEF SessionsNext
  <2>. QED BY <2>1, AnswersStep
<1>. QED BY <1>1, <1>2, AnswersAreWhole, PTL DEF SessionsSpec
===============================================================================
