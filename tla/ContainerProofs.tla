--------------------------- MODULE ContainerProofs ---------------------------
(* Proofs about Container, for any components, groups of steps and failures:    *)
(* what a step finds up, what stop() leaves, what is reported.                  *)
(*                                                                              *)
(* The barrier's invariant (ContainerBarrierProofs) holds here as long as every *)
(* step of its variables is one of the barrier's.  That is so but for the       *)
(* container whose start() threw before it had threads: its stop() counts the   *)
(* latch down without having been at the start, and waits for ever (Stuck).     *)
EXTENDS Container, FiniteSetTheorems, FunctionTheorems, SequenceTheorems, TLAPS

Barrier == INSTANCE ContainerBarrierProofs

-------------------------------------------------------------------------------
(* Turns: a startable's position among the startables names it.                 *)

Below(S, c) == {d \in S : d < c}

LEMMA RankGrows ==
    ASSUME NEW S \in SUBSET Int, IsFiniteSet(S), NEW c \in S, NEW e \in S, c < e
    PROVE  /\ Cardinality(Below(S, c)) \in Nat /\ Cardinality(Below(S, e)) \in Nat
           /\ Cardinality(Below(S, c)) < Cardinality(Below(S, e))
<1>1. Below(S, e) \in SUBSET S /\ Below(S, c) \in SUBSET Below(S, e)
  <2>1. \A d \in S : d < c => d < e
    <3>. SUFFICES ASSUME NEW d \in S, d < c PROVE d < e
      OBVIOUS
    <3>1. d \in Int /\ c \in Int /\ e \in Int
      OBVIOUS
    <3>. QED BY <3>1
  <2>. QED BY <2>1 DEF Below
<1>2. IsFiniteSet(Below(S, e)) /\ IsFiniteSet(Below(S, c))
  BY <1>1, FS_Subset
<1>3. Below(S, c) # Below(S, e)
  <2>1. c \in Below(S, e) /\ c \notin Below(S, c)
    BY DEF Below
  <2>. QED BY <2>1
<1>4. /\ Cardinality(Below(S, c)) <= Cardinality(Below(S, e))
      /\ Cardinality(Below(S, c)) # Cardinality(Below(S, e))
  BY <1>1, <1>2, <1>3, FS_Subset
<1>5. Cardinality(Below(S, c)) \in Nat /\ Cardinality(Below(S, e)) \in Nat
  BY <1>2, FS_CardinalityType
<1>. QED BY <1>4, <1>5

LEMMA RankInRange ==
    ASSUME NEW S \in SUBSET Int, IsFiniteSet(S), NEW c \in S
    PROVE  Cardinality(Below(S, c)) \in 0 .. Cardinality(S) - 1
<1>1. Below(S, c) \in SUBSET S /\ c \notin Below(S, c)
  BY DEF Below
<1>2. IsFiniteSet(Below(S, c)) /\ Below(S, c) # S
  BY <1>1, FS_Subset
<1>3. /\ Cardinality(Below(S, c)) <= Cardinality(S) /\ Cardinality(Below(S, c)) # Cardinality(S)
  BY <1>1, <1>2, FS_Subset
<1>4. Cardinality(Below(S, c)) \in Nat /\ Cardinality(S) \in Nat
  BY <1>2, FS_CardinalityType
<1>. QED BY <1>3, <1>4

LEMMA RankIsBijection ==
    ASSUME NEW S \in SUBSET Int, IsFiniteSet(S)
    PROVE  /\ \A c, e \in S : Cardinality(Below(S, c)) = Cardinality(Below(S, e)) => c = e
           /\ \A k \in 0 .. Cardinality(S) - 1 : \E c \in S : Cardinality(Below(S, c)) = k
<1>. DEFINE n == Cardinality(S)
            f == [c \in S |-> Cardinality(Below(S, c))]
<1>1. ASSUME NEW c \in S, NEW e \in S, c # e
      PROVE  Cardinality(Below(S, c)) # Cardinality(Below(S, e))
  <2>1. c \in Int /\ e \in Int
    OBVIOUS
  <2>2. CASE c < e
    <3>1. /\ Cardinality(Below(S, c)) \in Nat /\ Cardinality(Below(S, e)) \in Nat
          /\ Cardinality(Below(S, c)) < Cardinality(Below(S, e))
      BY <2>2, RankGrows
    <3>. QED BY <3>1
  <2>3. CASE e < c
    <3>1. /\ Cardinality(Below(S, c)) \in Nat /\ Cardinality(Below(S, e)) \in Nat
          /\ Cardinality(Below(S, e)) < Cardinality(Below(S, c))
      BY <2>3, RankGrows
    <3>. QED BY <3>1
  <2>. QED BY <1>1, <2>1, <2>2, <2>3
<1>2. n \in Nat
  BY FS_CardinalityType
<1>3. \A c \in S : f[c] \in 0 .. n - 1
  BY RankInRange
<1>4. \A c, e \in S : f[c] = f[e] => c = e
  BY <1>1
<1>5. f \in [S -> 0 .. n - 1]
  BY <1>3
<1>6. IsFiniteSet(0 .. n - 1) /\ Cardinality(0 .. n - 1) = n
  <2>1. 0 \in Int /\ n - 1 \in Int
    BY <1>2
  <2>2. /\ IsFiniteSet(0 .. n - 1)
        /\ Cardinality(0 .. n - 1) = IF 0 > n - 1 THEN 0 ELSE (n - 1) - 0 + 1
    BY <2>1, FS_Interval
  <2>3. (IF 0 > n - 1 THEN 0 ELSE (n - 1) - 0 + 1) = n
    BY <1>2
  <2>. QED BY <2>2, <2>3
<1>7. f \in Injection(S, 0 .. n - 1)
  BY <1>4, <1>5, Fun_IsInj
<1>8. f \in Surjection(S, 0 .. n - 1)
  BY <1>6, <1>7, FS_Injection
<1>9. \A k \in 0 .. n - 1 : \E c \in S : f[c] = k
  BY <1>8 DEF Surjection
<1>. QED BY <1>4, <1>9

LEMMA SortedIs ==
    ASSUME NEW S \in SUBSET Int, IsFiniteSet(S)
    PROVE  /\ Sorted(S) \in Seq(S)
           /\ \A c \in S : \E i \in DOMAIN Sorted(S) : Sorted(S)[i] = c
           /\ S # {} => Sorted(S) # <<>>
<1>. DEFINE n == Cardinality(S)
            P(s) == \A i, j \in 1 .. n : i < j => s[i] < s[j]
            g == [i \in 1 .. n |-> CHOOSE c \in S : Cardinality(Below(S, c)) = i - 1]
<1>1. n \in Nat
  BY FS_CardinalityType
<1>2. ASSUME NEW i \in 1 .. n
      PROVE  g[i] \in S /\ Cardinality(Below(S, g[i])) = i - 1
  <2>1. i - 1 \in 0 .. n - 1
    BY <1>1
  <2>2. \E c \in S : Cardinality(Below(S, c)) = i - 1
    BY <2>1, RankIsBijection
  <2>. QED BY <2>2
<1>3. g \in [1 .. n -> S]
  BY <1>2
<1>4. ASSUME NEW i \in 1 .. n, NEW j \in 1 .. n, i < j PROVE g[i] < g[j]
  <2>1. PICK c \in S : c = g[i] /\ Cardinality(Below(S, c)) = i - 1
    BY <1>2
  <2>2. PICK e \in S : e = g[j] /\ Cardinality(Below(S, e)) = j - 1
    BY <1>2
  <2>3. CASE e < c
    <3>1. Cardinality(Below(S, e)) < Cardinality(Below(S, c))
      BY <2>3, RankGrows
    <3>2. j - 1 < i - 1
      BY <2>1, <2>2, <3>1
    <3>. QED BY <1>1, <1>4, <3>2
  <2>4. CASE e = c
    <3>1. j - 1 = i - 1
      BY <2>1, <2>2, <2>4
    <3>. QED BY <1>1, <1>4, <3>1
  <2>5. c \in Int /\ e \in Int
    OBVIOUS
  <2>. QED BY <2>1, <2>2, <2>3, <2>4, <2>5
<1>5. P(g)
  BY <1>4
<1>. HIDE DEF g
<1>6. Sorted(S) \in [1 .. n -> S] /\ P(Sorted(S))
  <2>1. \E s \in [1 .. n -> S] : P(s)
    BY <1>3, <1>5
  <2>. QED BY <2>1 DEF Sorted
<1>7. PICK s \in [1 .. n -> S] : s = Sorted(S) /\ P(s)
  BY <1>6
<1>8. \A i, j \in 1 .. n : s[i] = s[j] => i = j
  <2>. SUFFICES ASSUME NEW i \in 1 .. n, NEW j \in 1 .. n, s[i] = s[j], i # j PROVE FALSE
    OBVIOUS
  <2>0. s[i] \in S /\ s[j] \in S
    OBVIOUS
  <2>1. s[i] \in Int /\ s[j] \in Int /\ i \in Int /\ j \in Int
    <3>1. i \in Int /\ j \in Int
      BY <1>1
    <3>2. \A x \in S : x \in Int
      OBVIOUS
    <3>. QED BY <2>0, <3>1, <3>2
  <2>2. s[i] < s[j] \/ s[j] < s[i]
    BY <1>7, <2>1
  <2>. QED BY <2>1, <2>2
<1>9. IsFiniteSet(1 .. n) /\ Cardinality(1 .. n) = n
  <2>1. /\ IsFiniteSet(1 .. n) /\ Cardinality(1 .. n) = IF 1 > n THEN 0 ELSE n - 1 + 1
    BY <1>1, FS_Interval
  <2>2. (IF 1 > n THEN 0 ELSE n - 1 + 1) = n
    BY <1>1
  <2>. QED BY <2>1, <2>2
<1>10. s \in Injection(1 .. n, S)
  BY <1>8, Fun_IsInj
<1>11. s \in Surjection(1 .. n, S)
  BY <1>9, <1>10, FS_Injection
<1>12. \A c \in S : \E i \in 1 .. n : s[i] = c
  BY <1>11 DEF Surjection
<1>13. s \in Seq(S)
  <2>1. \E m \in Nat : s \in [1 .. m -> S]
    BY <1>1
  <2>. QED BY <2>1, SeqDef
<1>14. DOMAIN s = 1 .. n
  OBVIOUS
<1>15. S # {} => s # <<>>
  <2>. SUFFICES ASSUME S # {}, s = <<>> PROVE FALSE
    OBVIOUS
  <2>1. \E i \in DOMAIN s : TRUE
    BY <1>12, <1>14
  <2>. QED BY <2>1
<1>. QED BY <1>7, <1>12, <1>13, <1>14, <1>15

-------------------------------------------------------------------------------
(* The invariant *)

\* start() threw before it had made threads, and stop() was called: it waits for ever.
Stuck ==
    /\ app = "stop" /\ m_threads = {}
    /\ phase = [t \in Thread |-> IF t = Main THEN "stop_wait" ELSE "start"]
    /\ m_stop_latch = {Main} /\ m_start_latch = {}
    /\ m_turn = INT_MIN /\ m_start_count = 0
    /\ life = [k \in Turn |-> "new"]
    /\ req[Main] = "no"

Late == {"run", "stop_wait", "stop_begin", "stop", "stop_turn", "end"}

\* What is left to ContainerTypeOK to say about the variables that are not the barrier's.
StateOK ==
    /\ m_state \in {"configured", "resolved", "started", "stopped"}
    /\ m_PU_tasks \subseteq Task /\ stop_flag \in [Task -> BOOLEAN]
    /\ m_signalled \in BOOLEAN /\ m_start_failure \in BOOLEAN
    /\ at \in [Task -> {"check", "step", "leave"}] /\ DOMAIN left = Task
    /\ req \in [Thread -> {"no", "check", "signal", "broadcast"}]
    /\ m_step_failures \in Seq(Task)

\* How far start() and stop() are tells where the container's thread is in the
\* barrier, and a task that was given no thread has not moved.
AppOK ==
    /\ app \in {"idle", "create", "create_threw", "start", "start_threw", "started",
                "stop", "stopped", "stop_threw"}
    /\ app \in {"idle", "create_threw"} => m_threads = {}
    /\ app \in {"idle", "create", "create_threw"} => phase[Main] = "begin"
    /\ app \in {"start", "start_threw", "started"} => m_threads = Task
    /\ app = "start" => phase[Main] \in {"start", "start_turn", "start_wait", "run"}
    /\ app \in {"start_threw", "started"} => phase[Main] = "run"
    /\ app \in {"stop", "stopped", "stop_threw"} /\ m_threads # {}
         => m_threads = Task /\ phase[Main] \in Late
    /\ app \in {"stopped", "stop_threw"} /\ m_threads # {} => \A t \in Thread : phase[t] = "end"
    /\ m_threads # {} => m_PU_tasks = Task
    /\ m_threads \subseteq Task
    /\ \A g \in Task \ m_threads : phase[g] = "start"

\* A container without threads has not entered the barrier, or is stuck in it.
BarrierOK ==
    \/ Barrier!FullInv /\ (m_threads = {} => phase[Main] = "begin")
    \/ Stuck

\* A task that is about to make a step has made sure that all of its startables
\* are up, and has a step to make.
LoopOK ==
    \A g \in Task : at[g] = "step" =>
        /\ phase[g] = "run" /\ StartOK(g)
        /\ left[g] \in Seq(Steps[g]) /\ left[g] # <<>>

\* Failures wait to be reported until they are.
FailOK ==
    /\ \A k \in Turn : life[k] = "failed" => m_start_failure
    /\ app = "started" => ~m_start_failure
    /\ threw # {} => m_threads # {} /\ (m_step_failures # <<>> \/ app = "stop_threw")
    /\ app = "stopped" => threw = {}

ContainerInv == StateOK /\ AppOK /\ BarrierOK /\ LoopOK /\ FailOK

-------------------------------------------------------------------------------
(* The barrier's assumption: who drives which startable.                        *)

\* The startables a thread drives, and their turns.
Driven(t) == Startable \cap (IF t = Main THEN Component \ Steppable ELSE Steps[t])
Places(t) == {turn(c) : c \in Driven(t)}

LEMMA TurnIsPlace ==
    /\ IsFiniteSet(Startable) /\ Startable \in SUBSET Int /\ Turns \in Nat
    /\ \A c \in Startable : turn(c) \in Turn
    /\ \A c, e \in Startable : turn(c) = turn(e) => c = e
    /\ \A k \in Turn : \E c \in Startable : turn(c) = k
<1>1. IsFiniteSet(Startable) /\ Startable \in SUBSET Int
  <2>1. Startable \in SUBSET (1 .. Components) /\ 1 \in Int /\ Components \in Int
    BY ContainerAssumption DEF ContainerAssumption, Component
  <2>2. IsFiniteSet(1 .. Components)
    BY <2>1, FS_Interval
  <2>3. 1 .. Components \subseteq Int
    OBVIOUS
  <2>. QED BY <2>1, <2>2, <2>3, FS_Subset
<1>2. \A c : turn(c) = Cardinality(Below(Startable, c))
  BY DEF turn, Below
<1>3. Turns \in Nat
  BY <1>1, FS_CardinalityType DEF Turns
<1>4. \A c \in Startable : turn(c) \in Turn
  BY <1>1, <1>2, RankInRange DEF Turn, Turns
<1>5. /\ \A c, e \in Startable : turn(c) = turn(e) => c = e
      /\ \A k \in Turn : \E c \in Startable : turn(c) = k
  BY <1>1, <1>2, RankIsBijection DEF Turn, Turns
<1>. QED BY <1>1, <1>3, <1>4, <1>5

LEMMA TurnsOfIs ==
    ASSUME NEW t \in Thread
    PROVE  TurnsOf[t] \in Seq(Places(t)) /\ Owned(t) = Places(t) /\ Places(t) \in SUBSET Turn
<1>. DEFINE P == Places(t)
<1>1. P \in SUBSET Turn /\ IsFiniteSet(P)
  <2>1. P \in SUBSET Turn
    BY TurnIsPlace DEF Places, Driven
  <2>2. IsFiniteSet(Turn)
    <3>1. 0 \in Int /\ Turns - 1 \in Int
      BY TurnIsPlace
    <3>. QED BY <3>1, FS_Interval DEF Turn
  <2>. QED BY <2>1, <2>2, FS_Subset
<1>2. TurnsOf[t] = Sorted(P)
  BY DEF TurnsOf, Places, Driven
<1>. HIDE DEF P
<1>3. P \in SUBSET Int
  BY <1>1 DEF Turn
<1>4. Sorted(P) \in Seq(P) /\ \A c \in P : \E i \in DOMAIN Sorted(P) : Sorted(P)[i] = c
  BY <1>1, <1>3, SortedIs
<1>5. PICK s \in Seq(P) : s = TurnsOf[t] /\ \A c \in P : \E i \in DOMAIN s : s[i] = c
  BY <1>2, <1>4
<1>6. \A i \in DOMAIN s : s[i] \in P
  <2>1. DOMAIN s = 1 .. Len(s) /\ \A i \in 1 .. Len(s) : s[i] \in P
    BY LenProperties, ElementOfSeq
  <2>. QED BY <2>1
<1>7. Owned(t) = P
  BY <1>5, <1>6 DEF Owned
<1>. QED BY <1>1, <1>5, <1>7 DEF P

\* Each startable is driven by one thread.
LEMMA OneDriver ==
    /\ \A t, u \in Thread : t # u => Driven(t) \cap Driven(u) = {}
    /\ \A c \in Startable : \E t \in Thread : c \in Driven(t)
<1>1. /\ Main \notin Task /\ Startable \subseteq Component
      /\ \A g \in Task : Steps[g] \subseteq Steppable
      /\ \A g, h \in Task : g # h => Steps[g] \cap Steps[h] = {}
  BY ContainerAssumption DEF ContainerAssumption, Steppable
<1>2. \A t, u \in Thread : t # u => Driven(t) \cap Driven(u) = {}
  BY <1>1 DEF Driven, Thread
<1>3. ASSUME NEW c \in Startable PROVE \E t \in Thread : c \in Driven(t)
  <2>1. CASE c \in Steppable
    <3>1. PICK g \in Task : c \in Steps[g]
      BY <2>1 DEF Steppable
    <3>. QED BY <1>1, <3>1 DEF Driven, Thread
  <2>2. CASE c \notin Steppable
    BY <1>1, <2>2 DEF Driven, Thread
  <2>. QED BY <2>1, <2>2
<1>. QED BY <1>2, <1>3

LEMMA TurnsAreOwned ==
    /\ Barrier!BarrierAssumption
    /\ \A k \in Turn : \E t \in Thread : k \in Owned(t)
<1>1. TurnsOf \in [Thread -> Seq(Turn)]
  <2>1. TurnsOf = [t \in Thread |-> TurnsOf[t]]
    BY DEF TurnsOf
  <2>2. \A t \in Thread : TurnsOf[t] \in Seq(Turn)
    <3>. SUFFICES ASSUME NEW t \in Thread PROVE TurnsOf[t] \in Seq(Turn)
      OBVIOUS
    <3>1. PICK s : s = TurnsOf[t] /\ s \in Seq(Places(t)) /\ Places(t) \in SUBSET Turn
      BY TurnsOfIs
    <3>2. s \in Seq(Turn)
      BY <3>1, SeqDef
    <3>. QED BY <3>1, <3>2
  <2>. QED BY <2>1, <2>2
<1>2. ASSUME NEW t \in Thread, NEW u \in Thread, t # u PROVE Owned(t) \cap Owned(u) = {}
  <2>. SUFFICES ASSUME NEW k \in Owned(t), k \in Owned(u) PROVE FALSE
    OBVIOUS
  <2>1. k \in Places(t) /\ k \in Places(u)
    BY TurnsOfIs
  <2>2. PICK c \in Driven(t) : turn(c) = k
    BY <2>1 DEF Places
  <2>3. PICK e \in Driven(u) : turn(e) = k
    BY <2>1 DEF Places
  <2>4. c = e
    BY <2>2, <2>3, TurnIsPlace DEF Driven
  <2>. QED BY <1>2, <2>4, OneDriver
<1>3. ASSUME NEW k \in Turn PROVE \E t \in Thread : k \in Owned(t)
  <2>1. PICK c \in Startable : turn(c) = k
    BY TurnIsPlace
  <2>2. PICK t \in Thread : c \in Driven(t)
    BY OneDriver
  <2>3. k \in Places(t)
    BY <2>1, <2>2 DEF Places
  <2>. QED BY <2>3, TurnsOfIs
<1>4. Main \in Thread /\ Turns \in Nat
  BY TurnIsPlace DEF Thread
<1>5. \A t : Barrier!Owned(t) = Owned(t)
  BY DEF Barrier!Owned, Owned
<1>. QED BY <1>1, <1>2, <1>3, <1>4, <1>5 DEF Barrier!BarrierAssumption, Turn

-------------------------------------------------------------------------------
(* The barrier's steps and what its invariant says *)

LEMMA SameSteps ==
    /\ start_begin => Barrier!start_begin
    /\ stop_begin => Barrier!stop_begin
    /\ \A t \in Thread : /\ StartStep(t) => Barrier!StartStep(t)
                         /\ run_end(t) => Barrier!run_end(t)
                         /\ StopStep(t) => Barrier!StopStep(t)
<1>1. start_begin => Barrier!start_begin
  BY DEF start_begin, Barrier!start_begin, Enter, Barrier!Enter
<1>2. stop_begin => Barrier!stop_begin
  BY DEF stop_begin, Barrier!stop_begin, Enter, Barrier!Enter
<1>3. ASSUME NEW t \in Thread, StartStep(t) PROVE Barrier!StartStep(t)
  <2>1. ASSUME NEW k \in Turn, start_turn(t, k) PROVE k \in Barrier!Turn /\ Barrier!start_turn(t, k)
    BY <2>1 DEF start_turn, Barrier!start_turn, Enter, Barrier!Enter, Turn, Barrier!Turn,
                NextTurn, Barrier!NextTurn
  <2>2. ASSUME NEW k \in Turn, NEW ok \in BOOLEAN, start_result(t, k, ok)
        PROVE  k \in Barrier!Turn /\ Barrier!start_result(t, k, ok)
    BY <2>2 DEF start_result, Barrier!start_result, Turn, Barrier!Turn, NextTurn, Barrier!NextTurn
  <2>3. ASSUME NEW k \in Turn, start_pass(t, k) PROVE k \in Barrier!Turn /\ Barrier!start_pass(t, k)
    BY <2>3 DEF start_pass, Barrier!start_pass, Enter, Barrier!Enter, Turn, Barrier!Turn,
                NextTurn, Barrier!NextTurn
  <2>4. start_end(t) => Barrier!start_end(t)
    BY DEF start_end, Barrier!start_end, Enter, Barrier!Enter
  <2>5. start_open(t) => Barrier!start_open(t)
    BY DEF start_open, Barrier!start_open, Enter, Barrier!Enter, Reverse, Barrier!Reverse
  <2>. QED BY <1>3, <2>1, <2>2, <2>3, <2>4, <2>5 DEF StartStep, Barrier!StartStep
<1>4. ASSUME NEW t \in Thread, StopStep(t) PROVE Barrier!StopStep(t)
  <2>1. ASSUME NEW k \in Turn, stop_turn(t, k) PROVE k \in Barrier!Turn /\ Barrier!stop_turn(t, k)
    BY <2>1 DEF stop_turn, Barrier!stop_turn, Enter, Barrier!Enter, Turn, Barrier!Turn,
                NextTurn, Barrier!NextTurn
  <2>2. ASSUME NEW k \in Turn, stop_result(t, k) PROVE k \in Barrier!Turn /\ Barrier!stop_result(t, k)
    BY <2>2 DEF stop_result, Barrier!stop_result, Turn, Barrier!Turn, NextTurn, Barrier!NextTurn
  <2>3. ASSUME NEW k \in Turn, stop_pass(t, k) PROVE k \in Barrier!Turn /\ Barrier!stop_pass(t, k)
    BY <2>3 DEF stop_pass, Barrier!stop_pass, Enter, Barrier!Enter, Turn, Barrier!Turn,
                NextTurn, Barrier!NextTurn
  <2>4. run_open(t) => Barrier!run_open(t)
    BY DEF run_open, Barrier!run_open, Enter, Barrier!Enter
  <2>5. stop_end(t) => Barrier!stop_end(t)
    BY DEF stop_end, Barrier!stop_end, Enter, Barrier!Enter
  <2>. QED BY <1>4, <2>1, <2>2, <2>3, <2>4, <2>5 DEF StopStep, Barrier!StopStep
<1>5. \A t \in Thread : run_end(t) => Barrier!run_end(t)
  BY DEF run_end, Barrier!run_end, Enter, Barrier!Enter
<1>. QED BY <1>1, <1>2, <1>3, <1>4, <1>5

LEMMA FullBegins == BarrierInit => Barrier!FullInv
<1>1. BarrierInit => Barrier!BarrierInit
  BY DEF BarrierInit, Barrier!BarrierInit, Turn, Barrier!Turn, INT_MIN, Barrier!INT_MIN
<1>. QED BY <1>1, Barrier!FullInit, TurnsAreOwned

\* A step of a thread in the barrier, or a step outside of it.
InBarrier == \/ start_begin \/ stop_begin \/ UNCHANGED seqVars
             \/ \E t \in Thread : StartStep(t) \/ run_end(t) \/ StopStep(t)

LEMMA FullStays == Barrier!FullInv /\ InBarrier => Barrier!FullInv'
<1>1. InBarrier => [Barrier!BarrierNext]_(Barrier!barrierVars)
  BY SameSteps DEF InBarrier, Barrier!BarrierNext, Barrier!barrierVars, seqVars
<1>. QED BY <1>1, Barrier!FullStep, TurnsAreOwned

LEMMA FullSays ==
    ASSUME Barrier!FullInv
    PROVE  /\ m_turn \in {INT_MIN, 0, 1} \cup (1 - Turns .. Turns) /\ m_start_count \in 0 .. Turns
           /\ m_start_latch \subseteq Thread /\ m_stop_latch \subseteq Thread
           /\ phase \in [Thread -> Phase]
           /\ life \in [Turn -> {"new", "starting", "started", "failed", "skipped",
                                 "stopping", "stopped"}]
           /\ \A t \in m_start_latch : phase[t] \notin {"begin", "start", "start_turn"}
           /\ \A t \in Thread : phase[t] \in Late => m_start_latch = Thread
           /\ \A t \in Thread : t \in m_stop_latch
                <=> phase[t] \in {"stop_wait", "stop_begin", "stop", "stop_turn", "end"}
           /\ \A t \in Thread : phase[t] \in {"begin", "stop_begin"} => t = Main
<1>1. Barrier!BarrierTypeOK /\ Barrier!LatchOK /\ Barrier!StartLatchOK
  BY DEF Barrier!FullInv, Barrier!IInv
<1>2. m_turn \in {INT_MIN, 0, 1} \cup (1 - Turns .. Turns)
  <2>0. Turns \in Nat
    BY TurnIsPlace
  <2>1. CASE phase[Main] = "begin"
    BY <2>1 DEF Barrier!FullInv, Barrier!IInv, Barrier!TurnOK, INT_MIN, Barrier!INT_MIN
  <2>2. CASE m_turn \in 0 .. Turns
    BY <2>0, <2>2
  <2>3. CASE m_turn \in 1 - Turns .. 1
    BY <2>0, <2>3
  <2>. QED BY <2>1, <2>2, <2>3 DEF Barrier!FullInv, Barrier!TurnRange
<1>. QED BY <1>1, <1>2 DEF Barrier!BarrierTypeOK, Barrier!LatchOK, Barrier!StartLatchOK, Late,
                           Phase, Barrier!Phase, Turn, Barrier!Turn

-------------------------------------------------------------------------------
(* Where a step of the barrier takes a thread *)

Moves(t, from, to) ==
    /\ phase[t] \in from
    /\ phase'[t] \in to
    /\ \A u \in Thread \ {t} : phase'[u] = phase[u]

LEMMA StartMoves ==
    ASSUME phase \in [Thread -> Phase], NEW t \in Thread, StartStep(t)
    PROVE  Moves(t, {"start", "start_turn", "start_wait"}, {"start", "start_turn", "start_wait", "run"})
BY DEF StartStep, start_turn, start_result, start_pass, start_end, start_open, Enter, Moves

LEMMA StopMoves ==
    ASSUME phase \in [Thread -> Phase], NEW t \in Thread, StopStep(t)
    PROVE  Moves(t, {"stop_wait", "stop", "stop_turn"}, {"stop_begin", "stop", "stop_turn", "end"})
BY DEF StopStep, run_open, stop_turn, stop_result, stop_pass, stop_end, Enter, Moves

LEMMA OtherMoves ==
    ASSUME phase \in [Thread -> Phase]
    PROVE  /\ start_begin => Moves(Main, {"begin"}, {"start"})
           /\ stop_begin => Moves(Main, {"stop_begin"}, {"stop"})
           /\ \A t \in Thread : run_end(t) => Moves(t, {"run"}, {"stop_wait"})
<1>1. Main \in Thread
  BY DEF Thread
<1>2. start_begin => Moves(Main, {"begin"}, {"start"})
  BY <1>1 DEF start_begin, Enter, Moves
<1>3. stop_begin => Moves(Main, {"stop_begin"}, {"stop"})
  BY <1>1 DEF stop_begin, Enter, Moves
<1>4. \A t \in Thread : run_end(t) => Moves(t, {"run"}, {"stop_wait"})
  BY DEF run_end, Enter, Moves
<1>. QED BY <1>2, <1>3, <1>4

\* Where no barrier step is made the barrier's variables stay.
LEMMA OutsideBarrier ==
    /\ start \/ create_task \/ spawn_task \/ start_returns \/ stop \/ stop_returns => UNCHANGED seqVars
    /\ \A t \in Thread : RequestStep(t) => UNCHANGED seqVars
    /\ \A g \in Task : loop_check(g) \/ step_returns(g) \/ step_requests_stop(g) \/ step_throws(g)
                         => UNCHANGED seqVars
    /\ Done \/ UNCHANGED containerVars => UNCHANGED seqVars
BY DEF start, create_task, spawn_task, start_returns, stop, stop_returns, RequestStep, request_check,
       request_signal, request_broadcast, loop_check, step_returns, step_requests_stop, step_throws,
       Done, containerVars

LEMMA AtBarrier ==
    /\ start_begins => start_begin
    /\ stop_begins => stop_begin /\ OtherThanBarrier
    /\ \A t \in Thread : StartAtBarrier(t)
          => /\ StartStep(t) /\ t \in m_threads \cup {Main}
             /\ UNCHANGED <<appVars, stopVars, loopVars, m_step_failures, threw>>
    /\ \A t \in Thread : StopAtBarrier(t) => StopStep(t) /\ OtherThanBarrier
    /\ \A g \in Task : loop_leave(g) => run_end(g) /\ OtherThanBarrier
<1>1. \A t \in Thread : StartAtBarrier(t)
          => /\ StartStep(t) /\ t \in m_threads \cup {Main}
             /\ UNCHANGED <<appVars, stopVars, loopVars, m_step_failures, threw>>
  BY DEF StartAtBarrier, StartStep, OtherThanBarrier, failVars
<1>. QED BY <1>1 DEF start_begins, stop_begins, StopAtBarrier, loop_leave

-------------------------------------------------------------------------------
(* Every step keeps the invariant *)

\* A stuck container makes no step that the invariant is about.
LEMMA StuckStays ==
    ASSUME StateOK, Stuck, [ContainerNext]_containerVars
    PROVE  /\ UNCHANGED <<seqVars, appVars, failVars, loopVars>> /\ req'[Main] = req[Main]
           /\ stop_flag' \in [Task -> BOOLEAN] /\ m_signalled' \in BOOLEAN
           /\ req' \in [Thread -> {"no", "check", "signal", "broadcast"}]
<1>0. /\ app = "stop" /\ Main \in Thread /\ Main \notin Task /\ Task # {}
      /\ phase[Main] = "stop_wait" /\ \A g \in Task : phase[g] = "start"
      /\ m_threads = {} /\ Main \in m_stop_latch /\ m_stop_latch # Thread
  BY ContainerAssumption DEF Stuck, ContainerAssumption, Thread
<1>1. ASSUME NEW t \in Thread, RequestStep(t)
      PROVE  /\ UNCHANGED <<seqVars, appVars, failVars, loopVars>> /\ t # Main
             /\ stop_flag' \in [Task -> BOOLEAN] /\ m_signalled' \in BOOLEAN
             /\ req' = req \/ \E r \in {"no", "signal", "broadcast"} : req' = [req EXCEPT ![t] = r]
  <2>1. /\ UNCHANGED <<seqVars, appVars, failVars, loopVars>>
        /\ req' = req \/ \E r \in {"no", "signal", "broadcast"} : req' = [req EXCEPT ![t] = r]
    BY <1>1 DEF RequestStep, request_check, request_signal, request_broadcast, SetReq
  <2>2. req[t] # "no"
    BY <1>1 DEF RequestStep, request_check, request_signal, request_broadcast
  <2>3. m_signalled' = m_signalled \/ m_signalled' = TRUE
    BY <1>1 DEF RequestStep, request_check, request_signal, request_broadcast
  <2>4. stop_flag' = stop_flag \/ \E g \in tell[t] : stop_flag' = [stop_flag EXCEPT ![g] = TRUE]
    BY <1>1 DEF RequestStep, request_check, request_signal, request_broadcast
  <2>5. stop_flag' \in [Task -> BOOLEAN]
    BY <2>4 DEF StateOK
  <2>. QED BY <2>1, <2>2, <2>3, <2>5 DEF StateOK, Stuck
<1>2. \A t \in Thread : ~StartAtBarrier(t) /\ ~StopAtBarrier(t)
  <2>1. \A t \in Thread : ~StartAtBarrier(t)
    BY <1>0 DEF StartAtBarrier, start_turn, start_pass, start_result, start_end, start_open
  <2>2. \A t \in Thread : ~StopAtBarrier(t)
    BY <1>0 DEF StopAtBarrier, StopStep, run_open, stop_turn, stop_result, stop_pass, stop_end, Thread
  <2>. QED BY <2>1, <2>2
<1>3. \A g \in Task : ~LoopStep(g)
  BY <1>0 DEF LoopStep, loop_check, step_returns, step_requests_stop, step_throws, loop_leave, run_end
<1>4. ~Starting /\ ~stop /\ ~Done
  BY <1>0 DEF Starting, start, create_task, spawn_task, start_begins, start_returns, stop, Done
<1>5. ~Stopping
  <2>1. phase[Main] # "end" /\ phase[Main] # "stop_begin"
    BY <1>0
  <2>. QED BY <1>0, <2>1 DEF Stopping, stop_run_end, stop_begins, stop_begin, stop_returns
<1>6. CASE UNCHANGED containerVars
  BY <1>6 DEF containerVars, stopVars, StateOK
<1>7. ASSUME NEW t \in Thread, RequestStep(t)
      PROVE  req'[Main] = req[Main] /\ req' \in [Thread -> {"no", "check", "signal", "broadcast"}]
  BY <1>0, <1>1, <1>7 DEF StateOK
<1>. QED BY <1>1, <1>2, <1>3, <1>4, <1>5, <1>6, <1>7 DEF ContainerNext, ThreadStep

LEMMA StuckAgain ==
    ASSUME ContainerInv, Stuck, [ContainerNext]_containerVars PROVE ContainerInv'
<1>1. /\ UNCHANGED <<seqVars, appVars, failVars, loopVars>> /\ req'[Main] = req[Main]
      /\ stop_flag' \in [Task -> BOOLEAN] /\ m_signalled' \in BOOLEAN
      /\ req' \in [Thread -> {"no", "check", "signal", "broadcast"}]
  BY StuckStays DEF ContainerInv
<1>. USE DEF seqVars, appVars, failVars, loopVars
<1>2. Stuck'
  BY <1>1 DEF Stuck
<1>3. StateOK'
  BY <1>1 DEF StateOK, ContainerInv
<1>4. AppOK'
  BY <1>1 DEF AppOK, ContainerInv
<1>5. LoopOK'
  BY <1>1 DEF LoopOK, StartOK, ContainerInv
<1>6. FailOK'
  BY <1>1 DEF FailOK, ContainerInv
<1>. QED BY <1>2, <1>3, <1>4, <1>5, <1>6 DEF BarrierOK, ContainerInv

\* A container without threads that is stopped gets stuck.
LEMMA GetsStuck ==
    ASSUME Barrier!FullInv, AppOK, stop_run_end, m_threads = {}, phase[Main] = "begin"
    PROVE  Stuck'
<1>0. Main \in Thread /\ Main \notin Task /\ Thread = Task \cup {Main}
  BY ContainerAssumption DEF ContainerAssumption, Thread
<1>1. /\ phase \in [Thread -> Phase] /\ m_start_count \in 0 .. Turns
      /\ m_start_latch \subseteq Thread /\ m_stop_latch \subseteq Thread
      /\ life \in [Turn -> {"new", "starting", "started", "failed", "skipped",
                            "stopping", "stopped"}]
      /\ \A t \in m_start_latch : phase[t] \notin {"begin", "start", "start_turn"}
      /\ \A t \in Thread : t \in m_stop_latch
            <=> phase[t] \in {"stop_wait", "stop_begin", "stop", "stop_turn", "end"}
  BY FullSays
<1>2. \A g \in Task : phase[g] = "start"
  BY DEF AppOK
<1>3. m_start_latch = {} /\ m_stop_latch = {}
  BY <1>0, <1>1, <1>2
<1>4. \A k \in Turn : life[k] = "new"
  BY Barrier!BeforeBegin, TurnsAreOwned DEF Turn, Barrier!Turn
<1>5. life = [k \in Turn |-> "new"]
  BY <1>1, <1>4
<1>6. m_start_count = 0
  <2>1. \A k \in Turn : ~(k < m_start_count)
    BY <1>4 DEF Barrier!FullInv, Barrier!IInv, Barrier!CountOK, Turn, Barrier!Turn
  <2>2. m_start_count > 0 => 0 \in Turn /\ 0 < m_start_count
    BY <1>1, TurnIsPlace DEF Turn
  <2>. QED BY <1>1, <2>1, <2>2, TurnIsPlace
<1>7. m_turn = INT_MIN
  BY DEF Barrier!FullInv, Barrier!IInv, Barrier!TurnOK, INT_MIN, Barrier!INT_MIN
<1>8. /\ app = "stop" /\ req[Main] = "no" /\ m_stop_latch' = m_stop_latch \cup {Main}
      /\ phase' = [phase EXCEPT ![Main] = "stop_wait"]
      /\ UNCHANGED <<m_turn, m_start_count, m_start_latch, life, app, m_threads, req>>
  BY DEF stop_run_end, Enter, appVars, stopVars
<1>9. phase' = [t \in Thread |-> IF t = Main THEN "stop_wait" ELSE "start"]
  BY <1>0, <1>1, <1>2, <1>8
<1>. QED BY <1>3, <1>5, <1>6, <1>7, <1>8, <1>9 DEF Stuck, Turn

\* The steps of the container's thread and of the tasks are steps of the barrier
\* or none of its business.
LEMMA StaysInBarrier ==
    ASSUME Barrier!FullInv, AppOK, [ContainerNext]_containerVars, m_threads = {} => phase[Main] = "begin"
    PROVE  InBarrier \/ (stop_run_end /\ m_threads = {} /\ phase[Main] = "begin")
<1>0. Main \in Thread /\ Task \subseteq Thread
  BY DEF Thread
<1>1. CASE stop_run_end
  <2>1. /\ app = "stop" /\ Main \notin m_stop_latch
        /\ m_stop_latch' = m_stop_latch \cup {Main} /\ Enter(Main, "stop_wait")
        /\ UNCHANGED <<m_turn, m_start_count, m_start_latch, todo, life>>
    BY <1>1 DEF stop_run_end
  <2>2. phase[Main] \notin {"stop_wait", "stop_begin", "stop", "stop_turn", "end"}
    BY <1>0, <2>1, FullSays
  <2>3. m_threads # {} => phase[Main] = "run"
    BY <2>1, <2>2 DEF AppOK, Late
  <2>4. phase[Main] = "run" => run_end(Main)
    BY <2>1 DEF run_end
  <2>. QED BY <1>0, <1>1, <2>3, <2>4 DEF InBarrier
<1>2. ASSUME NEW t \in Thread, ThreadStep(t) PROVE InBarrier
  BY <1>2, OutsideBarrier, AtBarrier DEF ThreadStep, InBarrier
<1>3. ASSUME NEW g \in Task, LoopStep(g) PROVE InBarrier
  BY <1>0, <1>3, OutsideBarrier, AtBarrier DEF LoopStep, InBarrier
<1>4. CASE Starting \/ stop \/ stop_begins \/ stop_returns \/ Done \/ UNCHANGED containerVars
  BY <1>4, OutsideBarrier, AtBarrier DEF Starting, InBarrier
<1>. QED BY <1>1, <1>2, <1>3, <1>4 DEF ContainerNext, Stopping

\* What a step does to app and m_threads when it is not a step of start() or stop().
LEMMA AppStays ==
    /\ \A t \in Thread : ThreadStep(t) => UNCHANGED appVars
    /\ \A g \in Task : LoopStep(g) => UNCHANGED appVars
    /\ stop_run_end \/ stop_begins \/ Done \/ UNCHANGED containerVars => UNCHANGED appVars
<1>1. \A t \in Thread : RequestStep(t) => UNCHANGED appVars
  BY DEF RequestStep, request_check, request_signal, request_broadcast
<1>2. \A t \in Thread : StartAtBarrier(t) \/ StopAtBarrier(t) => UNCHANGED appVars
  BY AtBarrier DEF OtherThanBarrier
<1>3. \A g \in Task : LoopStep(g) => UNCHANGED appVars
  BY AtBarrier DEF LoopStep, loop_check, step_returns, step_requests_stop, step_throws, OtherThanBarrier
<1>4. stop_run_end \/ stop_begins \/ Done \/ UNCHANGED containerVars => UNCHANGED appVars
  BY DEF stop_run_end, stop_begins, OtherThanBarrier, Done, containerVars
<1>. QED BY <1>1, <1>2, <1>3, <1>4 DEF ThreadStep

LEMMA ThreadsStay ==
    ASSUME [ContainerNext]_containerVars, m_threads' = {} PROVE m_threads = {} /\ ~start_begins
<1>1. Task # {}
  BY ContainerAssumption DEF ContainerAssumption
<1>2. ~start_begins
  BY <1>1 DEF start_begins
<1>3. ~spawn_task
  BY DEF spawn_task
<1>. QED BY <1>2, <1>3, AppStays
         DEF ContainerNext, Starting, Stopping, start, create_task, start_returns, stop, stop_returns, appVars

LEMMA BarrierStays ==
    ASSUME ContainerInv, ~Stuck, [ContainerNext]_containerVars PROVE BarrierOK'
<1>0. /\ Barrier!FullInv /\ AppOK /\ (m_threads = {} => phase[Main] = "begin")
      /\ Main \in Thread /\ Main \notin Task
  BY ContainerAssumption DEF ContainerInv, BarrierOK, ContainerAssumption, Thread
<1>1. CASE stop_run_end /\ m_threads = {} /\ phase[Main] = "begin"
  BY <1>0, <1>1, GetsStuck DEF BarrierOK
<1>2. CASE InBarrier /\ ~(stop_run_end /\ m_threads = {} /\ phase[Main] = "begin")
  <2>1. Barrier!FullInv'
    BY <1>0, <1>2, FullStays
  <2>2. ASSUME m_threads' = {} PROVE phase'[Main] = "begin"
    <3>1. m_threads = {} /\ ~start_begins /\ phase[Main] = "begin" /\ ~stop_run_end
      BY <1>0, <1>2, <2>2, ThreadsStay
    <3>2. phase \in [Thread -> Phase]
      BY <1>0, FullSays
    <3>3. ASSUME NEW t \in Thread, StartAtBarrier(t) PROVE FALSE
      <4>1. t = Main /\ StartStep(t)
        BY <3>1, <3>3, AtBarrier
      <4>. QED BY <3>1, <3>2, <4>1, StartMoves DEF Moves
    <3>4. ASSUME NEW t \in Thread, StopAtBarrier(t) PROVE FALSE
      <4>1. phase[t] \in {"stop_wait", "stop", "stop_turn"}
        BY <3>2, <3>4, AtBarrier, StopMoves DEF Moves
      <4>2. t \in Task => phase[t] = "start"
        BY <1>0, <3>1 DEF AppOK
      <4>. QED BY <3>1, <4>1, <4>2 DEF Thread
    <3>5. ASSUME NEW g \in Task, LoopStep(g) PROVE FALSE
      <4>1. phase[g] = "start"
        BY <1>0, <3>1 DEF AppOK
      <4>. QED
        BY <3>5, <4>1
           DEF LoopStep, loop_check, step_returns, step_requests_stop, step_throws, loop_leave, run_end
    <3>6. ~stop_begins
      BY <3>1 DEF stop_begins, stop_begin
    <3>. QED BY <3>1, <3>3, <3>4, <3>5, <3>6, OutsideBarrier
             DEF ContainerNext, ThreadStep, Starting, Stopping, seqVars
  <2>. QED BY <2>1, <2>2 DEF BarrierOK
<1>. QED BY <1>0, <1>1, <1>2, StaysInBarrier

\* How far start() and stop() are.
LEMMA AppKept ==
    ASSUME ContainerInv, ~Stuck, [ContainerNext]_containerVars PROVE AppOK'
<1>0. /\ Barrier!FullInv /\ AppOK /\ (m_threads = {} => phase[Main] = "begin")
      /\ Main \in Thread /\ Main \notin Task /\ Thread = Task \cup {Main} /\ Task # {}
  BY ContainerAssumption DEF ContainerInv, BarrierOK, ContainerAssumption, Thread
<1>00. phase \in [Thread -> Phase]
  BY <1>0, FullSays
<1>. USE DEF appVars
<1>1. ASSUME NEW t \in Thread, ThreadStep(t) PROVE AppOK'
  <2>0. UNCHANGED appVars
    BY <1>1, AppStays
  <2>1. CASE RequestStep(t)
    BY <1>0, <2>0, <2>1, OutsideBarrier DEF AppOK, seqVars
  <2>2. CASE StartAtBarrier(t)
    <3>1. /\ Moves(t, {"start", "start_turn", "start_wait"}, {"start", "start_turn", "start_wait", "run"})
          /\ t \in m_threads \cup {Main}
      BY <1>00, <2>2, AtBarrier, StartMoves
    <3>2. ~(app \in {"stopped", "stop_threw"} /\ m_threads # {})
      BY <3>1 DEF AppOK, Moves, ContainerInv
    <3>3. CASE t = Main
      <4>1. m_threads # {}
        BY <1>0, <3>1, <3>3 DEF Moves
      <4>2. app = "start"
        BY <1>0, <3>1, <3>3, <4>1 DEF AppOK, Moves, Late
      <4>. QED BY <1>0, <2>0, <3>1, <3>3, <4>2 DEF AppOK, Moves
    <3>4. CASE t # Main
      BY <1>0, <2>0, <3>1, <3>2, <3>4 DEF AppOK, Moves
    <3>. QED BY <3>3, <3>4
  <2>3. CASE StopAtBarrier(t)
    <3>1. Moves(t, {"stop_wait", "stop", "stop_turn"}, {"stop_begin", "stop", "stop_turn", "end"})
      BY <1>00, <2>3, AtBarrier, StopMoves
    <3>2. ~(app \in {"stopped", "stop_threw"} /\ m_threads # {})
      BY <3>1 DEF AppOK, Moves, ContainerInv
    <3>3. CASE t = Main
      BY <1>0, <2>0, <3>1, <3>2, <3>3 DEF AppOK, Moves, Late
    <3>4. CASE t # Main
      <4>1. t \in m_threads
        BY <1>0, <3>1, <3>4 DEF AppOK, Moves
      <4>. QED BY <1>0, <2>0, <3>1, <3>2, <3>4, <4>1 DEF AppOK, Moves
    <3>. QED BY <3>3, <3>4
  <2>. QED BY <1>1, <2>1, <2>2, <2>3 DEF ThreadStep
<1>2. ASSUME NEW g \in Task, LoopStep(g) PROVE AppOK'
  <2>0. UNCHANGED appVars
    BY <1>2, AppStays
  <2>1. CASE loop_leave(g)
    <3>1. Moves(g, {"run"}, {"stop_wait"})
      BY <1>0, <1>00, <2>1, AtBarrier, OtherMoves
    <3>2. ~(app \in {"stopped", "stop_threw"} /\ m_threads # {}) /\ g \in m_threads
      BY <1>0, <3>1 DEF AppOK, Moves
    <3>. QED BY <1>0, <2>0, <3>1, <3>2 DEF AppOK, Moves
  <2>2. CASE ~loop_leave(g)
    <3>1. UNCHANGED seqVars
      BY <1>2, <2>2, OutsideBarrier DEF LoopStep
    <3>. QED BY <1>0, <2>0, <3>1 DEF AppOK, seqVars
  <2>. QED BY <2>1, <2>2
<1>3. CASE start \/ create_task \/ spawn_task
  <2>1. UNCHANGED seqVars
    BY <1>3, OutsideBarrier
  <2>. QED BY <1>0, <1>3, <2>1 DEF start, create_task, spawn_task, AppOK, seqVars
<1>4. CASE start_begins
  <2>1. Moves(Main, {"begin"}, {"start"}) /\ app = "create" /\ m_threads = Task
        /\ app' = "start" /\ UNCHANGED <<m_PU_tasks, m_threads>>
    BY <1>00, <1>4, AtBarrier, OtherMoves DEF start_begins
  <2>. QED BY <1>0, <2>1 DEF AppOK, Moves
<1>5. CASE start_returns
  <2>1. UNCHANGED seqVars
    BY <1>5, OutsideBarrier
  <2>. QED BY <1>0, <1>5, <2>1 DEF start_returns, AppOK, seqVars
<1>6. CASE stop
  <2>1. UNCHANGED seqVars
    BY <1>6, OutsideBarrier
  <2>. QED BY <1>0, <1>6, <2>1 DEF stop, AppOK, seqVars, Late
<1>7. CASE stop_run_end
  <2>1. /\ app = "stop" /\ UNCHANGED appVars /\ phase' = [phase EXCEPT ![Main] = "stop_wait"]
    BY <1>7 DEF stop_run_end, Enter
  <2>. QED BY <1>0, <1>00, <2>1 DEF AppOK, Late
<1>8. CASE stop_begins
  <2>1. Moves(Main, {"stop_begin"}, {"stop"}) /\ UNCHANGED appVars
    BY <1>00, <1>8, AtBarrier, OtherMoves DEF OtherThanBarrier
  <2>2. app = "stop" /\ m_threads = Task
    BY <1>0, <2>1 DEF AppOK, Moves
  <2>. QED BY <1>0, <2>1, <2>2 DEF AppOK, Moves, Late
<1>9. CASE stop_returns
  <2>1. UNCHANGED seqVars
    BY <1>9, OutsideBarrier
  <2>. QED BY <1>0, <1>9, <2>1 DEF stop_returns, AppOK, seqVars
<1>10. CASE Done \/ UNCHANGED containerVars
  BY <1>0, <1>10, AppStays, OutsideBarrier DEF AppOK, seqVars
<1>. QED BY <1>1, <1>2, <1>3, <1>4, <1>5, <1>6, <1>7, <1>8, <1>9, <1>10 DEF ContainerNext, Starting, Stopping

\* The types of the rest of the state.
LEMMA StateKept ==
    ASSUME StateOK, [ContainerNext]_containerVars PROVE StateOK'
<1>. USE DEF StateOK
<1>0. Main \in Thread /\ Task \subseteq Thread
  BY DEF Thread
<1>1. ASSUME NEW t \in Thread, EnterRequest(t)
      PROVE  /\ stop_flag' \in [Task -> BOOLEAN] /\ m_signalled' \in BOOLEAN
             /\ req' \in [Thread -> {"no", "check", "signal", "broadcast"}]
  <2>1. stop_flag' = stop_flag \/ stop_flag' = [stop_flag EXCEPT ![t] = TRUE]
    BY <1>1 DEF EnterRequest
  <2>2. stop_flag' \in [Task -> BOOLEAN]
    BY <2>1
  <2>3. m_signalled' = m_signalled /\ req' = [req EXCEPT ![t] = "check"]
    BY <1>1 DEF EnterRequest, SetReq
  <2>4. req' \in [Thread -> {"no", "check", "signal", "broadcast"}]
    BY <2>3
  <2>. QED BY <2>2, <2>3, <2>4
<1>2. ASSUME NEW t \in Thread, RequestStep(t) PROVE StateOK'
  <2>1. stop_flag' = stop_flag \/ \E g \in tell[t] : stop_flag' = [stop_flag EXCEPT ![g] = TRUE]
    BY <1>2 DEF RequestStep, request_check, request_signal, request_broadcast
  <2>2. stop_flag' \in [Task -> BOOLEAN]
    BY <2>1
  <2>3. m_signalled' = m_signalled \/ m_signalled' = TRUE
    BY <1>2 DEF RequestStep, request_check, request_signal, request_broadcast
  <2>4. req' = req \/ \E r \in {"no", "signal", "broadcast"} : req' = [req EXCEPT ![t] = r]
    BY <1>2 DEF RequestStep, request_check, request_signal, request_broadcast, SetReq
  <2>5. req' \in [Thread -> {"no", "check", "signal", "broadcast"}]
    BY <2>4
  <2>6. UNCHANGED <<appVars, failVars, loopVars>>
    BY <1>2 DEF RequestStep, request_check, request_signal, request_broadcast
  <2>. QED BY <2>2, <2>3, <2>5, <2>6 DEF appVars, failVars, loopVars
<1>3. ASSUME NEW t \in Thread, StartAtBarrier(t) PROVE StateOK'
  <2>1. UNCHANGED <<appVars, stopVars, loopVars, m_step_failures, threw>>
    BY <1>3, AtBarrier
  <2>2. m_start_failure' = m_start_failure \/ m_start_failure' = TRUE
    BY <1>3 DEF StartAtBarrier, OtherThanBarrier, failVars
  <2>3. m_start_failure' \in BOOLEAN
    BY <2>2
  <2>. QED BY <2>1, <2>3 DEF appVars, stopVars, loopVars
<1>4. ASSUME OtherThanBarrier PROVE StateOK'
  BY <1>4 DEF OtherThanBarrier, appVars, stopVars, failVars, loopVars
<1>5. ASSUME NEW g \in Task, LoopStep(g) PROVE StateOK'
  <2>1. CASE loop_leave(g)
    BY <1>4, <2>1, AtBarrier
  <2>2. CASE loop_check(g) \/ step_returns(g)
    <3>1. /\ \E a \in {"check", "step", "leave"} : at' = [at EXCEPT ![g] = a]
          /\ left' = left \/ \E l : left' = [left EXCEPT ![g] = l]
          /\ UNCHANGED <<appVars, stopVars, failVars>>
      BY <2>2 DEF loop_check, step_returns, FinishStep, SetAt
    <3>. QED BY <3>1 DEF appVars, stopVars, failVars
  <2>3. CASE step_requests_stop(g)
    <3>1. /\ \E a \in {"check", "step", "leave"} : at' = [at EXCEPT ![g] = a]
          /\ \E l : left' = [left EXCEPT ![g] = l]
          /\ EnterRequest(g) /\ UNCHANGED <<appVars, failVars>>
      BY <2>3 DEF step_requests_stop, FinishStep, SetAt
    <3>2. /\ stop_flag' \in [Task -> BOOLEAN] /\ m_signalled' \in BOOLEAN
          /\ req' \in [Thread -> {"no", "check", "signal", "broadcast"}]
      BY <1>0, <1>1, <3>1
    <3>3. at' \in [Task -> {"check", "step", "leave"}] /\ DOMAIN left' = Task
      BY <3>1
    <3>4. UNCHANGED <<appVars, failVars>>
      BY <3>1
    <3>. QED BY <3>2, <3>3, <3>4 DEF appVars, failVars
  <2>4. CASE step_throws(g)
    <3>1. /\ at' = [at EXCEPT ![g] = "leave"] /\ left' = [left EXCEPT ![g] = <<>>]
          /\ m_step_failures' = Append(m_step_failures, g)
          /\ EnterRequest(g) /\ UNCHANGED <<appVars, m_start_failure>>
      BY <2>4 DEF step_throws, SetAt, seqVars
    <3>2. /\ stop_flag' \in [Task -> BOOLEAN] /\ m_signalled' \in BOOLEAN
          /\ req' \in [Thread -> {"no", "check", "signal", "broadcast"}]
      BY <1>0, <1>1, <3>1
    <3>3. m_step_failures' \in Seq(Task)
      BY <3>1, AppendProperties
    <3>. QED BY <3>1, <3>2, <3>3 DEF appVars
  <2>. QED BY <1>5, <2>1, <2>2, <2>3, <2>4 DEF LoopStep
<1>6. CASE start \/ create_task \/ spawn_task \/ start_begins \/ start_returns \/ stop_run_end
  <2>1. UNCHANGED <<stopVars, failVars, loopVars>>
    BY <1>6 DEF start, create_task, spawn_task, start_begins, start_returns, stop_run_end
  <2>2. /\ m_state' \in {"configured", "resolved", "started", "stopped"}
        /\ m_PU_tasks' \subseteq Task
    BY <1>6 DEF start, create_task, spawn_task, start_begins, start_returns, stop_run_end, appVars
  <2>. QED BY <2>1, <2>2 DEF stopVars, failVars, loopVars
<1>7. CASE stop
  <2>1. /\ m_state' = "stopped" /\ UNCHANGED <<m_PU_tasks, failVars, loopVars>>
        /\ UNCHANGED stopVars \/ EnterRequest(Main)
    BY <1>7 DEF stop
  <2>2. /\ stop_flag' \in [Task -> BOOLEAN] /\ m_signalled' \in BOOLEAN
        /\ req' \in [Thread -> {"no", "check", "signal", "broadcast"}]
    BY <1>0, <1>1, <2>1 DEF stopVars
  <2>. QED BY <2>1, <2>2 DEF failVars, loopVars
<1>8. CASE stop_returns
  <2>1. m_step_failures' = <<>> /\ <<>> \in Seq(Task)
    BY <1>8, EmptySeq DEF stop_returns
  <2>. QED BY <1>8, <2>1 DEF stop_returns, stopVars, loopVars
<1>9. CASE stop_begins
  BY <1>4, <1>9, AtBarrier
<1>10. CASE Done \/ UNCHANGED containerVars
  BY <1>10 DEF Done, containerVars, appVars, stopVars, failVars, loopVars
<1>11. \A t \in Thread : StopAtBarrier(t) => StateOK'
  BY <1>4, AtBarrier
<1>. QED
  BY <1>2, <1>3, <1>5, <1>6, <1>7, <1>8, <1>9, <1>10, <1>11 DEF ContainerNext, Starting, Stopping, ThreadStep

\* The count of what started never goes down.
LEMMA CountGrows ==
    ASSUME m_start_count \in 0 .. Turns, [ContainerNext]_containerVars
    PROVE  m_start_count' \in Int /\ m_start_count' >= m_start_count
<1>0. m_start_count \in Int
  OBVIOUS
<1>1. \A t \in Thread : StartStep(t) => m_start_count' = m_start_count \/ m_start_count' = m_start_count + 1
  BY DEF StartStep, start_turn, start_result, start_pass, start_end, start_open
<1>2. \A t \in Thread : StopStep(t) => m_start_count' = m_start_count
  BY DEF StopStep, run_open, stop_turn, stop_result, stop_pass, stop_end
<1>3. stop_run_end \/ start_begin \/ stop_begin => m_start_count' = m_start_count
  BY DEF stop_run_end, start_begin, stop_begin
<1>4. \A t \in Thread : run_end(t) => m_start_count' = m_start_count
  BY DEF run_end
<1>5. UNCHANGED seqVars => m_start_count' = m_start_count
  BY DEF seqVars
<1>6. Task \subseteq Thread
  BY DEF Thread
<1>7. m_start_count' = m_start_count \/ m_start_count' = m_start_count + 1
  <2>1. \A t \in Thread : ThreadStep(t)
           => m_start_count' = m_start_count \/ m_start_count' = m_start_count + 1
    BY <1>1, <1>2, <1>5, AtBarrier, OutsideBarrier DEF ThreadStep
  <2>2. \A g \in Task : LoopStep(g) => m_start_count' = m_start_count
    BY <1>4, <1>5, <1>6, AtBarrier, OutsideBarrier DEF LoopStep
  <2>. QED BY <1>3, <1>5, <2>1, <2>2, AtBarrier, OutsideBarrier DEF ContainerNext, Starting, Stopping
<1>. QED BY <1>0, <1>7

LEMMA StepsAre ==
    ASSUME NEW g \in Task
    PROVE  m_steps(g) \in Seq(Steps[g]) /\ m_steps(g) # <<>>
<1>1. Steps[g] # {} /\ Steps[g] \in SUBSET (1 .. Components) /\ Components \in Nat
  BY ContainerAssumption DEF ContainerAssumption, Component
<1>2. IsFiniteSet(1 .. Components)
  BY <1>1, FS_Interval
<1>3. IsFiniteSet(Steps[g]) /\ Steps[g] \in SUBSET Int
  BY <1>1, <1>2, FS_Subset
<1>. QED BY <1>1, <1>3, SortedIs DEF m_steps

LEMMA TurnsOfAreInt ==
    ASSUME NEW t \in Thread, NEW i \in DOMAIN TurnsOf[t]
    PROVE  TurnsOf[t][i] \in Turn /\ TurnsOf[t][i] \in Int
<1>1. TurnsOf[t][i] \in Owned(t)
  BY DEF Owned
<1>. QED BY <1>1, TurnsOfIs DEF Turn

\* A task on its way to a step.
LEMMA LoopKept ==
    ASSUME ContainerInv, ~Stuck, [ContainerNext]_containerVars PROVE LoopOK'
<1>0. /\ Barrier!FullInv /\ LoopOK /\ StateOK
      /\ Main \in Thread /\ Main \notin Task /\ Thread = Task \cup {Main}
  BY ContainerAssumption DEF ContainerInv, BarrierOK, ContainerAssumption, Thread
<1>00. phase \in [Thread -> Phase] /\ m_start_count \in 0 .. Turns
  BY <1>0, FullSays
<1>1. ASSUME NEW g \in Task, StartOK(g) PROVE StartOK(g)'
  <2>. SUFFICES ASSUME NEW i \in DOMAIN TurnsOf[g] PROVE TurnsOf[g][i] < m_start_count'
    BY DEF StartOK
  <2>1. TurnsOf[g][i] < m_start_count
    BY <1>1 DEF StartOK
  <2>2. TurnsOf[g][i] \in Int /\ m_start_count \in Int
    BY <1>0, <1>00, TurnsOfAreInt
  <2>3. m_start_count' \in Int /\ m_start_count' >= m_start_count
    BY <1>00, CountGrows
  <2>. QED BY <2>1, <2>2, <2>3
<1>. DEFINE Ready(g) == /\ phase[g] = "run" /\ StartOK(g)
                        /\ left[g] \in Seq(Steps[g]) /\ left[g] # <<>>
\* A step that leaves a running task where it is leaves it ready.
<1>2. ASSUME UNCHANGED loopVars, \A g \in Task : phase[g] = "run" /\ at[g] = "step" => phase'[g] = "run"
      PROVE  LoopOK'
  <2>. SUFFICES ASSUME NEW g \in Task, at'[g] = "step"
                PROVE  /\ phase'[g] = "run" /\ StartOK(g)'
                       /\ left'[g] \in Seq(Steps[g]) /\ left'[g] # <<>>
    BY DEF LoopOK
  <2>1. at[g] = "step" /\ left' = left
    BY <1>2 DEF loopVars
  <2>2. Ready(g)
    BY <1>0, <2>1 DEF LoopOK
  <2>. QED BY <1>1, <1>2, <2>1, <2>2
<1>3. ASSUME NEW t \in Thread, ThreadStep(t) PROVE LoopOK'
  <2>1. UNCHANGED loopVars
    BY <1>3, AtBarrier DEF ThreadStep, RequestStep, request_check, request_signal, request_broadcast,
                           OtherThanBarrier
  <2>2. \A g \in Task : phase[g] = "run" => phase'[g] = "run"
    <3>1. CASE RequestStep(t)
      BY <3>1, OutsideBarrier DEF seqVars
    <3>2. CASE StartAtBarrier(t)
      BY <1>0, <1>00, <3>2, AtBarrier, StartMoves DEF Moves
    <3>3. CASE StopAtBarrier(t)
      BY <1>0, <1>00, <3>3, AtBarrier, StopMoves DEF Moves
    <3>. QED BY <1>3, <3>1, <3>2, <3>3 DEF ThreadStep
  <2>. QED BY <1>2, <2>1, <2>2
<1>4. ASSUME NEW g \in Task, LoopStep(g) PROVE LoopOK'
  <2>1. CASE loop_leave(g)
    <3>1. Moves(g, {"run"}, {"stop_wait"}) /\ UNCHANGED loopVars /\ at[g] = "leave"
      BY <1>0, <1>00, <2>1, AtBarrier, OtherMoves DEF OtherThanBarrier, loop_leave
    <3>2. \A h \in Task : phase[h] = "run" /\ at[h] = "step" => phase'[h] = "run"
      BY <1>0, <3>1 DEF Moves
    <3>. QED BY <1>2, <3>1, <3>2
  <2>2. ASSUME UNCHANGED seqVars, \A h \in Task \ {g} : at'[h] = at[h] /\ left'[h] = left[h],
               at'[g] = "step" => /\ phase[g] = "run" /\ StartOK(g)
                                  /\ left'[g] \in Seq(Steps[g]) /\ left'[g] # <<>>
        PROVE  LoopOK'
    <3>. SUFFICES ASSUME NEW h \in Task, at'[h] = "step"
                  PROVE  /\ phase'[h] = "run" /\ StartOK(h)'
                         /\ left'[h] \in Seq(Steps[h]) /\ left'[h] # <<>>
      BY DEF LoopOK
    <3>1. CASE h = g
      BY <1>1, <2>2, <3>1 DEF seqVars
    <3>2. CASE h # g
      <4>1. Ready(h) /\ left'[h] = left[h]
        BY <1>0, <2>2, <3>2 DEF LoopOK
      <4>. QED BY <1>1, <2>2, <4>1 DEF seqVars
    <3>. QED BY <3>1, <3>2
  <2>3. CASE loop_check(g)
    <3>1. /\ UNCHANGED seqVars /\ phase[g] = "run"
          /\ \/ at' = [at EXCEPT ![g] = "step"] /\ left' = [left EXCEPT ![g] = m_steps(g)] /\ StartOK(g)
             \/ at' = [at EXCEPT ![g] = "leave"] /\ left' = left
      BY <2>3 DEF loop_check, SetAt
    <3>2. m_steps(g) \in Seq(Steps[g]) /\ m_steps(g) # <<>>
      BY StepsAre
    <3>. QED BY <1>0, <2>2, <3>1, <3>2 DEF StateOK
  <2>4. CASE step_returns(g) \/ step_requests_stop(g)
    <3>1. /\ UNCHANGED seqVars /\ phase[g] = "run" /\ at[g] = "step"
          /\ left' = [left EXCEPT ![g] = Tail(left[g])]
          /\ at' = [at EXCEPT ![g] = IF Len(left[g]) = 1 THEN "check" ELSE "step"]
      BY <2>4 DEF step_returns, step_requests_stop, FinishStep, SetAt
    <3>2. Ready(g)
      BY <1>0, <3>1 DEF LoopOK
    <3>3. Tail(left[g]) \in Seq(Steps[g]) /\ (Len(left[g]) # 1 => Tail(left[g]) # <<>>)
      <4>1. PICK s \in Seq(Steps[g]) : s = left[g] /\ s # <<>>
        BY <3>2
      <4>2. Len(s) \in Nat \ {0} /\ Tail(s) \in Seq(Steps[g]) /\ Len(Tail(s)) = Len(s) - 1
        BY <4>1, EmptySeq, LenProperties, HeadTailProperties
      <4>3. Len(s) # 1 => Len(Tail(s)) # 0
        BY <4>2
      <4>. QED BY <4>1, <4>2, <4>3, EmptySeq
    <3>4. /\ left'[g] = Tail(left[g]) /\ (at'[g] = "step" => Len(left[g]) # 1)
          /\ \A h \in Task \ {g} : at'[h] = at[h] /\ left'[h] = left[h]
      BY <1>0, <3>1 DEF StateOK
    <3>. QED BY <2>2, <3>1, <3>2, <3>3, <3>4
  <2>5. CASE step_throws(g)
    <3>1. UNCHANGED seqVars /\ at' = [at EXCEPT ![g] = "leave"] /\ left' = [left EXCEPT ![g] = <<>>]
      BY <2>5 DEF step_throws, SetAt
    <3>2. /\ at'[g] # "step" /\ \A h \in Task \ {g} : at'[h] = at[h] /\ left'[h] = left[h]
      BY <1>0, <3>1 DEF StateOK
    <3>. QED BY <2>2, <3>1, <3>2
  <2>. QED BY <1>4, <2>1, <2>3, <2>4, <2>5 DEF LoopStep
<1>5. CASE Starting \/ stop \/ Stopping \/ Done \/ UNCHANGED containerVars
  <2>1. UNCHANGED loopVars
    BY <1>5 DEF Starting, Stopping, start, create_task, spawn_task, start_begins, start_returns, stop,
                stop_run_end, stop_begins, OtherThanBarrier, stop_returns, Done, containerVars
  <2>2. \A g \in Task : phase'[g] = phase[g]
    <3>1. CASE start_begins
      BY <1>0, <1>00, <3>1, AtBarrier, OtherMoves DEF Moves
    <3>2. CASE stop_begins
      BY <1>0, <1>00, <3>2, AtBarrier, OtherMoves DEF Moves
    <3>3. CASE stop_run_end
      BY <1>0, <1>00, <3>3 DEF stop_run_end, Enter
    <3>. QED BY <1>5, <3>1, <3>2, <3>3, OutsideBarrier DEF Starting, Stopping, seqVars
  <2>. QED BY <1>2, <2>1, <2>2
<1>. QED BY <1>3, <1>4, <1>5 DEF ContainerNext

\* What the container's thread and the tasks do to the failures.
LEMMA FailKept ==
    ASSUME ContainerInv, ~Stuck, [ContainerNext]_containerVars PROVE FailOK'
<1>0. /\ Barrier!FullInv /\ AppOK /\ FailOK /\ StateOK
      /\ Main \in Thread /\ Main \notin Task /\ Thread = Task \cup {Main} /\ Task # {}
  BY ContainerAssumption DEF ContainerInv, BarrierOK, ContainerAssumption, Thread
<1>00. /\ phase \in [Thread -> Phase]
       /\ life \in [Turn -> {"new", "starting", "started", "failed", "skipped",
                             "stopping", "stopped"}]
  BY <1>0, FullSays
\* In a container that has started nobody is in a start() any more.
<1>1. ASSUME app = "started", NEW t \in Thread PROVE phase[t] # "start_turn"
  <2>1. phase[Main] = "run" /\ phase[Main] \in Late
    BY <1>0, <1>1 DEF AppOK, Late
  <2>. QED BY <1>0, <2>1, FullSays
\* A step that changes neither failures nor app, and lets no start() fail.
<1>2. ASSUME UNCHANGED <<failVars, app, m_threads>>,
             \A k \in Turn : life'[k] = "failed" => life[k] = "failed"
      PROVE  FailOK'
  BY <1>0, <1>2 DEF FailOK, failVars
<1>3. ASSUME NEW t \in Thread, ThreadStep(t) PROVE FailOK'
  <2>0. UNCHANGED <<app, m_threads>>
    BY <1>3, AppStays DEF appVars
  <2>1. CASE RequestStep(t)
    <3>1. UNCHANGED failVars /\ UNCHANGED seqVars
      BY <2>1 DEF RequestStep, request_check, request_signal, request_broadcast
    <3>. QED BY <1>2, <2>0, <3>1 DEF seqVars
  <2>2. CASE StopAtBarrier(t)
    <3>1. UNCHANGED failVars /\ StopStep(t)
      BY <2>2, AtBarrier DEF OtherThanBarrier
    <3>2. \/ life' = life
          \/ \E k \in Turn : life' = [life EXCEPT ![k] = "stopping"] \/ life' = [life EXCEPT ![k] = "stopped"]
      BY <3>1 DEF StopStep, run_open, stop_turn, stop_result, stop_pass, stop_end
    <3>3. \A k \in Turn : life'[k] = "failed" => life[k] = "failed"
      BY <1>00, <3>2
    <3>. QED BY <1>2, <2>0, <3>1, <3>3
  <2>3. CASE StartAtBarrier(t)
    <3>1. ASSUME NEW k \in Turn, start_result(t, k, FALSE), m_start_failure' = TRUE,
                 UNCHANGED <<m_step_failures, threw>>
          PROVE  FailOK'
      <4>1. phase[t] = "start_turn"
        BY <3>1 DEF start_result
      <4>2. app # "started"
        BY <1>1, <4>1
      <4>. QED BY <1>0, <2>0, <3>1, <4>2 DEF FailOK
    <3>2. ASSUME NEW k \in Turn, start_turn(t, k) \/ start_pass(t, k) \/ start_result(t, k, TRUE),
                 OtherThanBarrier
          PROVE  FailOK'
      <4>1. \/ life' = life
            \/ life' = [life EXCEPT ![k] = "starting"] \/ life' = [life EXCEPT ![k] = "skipped"]
            \/ life' = [life EXCEPT ![k] = "started"]
        BY <3>2 DEF start_turn, start_pass, start_result
      <4>2. \A j \in Turn : life'[j] = "failed" => life[j] = "failed"
        BY <1>00, <4>1
      <4>. QED BY <1>2, <2>0, <3>2, <4>2 DEF OtherThanBarrier
    <3>3. ASSUME start_end(t) \/ start_open(t), OtherThanBarrier PROVE FailOK'
      <4>1. life' = life
        BY <3>3 DEF start_end, start_open
      <4>. QED BY <1>2, <2>0, <3>3, <4>1 DEF OtherThanBarrier
    <3>. QED BY <2>3, <3>1, <3>2, <3>3 DEF StartAtBarrier
  <2>. QED BY <1>3, <2>1, <2>2, <2>3 DEF ThreadStep
<1>4. ASSUME NEW g \in Task, LoopStep(g) PROVE FailOK'
  <2>0. UNCHANGED <<app, m_threads>>
    BY <1>4, AppStays DEF appVars
  <2>1. life' = life
    BY <1>4 DEF LoopStep, loop_check, step_returns, step_requests_stop, step_throws, loop_leave,
                run_end, seqVars
  <2>2. CASE ~step_throws(g)
    <3>1. UNCHANGED failVars
      BY <1>4, <2>2 DEF LoopStep, loop_check, step_returns, step_requests_stop, loop_leave,
                        OtherThanBarrier
    <3>. QED BY <1>2, <2>0, <2>1, <3>1
  <2>3. CASE step_throws(g)
    <3>1. /\ m_step_failures' = Append(m_step_failures, g) /\ m_start_failure' = m_start_failure
          /\ phase[g] = "run"
      BY <2>3 DEF step_throws
    <3>2. Append(m_step_failures, g) # <<>>
      <4>1. /\ Append(m_step_failures, g) \in Seq(Task) /\ Len(m_step_failures) \in Nat
            /\ Len(Append(m_step_failures, g)) = Len(m_step_failures) + 1
        BY <1>0, AppendProperties, LenProperties DEF StateOK
      <4>. QED BY <4>1, EmptySeq
    <3>3. g \in m_threads /\ ~(app \in {"stopped", "stop_threw"})
      BY <1>0, <3>1 DEF AppOK
    <3>. QED BY <1>0, <2>0, <2>1, <3>1, <3>2, <3>3 DEF FailOK
  <2>. QED BY <2>2, <2>3
<1>5. CASE start \/ create_task \/ start_begins \/ stop_begins \/ stop_run_end \/ Done \/ UNCHANGED containerVars
  <2>1. UNCHANGED failVars /\ life' = life /\ m_threads' = m_threads
    BY <1>5 DEF start, create_task, start_begins, start_begin, stop_begins, stop_begin, stop_run_end,
                OtherThanBarrier, Done, containerVars, seqVars, appVars
  <2>2. app' = app \/ app' \in {"create", "create_threw", "start"}
    BY <1>5 DEF start, create_task, start_begins, stop_begins, stop_run_end, OtherThanBarrier, Done,
                containerVars, appVars
  <2>3. app \in {"stopped", "stop_threw"} => app' = app
    BY <1>5 DEF start, create_task, start_begins, stop_begins, stop_run_end, OtherThanBarrier, Done,
                containerVars, appVars
  <2>. QED BY <1>0, <2>1, <2>2, <2>3 DEF FailOK, failVars
<1>6. CASE spawn_task
  <2>1. /\ UNCHANGED failVars /\ life' = life /\ app' = app /\ app = "create"
        /\ m_threads \subseteq m_threads'
    BY <1>6 DEF spawn_task, seqVars
  <2>. QED BY <1>0, <2>1 DEF FailOK, failVars
<1>7. CASE start_returns
  <2>1. /\ UNCHANGED failVars /\ life' = life /\ m_threads' = m_threads /\ app = "start"
        /\ \/ app' = "start_threw"
           \/ app' = "started" /\ ~m_start_failure
    BY <1>7 DEF start_returns, seqVars
  <2>. QED BY <1>0, <2>1 DEF FailOK, failVars
<1>8. CASE stop
  <2>1. /\ UNCHANGED failVars /\ life' = life /\ m_threads' = m_threads
        /\ app \in {"idle", "create_threw", "start_threw", "started"}
        /\ \/ app' = "stop"
           \/ app' = "stopped" /\ m_PU_tasks = {}
    BY <1>8 DEF stop, seqVars
  <2>2. m_PU_tasks = {} => m_threads = {}
    BY <1>0 DEF AppOK
  <2>. QED BY <1>0, <2>1, <2>2 DEF FailOK, failVars
<1>9. CASE stop_returns
  <2>1. /\ UNCHANGED <<m_start_failure, threw, m_threads>> /\ life' = life /\ app = "stop"
        /\ app' = IF m_step_failures = <<>> THEN "stopped" ELSE "stop_threw"
    BY <1>9 DEF stop_returns, seqVars
  <2>2. threw # {} => app' = "stop_threw"
    BY <1>0, <2>1 DEF FailOK
  <2>. QED BY <1>0, <2>1, <2>2 DEF FailOK
<1>. QED BY <1>3, <1>4, <1>5, <1>6, <1>7, <1>8, <1>9 DEF ContainerNext, Starting, Stopping

-------------------------------------------------------------------------------
(* Theorems *)

LEMMA ContainerInvInit == ContainerInit => ContainerInv
<1>. SUFFICES ASSUME ContainerInit PROVE ContainerInv
  OBVIOUS
<1>0. Main \notin Task /\ Thread = Task \cup {Main} /\ BarrierInit
  BY ContainerAssumption DEF ContainerAssumption, Thread, ContainerInit
<1>1. StateOK
  BY EmptySeq DEF ContainerInit, StateOK
<1>2. phase[Main] = "begin" /\ \A g \in Task : phase[g] = "start"
  BY <1>0 DEF BarrierInit
<1>3. AppOK
  BY <1>2 DEF ContainerInit, AppOK
<1>4. BarrierOK
  BY <1>0, <1>2, FullBegins DEF BarrierOK
<1>5. LoopOK
  BY DEF ContainerInit, LoopOK
<1>6. FailOK
  BY <1>0 DEF ContainerInit, BarrierInit, FailOK
<1>. QED BY <1>1, <1>3, <1>4, <1>5, <1>6 DEF ContainerInv

LEMMA ContainerInvStep == ContainerInv /\ [ContainerNext]_containerVars => ContainerInv'
<1>. SUFFICES ASSUME ContainerInv, [ContainerNext]_containerVars PROVE ContainerInv'
  OBVIOUS
<1>1. CASE Stuck
  BY <1>1, StuckAgain
<1>2. CASE ~Stuck
  <2>1. StateOK'
    BY StateKept DEF ContainerInv
  <2>. QED BY <1>2, <2>1, AppKept, BarrierStays, LoopKept, FailKept DEF ContainerInv
<1>. QED BY <1>1, <1>2

\* The induction: the barrier's invariant goes on to hold between what the
\* container's thread, the tasks and the requests to stop do around it.
THEOREM ContainerInvariant == ContainerSpec => []ContainerInv
BY ContainerInvInit, ContainerInvStep, PTL DEF ContainerSpec

\* A task steps a startable component only while that component and everything it
\* depends on is up, whichever threads started and will stop them: the start latch
\* has opened, the start count says that all went well, and no turn of the stop
\* phase comes before the stop latch, which the stepping task still holds.
THEOREM StepsFindAllUp == ContainerSpec => []SteppedWhileUp
<1>1. ContainerInv => SteppedWhileUp
  <2>. SUFFICES ASSUME ContainerInv, NEW g \in Task, at[g] = "step", Head(left[g]) \in Startable,
                       NEW k \in 0 .. turn(Head(left[g]))
                PROVE  life[k] = "started"
    BY DEF SteppedWhileUp
  <2>. DEFINE c == Head(left[g])
  <2>1. /\ phase[g] = "run" /\ StartOK(g) /\ left[g] \in Seq(Steps[g]) /\ left[g] # <<>>
        /\ Main \in Thread /\ Main \notin Task /\ g \in Thread
    BY ContainerAssumption DEF ContainerInv, LoopOK, ContainerAssumption, Thread
  <2>2. Barrier!FullInv
    BY <2>1 DEF ContainerInv, BarrierOK, Stuck
  <2>3. c \in Driven(g)
    <3>1. c \in Steps[g]
      BY <2>1, HeadTailProperties
    <3>. QED BY <2>1, <3>1 DEF Driven
  <2>4. turn(c) \in Places(g)
    BY <2>3 DEF Places
  <2>. HIDE DEF c
  <2>5. PICK i \in DOMAIN TurnsOf[g] : TurnsOf[g][i] = turn(c)
    BY <2>1, <2>4, TurnsOfIs DEF Owned
  <2>6. turn(c) < m_start_count /\ turn(c) \in Turn
    BY <2>1, <2>5, TurnsOfAreInt DEF StartOK
  <2>7. k \in Turn /\ k < m_start_count
    <3>1. k \in 0 .. turn(c)
      BY DEF c
    <3>2. m_start_count \in Int /\ Turns \in Int
      BY <2>2, FullSays, TurnIsPlace
    <3>. QED BY <2>6, <3>1, <3>2 DEF Turn
  <2>. QED BY <2>1, <2>2, <2>7, TurnsAreOwned, Barrier!UpWhileRunning DEF Turn, Barrier!Turn
<1>. QED BY <1>1, ContainerInvariant, PTL

\* When stop() has returned nothing is up that start() had started, and the types
\* are right at all times; whatever failed on the way, in whichever thread.
THEOREM StopLeavesNothing == ContainerSpec => []NothingLeftUp
<1>1. ContainerInv => ContainerTypeOK
  <2>. SUFFICES ASSUME ContainerInv PROVE ContainerTypeOK
    OBVIOUS
  <2>1. CASE Barrier!FullInv
    BY <2>1, FullSays DEF ContainerInv, StateOK, ContainerTypeOK
  <2>2. CASE Stuck
    <3>1. m_start_count \in 0 .. Turns /\ m_turn = INT_MIN
      BY <2>2, TurnIsPlace DEF Stuck
    <3>2. /\ m_start_latch \subseteq Thread /\ m_stop_latch \subseteq Thread
          /\ phase \in [Thread -> Phase]
      BY <2>2 DEF Stuck, Phase, Thread
    <3>3. life \in [Turn -> {"new", "starting", "started", "failed", "skipped",
                             "stopping", "stopped"}]
      BY <2>2 DEF Stuck
    <3>. QED BY <3>1, <3>2, <3>3 DEF ContainerInv, StateOK, ContainerTypeOK
  <2>. QED BY <2>1, <2>2 DEF ContainerInv, BarrierOK
<1>2. ContainerInv => (app \in {"stopped", "stop_threw"}
                        => \A k \in Turn : life[k] \notin {"started", "starting", "stopping"})
  <2>. SUFFICES ASSUME ContainerInv, app \in {"stopped", "stop_threw"}, NEW k \in Turn
                PROVE  life[k] \notin {"started", "starting", "stopping"}
    OBVIOUS
  <2>1. Barrier!FullInv /\ AppOK /\ (m_threads = {} => phase[Main] = "begin")
    BY DEF ContainerInv, BarrierOK, Stuck
  <2>2. k \in Barrier!Turn
    BY DEF Turn, Barrier!Turn
  <2>3. CASE m_threads = {}
    <3>1. life[k] = "new"
      BY <2>1, <2>2, <2>3, TurnsAreOwned, Barrier!BeforeBegin
    <3>. QED BY <3>1
  <2>4. CASE m_threads # {}
    <3>1. \A t \in Thread : phase[t] = "end"
      BY <2>1, <2>4 DEF AppOK
    <3>2. \A j \in Barrier!Turn : \E t \in Thread : j \in Barrier!Owned(t)
      BY TurnsAreOwned DEF Turn, Barrier!Turn, Owned, Barrier!Owned
    <3>. QED BY <2>1, <2>2, <3>1, <3>2, TurnsAreOwned, Barrier!DownInTheEnd
  <2>. QED BY <2>3, <2>4
<1>. QED BY <1>1, <1>2, ContainerInvariant, PTL DEF NothingLeftUp

\* No failure is lost: start() throws if the start() of a component did, in
\* whichever thread, and stop() throws if any step did.
THEOREM NoFailureLost == ContainerSpec => []FailuresReported
<1>1. ContainerInv => FailuresReported
  BY DEF ContainerInv, FailOK, FailuresReported
<1>. QED BY <1>1, ContainerInvariant, PTL
=============================================================================
