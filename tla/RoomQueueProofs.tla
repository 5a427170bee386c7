--------------------------- MODULE RoomQueueProofs ---------------------------
(***************************************************************************)
(* TLAPS proofs about RoomQueue, for any set of calls and rooms.           *)
(*                                                                         *)
(* MutualExclusion is not inductive: it says nothing about where a promise *)
(* hangs in the chain.  The strengthening is that a promise awaits the     *)
(* youngest older promise of its room (Linked), that releases of a room    *)
(* happen in the order of the chain (ReleasedInOrder), and that the map    *)
(* entry is the youngest pending promise (QueueEntriesExact).              *)
(***************************************************************************)
EXTENDS RoomQueue, FiniteSetTheorems, FunctionTheorems, SequenceTheorems, TLAPS

\* A promise awaits the youngest older promise of its room, or nothing when
\* all the older ones had been released.
Linked ==
  \A n \in DOMAIN chain :
    LET p == chain[n].prev IN
    /\ p < n
    /\ p = 0 => \A m \in DOMAIN chain :
                  (m < n /\ chain[m].room = chain[n].room) => m \in released
    /\ p # 0 => /\ p \in DOMAIN chain /\ chain[p].room = chain[n].room
                /\ \A m \in DOMAIN chain :
                     (p < m /\ m < n) => chain[m].room # chain[n].room

\* Nothing is released before what is older in the same room.
ReleasedInOrder ==
  \A n, m \in DOMAIN chain :
    (n < m /\ chain[n].room = chain[m].room /\ m \in released) => n \in released

\* A call that is past an await came past it because the predecessor settled.
EnteredSettled == \A n \in DOMAIN chain : Entered(n) => Settled(n)

\* The promise a call waits for is its own and is pending; only an acquiring
\* call waits, and an idle call has made no promise.
WaitingOwn ==
  \A t \in Tasks :
    /\ waiting[t] # 0 => /\ waiting[t] \in Pending
                         /\ chain[waiting[t]].task = t
                         /\ phase[t] = "acquiring"
    /\ phase[t] = "idle" => \A n \in DOMAIN chain : chain[n].task # t

IInv ==
  /\ TypeOK
  /\ Linked
  /\ ReleasedInOrder
  /\ EnteredSettled
  /\ WaitingOwn
  /\ QueueEntriesExact

-----------------------------------------------------------------------------
LEMMA InitIInv == Init => IInv
  BY RoomsAssumption
  DEF Init, IInv, TypeOK, Promise, Phases, Linked, ReleasedInOrder, Entered, Settled,
      EnteredSettled, WaitingOwn, QueueEntriesExact, Pending

\* The strengthened invariant gives mutual exclusion and the order of service.
LEMMA IInvServedInOrder == IInv => ServedInOrder
<1> SUFFICES ASSUME IInv, NEW n \in DOMAIN chain, NEW m \in DOMAIN chain,
                    n < m, chain[n].room = chain[m].room, Entered(m)
             PROVE  n \in released
  BY DEF ServedInOrder
<1> DEFINE p == chain[m].prev
<1>1. Settled(m)
  BY DEF IInv, EnteredSettled
<1>2. CASE p = 0
  BY <1>2 DEF IInv, Linked
<1>3. CASE p # 0
  <2>1. p \in released /\ p \in DOMAIN chain /\ chain[p].room = chain[n].room /\ ~ (p < n)
    BY <1>1, <1>3 DEF IInv, Linked, Settled
  <2>2. p \in Int /\ n \in Int
    BY <2>1 DEF IInv, TypeOK
  <2>3. CASE p = n
    BY <2>1, <2>3
  <2>4. CASE n < p
    BY <2>1, <2>4 DEF IInv, ReleasedInOrder
  <2>5. QED
    BY <2>1, <2>2, <2>3, <2>4
<1>4. QED
  BY <1>2, <1>3

LEMMA ServedInOrderExclusive == TypeOK /\ ServedInOrder => MutualExclusion
<1> SUFFICES ASSUME TypeOK, ServedInOrder, NEW n \in DOMAIN chain, NEW m \in DOMAIN chain,
                    Entered(n), Entered(m), chain[n].room = chain[m].room
             PROVE  n = m
  BY DEF MutualExclusion
<1>1. ~ (n < m) /\ ~ (m < n)
  BY DEF ServedInOrder, Entered, Pending
<1>2. n \in Int /\ m \in Int
  BY DEF TypeOK
<1>3. QED
  BY <1>1, <1>2

-----------------------------------------------------------------------------
\* The synchronous head of enqueueRoom preserves the invariant, for a call that
\* waits for nothing or whose await has just come back.
LEMMA EnqueueIInv ==
  ASSUME IInv, NEW t \in Tasks, NEW r \in Rooms, Enqueue(t, r),
         waiting[t] = 0 \/ Settled(waiting[t]),
         phase' = [phase EXCEPT ![t] = "acquiring"],
         released' = released, plan' \in [Tasks -> SUBSET Rooms]
  PROVE  IInv'
<1> DEFINE N == Len(chain) + 1
           new == [task |-> t, room |-> r, prev |-> tail[r]]
<1>1. /\ N \in Nat \ {0} /\ DOMAIN chain = 1 .. (N - 1) /\ DOMAIN chain' = 1 .. N
      /\ chain'[N] = new
      /\ \A i \in DOMAIN chain : chain'[i] = chain[i]
      /\ chain' \in Seq(Promise)
  <2>1. chain \in Seq(Promise) /\ tail[r] \in Nat /\ chain' = Append(chain, new)
    BY DEF IInv, TypeOK, Enqueue
  <2>2. new \in Promise
    BY <2>1 DEF Promise
  <2> HIDE DEF new
  <2> QED
    BY <2>1, <2>2
<1>2. Pending' = Pending \cup {N} /\ N \notin DOMAIN chain
  BY <1>1 DEF Pending, IInv, TypeOK
<1>3. TypeOK'
  <2>1. released' \subseteq DOMAIN chain'
    BY <1>1 DEF IInv, TypeOK
  <2>2. tail' \in [Rooms -> Nat] /\ waiting' \in [Tasks -> Nat]
    BY <1>1 DEF IInv, TypeOK, Enqueue
  <2>3. phase' \in [Tasks -> Phases]
    BY DEF IInv, TypeOK, Phases
  <2>4. QED
    BY <1>1, <2>1, <2>2, <2>3 DEF TypeOK
<1>5. \A i \in DOMAIN chain : Settled(i)' = Settled(i)
  BY <1>1 DEF Settled
<1>6. /\ tail[r] = 0 => \A m \in DOMAIN chain : chain[m].room = r => m \in released
      /\ tail[r] # 0 => /\ tail[r] \in Pending /\ chain[tail[r]].room = r
                        /\ \A m \in Pending : chain[m].room = r => m <= tail[r]
                        /\ \A m \in DOMAIN chain : tail[r] < m => chain[m].room # r
  <2>1. CASE {n \in Pending : chain[n].room = r} = {}
    BY <2>1 DEF IInv, QueueEntriesExact, Pending
  <2>2. CASE {n \in Pending : chain[n].room = r} # {}
    <3>1. /\ tail[r] \in Pending /\ chain[tail[r]].room = r
          /\ \A m \in Pending : chain[m].room = r => m <= tail[r]
      BY <2>2 DEF IInv, QueueEntriesExact
    <3>2. ASSUME NEW m \in DOMAIN chain, tail[r] < m, chain[m].room = r
          PROVE  FALSE
      <4>1. m \in Int /\ tail[r] \in Int
        BY <1>1, <3>1 DEF Pending
      <4>2. m \notin Pending
        BY <3>1, <3>2, <4>1
      <4>3. tail[r] \in released
        BY <3>1, <3>2, <4>2 DEF IInv, ReleasedInOrder, Pending
      <4>4. QED
        BY <3>1, <4>3 DEF Pending
    <3>3. tail[r] # 0
      BY <1>1, <3>1 DEF Pending
    <3>4. QED
      BY <3>1, <3>2, <3>3
  <2>3. QED
    BY <2>1, <2>2
<1>7. Linked'
  <2> SUFFICES ASSUME NEW n \in DOMAIN chain'
               PROVE  LET p == chain'[n].prev IN
                      /\ p < n
                      /\ p = 0 => \A m \in DOMAIN chain' :
                            (m < n /\ chain'[m].room = chain'[n].room) => m \in released'
                      /\ p # 0 => /\ p \in DOMAIN chain' /\ chain'[p].room = chain'[n].room
                                  /\ \A m \in DOMAIN chain' :
                                       (p < m /\ m < n) => chain'[m].room # chain'[n].room
    BY DEF Linked
  <2>1. CASE n \in DOMAIN chain
    <3>1. \A m \in DOMAIN chain' : m < n => m \in DOMAIN chain
      BY <1>1, <2>1
    <3>2. QED
      BY <1>1, <2>1, <3>1 DEF IInv, Linked
  <2>2. CASE n = N
    <3>1. chain'[n].prev = tail[r] /\ chain'[n].room = r
      BY <1>1, <2>2
    <3>2. \A m \in DOMAIN chain' : m < n => m \in DOMAIN chain
      BY <1>1, <2>2
    <3>3. tail[r] < n
      BY <1>1, <1>6, <2>2 DEF Pending
    <3>4. tail[r] # 0 => tail[r] \in DOMAIN chain
      BY <1>6 DEF Pending
    <3>5. QED
      BY <1>1, <1>6, <3>1, <3>2, <3>3, <3>4
  <2>3. QED
    BY <1>1, <2>1, <2>2
<1>8. ReleasedInOrder'
  <2> SUFFICES ASSUME NEW n \in DOMAIN chain', NEW m \in DOMAIN chain', n < m,
                      chain'[n].room = chain'[m].room, m \in released'
               PROVE  n \in released'
    BY DEF ReleasedInOrder
  <2>1. m \in DOMAIN chain
    BY DEF IInv, TypeOK
  <2>2. n \in DOMAIN chain
    BY <1>1, <2>1
  <2>3. QED
    BY <1>1, <2>1, <2>2 DEF IInv, ReleasedInOrder
<1>9. EnteredSettled'
  <2> SUFFICES ASSUME NEW n \in DOMAIN chain', Entered(n)'
               PROVE  Settled(n)'
    BY DEF EnteredSettled
  <2>1. n # N
    BY <1>1 DEF Entered, Enqueue, IInv, TypeOK
  <2>2. n \in DOMAIN chain /\ n \in Pending /\ chain'[n] = chain[n]
    BY <1>1, <2>1 DEF Entered, Pending
  <2>3. CASE chain[n].task = t
    <3>1. CASE waiting[t] = n
      BY <1>1, <1>5, <2>2, <3>1
    <3>2. CASE waiting[t] # n
      BY <1>5, <2>2, <2>3, <3>2 DEF IInv, EnteredSettled, Entered
    <3>3. QED
      BY <3>1, <3>2
  <2>4. CASE chain[n].task # t
    <3>1. waiting'[chain[n].task] = waiting[chain[n].task]
      BY <2>2, <2>4 DEF Enqueue, IInv, TypeOK, Promise
    <3>2. QED
      BY <1>5, <2>2, <3>1 DEF IInv, EnteredSettled, Entered
  <2>5. QED
    BY <2>3, <2>4
<1>10. WaitingOwn'
  <2> SUFFICES ASSUME NEW u \in Tasks
               PROVE  /\ waiting'[u] # 0 => /\ waiting'[u] \in Pending'
                                            /\ chain'[waiting'[u]].task = u
                                            /\ phase'[u] = "acquiring"
                      /\ phase'[u] = "idle" => \A n \in DOMAIN chain' : chain'[n].task # u
    BY DEF WaitingOwn
  <2>1. CASE u = t
    BY <1>1, <1>2, <2>1 DEF Enqueue, IInv, TypeOK
  <2>2. CASE u # t
    <3>1. waiting'[u] = waiting[u] /\ phase'[u] = phase[u]
      BY <2>2 DEF Enqueue, IInv, TypeOK
    <3>2. waiting[u] # 0 => waiting[u] \in DOMAIN chain
      BY DEF IInv, WaitingOwn, Pending
    <3>3. QED
      BY <1>1, <1>2, <2>2, <3>1, <3>2 DEF IInv, WaitingOwn
  <2>3. QED
    BY <2>1, <2>2
<1>11. QueueEntriesExact'
  <2> SUFFICES ASSUME NEW q \in Rooms
               PROVE  LET mine == {n \in Pending' : chain'[n].room = q} IN
                      IF mine = {} THEN tail'[q] = 0
                      ELSE tail'[q] \in mine /\ \A n \in mine : n <= tail'[q]
    BY DEF QueueEntriesExact
  <2>1. CASE q = r
    <3>1. tail'[q] = N
      BY <2>1 DEF Enqueue, IInv, TypeOK
    <3>2. \A n \in Pending' : n <= N
      BY <1>1, <1>2 DEF Pending
    <3>3. N \in Pending' /\ chain'[N].room = q
      BY <1>1, <1>2, <2>1
    <3>4. QED
      BY <3>1, <3>2, <3>3
  <2>2. CASE q # r
    <3>1. tail'[q] = tail[q]
      BY <2>2 DEF Enqueue, IInv, TypeOK
    <3>2. {n \in Pending' : chain'[n].room = q} = {n \in Pending : chain[n].room = q}
      BY <1>1, <1>2, <2>2 DEF Pending
    <3>3. QED
      BY <3>1, <3>2 DEF IInv, QueueEntriesExact
  <2>3. QED
    BY <2>1, <2>2
<1>12. QED
  BY <1>3, <1>7, <1>8, <1>9, <1>10, <1>11 DEF IInv

-----------------------------------------------------------------------------
\* A task starts when its last await comes back: the promise becomes entered.
LEMMA RunIInv == ASSUME IInv, NEW t \in Tasks, Run(t) PROVE IInv'
<1> USE DEF Run
<1>1. /\ waiting' = [waiting EXCEPT ![t] = 0] /\ waiting \in [Tasks -> Nat]
      /\ phase' = [phase EXCEPT ![t] = "running"] /\ phase \in [Tasks -> Phases]
  BY DEF IInv, TypeOK
<1>2. TypeOK'
  BY <1>1 DEF IInv, TypeOK, Phases
<1>3. Linked' /\ ReleasedInOrder' /\ QueueEntriesExact'
  BY DEF IInv, Linked, ReleasedInOrder, QueueEntriesExact, Pending
<1>4. EnteredSettled'
  <2> SUFFICES ASSUME NEW n \in DOMAIN chain, Entered(n)'
               PROVE  Settled(n)'
    BY DEF EnteredSettled
  <2>1. CASE n = waiting[t]
    BY <2>1 DEF Settled
  <2>2. CASE n # waiting[t]
    <3>1. Entered(n)
      BY <1>1, <2>2 DEF Entered, Pending, IInv, TypeOK, Promise
    <3>2. QED
      BY <3>1 DEF IInv, EnteredSettled, Settled
  <2>3. QED
    BY <2>1, <2>2
<1>5. WaitingOwn'
  BY <1>1 DEF IInv, WaitingOwn, Pending
<1>6. QED
  BY <1>2, <1>3, <1>4, <1>5 DEF IInv

\* The `finally` of enqueueRoom preserves the invariant: what is released is
\* the oldest pending promise of its room, and the map entry is deleted only
\* when it was also the youngest.
LEMMA UnwindIInv == ASSUME IInv, NEW t \in Tasks, Unwind(t) PROVE IInv'
<1>1. PICK n \in Pending :
        /\ phase[t] \in {"running", "unwinding"}
        /\ chain[n].task = t
        /\ released' = released \cup {n}
        /\ tail' = [tail EXCEPT ![chain[n].room] = IF @ = n THEN 0 ELSE @]
        /\ phase' = [phase EXCEPT ![t] =
             IF {m \in Pending : chain[m].task = t} = {n} THEN "done" ELSE "unwinding"]
        /\ UNCHANGED <<plan, chain, waiting>>
  BY DEF Unwind, Release, TailAfter
<1>2. n \in DOMAIN chain /\ n \notin released /\ n \in Nat \ {0}
  BY DEF Pending, IInv, TypeOK
<1>3. waiting[t] = 0
  BY <1>1 DEF IInv, WaitingOwn
<1>4. Entered(n)
  BY <1>1, <1>2, <1>3 DEF Entered
<1>5. \A m \in DOMAIN chain : (m < n /\ chain[m].room = chain[n].room) => m \in released
  BY <1>2, <1>4, IInvServedInOrder DEF ServedInOrder
<1>6. Pending' = Pending \ {n}
  BY <1>1, <1>2 DEF Pending
<1>7. TypeOK'
  BY <1>1, <1>2 DEF IInv, TypeOK, Phases
<1>8. Linked'
  BY <1>1 DEF IInv, Linked
<1>9. ReleasedInOrder'
  BY <1>1, <1>5 DEF IInv, ReleasedInOrder
<1>10. EnteredSettled'
  <2> SUFFICES ASSUME NEW m \in DOMAIN chain, Entered(m)'
               PROVE  Settled(m)'
    BY <1>1 DEF EnteredSettled
  <2>1. Entered(m)
    BY <1>1, <1>6 DEF Entered
  <2>2. QED
    BY <1>1, <2>1 DEF IInv, EnteredSettled, Settled
<1>11. WaitingOwn'
  <2> SUFFICES ASSUME NEW u \in Tasks
               PROVE  /\ waiting'[u] # 0 => /\ waiting'[u] \in Pending'
                                            /\ chain'[waiting'[u]].task = u
                                            /\ phase'[u] = "acquiring"
                      /\ phase'[u] = "idle" => \A m \in DOMAIN chain' : chain'[m].task # u
    BY DEF WaitingOwn
  <2>1. CASE u = t
    BY <1>1, <1>3, <2>1 DEF IInv, TypeOK
  <2>2. CASE u # t
    <3>1. phase'[u] = phase[u]
      BY <1>1, <2>2 DEF IInv, TypeOK
    <3>2. waiting[u] # 0 => waiting[u] # n
      BY <1>1, <2>2 DEF IInv, WaitingOwn
    <3>3. QED
      BY <1>1, <1>6, <3>1, <3>2 DEF IInv, WaitingOwn
  <2>3. QED
    BY <2>1, <2>2
<1>12. QueueEntriesExact'
  <2> SUFFICES ASSUME NEW q \in Rooms
               PROVE  LET mine == {m \in Pending' : chain'[m].room = q} IN
                      IF mine = {} THEN tail'[q] = 0
                      ELSE tail'[q] \in mine /\ \A m \in mine : m <= tail'[q]
    BY DEF QueueEntriesExact
  <2> DEFINE old == {m \in Pending : chain[m].room = q}
             mine == {m \in Pending' : chain'[m].room = q}
  <2>1. old # {} => tail[q] \in old /\ \A m \in old : m <= tail[q]
    BY DEF IInv, QueueEntriesExact
  <2>2. old = {} => tail[q] = 0
    BY DEF IInv, QueueEntriesExact
  <2>3. mine = old \ {n}
    BY <1>1, <1>6
  <2>4. CASE q # chain[n].room
    <3>1. mine = old /\ tail'[q] = tail[q]
      BY <1>1, <2>3, <2>4 DEF IInv, TypeOK
    <3>2. QED
      BY <2>1, <2>2, <3>1
  <2>5. CASE q = chain[n].room
    <3>1. n \in old /\ tail[q] \in old
      BY <2>1, <2>5
    <3>2. tail'[q] = IF tail[q] = n THEN 0 ELSE tail[q]
      BY <1>1, <2>5 DEF IInv, TypeOK
    <3>3. ASSUME tail[q] = n
          PROVE  mine = {}
      <4>1. \A m \in old : m \in DOMAIN chain /\ m \notin released /\ m \in Int /\ m <= n
        BY <2>1, <3>1, <3>3 DEF Pending, IInv, TypeOK
      <4>2. \A m \in old : ~ (m < n)
        BY <1>5, <2>5, <4>1
      <4>3. QED
        BY <1>2, <2>3, <4>1, <4>2
    <3>4. ASSUME tail[q] # n
          PROVE  tail[q] \in mine /\ \A m \in mine : m <= tail[q]
      BY <2>1, <2>3, <3>1, <3>4
    <3>5. QED
      BY <3>2, <3>3, <3>4
  <2>6. QED
    BY <2>4, <2>5
<1>13. QED
  BY <1>7, <1>8, <1>9, <1>10, <1>11, <1>12 DEF IInv

\* Every step of the queue preserves the strengthened invariant.
LEMMA NextIInv == IInv /\ [Next]_vars => IInv'
<1> SUFFICES ASSUME IInv, [Next]_vars
             PROVE  IInv'
  OBVIOUS
<1>1. ASSUME NEW t \in Tasks, Call(t)
      PROVE  IInv'
  <2>1. PICK S \in SUBSET Rooms, r \in Rooms :
          /\ phase[t] = "idle" /\ Enqueue(t, r) /\ UNCHANGED released
          /\ plan' = [plan EXCEPT ![t] = S]
          /\ phase' = [phase EXCEPT ![t] = "acquiring"]
    BY <1>1 DEF Call
  <2>2. waiting[t] = 0
    BY <2>1 DEF IInv, WaitingOwn
  <2>3. plan' \in [Tasks -> SUBSET Rooms]
    BY <2>1 DEF IInv, TypeOK
  <2>4. QED
    BY <2>1, <2>2, <2>3, EnqueueIInv
<1>2. ASSUME NEW t \in Tasks, AcquireNext(t)
      PROVE  IInv'
  <2>1. PICK r \in Rooms :
          /\ waiting[t] # 0 /\ Settled(waiting[t])
          /\ Enqueue(t, r) /\ UNCHANGED <<plan, released, phase>>
    BY <1>2 DEF AcquireNext
  <2>2. phase' = [phase EXCEPT ![t] = "acquiring"]
    BY <2>1 DEF IInv, WaitingOwn, TypeOK
  <2>3. plan' \in [Tasks -> SUBSET Rooms]
    BY <2>1 DEF IInv, TypeOK
  <2>4. QED
    BY <2>1, <2>2, <2>3, EnqueueIInv
<1>3. ASSUME NEW t \in Tasks, Run(t)
      PROVE  IInv'
  BY <1>3, RunIInv
<1>4. ASSUME NEW t \in Tasks, Unwind(t)
      PROVE  IInv'
  BY <1>4, UnwindIInv
<1>5. CASE UNCHANGED vars
  BY <1>5 DEF vars, IInv, TypeOK, Linked, ReleasedInOrder, EnteredSettled, Entered, Settled,
              WaitingOwn, QueueEntriesExact, Pending
<1>6. QED
  BY <1>1, <1>2, <1>3, <1>4, <1>5 DEF Next, Quiet

-----------------------------------------------------------------------------
(***************************************************************************)
(* The refinement of RoomLocks.  The line of a room is read off its        *)
(* pending promises by rank: whoever queues gets the last rank, whoever    *)
(* leaves had the first, and everybody else keeps the order.               *)
(***************************************************************************)
LEMMA RankType ==
  ASSUME NEW S \in SUBSET Nat, IsFiniteSet(S), NEW n \in Nat
  PROVE  IsFiniteSet({m \in S : m <= n}) /\ Rank(S, n) \in Nat /\ Rank(S, n) <= Cardinality(S)
  BY FS_Subset, FS_CardinalityType DEF Rank

\* Every rank is somebody's: the ranks are different, and as many as the elements.
LEMMA PlacesTaken ==
  ASSUME NEW S \in SUBSET Nat, IsFiniteSet(S)
  PROVE  \A i \in 1 .. Cardinality(S) : Nth(S, i) \in S
<1> DEFINE size == Cardinality(S)
           f == [n \in S |-> Rank(S, n)]
<1>1. size \in Nat /\ IsFiniteSet(1 .. size) /\ Cardinality(1 .. size) = size
  BY FS_CardinalityType, FS_Interval
<1>2. ASSUME NEW n \in S PROVE Rank(S, n) \in 1 .. size
  <2>1. Rank(S, n) \in Nat /\ Rank(S, n) <= size /\ IsFiniteSet({m \in S : m <= n})
    BY RankType
  <2>2. n \in {m \in S : m <= n}
    OBVIOUS
  <2>3. Rank(S, n) # 0
    BY <2>1, <2>2, FS_EmptySet DEF Rank
  <2> QED
    BY <1>1, <2>1, <2>3
<1>3. ASSUME NEW n \in S, NEW m \in S, n < m PROVE Rank(S, n) # Rank(S, m)
  <2> DEFINE A == {k \in S : k <= n}
             B == {k \in S : k <= m}
  <2>1. IsFiniteSet(B)
    BY RankType
  <2>2. A \in SUBSET B /\ m \in B /\ m \notin A
    <3>1. \A k \in S : k \in Int
      OBVIOUS
    <3>2. \A k \in S : k <= n => k <= m
      BY <1>3, <3>1
    <3>3. m <= m /\ ~ (m <= n)
      BY <1>3, <3>1
    <3> QED
      BY <3>2, <3>3
  <2>3. Cardinality(A) # Cardinality(B)
    BY <2>1, <2>2, FS_Subset
  <2> QED
    BY <2>3 DEF Rank
<1>4. f \in [S -> 1 .. size] /\ \A n, m \in S : f[n] = f[m] => n = m
  <2>1. \A n, m \in S : n # m => n < m \/ m < n
    OBVIOUS
  <2> QED
    BY <1>2, <1>3, <2>1
<1> HIDE DEF size, f
<1>5. f \in Injection(S, 1 .. size)
  BY <1>4, Fun_IsInj
<1>6. f \in Surjection(S, 1 .. size)
  BY <1>1, <1>5, FS_Injection DEF size
<1>7. \A i \in 1 .. size : \E n \in S : f[n] = i
  BY <1>6, Fun_SurjectionProperties
<1>8. \A n \in S : f[n] = Rank(S, n)
  BY DEF f
<1>9. \A i \in 1 .. size : Ranked(S, i) # {}
  BY <1>7, <1>8 DEF Ranked
<1>10. \A i : Ranked(S, i) \subseteq S
  BY DEF Ranked
<1> QED
  BY <1>9, <1>10 DEF Nth, size

LEMMA LastRank ==
  ASSUME NEW S \in SUBSET Nat, IsFiniteSet(S), NEW last \in Nat, \A m \in S : m < last
  PROVE  /\ Cardinality(S \cup {last}) = Cardinality(S) + 1
         /\ Nth(S \cup {last}, Cardinality(S) + 1) = last
         /\ \A i \in 1 .. Cardinality(S) : Nth(S \cup {last}, i) = Nth(S, i)
<1> DEFINE more == S \cup {last}
           size == Cardinality(S)
<1>1. last \notin S
  OBVIOUS
<1>2. Cardinality(more) = size + 1 /\ size \in Nat
  BY <1>1, FS_AddElement, FS_CardinalityType
<1>3. \A n \in S : Rank(more, n) = Rank(S, n)
  <2> SUFFICES ASSUME NEW n \in S PROVE Rank(more, n) = Rank(S, n)
    OBVIOUS
  <2>1. {m \in more : m <= n} = {m \in S : m <= n}
    OBVIOUS
  <2> QED
    BY <2>1 DEF Rank
<1>4. Rank(more, last) = size + 1
  <2>1. {m \in more : m <= last} = more
    <3>1. \A m \in S : m \in Nat
      OBVIOUS
    <3>2. \A m \in more : m <= last
      BY <3>1
    <3> QED
      BY <3>2
  <2> QED
    BY <1>2, <2>1 DEF Rank
<1>5. \A n \in S : Rank(S, n) \in Nat /\ Rank(S, n) <= size
  BY RankType
<1>6. Ranked(more, size + 1) = {last}
  <2>1. \A n \in S : Rank(more, n) # size + 1
    BY <1>2, <1>3, <1>5
  <2> HIDE DEF size
  <2> QED
    BY <1>4, <2>1 DEF Ranked
<1>7. ASSUME NEW i \in 1 .. size PROVE Ranked(more, i) = Ranked(S, i)
  <2>1. Rank(more, last) # i
    BY <1>2, <1>4
  <2> HIDE DEF size
  <2> QED
    BY <1>3, <2>1 DEF Ranked
<1> HIDE DEF more, size
<1>8. Nth(more, size + 1) = last
  BY <1>6 DEF Nth
<1>9. \A i \in 1 .. size : Nth(more, i) = Nth(S, i)
  BY <1>7 DEF Nth
<1> QED
  BY <1>2, <1>8, <1>9 DEF more, size

LEMMA FirstRank ==
  ASSUME NEW S \in SUBSET Nat, IsFiniteSet(S), NEW first \in S, \A m \in S : first <= m
  PROVE  /\ Cardinality(S) \in Nat \ {0} /\ Cardinality(S \ {first}) = Cardinality(S) - 1
         /\ Nth(S, 1) = first
         /\ \A i \in 1 .. (Cardinality(S) - 1) : Nth(S \ {first}, i) = Nth(S, i + 1)
<1> DEFINE rest == S \ {first}
           size == Cardinality(S)
<1>1. Cardinality(rest) = size - 1 /\ size \in Nat /\ size # 0
  BY FS_RemoveElement, FS_CardinalityType, FS_EmptySet
<1>2. Rank(S, first) = 1
  <2>1. \A m \in S : m <= first => m = first
    <3>1. \A m \in S : m \in Int /\ first \in Int /\ first <= m
      OBVIOUS
    <3> QED
      BY <3>1
  <2>2. first <= first
    OBVIOUS
  <2>3. {m \in S : m <= first} = {first}
    BY <2>1, <2>2
  <2> QED
    BY <2>3, FS_Singleton DEF Rank
<1>3. \A n \in rest : Rank(S, n) \in Nat /\ Rank(rest, n) = Rank(S, n) - 1 /\ Rank(rest, n) # 0
  <2> SUFFICES ASSUME NEW n \in rest
               PROVE  Rank(S, n) \in Nat /\ Rank(rest, n) = Rank(S, n) - 1 /\ Rank(rest, n) # 0
    OBVIOUS
  <2> DEFINE below == {m \in S : m <= n}
  <2>1. IsFiniteSet(below) /\ first \in below
    BY RankType
  <2>2. {m \in rest : m <= n} = below \ {first}
    OBVIOUS
  <2>3. IsFiniteSet(below \ {first}) /\ n \in below \ {first}
    BY <2>1, FS_RemoveElement
  <2>4. Cardinality(below \ {first}) = Cardinality(below) - 1 /\ Cardinality(below) \in Nat
    BY <2>1, FS_RemoveElement, FS_CardinalityType
  <2>5. Cardinality(below \ {first}) # 0
    BY <2>3, FS_EmptySet
  <2> QED
    BY <2>2, <2>4, <2>5 DEF Rank
<1>4. Ranked(S, 1) = {first}
  <2>1. \A n \in rest : Rank(S, n) # 1
    BY <1>3
  <2> QED
    BY <1>2, <2>1 DEF Ranked
<1>5. ASSUME NEW i \in 1 .. (size - 1) PROVE Ranked(rest, i) = Ranked(S, i + 1)
  <2>1. i \in Nat /\ i + 1 # 1
    BY <1>1
  <2>2. \A n \in rest : (Rank(rest, n) = i) <=> (Rank(S, n) = i + 1)
    BY <1>3, <2>1
  <2>3. Rank(S, first) # i + 1
    BY <1>2, <2>1
  <2> QED
    BY <2>2, <2>3 DEF Ranked
<1> HIDE DEF rest, size
<1>6. Nth(S, 1) = first
  BY <1>4 DEF Nth
<1>7. \A i \in 1 .. (size - 1) : Nth(rest, i) = Nth(S, i + 1)
  BY <1>5 DEF Nth
<1> QED
  BY <1>1, <1>6, <1>7 DEF rest, size

\* The promises of the chain are calls and rooms.
LEMMA ChainTyped ==
  ASSUME IInv
  PROVE  \A n \in DOMAIN chain :
           n \in Nat \ {0} /\ chain[n].task \in Tasks /\ chain[n].room \in Rooms
<1>1. chain \in Seq(Promise)
  BY DEF IInv, TypeOK
<1>2. ASSUME NEW n \in DOMAIN chain PROVE n \in Nat \ {0} /\ chain[n] \in Promise
  <2>1. DOMAIN chain = 1 .. Len(chain)
    BY <1>1
  <2> QED
    BY <1>1, <2>1, ElementOfSeq
<1>3. \A p \in Promise : p.task \in Tasks /\ p.room \in Rooms
  BY DEF Promise
<1> QED
  BY <1>2, <1>3

\* What is pending in a room is a finite set of numbers.
LEMMA PendingFinite ==
  ASSUME IInv, NEW r \in Rooms
  PROVE  PendingIn(r) \in SUBSET Nat /\ IsFiniteSet(PendingIn(r)) /\ PendingIn(r) \subseteq DOMAIN chain
<1>1. DOMAIN chain = 1 .. Len(chain) /\ Len(chain) \in Nat
  BY DEF IInv, TypeOK
<1>2. IsFiniteSet(DOMAIN chain)
  BY <1>1, FS_Interval
<1>3. PendingIn(r) \subseteq DOMAIN chain
  BY DEF PendingIn, Pending
<1> QED
  BY <1>1, <1>2, <1>3, FS_Subset

\* A sequence given place by place.
LEMMA PlaceByPlace ==
  ASSUME NEW S, NEW n \in Nat, NEW s \in [1 .. n -> S]
  PROVE  s \in Seq(S) /\ Len(s) = n
  OBVIOUS

LEMMA OneMore ==
  ASSUME NEW S, NEW s \in Seq(S), NEW e \in S, NEW u \in [1 .. (Len(s) + 1) -> S],
         \A i \in 1 .. Len(s) : u[i] = s[i], u[Len(s) + 1] = e
  PROVE  u = Append(s, e)
<1>1. Len(s) \in Nat /\ u \in Seq(S) /\ Len(u) = Len(s) + 1
  BY PlaceByPlace
<1>2. /\ Append(s, e) \in Seq(S) /\ Len(Append(s, e)) = Len(s) + 1
      /\ \A i \in 1 .. Len(s) : Append(s, e)[i] = s[i]
      /\ Append(s, e)[Len(s) + 1] = e
  BY AppendProperties
<1>3. \A i \in 1 .. (Len(s) + 1) : i \in 1 .. Len(s) \/ i = Len(s) + 1
  BY <1>1
<1>4. \A i \in 1 .. (Len(s) + 1) : u[i] = Append(s, e)[i]
  BY <1>2, <1>3
<1> QED
  BY <1>1, <1>2, <1>4, SeqEqual

LEMMA OneLess ==
  ASSUME NEW S, NEW s \in Seq(S), s # <<>>, NEW u \in [1 .. (Len(s) - 1) -> S],
         \A i \in 1 .. (Len(s) - 1) : u[i] = s[i + 1]
  PROVE  u = Tail(s)
<1>1. Len(s) \in Nat \ {0}
  BY EmptySeq
<1>2. u \in Seq(S) /\ Len(u) = Len(s) - 1
  BY <1>1, PlaceByPlace
<1>3. /\ Tail(s) \in Seq(S) /\ Len(Tail(s)) = Len(s) - 1
      /\ \A i \in 1 .. Len(Tail(s)) : Tail(s)[i] = s[i + 1]
  BY HeadTailProperties
<1> QED
  BY <1>2, <1>3, SeqEqual

\* A line as long as the promises pending in the room.
LEMMA LineTasks ==
  ASSUME IInv, NEW r \in Rooms
  PROVE  /\ Line[r] = [i \in 1 .. Cardinality(PendingIn(r)) |-> chain[Nth(PendingIn(r), i)].task]
         /\ Cardinality(PendingIn(r)) \in Nat
         /\ Line[r] \in Seq(Tasks) /\ Len(Line[r]) = Cardinality(PendingIn(r))
         /\ Line[r] \in [1 .. Cardinality(PendingIn(r)) -> Tasks]
<1> DEFINE S == PendingIn(r)
           size == Cardinality(S)
<1>1. S \in SUBSET Nat /\ IsFiniteSet(S) /\ S \subseteq DOMAIN chain /\ size \in Nat
  BY PendingFinite, FS_CardinalityType
<1>2. Line[r] = [i \in 1 .. size |-> chain[Nth(S, i)].task]
  BY DEF Line
<1>3. \A i \in 1 .. size : Nth(S, i) \in DOMAIN chain
  BY <1>1, PlacesTaken
<1>4. \A n \in DOMAIN chain : chain[n].task \in Tasks
  BY ChainTyped
<1> HIDE DEF S, size
<1>5. Line[r] \in [1 .. size -> Tasks]
  BY <1>2, <1>3, <1>4
<1> QED
  BY <1>1, <1>2, <1>5, PlaceByPlace DEF S, size

\* A promise is pushed: its caller is last in the line of the room.
LEMMA EnqueueLine ==
  ASSUME IInv, IInv', NEW t \in Tasks, NEW r \in Rooms, Enqueue(t, r), released' = released
  PROVE  Line' = [Line EXCEPT ![r] = Append(@, t)]
<1> DEFINE N == Len(chain) + 1
<1>1. /\ N \in Nat /\ DOMAIN chain = 1 .. (N - 1) /\ DOMAIN chain' = 1 .. N
      /\ chain'[N].task = t /\ chain'[N].room = r
      /\ \A i \in DOMAIN chain : chain'[i] = chain[i]
  BY DEF IInv, TypeOK, Enqueue
<1>2. Pending' = Pending \cup {N}
  BY <1>1 DEF Pending, IInv, TypeOK
<1>3. \A q \in Rooms : PendingIn(q)' = IF q = r THEN PendingIn(q) \cup {N} ELSE PendingIn(q)
  BY <1>1, <1>2 DEF PendingIn, Pending
<1>4. ASSUME NEW q \in Rooms PROVE Line'[q] = [Line EXCEPT ![r] = Append(@, t)][q]
  <2> DEFINE S == PendingIn(q)
             size == Cardinality(S)
  <2>1. /\ S \in SUBSET Nat /\ IsFiniteSet(S) /\ size \in Nat
        /\ Line[q] = [i \in 1 .. size |-> chain[Nth(S, i)].task]
    BY PendingFinite, LineTasks
  <2>2. Line'[q] = [i \in 1 .. Cardinality(PendingIn(q)') |-> chain'[Nth(PendingIn(q)', i)].task]
    BY DEF Line
  <2>3. \A i \in 1 .. size : Nth(S, i) \in DOMAIN chain
    BY <2>1, PlacesTaken, PendingFinite
  <2>4. CASE q # r
    <3>1. Line'[q] = Line[q]
      BY <1>1, <1>3, <2>1, <2>2, <2>3, <2>4
    <3> QED
      BY <2>4, <3>1 DEF Line
  <2>5. CASE q = r
    <3>1. PendingIn(q)' = S \cup {N}
      BY <1>3, <2>5
    <3>2. \A m \in S : m < N
      BY <1>1 DEF PendingIn, Pending
    <3>3. /\ Cardinality(S \cup {N}) = size + 1
          /\ Nth(S \cup {N}, size + 1) = N
          /\ \A i \in 1 .. size : Nth(S \cup {N}, i) = Nth(S, i)
      BY <1>1, <2>1, <3>2, LastRank
    <3> HIDE DEF N, size, S
    <3>4. /\ Line'[q] = [i \in 1 .. (size + 1) |-> chain'[Nth(S \cup {N}, i)].task]
      BY <2>2, <3>1, <3>3
    <3>5. chain'[Nth(S \cup {N}, size + 1)].task = t
      BY <1>1, <3>3
    <3>6. \A i \in 1 .. size : chain'[Nth(S \cup {N}, i)].task = chain[Nth(S, i)].task
      BY <1>1, <2>3, <3>3
    <3>7. Line'[q] = Append(Line[q], t)
      <4>1. Line[q] \in Seq(Tasks) /\ Len(Line[q]) = size
        BY LineTasks DEF S, size
      <4>2. Line'[q] \in [1 .. (size + 1) -> Tasks]
        <5>1. \A i \in 1 .. (size + 1) : i \in 1 .. size \/ i = size + 1
          BY <2>1
        <5>2. \A i \in 1 .. size : Line[q][i] \in Tasks
          BY <4>1, ElementOfSeq
        <5>3. \A i \in 1 .. (size + 1) : chain'[Nth(S \cup {N}, i)].task \in Tasks
          BY <2>1, <3>5, <3>6, <5>1, <5>2
        <5> QED
          BY <3>4, <5>3
      <4>3. ASSUME NEW i \in 1 .. size PROVE Line'[q][i] = Line[q][i]
        <5>1. i \in 1 .. (size + 1)
          BY <2>1
        <5>2. Line'[q][i] = chain'[Nth(S \cup {N}, i)].task
          BY <3>4, <5>1
        <5>3. Line[q][i] = chain[Nth(S, i)].task
          BY <2>1
        <5> QED
          BY <3>6, <5>2, <5>3
      <4>4. Line'[q][size + 1] = t
        BY <2>1, <3>4, <3>5
      <4> QED
        BY <4>1, <4>2, <4>3, <4>4, OneMore
    <3> QED
      BY <2>5, <3>7 DEF Line
  <2> QED
    BY <2>4, <2>5
<1> QED
  BY <1>4 DEF Line

\* A promise that is settled, or entered, is the first of those pending in its room.
LEMMA FirstPending ==
  ASSUME IInv, NEW n \in Pending, Settled(n)
  PROVE  /\ n \in PendingIn(chain[n].room)
         /\ \A m \in PendingIn(chain[n].room) : n <= m /\ (m # n => ~Entered(m))
<1>1. DOMAIN chain \subseteq Nat /\ n \in DOMAIN chain
  BY DEF IInv, TypeOK, Pending
<1>2. ASSUME NEW m \in DOMAIN chain, m < n, chain[m].room = chain[n].room
      PROVE  m \in released
  <2> DEFINE p == chain[n].prev
  <2>1. CASE p = 0
    BY <1>1, <1>2, <2>1 DEF IInv, Linked
  <2>2. CASE p # 0
    <3>1. p \in released /\ p \in DOMAIN chain /\ chain[p].room = chain[n].room /\ ~(p < m)
      BY <1>1, <1>2, <2>2 DEF IInv, Linked, Settled
    <3>2. p = m \/ m < p
      BY <1>1, <3>1
    <3> QED
      BY <1>2, <3>1, <3>2 DEF IInv, ReleasedInOrder
  <2> QED
    BY <2>1, <2>2
<1>3. \A m \in PendingIn(chain[n].room) : n <= m
  BY <1>1, <1>2 DEF PendingIn, Pending
<1>4. ASSUME NEW m \in PendingIn(chain[n].room), m # n PROVE ~Entered(m)
  <2>1. n < m /\ m \in DOMAIN chain /\ chain[m].room = chain[n].room
    BY <1>1, <1>3, <1>4 DEF PendingIn, Pending
  <2> QED
    BY <1>1, <2>1, IInvServedInOrder DEF ServedInOrder, Pending
<1> QED
  BY <1>3, <1>4 DEF PendingIn

\* The head of the line of a room is the caller whose promise is settled there.
LEMMA HeadOfLine ==
  ASSUME IInv, NEW n \in Pending, Settled(n), NEW r \in Rooms, r = chain[n].room
  PROVE  Line[r] # <<>> /\ Head(Line[r]) = chain[n].task
<1> DEFINE S == PendingIn(r)
<1>1. S \in SUBSET Nat /\ IsFiniteSet(S) /\ n \in S /\ \A m \in S : n <= m
  BY PendingFinite, FirstPending
<1>2. Cardinality(S) \in Nat \ {0} /\ Nth(S, 1) = n
  BY <1>1, FirstRank
<1>3. Line[r] = [i \in 1 .. Cardinality(S) |-> chain[Nth(S, i)].task]
  BY LineTasks
<1> HIDE DEF S
<1> QED
  BY <1>2, <1>3

\* A call comes past its await of w: it enters the room of w, which was empty.
LEMMA EnterRoom ==
  ASSUME IInv, NEW t \in Tasks, NEW w, w = waiting[t], w # 0, Settled(w),
         Pending \subseteq Pending', \A n \in Pending : chain'[n] = chain[n],
         \A n \in Pending' \ Pending : ~Entered(n)',
         waiting' \in [Tasks -> Nat], \A u \in Tasks \ {t} : waiting'[u] = waiting[u],
         waiting'[t] \notin Pending
  PROVE  /\ w \in Pending /\ chain[w].room \in Rooms /\ chain[w].task = t
         /\ Inside[chain[w].room] = {}
         /\ Inside' = [Inside EXCEPT ![chain[w].room] = {t}]
<1> DEFINE r == chain[w].room
<1>1. w \in Pending /\ chain[w].task = t /\ \A n \in Pending : chain[n] \in Promise
  BY DEF IInv, WaitingOwn, Pending, TypeOK
<1>2. r \in Rooms /\ ~Entered(w)
  BY <1>1 DEF Promise, Entered
<1>3. \A m \in PendingIn(r) : ~Entered(m)
  BY <1>1, <1>2, FirstPending
<1>4. Entered(w)'
  BY <1>1 DEF Entered
<1>5. \A n \in Pending : n # w => Entered(n)' = Entered(n)
  <2> SUFFICES ASSUME NEW n \in Pending, n # w PROVE Entered(n)' = Entered(n)
    OBVIOUS
  <2>1. chain'[n] = chain[n] /\ chain[n].task \in Tasks /\ n \in Pending'
    BY <1>1 DEF Promise
  <2> QED
    BY <2>1 DEF Entered
<1>6. ASSUME NEW q \in Rooms PROVE Inside'[q] = IF q = r THEN {t} ELSE Inside[q]
  <2> DEFINE In == {m \in PendingIn(q) : Entered(m)}
             In1 == {m \in PendingIn(q)' : Entered(m)'}
  <2>1. In1 = {m \in Pending : chain[m].room = q /\ Entered(m)'}
    BY DEF PendingIn
  <2>2. In = {m \in Pending : chain[m].room = q /\ Entered(m)}
    BY DEF PendingIn
  <2>3. CASE q = r
    <3>1. In1 = {w}
      BY <1>1, <1>3, <1>4, <1>5, <2>1, <2>3 DEF PendingIn
    <3>2. Inside'[q] = {chain'[n].task : n \in In1}
      BY DEF Inside
    <3>3. chain'[w].task = t
      BY <1>1
    <3> HIDE DEF In1
    <3> QED
      BY <2>3, <3>1, <3>2, <3>3
  <2>4. CASE q # r
    <3>1. In1 = In
      BY <1>5, <2>1, <2>2, <2>4
    <3>2. Inside'[q] = {chain'[n].task : n \in In1} /\ Inside[q] = {chain[n].task : n \in In}
      BY DEF Inside
    <3>3. \A n \in In : chain'[n] = chain[n]
      BY <2>2
    <3> HIDE DEF In, In1
    <3> QED
      BY <2>4, <3>1, <3>2, <3>3
  <2> QED
    BY <2>3, <2>4
<1>7. Inside[r] = {}
  BY <1>2, <1>3 DEF Inside
<1>8. Inside' = [q \in Rooms |-> Inside'[q]] /\ Inside = [q \in Rooms |-> Inside[q]]
  BY DEF Inside
<1> HIDE DEF r
<1>9. Inside' = [Inside EXCEPT ![r] = {t}]
  BY <1>2, <1>6, <1>8
<1> QED
  BY <1>1, <1>2, <1>7, <1>9 DEF r

\* A caller that is in a room is there alone, at the head of the line.
LEMMA AloneInside ==
  ASSUME IInv, NEW n \in Pending, Entered(n), NEW r \in Rooms, r = chain[n].room
  PROVE  /\ Inside[r] = {chain[n].task}
         /\ {m \in PendingIn(r) : Entered(m)} = {n}
         /\ \A m \in PendingIn(r) : n <= m
<1>1. Settled(n)
  BY DEF IInv, EnteredSettled, Pending
<1>2. n \in PendingIn(r) /\ \A m \in PendingIn(r) : n <= m /\ (m # n => ~Entered(m))
  BY <1>1, FirstPending
<1>3. {m \in PendingIn(r) : Entered(m)} = {n}
  BY <1>2
<1>4. Inside[r] = {chain[m].task : m \in {k \in PendingIn(r) : Entered(k)}}
  BY DEF Inside
<1> QED
  BY <1>2, <1>3, <1>4

-----------------------------------------------------------------------------
\* The first promise of a call is pushed: the caller arrives.
LEMMA CallArrives ==
  ASSUME IInv, IInv', NEW t \in Tasks, Call(t)
  PROVE  \E r \in Rooms : Locks!Arrive(t, r)
<1>1. PICK r \in Rooms :
        phase[t] = "idle" /\ Enqueue(t, r) /\ released' = released
  BY DEF Call
<1> DEFINE N == Len(chain) + 1
<1>2. /\ N \in Nat \ {0} /\ DOMAIN chain = 1 .. (N - 1) /\ DOMAIN chain' = 1 .. N
      /\ chain'[N].task = t /\ \A i \in DOMAIN chain : chain'[i] = chain[i]
      /\ waiting' = [waiting EXCEPT ![t] = N] /\ waiting \in [Tasks -> Nat]
  BY <1>1 DEF IInv, TypeOK, Enqueue
<1>3. Pending' = Pending \cup {N} /\ Pending \subseteq DOMAIN chain /\ N \notin DOMAIN chain
  BY <1>1, <1>2 DEF Pending, IInv, TypeOK
<1>4. ASSUME NEW n \in Pending' \ Pending PROVE ~Entered(n)'
  <2>1. n = N
    BY <1>3
  <2>2. waiting'[chain'[n].task] = n
    BY <1>2, <2>1
  <2> QED
    BY <2>2 DEF Entered
<1>5. \A n \in Pending : Entered(n)' = Entered(n)
  <2> SUFFICES ASSUME NEW n \in Pending PROVE Entered(n)' = Entered(n)
    OBVIOUS
  <2>1. chain'[n] = chain[n] /\ n \in Pending' /\ chain[n].task \in Tasks
    BY <1>2, <1>3, ChainTyped
  <2>2. chain[n].task # t
    BY <1>1, <1>3 DEF IInv, WaitingOwn
  <2> QED
    BY <1>2, <2>1, <2>2 DEF Entered
<1>6. ASSUME NEW q \in Rooms PROVE Inside'[q] = Inside[q]
  <2> DEFINE In == {m \in PendingIn(q) : Entered(m)}
             In1 == {m \in PendingIn(q)' : Entered(m)'}
  <2>1. In1 = In
    <3>1. In1 = {m \in Pending' : chain'[m].room = q /\ Entered(m)'}
      BY DEF PendingIn
    <3>2. \A m \in Pending' : Entered(m)' => m \in Pending
      BY <1>4
    <3>3. In1 = {m \in Pending : chain[m].room = q /\ Entered(m)}
      BY <1>2, <1>3, <1>5, <3>1, <3>2
    <3> QED
      BY <3>3 DEF PendingIn
  <2>2. Inside'[q] = {chain'[n].task : n \in In1} /\ Inside[q] = {chain[n].task : n \in In}
    BY DEF Inside
  <2>3. \A n \in In : chain'[n] = chain[n]
    BY <1>2, <1>3 DEF PendingIn
  <2> HIDE DEF In, In1
  <2> QED
    BY <2>1, <2>2, <2>3
<1>7. Inside' = Inside
  BY <1>6 DEF Inside
<1>8. Line' = [Line EXCEPT ![r] = Append(@, t)]
  BY <1>1, EnqueueLine
<1> QED
  BY <1>7, <1>8 DEF Locks!Arrive, Locks!LineUp

\* An await comes back and another room is left: the caller enters the room and
\* lines up for the next one.
LEMMA AcquireNextEnters ==
  ASSUME IInv, IInv', NEW t \in Tasks, AcquireNext(t)
  PROVE  \E r \in Rooms : Locks!Enter(t, r)
<1> DEFINE w == waiting[t]
<1>1. PICK q \in Rooms :
        /\ w # 0 /\ Settled(w) /\ q \in Rest(t)
        /\ Enqueue(t, q) /\ released' = released
  BY DEF AcquireNext, IsFirst
<1> DEFINE N == Len(chain) + 1
<1>2. /\ N \in Nat \ {0} /\ DOMAIN chain = 1 .. (N - 1) /\ DOMAIN chain' = 1 .. N
      /\ chain'[N].task = t /\ \A i \in DOMAIN chain : chain'[i] = chain[i]
      /\ waiting' = [waiting EXCEPT ![t] = N] /\ waiting \in [Tasks -> Nat]
  BY <1>1 DEF IInv, TypeOK, Enqueue
<1>3. Pending' = Pending \cup {N} /\ Pending \subseteq DOMAIN chain /\ N \notin DOMAIN chain
  BY <1>1, <1>2 DEF Pending, IInv, TypeOK
<1>4. ASSUME NEW n \in Pending' \ Pending PROVE ~Entered(n)'
  <2>1. n = N
    BY <1>3
  <2>2. waiting'[chain'[n].task] = n
    BY <1>2, <2>1
  <2> QED
    BY <2>2 DEF Entered
<1>5. /\ w \in Pending /\ chain[w].room \in Rooms /\ chain[w].task = t
      /\ Inside[chain[w].room] = {}
      /\ Inside' = [Inside EXCEPT ![chain[w].room] = {t}]
  <2>1. waiting' \in [Tasks -> Nat] /\ waiting'[t] \notin Pending
    BY <1>2, <1>3
  <2>2. \A u \in Tasks \ {t} : waiting'[u] = waiting[u]
    BY <1>2
  <2>4. \A n \in Pending : chain'[n] = chain[n]
    BY <1>2, <1>3
  <2> HIDE DEF w
  <2>5. w = waiting[t]
    BY DEF w
  <2> QED
    BY <1>1, <1>3, <1>4, <2>1, <2>2, <2>4, <2>5, EnterRoom
<1> DEFINE r == chain[w].room
<1>6. q \in Rooms \ {r}
  BY <1>1, <1>5, RoomsAssumption DEF Rest
<1>7. Line[r] # <<>> /\ Head(Line[r]) = t
  BY <1>1, <1>5, HeadOfLine
<1>8. Line' = [Line EXCEPT ![q] = Append(@, t)]
  BY <1>1, EnqueueLine
<1> HIDE DEF w, r
<1>9. r \in Rooms /\ Inside[r] = {} /\ Inside' = [Inside EXCEPT ![r] = {t}]
  BY <1>5 DEF r
<1> QED
  BY <1>6, <1>7, <1>8, <1>9 DEF Locks!Enter, Locks!GoIn, Locks!LineUp

\* The last await comes back and the task runs: the caller enters its last room.
LEMMA RunEnters ==
  ASSUME IInv, IInv', NEW t \in Tasks, Run(t)
  PROVE  \E r \in Rooms : Locks!Enter(t, r)
<1> DEFINE w == waiting[t]
<1>1. /\ w # 0 /\ Settled(w) /\ waiting' = [waiting EXCEPT ![t] = 0]
      /\ chain' = chain /\ released' = released
  BY DEF Run
<1>2. Pending' = Pending /\ 0 \notin Pending /\ waiting \in [Tasks -> Nat]
  BY <1>1 DEF Pending, IInv, TypeOK
<1>3. /\ w \in Pending /\ chain[w].room \in Rooms /\ chain[w].task = t
      /\ Inside[chain[w].room] = {}
      /\ Inside' = [Inside EXCEPT ![chain[w].room] = {t}]
  <2>1. waiting' \in [Tasks -> Nat] /\ waiting'[t] \notin Pending
    BY <1>1, <1>2
  <2>2. \A u \in Tasks \ {t} : waiting'[u] = waiting[u]
    BY <1>1, <1>2
  <2> HIDE DEF w
  <2>3. w = waiting[t]
    BY DEF w
  <2> QED
    BY <1>1, <1>2, <2>1, <2>2, <2>3, EnterRoom
<1> DEFINE r == chain[w].room
<1>4. Line[r] # <<>> /\ Head(Line[r]) = t
  BY <1>1, <1>3, HeadOfLine
<1>5. Line' = Line
  BY <1>1, <1>2 DEF Line, PendingIn
<1> HIDE DEF w, r
<1>6. r \in Rooms /\ Inside[r] = {} /\ Inside' = [Inside EXCEPT ![r] = {t}]
  BY <1>3 DEF r
<1> QED
  BY <1>4, <1>5, <1>6 DEF Locks!Enter, Locks!GoIn

\* A promise is released: its caller leaves the room, from the head of the line.
LEMMA UnwindLeaves ==
  ASSUME IInv, IInv', NEW t \in Tasks, Unwind(t)
  PROVE  \E r \in Rooms : Locks!Leave(t, r)
<1>1. PICK n \in Pending :
        /\ phase[t] \in {"running", "unwinding"} /\ chain[n].task = t
        /\ released' = released \cup {n} /\ chain' = chain /\ waiting' = waiting
  BY DEF Unwind, Release
<1> DEFINE r == chain[n].room
<1>2. n \in DOMAIN chain /\ n # 0 /\ r \in Rooms
  BY ChainTyped DEF Pending
<1>3. Entered(n)
  BY <1>1, <1>2 DEF IInv, WaitingOwn, Entered
<1>4. Inside[r] = {t} /\ {m \in PendingIn(r) : Entered(m)} = {n} /\ \A m \in PendingIn(r) : n <= m
  BY <1>1, <1>2, <1>3, AloneInside
<1>5. Pending' = Pending \ {n} /\ \A m \in Pending' : Entered(m)' = Entered(m)
  BY <1>1, <1>2 DEF Pending, Entered
<1>6. \A q \in Rooms : PendingIn(q)' = IF q = r THEN PendingIn(q) \ {n} ELSE PendingIn(q)
  BY <1>1, <1>5 DEF PendingIn
<1>7. ASSUME NEW q \in Rooms PROVE Inside'[q] = IF q = r THEN {} ELSE Inside[q]
  <2> DEFINE In == {m \in PendingIn(q) : Entered(m)}
             In1 == {m \in PendingIn(q)' : Entered(m)'}
  <2>1. Inside'[q] = {chain[m].task : m \in In1} /\ Inside[q] = {chain[m].task : m \in In}
    BY <1>1 DEF Inside
  <2>2. \A m \in PendingIn(q)' : m \in Pending'
    BY DEF PendingIn
  <2>3. CASE q = r
    <3>1. In1 = {}
      BY <1>4, <1>5, <1>6, <2>2, <2>3
    <3> HIDE DEF In, In1
    <3> QED
      BY <2>1, <2>3, <3>1
  <2>4. CASE q # r
    <3>1. In1 = In
      BY <1>5, <1>6, <2>2, <2>4
    <3> HIDE DEF In, In1
    <3> QED
      BY <2>1, <2>4, <3>1
  <2> QED
    BY <2>3, <2>4
<1>8. ASSUME NEW q \in Rooms PROVE Line'[q] = IF q = r THEN Tail(Line[q]) ELSE Line[q]
  <2> DEFINE S == PendingIn(q)
             size == Cardinality(S)
  <2>1. Line'[q] = [i \in 1 .. Cardinality(PendingIn(q)') |-> chain[Nth(PendingIn(q)', i)].task]
    BY <1>1 DEF Line
  <2>2. /\ S \in SUBSET Nat /\ IsFiniteSet(S) /\ size \in Nat
        /\ Line[q] = [i \in 1 .. size |-> chain[Nth(S, i)].task]
        /\ Line[q] \in Seq(Tasks) /\ Len(Line[q]) = size
    BY PendingFinite, LineTasks
  <2>3. CASE q # r
    BY <1>6, <2>1, <2>2, <2>3
  <2>4. CASE q = r
    <3>1. PendingIn(q)' = S \ {n} /\ n \in S /\ \A m \in S : n <= m
      BY <1>4, <1>6, <2>4 DEF PendingIn
    <3>2. /\ size \in Nat \ {0} /\ Cardinality(S \ {n}) = size - 1
          /\ \A i \in 1 .. (size - 1) : Nth(S \ {n}, i) = Nth(S, i + 1)
      BY <2>2, <3>1, FirstRank
    <3> HIDE DEF S, size
    <3>3. Line'[q] = [i \in 1 .. (size - 1) |-> chain[Nth(S \ {n}, i)].task]
      BY <2>1, <3>1, <3>2
    <3>4. \A i \in 1 .. (size - 1) : i + 1 \in 1 .. size
      BY <3>2
    <3>5. ASSUME NEW i \in 1 .. (size - 1) PROVE Line'[q][i] = Line[q][i + 1]
      <4>1. Line'[q][i] = chain[Nth(S \ {n}, i)].task
        BY <3>3
      <4>2. Line[q][i + 1] = chain[Nth(S, i + 1)].task
        BY <2>2, <3>4
      <4> QED
        BY <3>2, <4>1, <4>2
    <3>6. \A i \in 1 .. (size - 1) : Line[q][i + 1] \in Tasks
      BY <2>2, <3>4, ElementOfSeq
    <3>7. Line'[q] \in [1 .. (size - 1) -> Tasks]
      BY <3>3, <3>5, <3>6
    <3>8. Line[q] # <<>>
      BY <2>2, <3>2
    <3>9. Line'[q] = Tail(Line[q])
      BY <2>2, <3>5, <3>7, <3>8, OneLess
    <3> QED
      BY <2>4, <3>9
  <2> QED
    BY <2>3, <2>4
<1> HIDE DEF r
<1>9. Inside' = [Inside EXCEPT ![r] = {}]
  <2>1. DOMAIN Inside = Rooms /\ DOMAIN Inside' = Rooms
    BY DEF Inside
  <2>2. Inside' = [q \in Rooms |-> Inside'[q]] /\ Inside = [q \in Rooms |-> Inside[q]]
    BY DEF Inside
  <2> QED
    BY <1>2, <1>7, <2>1, <2>2
<1>10. Line' = [Line EXCEPT ![r] = Tail(@)]
  <2>1. DOMAIN Line = Rooms /\ DOMAIN Line' = Rooms
    BY DEF Line
  <2>2. Line' = [q \in Rooms |-> Line'[q]] /\ Line = [q \in Rooms |-> Line[q]]
    BY DEF Line
  <2> QED
    BY <1>2, <1>8, <2>1, <2>2
<1> QED
  BY <1>2, <1>4, <1>9, <1>10 DEF Locks!Leave

LEMMA InitLocks == Init => Locks!Init
<1> SUFFICES ASSUME Init PROVE Locks!Init
  OBVIOUS
<1>1. \A r \in Rooms : PendingIn(r) = {}
  BY DEF Init, PendingIn, Pending
<1>2. Cardinality({}) = 0
  BY FS_EmptySet
<1>3. ASSUME NEW r \in Rooms PROVE Line[r] = <<>> /\ Inside[r] = {}
  <2>1. Line[r] = [i \in 1 .. 0 |-> chain[Nth({}, i)].task]
    BY <1>1, <1>2 DEF Line
  <2>2. 1 .. 0 = {}
    OBVIOUS
  <2>3. Inside[r] = {}
    BY <1>1 DEF Inside
  <2> QED
    BY <2>1, <2>2, <2>3
<1>4. Line = [r \in Rooms |-> Line[r]] /\ Inside = [r \in Rooms |-> Inside[r]]
  BY DEF Line, Inside
<1> QED
  BY <1>3, <1>4 DEF Locks!Init

LEMMA StepLocks == IInv /\ IInv' /\ [Next]_vars => [Locks!Next]_(Locks!lockVars)
<1> SUFFICES ASSUME IInv, IInv', [Next]_vars PROVE [Locks!Next]_(Locks!lockVars)
  OBVIOUS
<1>1. ASSUME NEW t \in Tasks, Call(t) PROVE Locks!Next
  BY <1>1, CallArrives DEF Locks!Next
<1>2. ASSUME NEW t \in Tasks, AcquireNext(t) PROVE Locks!Next
  BY <1>2, AcquireNextEnters DEF Locks!Next
<1>3. ASSUME NEW t \in Tasks, Run(t) PROVE Locks!Next
  BY <1>3, RunEnters DEF Locks!Next
<1>4. ASSUME NEW t \in Tasks, Unwind(t) PROVE Locks!Next
  BY <1>4, UnwindLeaves DEF Locks!Next
<1>5. CASE UNCHANGED vars
  <2>1. Line' = Line
    BY <1>5 DEF vars, Line, PendingIn, Pending
  <2>2. Inside' = Inside
    BY <1>5 DEF vars, Inside, PendingIn, Pending, Entered
  <2> QED
    BY <2>1, <2>2 DEF Locks!lockVars
<1> QED
  BY <1>1, <1>2, <1>3, <1>4, <1>5 DEF Next, Quiet

-----------------------------------------------------------------------------
\* The strengthened invariant holds in every reachable state.
LEMMA SpecIInv == Spec => []IInv
<1>1. QED
  BY InitIInv, NextIInv, PTL DEF Spec

\* For any calls over any rooms, the tasks of one room never interleave: the
\* code between two awaits of a room mutation sees no other mutation of it.
THEOREM QueueMutualExclusion == Spec => []MutualExclusion
<1>1. IInv => MutualExclusion
  BY IInvServedInOrder, ServedInOrderExclusive DEF IInv
<1>2. QED
  BY <1>1, SpecIInv, PTL

\* Calls enter a room in the order in which they were queued on it.
THEOREM QueueServedInOrder == Spec => []ServedInOrder
<1>1. QED
  BY IInvServedInOrder, SpecIInv, PTL

\* The roomQueues map holds exactly the last pending promise of each room.
THEOREM QueueEntriesNeverLeak == Spec => []QueueEntriesExact
<1>1. IInv => QueueEntriesExact
  BY DEF IInv
<1>2. QED
  BY <1>1, SpecIInv, PTL

\* The promise chain implements the locks: whatever calls are made over whatever
\* rooms, a step of enqueueRooms is an arrival, an entry, a departure or nothing.
THEOREM QueueImplementsLocks == Spec => ImplementsRoomLocks
<1>1. QED
  BY InitLocks, StepLocks, SpecIInv, PTL DEF Spec, ImplementsRoomLocks, Locks!Spec

\* Every variable keeps its type.
THEOREM QueueTypeCorrect == Spec => []TypeOK
<1>1. IInv => TypeOK
  BY DEF IInv
<1>2. QED
  BY <1>1, SpecIInv, PTL
=============================================================================
