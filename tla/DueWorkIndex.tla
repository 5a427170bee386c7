---------------------------- MODULE DueWorkIndex ----------------------------
(***************************************************************************)
(* The index in which the scheduler keeps the deadlines of the rooms: a    *)
(* binary heap with lazy deletion beside a map of the entries that count   *)
(* (packages/server/src/due-work.ts).                                      *)
(***************************************************************************)
EXTENDS Naturals, Sequences, FiniteSets, SequencesExt

CONSTANTS
  Keys,        \* a sequence: the keys in the order of localeCompare
  Times,       \* the moments there are
  Never,       \* Number.POSITIVE_INFINITY, and the lack of an entry
  MaxVersion   \* bound: calls that change the index

ASSUME KeysAssumption == IsInjective(Keys)
ASSUME DeadlinesAssumption == Times \subseteq Nat /\ Never \notin Times

VARIABLES
  heap,        \* entries with their versions, some of them stale
  entries,     \* key -> dueAt and version
  version,
  claimed      \* what the last claimDue returned (history)

indexVars == <<heap, entries, version, claimed>>

NoEntry == [dueAt |-> Never, version |-> 0]
IndexInit == /\ heap = <<>> /\ entries = [k \in ToSet(Keys) |-> NoEntry]
             /\ version = 0 /\ claimed = <<>>

Before(e, f) ==
  \/ e.dueAt < f.dueAt
  \/ e.dueAt = f.dueAt
     /\ SelectInSeq(Keys, LAMBDA k : k = e.key) < SelectInSeq(Keys, LAMBDA k : k = f.key)

Swap(h, i, j) == [h EXCEPT ![i] = h[j], ![j] = h[i]]

RECURSIVE BubbleUp(_, _), BubbleDown(_, _), PeekValid(_, _), Claims(_, _, _, _)
BubbleUp(h, i) ==
  IF i > 1 /\ Before(h[i], h[i \div 2]) THEN BubbleUp(Swap(h, i, i \div 2), i \div 2) ELSE h

\* Mutant: the right child is never looked at.
LeftChild(h, i) ==
  IF 2 * i <= Len(h) /\ Before(h[2 * i], h[i]) THEN 2 * i ELSE i
Smallest(h, i) ==
  LET left == IF 2 * i <= Len(h) /\ Before(h[2 * i], h[i]) THEN 2 * i ELSE i
  IN  IF 2 * i + 1 <= Len(h) /\ Before(h[2 * i + 1], h[left]) THEN 2 * i + 1 ELSE left

BubbleDown(h, i) ==
  IF Smallest(h, i) = i THEN h ELSE BubbleDown(Swap(h, i, Smallest(h, i)), Smallest(h, i))

Push(h, e) == BubbleUp(Append(h, e), Len(h) + 1)
Pop(h) == IF Len(h) = 1 THEN <<>> ELSE BubbleDown([Front(h) EXCEPT ![1] = Last(h)], 1)

Valid(e, now) == now[e.key] = [dueAt |-> e.dueAt, version |-> e.version]
\* The heap without the stale entries on top.
PeekValid(h, now) == IF h = <<>> \/ Valid(Head(h), now) THEN h ELSE PeekValid(Pop(h), now)

\* claimDue, with the keys claimed so far.
Claims(h, now, keys, call) ==
  LET top == PeekValid(h, now) IN
  IF Len(keys) = call.limit \/ top = <<>> THEN [heap |-> top, entries |-> now, keys |-> keys]
  ELSE IF Head(top).dueAt > call.now THEN [heap |-> top, entries |-> now, keys |-> keys]
  ELSE Claims(Pop(top), [now EXCEPT ![Head(top).key] = NoEntry], Append(keys, Head(top).key), call)

-----------------------------------------------------------------------------
Deleted(k) == IF entries[k] = NoEntry THEN version ELSE version + 1

Set(k, t) ==
  LET v == Deleted(k) + 1 IN
  /\ v <= MaxVersion
  /\ entries' = [entries EXCEPT ![k] = [dueAt |-> t, version |-> v]]
  /\ heap' = Push(heap, [key |-> k, dueAt |-> t, version |-> v])
  /\ version' = v
  /\ UNCHANGED claimed

\* delete, and set to infinity.
Delete(k) ==
  /\ Deleted(k) <= MaxVersion
  /\ entries' = [entries EXCEPT ![k] = NoEntry] /\ version' = Deleted(k)
  /\ UNCHANGED <<heap, claimed>>

ClaimDue(now, limit) ==
  LET done == Claims(heap, entries, <<>>, [now |-> now, limit |-> limit]) IN
  /\ heap' = done.heap /\ entries' = done.entries /\ claimed' = done.keys
  /\ UNCHANGED version

NextDueAt ==
  /\ heap' = PeekValid(heap, entries)
  /\ UNCHANGED <<entries, version, claimed>>

ClearAll ==
  /\ version < MaxVersion
  /\ heap' = <<>> /\ entries' = [k \in ToSet(Keys) |-> NoEntry] /\ version' = version + 1
  /\ UNCHANGED claimed

IndexNext ==
  \/ \E k \in ToSet(Keys), t \in Times : Set(k, t)
  \/ \E k \in ToSet(Keys) : Delete(k)
  \/ \E now \in Times, limit \in 1..Len(Keys) : ClaimDue(now, limit)
  \/ NextDueAt
  \/ ClearAll

-----------------------------------------------------------------------------
Map == INSTANCE DueMap WITH dueAt <- [k \in ToSet(Keys) |-> entries[k].dueAt]

\* The heap, its stale entries and its versions are a map of deadlines: nothing
\* due is passed over, nothing stale is claimed, and the earliest comes first.
ImplementsDueMap == Map!Spec
=============================================================================
