------------------------------- MODULE DueMap -------------------------------
(* What the server's index of due work promises: a deadline for each key,  *)
(* and claims that take out exactly what is due, the earliest first.       *)
EXTENDS Naturals, Sequences, FiniteSets, SequencesExt

CONSTANTS
  Keys,      \* a sequence: the keys in the order of their names
  Times,     \* the moments there are
  Never      \* no deadline

VARIABLES
  dueAt,     \* the deadline of each key
  claimed    \* what the last claim returned

Init == dueAt = [k \in ToSet(Keys) |-> Never] /\ claimed = <<>>

Set(k, t) == dueAt' = [dueAt EXCEPT ![k] = t] /\ UNCHANGED claimed
Clear == dueAt' = [k \in ToSet(Keys) |-> Never] /\ UNCHANGED claimed

\* The keys due by `now`, in the order of their deadlines and then names.
Earliest(now) ==
  LET Due == SelectSeq(Keys, LAMBDA k : dueAt[k] # Never /\ dueAt[k] <= now)
      Rank(i) == Cardinality({j \in DOMAIN Due :
                    dueAt[Due[j]] < dueAt[Due[i]] \/ (dueAt[Due[j]] = dueAt[Due[i]] /\ j <= i)})
  IN  [n \in DOMAIN Due |-> Due[CHOOSE i \in DOMAIN Due : Rank(i) = n]]

Claim(now, limit) ==
  LET taken == SubSeq(Earliest(now), 1, IF limit < Len(Earliest(now)) THEN limit ELSE Len(Earliest(now)))
  IN  /\ claimed' = taken
      /\ dueAt' = [k \in ToSet(Keys) |-> IF Contains(taken, k) THEN Never ELSE dueAt[k]]

Next == \/ \E k \in ToSet(Keys), t \in Times \cup {Never} : Set(k, t)
        \/ Clear
        \/ \E now \in Times, limit \in 1..Len(Keys) : Claim(now, limit)

Spec == Init /\ [][Next]_<<dueAt, claimed>>
=============================================================================
