------------------------------ MODULE ReplayLog ------------------------------
(***************************************************************************)
(* What replay.ts accepts as the log of a match before it is replayed: the *)
(* events after a snapshot, in any order, each number once, none left out. *)
(* Whether an event is well-formed and of a known version is a flag here.  *)
(***************************************************************************)
EXTENDS Naturals, Sequences, FiniteSets, SequencesExt

CONSTANTS MaxSeq, MaxEvents   \* bounds: the numbers and the length of logs
VARIABLE logged               \* a log

ASSUME LogBounds == MaxSeq \in Nat /\ MaxEvents \in Nat

\* A log without a snapshot is one after snapshot 0; "at" is the eventSeq of the
\* snapshot's state.  A number of 0 stands for one that is no number.
LogEvents == [seq : 0..MaxSeq, valid : BOOLEAN]
Logs == [snapshot : 0..2, at : 0..2, events : UNION {[1..n -> LogEvents] : n \in 0..MaxEvents}]
ReplayInit == logged \in Logs
ReplaySpec == ReplayInit /\ [][FALSE]_logged

SnapshotIssues(log) ==
  IF log.at = log.snapshot THEN {} ELSE {[code |-> "INVALID_SNAPSHOT", from |-> 0, seq |-> log.snapshot]}

\* By number; events of the same number stay in some order.
Sorted(s) == \A i, j \in DOMAIN s : i < j => s[i].seq <= s[j].seq
Orders(n) == {p \in [1..n -> 1..n] : {p[i] : i \in 1..n} = 1..n}
Rearranged(s, p) == [i \in DOMAIN s |-> s[p[i]]]
Ordered(log) ==
  CHOOSE s \in {Rearranged(log.events, p) : p \in Orders(Len(log.events))} : Sorted(s)

\* The checks of one event; those after it expect the number after its own.
Issue(code, from, e) == [code |-> code, from |-> from, seq |-> e.seq]
Malformed(e) == IF e.seq = 0 \/ ~e.valid THEN {Issue("INVALID_EVENT", 0, e)} ELSE {}
\* Mutant: after a gap the old number is still expected.
Stuck(seen, e) == [seen EXCEPT !.numbers = @ \cup {e.seq},
                               !.expected = IF e.seq = @ THEN @ + 1 ELSE @]
Counted(seen, e) == [seen EXCEPT !.numbers = @ \cup {e.seq}, !.expected = e.seq + 1]
OutOfPlace(first, seen, e) ==
  IF e.seq = seen.expected THEN {}
  ELSE {Issue(IF seen.expected = first THEN "INVALID_SEQUENCE_START" ELSE "MISSING_SEQUENCE",
              seen.expected, e)}
Checked(first, seen, e) ==
  LET told == [seen EXCEPT !.issues = @ \cup Malformed(e)]
  IN  IF e.seq = 0 THEN told
      ELSE IF e.seq \in seen.numbers
           THEN [told EXCEPT !.issues = @ \cup {Issue("DUPLICATE_SEQUENCE", 0, e)}]
           ELSE Counted([told EXCEPT !.issues = @ \cup OutOfPlace(first, seen, e)], e)

ValidateReplayLog(log) ==
  LET first == log.snapshot + 1
  IN  FoldLeft(LAMBDA seen, e : Checked(first, seen, e),
               [expected |-> first, numbers |-> {}, issues |-> SnapshotIssues(log)],
               Ordered(log)).issues

\* replay: the number of the state that comes of it, and what was applied on the
\* way; a log with issues is refused.
Replayed(log) ==
  FoldLeft(LAMBDA s, e : [eventSeq |-> e.seq, inOrder |-> s.inOrder /\ e.seq = s.eventSeq + 1],
           [eventSeq |-> log.at, inOrder |-> TRUE], Ordered(log))

-----------------------------------------------------------------------------
Numbers(log) == {log.events[i].seq : i \in DOMAIN log.events}
Gaps(issues) == {i \in issues : i.code \in {"INVALID_SEQUENCE_START", "MISSING_SEQUENCE"}}

\* A log is accepted exactly when its numbers are those after the snapshot, each
\* once, and its events well-formed.
AcceptedExactly(log, issues) ==
  issues = {} <=>
    /\ log.at = log.snapshot
    /\ Numbers(log) = (log.snapshot + 1) .. (log.snapshot + Len(log.events))
    /\ \A i \in DOMAIN log.events : log.events[i].valid

\* Of a log that starts after its snapshot, every number left out is reported,
\* and none that is there.
GapsTold(log, issues) ==
  LET from == log.snapshot + 1
      till == CHOOSE n \in Numbers(log) : \A k \in Numbers(log) : k <= n
  IN  Numbers(log) # {} /\ (\A n \in Numbers(log) : n >= from) =>
        UNION {i.from .. (i.seq - 1) : i \in Gaps(issues)} = (from .. till) \ Numbers(log)

\* replay.ts tells a faultless log from any other and names what is missing,
\* whatever the order of the events; what it accepts is replayed without a jump.
ReplaysAreWhole ==
  LET issues == ValidateReplayLog(logged)
  IN  /\ AcceptedExactly(logged, issues) /\ GapsTold(logged, issues)
      /\ issues = {} => Replayed(logged).inOrder
=============================================================================
