----------------------------- MODULE CommandLedger -----------------------------
(***************************************************************************)
(* What the command pipeline promises, without connections, retries, locks *)
(* or caches: a ledger of executed commands, one verdict per command, and  *)
(* players who are told of a verdict only once it is recorded.  A player   *)
(* may also be refused for the moment; that says nothing of the verdict.   *)
(***************************************************************************)
EXTENDS Naturals, Sequences

CONSTANTS Tabs, User, ClientSeqs, Keys, Commands, FinalCodes, MomentaryCodes, AutoKey, None

VARIABLES ledger,   \* the commands executed and the automatic moves, in order
          verdicts, \* verdicts[k]: None, or what became of command k
          told      \* told[t][n]: what the player of tab t was told of his n-th command

vars == <<ledger, verdicts, told>>

Accepted(cmd, seq)  == [ok |-> TRUE, cmd |-> cmd, seq |-> seq, code |-> "none"]
Rejected(cmd, code) == [ok |-> FALSE, cmd |-> cmd, seq |-> 0, code |-> code]

Init == /\ ledger = <<>>
        /\ verdicts = [k \in Keys |-> None]
        /\ told = [t \in Tabs |-> [n \in ClientSeqs |-> None]]

\* A command issued on the present table is executed and recorded at once.
Execute(k, cmd) ==
  /\ verdicts[k] = None
  /\ ledger' = Append(ledger, [key |-> k, cmd |-> cmd, at |-> Len(ledger)])
  /\ verdicts' = [verdicts EXCEPT ![k] = Accepted(cmd, Len(ledger) + 1)]
  /\ UNCHANGED told

Automate ==
  /\ ledger' = Append(ledger, [key |-> AutoKey, cmd |-> None, at |-> Len(ledger)])
  /\ UNCHANGED <<verdicts, told>>

Refuse(k, cmd, code) ==
  /\ verdicts[k] = None
  /\ verdicts' = [verdicts EXCEPT ![k] = Rejected(cmd, code)]
  /\ UNCHANGED <<ledger, told>>

\* The player learns the recorded verdict of what he asked for.
TellVerdict(t, n) ==
  LET v == verdicts[<<User[t], n>>]
  IN /\ v # None
     /\ told' = [told EXCEPT ![t][n] =
                   [cmd |-> v.cmd, code |-> IF v.ok THEN "confirmed" ELSE v.code]]
     /\ UNCHANGED <<ledger, verdicts>>

TellMomentary(t, n, cmd, code) ==
  /\ told' = [told EXCEPT ![t][n] = [cmd |-> cmd, code |-> code]]
  /\ UNCHANGED <<ledger, verdicts>>

Next == \/ \E k \in Keys, cmd \in Commands :
             Execute(k, cmd) \/ \E code \in FinalCodes : Refuse(k, cmd, code)
        \/ Automate
        \/ \E t \in Tabs, n \in ClientSeqs :
             \/ TellVerdict(t, n)
             \/ \E cmd \in Commands, code \in MomentaryCodes : TellMomentary(t, n, cmd, code)

Spec == Init /\ [][Next]_vars
=============================================================================
