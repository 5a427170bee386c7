--------------------------- MODULE CommandPipeline ---------------------------
(***************************************************************************)
(* A game command from the player's tab to the durable log and back:       *)
(*                                                                         *)
(*   - SessionController (packages/web/src/session-controller.ts), one per *)
(*     tab: one pending command, retransmitted on every new connection;    *)
(*   - the WebSocket of each connection, FIFO in both directions, which    *)
(*     may break at any time and lose what was in flight;                  *)
(*   - the connection's serialized handler and RoomManager.submitCommand   *)
(*     with its idempotency lookup (packages/server/src);                  *)
(*   - the store's atomic commit of events and command result, which may   *)
(*     fail, and may fail after having taken effect;                       *)
(*   - timer and bot commits, server crashes and restarts.                 *)
(*                                                                         *)
(* Data kept abstract.  The batch of events of one command is one log      *)
(* entry: it is committed, applied, broadcast and acknowledged as a whole. *)
(* Every EVENTS, RESYNC and ROOM_STATE message carries a snapshot, so a    *)
(* message is the sequence number it brings the client to.  Whether the    *)
(* rules accept a command is a free choice.  The room is in game and every *)
(* tab belongs to a seated player.  The room queue is the lock it          *)
(* implements (see RoomQueue), here taken in any order.                    *)
(***************************************************************************)
EXTENDS Integers, Sequences, FiniteSets

CONSTANTS
  Tabs,        \* browser tabs, each with one SessionController
  Users,       \* players
  User,        \* User[tab]: the player whose session the tab holds
  Commands,    \* command payloads, told apart by hashCommandPayload
  None,        \* absence of a value
  MaxSends,    \* bound on the client sequence numbers of a player
  MaxAuto,     \* bound on timer and bot commits
  MaxDrops,    \* bound on the connections lost while the server is up
  MaxCrashes,  \* bound on server crashes
  MaxFailures, \* bound on store errors that left the store unchanged
  MaxUnknown,  \* bound on store errors that came after the commit
  MaxStalls,   \* bound on automation pauses
  MaxLimited   \* bound on commands refused by the rate limiter

Budget == [auto |-> MaxAuto, drop |-> MaxDrops, crash |-> MaxCrashes,
           failure |-> MaxFailures, unknown |-> MaxUnknown, stall |-> MaxStalls,
           limit |-> MaxLimited]

ASSUME UserAssumption == User \in [Tabs -> Users]
ASSUME SendsAssumption == MaxSends \in Nat
ASSUME BudgetAssumption == Budget \in [DOMAIN Budget -> Nat]

Epochs == 1 .. (MaxDrops + MaxCrashes + 1)
Conns == Tabs \X Epochs           \* connection attempts: a tab and its epoch
Automation == <<"auto", 0>>             \* timers and bots, as a writer of the log
Workers == Conns \cup {Automation}
ClientSeqs == 1 .. MaxSends
Keys == Users \X ClientSeqs       \* commandIdempotencyKey, for the one room
AutoKey == <<"auto", 0>>

ASSUME AutoAssumption == /\ None \notin Commands \cup Workers
                         /\ Automation \notin Conns /\ AutoKey \notin Keys

VARIABLES
  log,       \* match_events: the durable log of the match
  results,   \* command_results: the durable verdict of each command
  memLog,    \* room.events
  processed, \* room.processedClientCommands, the cache of results
  paused,    \* room.pausedAt and room.pauseReason
  busy,      \* who holds the room queue
  job,       \* where each connection's handler, and the automation, stands
  joined,    \* socketRegistry: the connections attached to the room
  alive,     \* whether the tab's current connection is open at the server
  up, down,  \* messages in flight, from a connection and to a tab
  tab,       \* the SessionController of each tab
  resume,    \* localStorage of each player's browser
  told,      \* what the player of a tab was told of each command
  left       \* what the environment may still do

storeVars == <<log, results>>
roomVars  == <<memLog, processed, paused>>
connVars  == <<joined, alive, up, down>>
tabVars   == <<tab, resume, told>>
vars == <<storeVars, roomVars, busy, job, connVars, tabVars, left>>

-----------------------------------------------------------------------------
\* Verdicts the store keeps, and refusals it does not keep.
FinalCodes == {"STALE_STATE", "RULE_VIOLATION"}
Codes == FinalCodes \cup {"CLIENT_SEQ_CONFLICT", "ROOM_PAUSED", "RATE_LIMITED",
                          "EVENT_COMMIT_FAILED", "COMMAND_FAILED"}

Pending == [cseq : ClientSeqs, at : Nat, cmd : Commands]
Entry   == [key : Keys \cup {AutoKey}, cmd : Commands \cup {None}, at : Nat]
Acceptance == [ok : {TRUE}, cmd : Commands \cup {None}, seq : Nat, code : {"none"}]
Refusal == [ok : {FALSE}, cmd : Commands, seq : {0}, code : FinalCodes]
Result  == Acceptance \cup Refusal
ASSUME NoneAssumption == None \notin Result \cup Pending

Down == [type : {"ROOM", "EVENTS"}, seq : Nat]
        \cup [type : {"ACK"}, cseq : ClientSeqs, seq : Nat]
        \cup [type : {"REJECTED"}, cseq : ClientSeqs, code : Codes]
Up == [type : {"JOIN", "RESYNC", "CLOSE"}] \cup [type : {"COMMAND"}, cmd : Pending]

Job == [step : {"idle", "syncing", "reject", "commit", "apply", "reply"},
        cmd : Pending \cup {None}, verdict : Result \cup {None}]
Tab == [net : {"offline", "joining", "connected", "synchronizing"}, epoch : Epochs,
        pending : Pending \cup {None}, nextSeq : Nat, lastSeq : Nat, ack : Nat,
        sent : BOOLEAN, resyncing : BOOLEAN]
Saved == [pending : Pending \cup {None}, nextSeq : Nat, lastSeq : Nat]
Told == {None} \cup [cmd : Commands, code : Codes \cup {"confirmed"}]

StoreTypes == log \in Seq(Entry) /\ results \in [Keys -> Result \cup {None}]
RoomTypes == /\ memLog \in Seq(Entry)
             /\ processed \in [Keys -> Result \cup {None}]
             /\ paused \in {"no", "EMPTY_ROOM", "STALLED_AUTOMATION"}
WorkTypes == busy \in Workers \cup {None} /\ job \in [Workers -> Job]
ConnTypes == /\ joined \in [Conns -> BOOLEAN] /\ alive \in [Tabs -> BOOLEAN]
             /\ up \in [Conns -> Seq(Up)] /\ down \in [Tabs -> Seq(Down)]
TabTypes == /\ tab \in [Tabs -> Tab] /\ resume \in [Users -> Saved]
            /\ told \in [Tabs -> [ClientSeqs -> Told]]
TypeOK == /\ StoreTypes /\ RoomTypes /\ WorkTypes /\ ConnTypes /\ TabTypes
          /\ left \in [DOMAIN Budget -> Nat]

IdleJob == [step |-> "idle", cmd |-> None, verdict |-> None]
FreshTab == [net |-> "offline", epoch |-> 1, pending |-> None, nextSeq |-> 1,
             lastSeq |-> 0, ack |-> 0, sent |-> FALSE, resyncing |-> FALSE]

Init ==
  /\ log = <<>> /\ memLog = <<>>
  /\ results = [k \in Keys |-> None] /\ processed = [k \in Keys |-> None]
  /\ paused = "no" /\ busy = None /\ job = [w \in Workers |-> IdleJob]
  /\ joined = [c \in Conns |-> FALSE] /\ alive = [t \in Tabs |-> FALSE]
  /\ up = [c \in Conns |-> <<>>] /\ down = [t \in Tabs |-> <<>>]
  /\ tab = [t \in Tabs |-> FreshTab]
  /\ resume = [u \in Users |-> [pending |-> None, nextSeq |-> 1, lastSeq |-> 0]]
  /\ told = [t \in Tabs |-> [n \in ClientSeqs |-> None]]
  /\ left = Budget

Spend(what) == left[what] > 0 /\ left' = [left EXCEPT ![what] = @ - 1]

-----------------------------------------------------------------------------
(***************************************************************************)
(* The tab: SessionController.                                             *)
(***************************************************************************)
Conn(t) == <<t, tab[t].epoch>>

\* What the tab writes to a socket that the server no longer has is lost.
Transmit(t, messages) ==
  up' = IF alive[t] THEN [up EXCEPT ![Conn(t)] = @ \o messages] ELSE up

Persist(t, s) ==
  resume' = [resume EXCEPT ![User[t]] =
    [pending |-> s.pending, nextSeq |-> s.nextSeq, lastSeq |-> s.lastSeq]]

Commanding(p) == [type |-> "COMMAND", cmd |-> p]

\* resync(): one request at a time.
AskResync(s) == [s EXCEPT !.resyncing = TRUE, !.net = "synchronizing"]
ResyncRequest(s) == IF s.resyncing THEN <<>> ELSE <<[type |-> "RESYNC"]>>

\* A room state or a snapshot that is not behind the tab.
Advance(s, seq) == [s EXCEPT !.lastSeq = seq, !.resyncing = FALSE, !.net = "connected"]

\* A slip: the acknowledgement alone confirms.
CoveredByAck(s) == s.ack # 0

Forget(s) == [s EXCEPT !.pending = None, !.ack = 0, !.sent = FALSE]
Covered(s) == s.ack # 0 /\ s.lastSeq >= s.ack
FinishAck(s) == IF Covered(s) THEN Forget(s) ELSE s
Tell(t, code) ==
  told' = [told EXCEPT ![t][tab[t].pending.cseq] = [cmd |-> tab[t].pending.cmd, code |-> code]]
TellIfCovered(t, s) == IF Covered(s) THEN Tell(t, "confirmed") ELSE told' = told

\* attempt() and onOpen: a new socket, and JOIN_ROOM as its first message.
Connect(t) ==
  /\ tab[t].net = "offline"
  /\ tab' = [tab EXCEPT ![t].net = "joining"]
  /\ alive' = [alive EXCEPT ![t] = TRUE]
  /\ up' = [up EXCEPT ![Conn(t)] = <<[type |-> "JOIN"]>>]
  /\ UNCHANGED <<storeVars, roomVars, busy, job, joined, down, resume, told, left>>

\* send(): the command is stored before it is transmitted.
SendCommand(t, cmd) ==
  /\ tab[t].net = "connected" /\ tab[t].pending = None /\ tab[t].nextSeq \in ClientSeqs
  /\ LET p == [cseq |-> tab[t].nextSeq, at |-> tab[t].lastSeq, cmd |-> cmd]
         s == [tab[t] EXCEPT !.pending = p, !.nextSeq = @ + 1, !.ack = 0, !.sent = TRUE]
     IN /\ tab' = [tab EXCEPT ![t] = s]
        /\ Persist(t, s)
        /\ Transmit(t, <<Commanding(p)>>)
  /\ UNCHANGED <<storeVars, roomVars, busy, job, joined, alive, down, told, left>>

Receive(t, type) ==
  /\ down[t] # <<>> /\ Head(down[t]).type = type
  /\ down' = [down EXCEPT ![t] = Tail(@)]
  /\ UNCHANGED <<storeVars, roomVars, busy, job, joined, alive, left>>

\* A slip: the command is only ever sent once.
NeverOwes(s) == FALSE
\* transmitPending(): an unacknowledged command is sent once per connection.
Owes(s) == s.pending # None /\ s.ack = 0 /\ ~s.sent

\* onRoom: finish an acknowledged command or catch up with it; retransmit an
\* unacknowledged one.  (A room state behind the tab would be answered with
\* RESYNC: RoomNeverOld shows none ever is.)
OnRoom(t) ==
  /\ Receive(t, "ROOM") /\ Head(down[t]).seq >= tab[t].lastSeq
  /\ LET a == Advance(tab[t], Head(down[t]).seq)
         f == FinishAck(a)
     IN /\ tab' = [tab EXCEPT ![t] =
                     [IF f.ack # 0 THEN AskResync(f) ELSE f EXCEPT !.sent = @ \/ Owes(f)]]
        /\ Transmit(t, (IF f.ack # 0 THEN ResyncRequest(f) ELSE <<>>)
                       \o (IF Owes(f) THEN <<Commanding(f.pending)>> ELSE <<>>))
        /\ Persist(t, f)
        /\ TellIfCovered(t, a)

\* A slip: every snapshot is shown.
UsableAlways(s, seq) == TRUE
\* reconcileServerUpdate: a snapshot behind the tab is not used.
Usable(s, seq) == seq >= s.lastSeq

\* onEvents, for EVENTS and RESYNC alike.
OnEvents(t) ==
  /\ Receive(t, "EVENTS")
  /\ LET seq == Head(down[t]).seq
         a == IF Usable(tab[t], seq) THEN Advance(tab[t], seq) ELSE tab[t]
     IN /\ tab' = [tab EXCEPT ![t] = FinishAck(a)]
        /\ Persist(t, FinishAck(a))
        /\ TellIfCovered(t, a)
  /\ UNCHANGED up

\* Other answers would be ignored: AnswersAwaited shows there are none.
AboutPending(t) == tab[t].pending # None /\ Head(down[t]).cseq = tab[t].pending.cseq

\* onAck: the command is confirmed once the tab has caught up with its events.
OnAck(t) ==
  /\ Receive(t, "ACK") /\ AboutPending(t)
  /\ LET a == [tab[t] EXCEPT !.ack = Head(down[t]).seq]
     IN /\ tab' = [tab EXCEPT ![t] = IF Covered(a) THEN Forget(a) ELSE AskResync(a)]
        /\ IF Covered(a) THEN Persist(t, Forget(a)) /\ UNCHANGED up
                         ELSE Transmit(t, ResyncRequest(a)) /\ UNCHANGED resume
        /\ TellIfCovered(t, a)

\* onError with COMMAND_REJECTED for the pending command: it is given up.
OnRejected(t) ==
  /\ Receive(t, "REJECTED") /\ AboutPending(t)
  /\ tab' = [tab EXCEPT ![t] = AskResync(Forget(@))]
  /\ Persist(t, Forget(tab[t]))
  /\ Transmit(t, ResyncRequest(tab[t]))
  /\ Tell(t, Head(down[t]).code)

\* disconnect(): everything still coming is dropped with the old epoch.
Disconnected(s) ==
  [s EXCEPT !.net = "offline", !.epoch = @ + 1, !.sent = FALSE, !.resyncing = FALSE]

\* The server stops hearing the tab after some prefix of what it sent, then
\* sees the socket close.
CutOff(t, n) ==
  up' = IF alive[t]
        THEN [up EXCEPT ![Conn(t)] = SubSeq(@, 1, n) \o <<[type |-> "CLOSE"]>>]
        ELSE up

HangUp(t, s) ==
  /\ tab' = [tab EXCEPT ![t] = Disconnected(s)]
  /\ alive' = [alive EXCEPT ![t] = FALSE]
  /\ down' = [down EXCEPT ![t] = <<>>]
  /\ UNCHANGED <<storeVars, roomVars, busy, job, joined, resume, told>>

\* schedule(), suspend or offline: the tab gives the connection up.
Drop(t) ==
  /\ tab[t].net # "offline" /\ Spend("drop")
  /\ \E n \in 0 .. Len(up[Conn(t)]) : CutOff(t, n)
  /\ HangUp(t, tab[t])

\* The page is reloaded: the session restarts from localStorage.
Reload(t) ==
  /\ tab[t].net # "offline" /\ Spend("drop")
  /\ \E n \in 0 .. Len(up[Conn(t)]) : CutOff(t, n)
  /\ LET r == resume[User[t]]
     IN HangUp(t, [tab[t] EXCEPT !.pending = r.pending, !.nextSeq = r.nextSeq,
                                 !.lastSeq = r.lastSeq, !.ack = 0])

\* onClose: the tab learns that the server is gone.
DetectClose(t) ==
  /\ tab[t].net # "offline" /\ ~alive[t]
  /\ HangUp(t, tab[t])
  /\ UNCHANGED <<up, left>>

-----------------------------------------------------------------------------
(***************************************************************************)
(* The server: the serialized handler of each connection.                  *)
(***************************************************************************)
Key(c, p) == <<User[c[1]], p.cseq>>

\* A slip: answers to an old connection reach the new one.
SendToTab(c, m) ==
  down' = IF alive[c[1]] THEN [down EXCEPT ![c[1]] = Append(@, m)] ELSE down
\* To one connection; what is sent to one the tab has given up is lost.
SendTo(c, m) ==
  down' = IF c = Conn(c[1]) /\ alive[c[1]] THEN [down EXCEPT ![c[1]] = Append(@, m)] ELSE down

Reject(c, p, code) ==
  SendTo(c, [type |-> "REJECTED", cseq |-> p.cseq, code |-> code])

\* To every connection attached to the room.
Broadcast(attached, m) ==
  [t \in Tabs |-> IF attached[Conn(t)] /\ alive[t] THEN Append(down[t], m) ELSE down[t]]

RoomState == [type |-> "ROOM", seq |-> Len(memLog)]

\* The handler takes the next message of its connection.
Take(c, type) ==
  /\ job[c].step = "idle" /\ up[c] # <<>> /\ Head(up[c]).type = type
  /\ up' = [up EXCEPT ![c] = Tail(@)]

\* A COMMAND waits for the room's queue.
Asked(c) == Head(up[c]).cmd
TakeInTurn(c) == Take(c, "COMMAND") /\ busy = None

\* JOIN_ROOM of a seated player: attach, resume a room paused because empty
\* (resumeRoomIfNeeded; an automation pause stays), broadcast the room state.
Join(c) ==
  /\ Take(c, "JOIN") /\ busy = None
  /\ joined' = [joined EXCEPT ![c] = TRUE]
  /\ paused' = IF paused = "EMPTY_ROOM" THEN "no" ELSE paused
  /\ down' = Broadcast(joined', RoomState)
  /\ job' = [job EXCEPT ![c].step = "syncing"]
  /\ UNCHANGED <<storeVars, memLog, processed, busy, alive, tabVars, left>>

\* Then the presence store answers, syncConnections runs in the room's queue
\* and the room state is broadcast again.
SyncJoined(c) ==
  /\ job[c].step = "syncing" /\ busy = None
  /\ down' = Broadcast(joined, RoomState)
  /\ job' = [job EXCEPT ![c] = IdleJob]
  /\ UNCHANGED <<storeVars, roomVars, busy, joined, alive, up, tabVars, left>>

Resync(c) ==
  /\ Take(c, "RESYNC")
  /\ SendTo(c, [type |-> "EVENTS", seq |-> Len(memLog)])
  /\ UNCHANGED <<storeVars, roomVars, busy, job, joined, alive, tabVars, left>>

\* The socket closed: detach; the room pauses when its last player is gone.
Close(c) ==
  /\ Take(c, "CLOSE") /\ busy = None
  /\ joined' = [joined EXCEPT ![c] = FALSE]
  /\ paused' = IF paused = "no" /\ joined[c] /\ \A d \in Conns : ~joined'[d]
               THEN "EMPTY_ROOM" ELSE paused
  /\ down' = IF joined[c] THEN Broadcast(joined', RoomState) ELSE down
  /\ UNCHANGED <<storeVars, memLog, processed, busy, job, alive, tabVars, left>>

\* withinNamedLimit refuses the command before the room sees it.
RefuseLimited(c) ==
  /\ Take(c, "COMMAND") /\ Spend("limit")
  /\ Reject(c, Asked(c), "RATE_LIMITED")
  /\ UNCHANGED <<storeVars, roomVars, busy, job, joined, alive, tabVars>>

\* submitCommandNow, in the order of the code: a paused room refuses everything,
RefusePaused(c) ==
  /\ TakeInTurn(c) /\ paused # "no"
  /\ Reject(c, Asked(c), "ROOM_PAUSED")
  /\ UNCHANGED <<storeVars, roomVars, busy, job, joined, alive, tabVars, left>>

\* a verdict already given is looked up in the cache, then in the store,
\* (two slips: only the cache is asked; nothing is asked)
VerdictInMemory(k) == processed[k]
VerdictForgotten(k) == None
Verdict(k) == IF processed[k] # None THEN processed[k] ELSE results[k]

\* (a slip: the payload is not compared)
AnyPayload(v, p) == TRUE
SamePayload(v, p) == v.cmd = p.cmd

\* and given again, unless it was about another payload,
Replay(c) ==
  /\ TakeInTurn(c) /\ paused = "no"
  /\ LET p == Asked(c)
         k == Key(c, p)
         v == Verdict(k)
     IN /\ v # None
        /\ processed' = [processed EXCEPT ![k] = v]
        /\ IF ~SamePayload(v, p) THEN Reject(c, p, "CLIENT_SEQ_CONFLICT")
           ELSE IF ~v.ok THEN Reject(c, p, v.code)
           ELSE SendTo(c, [type |-> "ACK", cseq |-> p.cseq, seq |-> v.seq])
  /\ UNCHANGED <<storeVars, memLog, paused, busy, job, joined, alive, tabVars, left>>

Fresh(c) ==
  TakeInTurn(c) /\ paused = "no" /\ Verdict(Key(c, Asked(c))) = None
NeverStale(p) == FALSE            \* a slip
Stale(p) == p.at # Len(memLog)

\* a command the player issued looking at another board is turned down, as is
\* one the rules do not allow: the verdict is cached, then stored,
Decline(c) ==
  /\ Fresh(c)
  /\ LET p == Asked(c)
         code == IF Stale(p) THEN "STALE_STATE" ELSE "RULE_VIOLATION"
         v == [ok |-> FALSE, cmd |-> p.cmd, seq |-> 0, code |-> code]
     IN /\ processed' = [processed EXCEPT ![Key(c, p)] = v]
        /\ job' = [job EXCEPT ![c] = [step |-> "reject", cmd |-> p, verdict |-> v]]
  /\ busy' = c
  /\ UNCHANGED <<storeVars, memLog, paused, joined, alive, down, tabVars, left>>

\* and one they allow goes to the store with its events.
AcceptedWithoutSeq(cmd) == [ok |-> TRUE, cmd |-> cmd, seq |-> None, code |-> "none"] \* a slip
Accepted(cmd) == [ok |-> TRUE, cmd |-> cmd, seq |-> Len(memLog) + 1, code |-> "none"]
StartCommit(w, p, cmd) ==
  /\ job' = [job EXCEPT ![w] = [step |-> "commit", cmd |-> p, verdict |-> Accepted(cmd)]]
  /\ busy' = w
  /\ UNCHANGED <<storeVars, roomVars>>
\* (a slip: neither an earlier verdict nor the table is checked)
AcceptUnchecked(c) ==
  /\ TakeInTurn(c) /\ paused = "no"
  /\ StartCommit(c, Asked(c), Asked(c).cmd)
  /\ UNCHANGED <<joined, alive, down, tabVars, left>>
Accept(c) ==
  /\ Fresh(c) /\ ~Stale(Asked(c))
  /\ StartCommit(c, Asked(c), Asked(c).cmd)
  /\ UNCHANGED <<joined, alive, down, tabVars, left>>

\* A due timer or bot move: commitAcceptedEvents without a command result.
StartAuto ==
  /\ busy = None /\ job[Automation].step = "idle" /\ paused = "no" /\ Spend("auto")
  /\ StartCommit(Automation, None, None)
  /\ UNCHANGED <<connVars, tabVars>>

-----------------------------------------------------------------------------
(***************************************************************************)
(* The store answers the worker that holds the room.                       *)
(***************************************************************************)
Done(w) == job' = [job EXCEPT ![w] = IdleJob] /\ busy' = None

StoreResult(c) == results' = [results EXCEPT ![Key(c, job[c].cmd)] = job[c].verdict]

\* persistCommandResult succeeded: the rejection is final.
PersistVerdict(c) ==
  /\ job[c].step = "reject"
  /\ StoreResult(c)
  /\ Reject(c, job[c].cmd, job[c].verdict.code)
  /\ Done(c)
  /\ UNCHANGED <<log, roomVars, joined, alive, up, tabVars, left>>

\* It threw, before or after the row was written: the cache forgets it.
DropFromCache(k) == [processed EXCEPT ![k] = None]
PersistVerdictFails(c) ==
  /\ job[c].step = "reject"
  /\ \/ Spend("failure") /\ UNCHANGED results
     \/ Spend("unknown") /\ StoreResult(c)
  /\ processed' = DropFromCache(Key(c, job[c].cmd))
  /\ Reject(c, job[c].cmd, "COMMAND_FAILED")
  /\ Done(c)
  /\ UNCHANGED <<log, memLog, paused, joined, alive, up, tabVars>>

LogEntry(w) ==
  IF w = Automation THEN [key |-> AutoKey, cmd |-> None, at |-> job[w].verdict.seq - 1]
  ELSE [key |-> Key(w, job[w].cmd), cmd |-> job[w].cmd.cmd, at |-> job[w].cmd.at]

\* The primary key of match_events refuses a sequence number already taken.
SlotUnchecked(w) == TRUE          \* a slip
SlotFree(w) == job[w].verdict.seq = Len(log) + 1

\* Two slips: the result is left for later; the events are.
StoreEventsOnly(w) == log' = Append(log, LogEntry(w)) /\ UNCHANGED results
StoreResultOnly(w) == UNCHANGED log /\ IF w = Automation THEN UNCHANGED results ELSE StoreResult(w)
\* One transaction: the events and the command result.
StoreEvents(w) ==
  /\ log' = Append(log, LogEntry(w))
  /\ IF w = Automation THEN UNCHANGED results ELSE StoreResult(w)

Commit(w) ==
  /\ job[w].step = "commit" /\ SlotFree(w)
  /\ StoreEvents(w)
  /\ job' = [job EXCEPT ![w].step = "apply"]
  /\ UNCHANGED <<roomVars, busy, connVars, tabVars, left>>

\* The commit threw, before or after it took effect: EVENT_COMMIT_FAILED, and
\* nothing changes in memory.
CommitFails(w) ==
  /\ job[w].step = "commit"
  /\ \/ ~SlotFree(w) /\ UNCHANGED <<storeVars, left>>
     \/ Spend("failure") /\ UNCHANGED storeVars
     \/ SlotFree(w) /\ Spend("unknown") /\ StoreEvents(w)
  /\ IF w = Automation THEN UNCHANGED down ELSE Reject(w, job[w].cmd, "EVENT_COMMIT_FAILED")
  /\ Done(w)
  /\ UNCHANGED <<roomVars, joined, alive, up, tabVars>>

\* The rest of commitAcceptedEvents: the events and the verdict reach memory.
Apply(w) ==
  /\ job[w].step = "apply"
  /\ memLog' = Append(memLog, LogEntry(w))
  /\ processed' = IF w = Automation THEN processed
                  ELSE [processed EXCEPT ![Key(w, job[w].cmd)] = job[w].verdict]
  /\ job' = [job EXCEPT ![w].step = "reply"]
  /\ busy' = None
  /\ UNCHANGED <<storeVars, paused, connVars, tabVars, left>>

\* broadcastAcceptedCommand, then the acknowledgement to the connection.
Reply(w) ==
  /\ job[w].step = "reply"
  /\ LET events == Broadcast(joined, [type |-> "EVENTS", seq |-> job[w].verdict.seq])
     IN down' = IF w # Automation /\ w = Conn(w[1]) /\ alive[w[1]]
                THEN [events EXCEPT ![w[1]] = Append(@,
                       [type |-> "ACK", cseq |-> job[w].cmd.cseq, seq |-> job[w].verdict.seq])]
                ELSE events
  /\ job' = [job EXCEPT ![w] = IdleJob]
  /\ UNCHANGED <<storeVars, roomVars, busy, joined, alive, up, tabVars, left>>

\* guardAutomationProgress or the automation budget gives up on the room.
Stall ==
  /\ busy = None /\ job[Automation].step = "idle" /\ paused = "no" /\ Spend("stall")
  /\ paused' = "STALLED_AUTOMATION"
  /\ UNCHANGED <<storeVars, memLog, processed, busy, job, connVars, tabVars>>

\* A slip: the last snapshot is loaded without the events after it.
HydratedFromSnapshot == SubSeq(log, 1, Len(log) - 1)
Hydrated == log

\* The process dies and hydrateFromStore rebuilds the room: the log becomes the
\* memory, the cache of verdicts starts empty, no connection is left.
Crash ==
  /\ Spend("crash")
  /\ memLog' = Hydrated
  /\ processed' = [k \in Keys |-> None]
  /\ busy' = None /\ job' = [w \in Workers |-> IdleJob]
  /\ joined' = [c \in Conns |-> FALSE] /\ alive' = [t \in Tabs |-> FALSE]
  /\ up' = [c \in Conns |-> <<>>]
  /\ UNCHANGED <<storeVars, paused, down, tabVars>>

-----------------------------------------------------------------------------
TabStep(t) == \/ Connect(t) \/ DetectClose(t)
              \/ OnRoom(t) \/ OnEvents(t) \/ OnAck(t) \/ OnRejected(t)

HandlerStep(c) == \/ Join(c) \/ SyncJoined(c) \/ Resync(c) \/ Close(c)
                  \/ RefusePaused(c) \/ Replay(c) \/ Decline(c) \/ Accept(c)
                  \/ PersistVerdict(c)

WorkerStep(w) == Commit(w) \/ CommitFails(w) \/ Apply(w) \/ Reply(w)

Fault == \/ \E t \in Tabs : Drop(t) \/ Reload(t)
         \/ \E c \in Conns : RefuseLimited(c) \/ PersistVerdictFails(c)
         \/ Stall \/ Crash

Next == \/ \E t \in Tabs : TabStep(t)
        \/ \E t \in Tabs, cmd \in Commands : SendCommand(t, cmd)
        \/ \E c \in Conns : HandlerStep(c)
        \/ \E w \in Workers : WorkerStep(w)
        \/ StartAuto
        \/ Fault

Spec == Init /\ [][Next]_vars

\* The tab reacts to its socket, each handler and each commit in progress goes
\* on.  Players, timers, bots and faults owe nothing.
Fairness == /\ \A t \in Tabs : WF_vars(TabStep(t))
            /\ \A c \in Conns : WF_vars(HandlerStep(c))
            /\ \A w \in Workers : WF_vars(WorkerStep(w))
LiveSpec == Spec /\ Fairness

-----------------------------------------------------------------------------
(***************************************************************************)
(* Properties.                                                             *)
(***************************************************************************)
\* However often a command is retransmitted, across reconnections and crashes,
\* its events are in the log at most once.
AtMostOnce ==
  \A i, j \in 1 .. Len(log) : log[i].key = log[j].key /\ log[i].key # AutoKey => i = j

\* The stored verdicts and the log tell the same story: a command is stored as
\* accepted exactly when the log holds it, at the sequence number and with the
\* payload the verdict names.
Names(k, i) == /\ results[k] # None /\ results[k].ok
               /\ results[k].seq = i /\ results[k].cmd = log[i].cmd
ResultsMatchLog ==
  /\ \A i \in 1 .. Len(log) : log[i].key # AutoKey => Names(log[i].key, i)
  /\ \A k \in Keys : results[k] # None /\ results[k].ok =>
       results[k].seq \in 1 .. Len(log) /\ log[results[k].seq].key = k

\* The room in memory is never ahead of the log nor beside it, whatever errors
\* the store returned: what is broadcast is durable.
MemoryFollowsLog ==
  Len(memLog) <= Len(log) /\ memLog = SubSeq(log, 1, Len(memLog))

\* The lookup under the room's lock makes the store's COMMAND_RESULT_CONFLICT
\* impossible for a single owner: no verdict exists for what is being stored.
\* (Its branches in submitCommandNow and commitAcceptedEvents are for a second
\* owner and are not modelled.)
StoreNeverConflicts ==
  \A c \in Conns : job[c].step \in {"commit", "reject"} => results[Key(c, job[c].cmd)] = None

\* The cache never gives a verdict the store does not hold, except the
\* rejection that is being stored.
CacheAgrees ==
  \A k \in Keys : processed[k] \in {None, results[k]}
    \/ \E c \in Conns : job[c].step = "reject" /\ Key(c, job[c].cmd) = k

\* Log, stored verdicts, cache and requests in progress never contradict one
\* another about a command.
VerdictsAgree == ResultsMatchLog /\ StoreNeverConflicts /\ CacheAgrees

\* A command takes effect only on the table its player was looking at.
ExecutedAtSeen == \A i \in 1 .. Len(log) : log[i].at = i - 1

\* No tab shows events that a crash could still take back.
TabsShowDurable ==
  \A t \in Tabs : /\ tab[t].lastSeq <= Len(log)
                  /\ \A i \in 1 .. Len(down[t]) :
                       down[t][i].type \in {"ROOM", "EVENTS"} => down[t][i].seq <= Len(log)

\* A command confirmed to its player is in the log for good, as he asked it.
ConfirmedIsDurable ==
  \A t \in Tabs, n \in ClientSeqs :
    told[t][n] # None /\ told[t][n].code = "confirmed" =>
      LET r == results[<<User[t], n>>] IN r # None /\ r.ok /\ r.cmd = told[t][n].cmd

\* No room state is behind the tab it comes to, so none makes it ask for another.
RoomNeverOld ==
  \A t \in Tabs : \A i \in 1 .. Len(down[t]) :
    down[t][i].type = "ROOM" => down[t][i].seq >= tab[t].lastSeq

\* Every answer on its way is about the command its tab still waits for, and
\* there is one at most: no retransmission is answered twice.
AnswersAwaited ==
  \A t \in Tabs :
    LET answers == {i \in 1 .. Len(down[t]) : down[t][i].type \in {"ACK", "REJECTED"}}
    IN /\ \A i \in answers : /\ tab[t].pending # None /\ tab[t].ack = 0
                             /\ down[t][i].cseq = tab[t].pending.cseq
       /\ Cardinality(answers) <= 1

\* A tab confirms a command only when it shows the table the command produced:
\* the acknowledgement alone is not enough (finishAck).
ConfirmedIsShown ==
  \A t \in Tabs, n \in ClientSeqs :
    told[t][n] # None /\ told[t][n].code = "confirmed" =>
      tab[t].lastSeq >= results[<<User[t], n>>].seq

\* A command its player was told is stale or against the rules is never in the
\* log, then or later.
RejectedNeverExecutes ==
  \A t \in Tabs, n \in ClientSeqs :
    told[t][n] # None /\ told[t][n].code \in FinalCodes =>
      \A i \in 1 .. Len(log) : log[i].key # <<User[t], n>>

\* What a tab shows, expects and has been told is true of what is durable,
\* whatever was lost, delayed or repeated on its way.
TabsTrue == TabsShowDurable /\ RoomNeverOld /\ AnswersAwaited /\ ConfirmedIsShown

\* What a player was told of a command, two tabs with one set of numbers or
\* not, is what became of that player's own command.
VerdictsKept == ConfirmedIsDurable /\ RejectedNeverExecutes

\* The table a tab shows never goes back, not even across a reload or a crash.
TableNeverGoesBack == [][\A t \in Tabs : tab'[t].lastSeq >= tab[t].lastSeq]_vars

\* The retry of a command that was accepted is never answered with a refusal,
\* however late it comes.  (A player with one tab gives a number to one command
\* only, so the number stands for the payload.)
Refuses(t, n) ==
  Len(down'[t]) > Len(down[t]) /\ LET m == down'[t][Len(down'[t])]
                                  IN m.type = "REJECTED" /\ m.cseq = n
WasAccepted(k) == results[k] # None /\ results[k].ok
RetryNeverRefused ==
  [][\A t \in Tabs, n \in ClientSeqs : Refuses(t, n) => ~WasAccepted(<<User[t], n>>)]_vars

\* The room's store and the players, as the abstract ledger: what is durable,
\* and what each player was told.
Ledger == INSTANCE CommandLedger WITH
  ledger <- log, verdicts <- results, MomentaryCodes <- Codes \ FinalCodes

\* The whole pipeline, with its retries, crashes and caches, behaves like the
\* ledger: one verdict per command, recorded together with its effect, and
\* players told of verdicts only once they are recorded.
ImplementsLedger == Ledger!Spec

\* Every command is eventually settled for its player.
CommandsSettle == \A t \in Tabs : tab[t].pending # None ~> tab[t].pending = None
=============================================================================
