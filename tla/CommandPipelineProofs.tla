------------------------ MODULE CommandPipelineProofs ------------------------
(***************************************************************************)
(* CommandPipeline for every number of tabs, players, commands and faults: *)
(* its types, then its durable log, with every command in it at most once, *)
(* on the table its player saw, with the verdict that was stored, and the  *)
(* room in memory always a prefix of it.                                   *)
(***************************************************************************)
EXTENDS CommandPipeline, SequenceTheorems, TLAPS

\* What a worker carries at each step of its work.
JobShape ==
  \A w \in Workers :
    /\ job[w].step = "reject" =>
         /\ w \in Conns /\ job[w].cmd \in Pending /\ job[w].verdict \in Refusal
         /\ job[w].verdict.cmd = job[w].cmd.cmd
    /\ job[w].step \in {"commit", "apply", "reply"} =>
         /\ job[w].verdict \in Acceptance /\ job[w].verdict.seq # 0
         /\ w \in Conns => job[w].cmd \in Pending /\ job[w].verdict.cmd = job[w].cmd.cmd

\* An acknowledgement is kept only with the command it is about.
AckShape == \A t \in Tabs : tab[t].ack # 0 => tab[t].pending \in Pending

Typed == TypeOK /\ JobShape /\ AckShape

-----------------------------------------------------------------------------
\* Facts about the constants and the shapes of messages.

LEMMA ConnFacts ==
  /\ \A c \in Conns : c[1] \in Tabs /\ c \in Workers
  /\ \A t \in Tabs : User[t] \in Users
  /\ Automation \in Workers /\ None \notin Workers
  /\ \A w \in Workers : w # Automation => w \in Conns
  /\ \A c \in Conns, p \in Pending : Key(c, p) \in Keys
  /\ ClientSeqs \subseteq Nat
BY UserAssumption, AutoAssumption, SendsAssumption
   DEF Conns, Workers, Keys, Key, Pending, ClientSeqs

LEMMA MessageFacts ==
  /\ \A n \in Nat : [type |-> "ROOM", seq |-> n] \in Down /\ [type |-> "EVENTS", seq |-> n] \in Down
  /\ \A n \in Nat, q \in ClientSeqs : [type |-> "ACK", cseq |-> q, seq |-> n] \in Down
  /\ \A q \in ClientSeqs, code \in Codes : [type |-> "REJECTED", cseq |-> q, code |-> code] \in Down
  /\ [type |-> "JOIN"] \in Up /\ [type |-> "RESYNC"] \in Up /\ [type |-> "CLOSE"] \in Up
  /\ \A p \in Pending : [type |-> "COMMAND", cmd |-> p] \in Up
  /\ \A m \in Up : m.type = "COMMAND" => m.cmd \in Pending
  /\ \A m \in Down : m.type \in {"ROOM", "EVENTS", "ACK"} => m.seq \in Nat
  /\ \A m \in Down : m.type = "REJECTED" => m.code \in Codes
BY DEF Down, Up

\* The queues the sending operators leave hold messages.
LEMMA SendToTyped ==
  ASSUME ConnTypes, NEW c \in Conns, NEW m \in Down, SendTo(c, m)
  PROVE  down' \in [Tabs -> Seq(Down)]
BY ConnFacts DEF ConnTypes, SendTo

LEMMA RejectTyped ==
  ASSUME ConnTypes, NEW c \in Conns, NEW p \in Pending, NEW code \in Codes, Reject(c, p, code)
  PROVE  down' \in [Tabs -> Seq(Down)]
BY SendToTyped, MessageFacts DEF Reject, Pending

LEMMA BroadcastTyped ==
  ASSUME ConnTypes, NEW m \in Down, NEW attached
  PROVE  Broadcast(attached, m) \in [Tabs -> Seq(Down)]
BY DEF ConnTypes, Broadcast

LEMMA TakeTyped ==
  ASSUME ConnTypes, NEW c \in Conns, NEW type, Take(c, type)
  PROVE  /\ up' \in [Conns -> Seq(Up)]
         /\ type = "COMMAND" => Asked(c) \in Pending
BY MessageFacts DEF ConnTypes, Take, Asked

LEMMA TransmitTyped ==
  ASSUME ConnTypes, TabTypes, NEW t \in Tabs, NEW messages \in Seq(Up), Transmit(t, messages)
  PROVE  up' \in [Conns -> Seq(Up)]
BY DEF ConnTypes, TabTypes, Transmit, Conn, Conns, Tab

LEMMA PersistTyped ==
  ASSUME TabTypes, NEW t \in Tabs, NEW s \in Tab, Persist(t, s)
  PROVE  resume' \in [Users -> Saved]
BY ConnFacts DEF TabTypes, Persist, Tab, Saved

LEMMA TellTyped ==
  ASSUME TabTypes, NEW t \in Tabs, tab[t].pending \in Pending,
         NEW code \in Codes \cup {"confirmed"}, Tell(t, code)
  PROVE  told' \in [Tabs -> [ClientSeqs -> Told]]
BY DEF TabTypes, Tell, Told, Pending

\* The tab's own steps yield tabs.
LEMMA TabFacts ==
  ASSUME NEW s \in Tab
  PROVE  /\ AskResync(s) \in Tab /\ Forget(s) \in Tab /\ FinishAck(s) \in Tab
         /\ \A n \in Nat : Advance(s, n) \in Tab
BY DEF Tab, AskResync, Forget, FinishAck, Advance

-----------------------------------------------------------------------------
LEMMA InitTyped == Init => Typed
<1> SUFFICES ASSUME Init PROVE Typed
  OBVIOUS
<1>1. StoreTypes /\ RoomTypes
  BY DEF Init, StoreTypes, RoomTypes
<1>2. WorkTypes
  BY DEF Init, WorkTypes, IdleJob, Job
<1>3. ConnTypes
  BY DEF Init, ConnTypes
<1>4. TabTypes
  <2>1. FreshTab \in Tab
    BY BudgetAssumption DEF FreshTab, Tab, Epochs, Budget
  <2>2. [pending |-> None, nextSeq |-> 1, lastSeq |-> 0] \in Saved
    BY DEF Saved
  <2> QED
    BY <2>1, <2>2 DEF Init, TabTypes, Told
<1>5. left \in [DOMAIN Budget -> Nat]
  BY BudgetAssumption DEF Init
<1>6. JobShape /\ AckShape
  BY DEF Init, JobShape, IdleJob, AckShape, FreshTab
<1> QED
  BY <1>1, <1>2, <1>3, <1>4, <1>5, <1>6 DEF Typed, TypeOK

-----------------------------------------------------------------------------
\* What stays as it is keeps its type.
LEMMA SameWork ==
  ASSUME WorkTypes, JobShape, UNCHANGED <<busy, job>> PROVE WorkTypes' /\ JobShape'
BY DEF WorkTypes, JobShape

LEMMA SameServer ==
  ASSUME Typed, UNCHANGED <<storeVars, roomVars, busy, job>>
  PROVE  StoreTypes' /\ RoomTypes' /\ WorkTypes' /\ JobShape'
BY SameWork DEF Typed, TypeOK, storeVars, roomVars, StoreTypes, RoomTypes

LEMMA SameTabs ==
  ASSUME TabTypes, AckShape, UNCHANGED tabVars PROVE TabTypes' /\ AckShape'
BY DEF tabVars, TabTypes, AckShape

LEMMA SpendTyped ==
  ASSUME left \in [DOMAIN Budget -> Nat], NEW what \in DOMAIN Budget, Spend(what)
  PROVE  left' \in [DOMAIN Budget -> Nat]
BY DEF Spend

\* A worker that becomes idle, and one that goes on to its next step.
LEMMA IdleTyped ==
  ASSUME Typed, NEW w \in Workers, job' = [job EXCEPT ![w] = IdleJob],
         busy' \in Workers \cup {None}
  PROVE  WorkTypes' /\ JobShape'
<1>1. IdleJob \in Job
  BY DEF IdleJob, Job
<1> QED
  BY <1>1 DEF Typed, TypeOK, WorkTypes, JobShape, IdleJob

LEMMA AdvanceTyped ==
  ASSUME Typed, NEW w \in Workers, busy' \in Workers \cup {None},
         NEW step \in {"apply", "reply"}, job[w].step \in {"commit", "apply"},
         job' = [job EXCEPT ![w].step = step]
  PROVE  WorkTypes' /\ JobShape'
BY DEF Typed, TypeOK, WorkTypes, JobShape, Job

-----------------------------------------------------------------------------
\* The tab.

LEMMA ConnectTyped == ASSUME Typed, NEW t \in Tabs, Connect(t) PROVE Typed'
<1>1. TabTypes' /\ AckShape'
  <2> DEFINE s == [tab[t] EXCEPT !.net = "joining"]
  <2>1. /\ tab \in [Tabs -> Tab] /\ tab' = [tab EXCEPT ![t] = s] /\ UNCHANGED <<resume, told>>
        /\ tab[t] \in Tab
    BY DEF Connect, Typed, TypeOK, TabTypes
  <2>2. s \in Tab /\ s.ack = tab[t].ack /\ s.pending = tab[t].pending
    BY <2>1 DEF Tab
  <2> HIDE DEF s
  <2>3. \A u \in Tabs : tab'[u] = IF u = t THEN s ELSE tab[u]
    BY <2>1
  <2> QED
    BY <2>1, <2>2, <2>3 DEF Typed, TypeOK, TabTypes, AckShape
<1>2. ConnTypes'
  BY MessageFacts DEF Connect, Typed, TypeOK, TabTypes, ConnTypes, Tab, Conn, Conns
<1> QED
  BY <1>1, <1>2, SameServer DEF Connect, Typed, TypeOK

LEMMA SendTyped ==
  ASSUME Typed, NEW t \in Tabs, NEW cmd \in Commands, SendCommand(t, cmd) PROVE Typed'
<1> DEFINE p == [cseq |-> tab[t].nextSeq, at |-> tab[t].lastSeq, cmd |-> cmd]
           s == [tab[t] EXCEPT !.pending = p, !.nextSeq = @ + 1, !.ack = 0, !.sent = TRUE]
<1>0. tab[t] \in Tab /\ tab[t].nextSeq \in ClientSeqs
  BY DEF SendCommand, Typed, TypeOK, TabTypes
<1>1. p \in Pending /\ s \in Tab
  <2>1. p \in Pending
    BY <1>0 DEF Tab, Pending
  <2>2. tab[t].nextSeq + 1 \in Nat
    BY <1>0 DEF Tab
  <2>3. \A q \in Pending, n \in Nat :
          [tab[t] EXCEPT !.pending = q, !.nextSeq = n, !.ack = 0, !.sent = TRUE] \in Tab
    BY <1>0 DEF Tab
  <2> QED
    BY <2>1, <2>2, <2>3
<1>2. TabTypes' /\ AckShape'
  BY <1>1, PersistTyped DEF SendCommand, Typed, TypeOK, TabTypes, AckShape
<1>3. ConnTypes'
  <2>1. <<Commanding(p)>> \in Seq(Up)
    BY <1>1, MessageFacts DEF Commanding
  <2> QED
    BY <2>1, TransmitTyped DEF SendCommand, Typed, TypeOK, ConnTypes
<1> QED
  BY <1>2, <1>3, SameServer DEF SendCommand, Typed, TypeOK

LEMMA ReceiveTyped ==
  ASSUME Typed, NEW t \in Tabs, NEW type, Receive(t, type)
  PROVE  /\ down' \in [Tabs -> Seq(Down)] /\ Head(down[t]) \in Down
         /\ StoreTypes' /\ RoomTypes' /\ WorkTypes' /\ JobShape'
         /\ joined' \in [Conns -> BOOLEAN] /\ alive' \in [Tabs -> BOOLEAN]
         /\ left' \in [DOMAIN Budget -> Nat]
BY SameServer DEF Receive, Typed, TypeOK, ConnTypes

LEMMA TellIfCoveredTyped ==
  ASSUME Typed, NEW t \in Tabs, NEW s \in Tab,
         Covered(s) => tab[t].pending \in Pending, TellIfCovered(t, s)
  PROVE  told' \in [Tabs -> [ClientSeqs -> Told]]
<1>1. CASE Covered(s)
  BY <1>1, TellTyped DEF TellIfCovered, Typed, TypeOK, TabTypes
<1>2. CASE ~Covered(s)
  BY <1>2 DEF TellIfCovered, Typed, TypeOK, TabTypes
<1> QED
  BY <1>1, <1>2

\* What is left of a tab's acknowledgement once it is finished.
LEMMA FinishedShape ==
  ASSUME NEW s \in Tab, s.ack # 0 => s.pending \in Pending
  PROVE  /\ FinishAck(s).ack # 0 => FinishAck(s).pending \in Pending
         /\ Forget(s).ack = 0
         /\ \A n \in Nat : /\ Advance(s, n).ack = s.ack
                           /\ Advance(s, n).pending = s.pending
BY DEF FinishAck, Forget, Advance, Tab

LEMMA OnRoomTyped == ASSUME Typed, NEW t \in Tabs, OnRoom(t) PROVE Typed'
<1> DEFINE a == Advance(tab[t], Head(down[t]).seq)
           f == FinishAck(a)
           r == IF f.ack # 0 THEN AskResync(f) ELSE f
<1>1. Receive(t, "ROOM") /\ Head(down[t]).type = "ROOM"
  BY DEF OnRoom, Receive
<1>2. tab[t] \in Tab /\ Head(down[t]).seq \in Nat
  BY <1>1, ReceiveTyped, MessageFacts DEF Typed, TypeOK, TabTypes
<1>3. a \in Tab /\ f \in Tab /\ r \in Tab
  BY <1>2, TabFacts
<1>4. /\ a.ack # 0 => tab[t].pending \in Pending /\ a.pending \in Pending
      /\ f.ack # 0 => f.pending \in Pending
  BY <1>2, <1>3, FinishedShape DEF Typed, AckShape
<1>5. told' \in [Tabs -> [ClientSeqs -> Told]]
  BY <1>3, <1>4, TellIfCoveredTyped DEF OnRoom, Covered
<1>6. resume' \in [Users -> Saved]
  BY <1>3, PersistTyped DEF OnRoom, Typed, TypeOK
<1>7. ConnTypes'
  <2> DEFINE messages == (IF f.ack # 0 THEN ResyncRequest(f) ELSE <<>>)
                         \o (IF Owes(f) THEN <<Commanding(f.pending)>> ELSE <<>>)
  <2>1. Owes(f) => f.pending \in Pending
    BY <1>3 DEF Owes, Tab
  <2>2. messages \in Seq(Up)
    BY <2>1, MessageFacts DEF ResyncRequest, Commanding
  <2>3. Transmit(t, messages)
    BY DEF OnRoom
  <2> HIDE DEF messages
  <2> QED
    BY <2>2, <2>3, <1>1, ReceiveTyped, TransmitTyped DEF ConnTypes, Typed, TypeOK
<1>8. tab' \in [Tabs -> Tab] /\ AckShape'
  <2>1. /\ tab' = [tab EXCEPT ![t] = [r EXCEPT !.sent = @ \/ Owes(f)]]
    BY DEF OnRoom
  <2>2. /\ [r EXCEPT !.sent = @ \/ Owes(f)] \in Tab
        /\ [r EXCEPT !.sent = @ \/ Owes(f)].ack = f.ack
        /\ [r EXCEPT !.sent = @ \/ Owes(f)].pending = f.pending
    <3>1. r.ack = f.ack /\ r.pending = f.pending
      BY <1>3 DEF AskResync, Tab
    <3>2. (r.sent \/ Owes(f)) \in BOOLEAN
      BY DEF Owes
    <3> HIDE DEF r, f
    <3> QED
      BY <1>3, <3>1, <3>2 DEF Tab
  <2> HIDE DEF r, f
  <2> QED
    BY <1>4, <2>1, <2>2 DEF Typed, TypeOK, TabTypes, AckShape
<1> QED
  BY <1>1, <1>5, <1>6, <1>7, <1>8, ReceiveTyped DEF Typed, TypeOK, TabTypes

LEMMA OnEventsTyped == ASSUME Typed, NEW t \in Tabs, OnEvents(t) PROVE Typed'
<1> DEFINE seq == Head(down[t]).seq
           a == IF Usable(tab[t], seq) THEN Advance(tab[t], seq) ELSE tab[t]
<1>1. Receive(t, "EVENTS") /\ Head(down[t]).type = "EVENTS"
  BY DEF OnEvents, Receive
<1>2. tab[t] \in Tab /\ seq \in Nat
  BY <1>1, ReceiveTyped, MessageFacts DEF Typed, TypeOK, TabTypes
<1>3. a \in Tab /\ FinishAck(a) \in Tab
  BY <1>2, TabFacts
<1>4. /\ a.ack # 0 => tab[t].pending \in Pending /\ a.pending \in Pending
      /\ FinishAck(a).ack # 0 => FinishAck(a).pending \in Pending
  BY <1>2, <1>3, FinishedShape DEF Typed, AckShape
<1>5. told' \in [Tabs -> [ClientSeqs -> Told]]
  BY <1>3, <1>4, TellIfCoveredTyped DEF OnEvents, Covered
<1>6. resume' \in [Users -> Saved]
  BY <1>3, PersistTyped DEF OnEvents, Typed, TypeOK
<1>7. tab' \in [Tabs -> Tab] /\ AckShape'
  <2>1. tab' = [tab EXCEPT ![t] = FinishAck(a)]
    BY DEF OnEvents
  <2> HIDE DEF a
  <2> QED
    BY <2>1, <1>3, <1>4 DEF Typed, TypeOK, TabTypes, AckShape
<1>8. ConnTypes'
  BY <1>1, ReceiveTyped DEF OnEvents, Typed, TypeOK, ConnTypes
<1> QED
  BY <1>1, <1>5, <1>6, <1>7, <1>8, ReceiveTyped DEF Typed, TypeOK, TabTypes

LEMMA OnAckTyped == ASSUME Typed, NEW t \in Tabs, OnAck(t) PROVE Typed'
<1> DEFINE a == [tab[t] EXCEPT !.ack = Head(down[t]).seq]
<1>1. Receive(t, "ACK") /\ Head(down[t]).type = "ACK" /\ AboutPending(t)
  BY DEF OnAck, Receive
<1>2. tab[t] \in Tab /\ Head(down[t]).seq \in Nat /\ tab[t].pending \in Pending
  BY <1>1, ReceiveTyped, MessageFacts DEF Typed, TypeOK, TabTypes, AboutPending, Tab
<1>3. a \in Tab /\ a.pending = tab[t].pending
  BY <1>2 DEF Tab
<1>4. Forget(a) \in Tab /\ AskResync(a) \in Tab
  BY <1>3, TabFacts
<1>5. told' \in [Tabs -> [ClientSeqs -> Told]]
  BY <1>2, <1>3, TellIfCoveredTyped DEF OnAck
<1>6. tab' \in [Tabs -> Tab] /\ AckShape'
  <2>1. tab' = [tab EXCEPT ![t] = IF Covered(a) THEN Forget(a) ELSE AskResync(a)]
    BY DEF OnAck
  <2>2. Forget(a).ack = 0 /\ AskResync(a).pending = tab[t].pending
    BY <1>3 DEF Forget, AskResync, Tab
  <2> HIDE DEF a
  <2> QED
    BY <1>2, <1>4, <2>1, <2>2 DEF Typed, TypeOK, TabTypes, AckShape
<1>7. resume' \in [Users -> Saved] /\ up' \in [Conns -> Seq(Up)]
  <2>1. CASE Covered(a)
    BY <2>1, <1>4, PersistTyped DEF OnAck, Typed, TypeOK, TabTypes, ConnTypes
  <2>2. CASE ~Covered(a)
    <3>1. ResyncRequest(a) \in Seq(Up)
      BY MessageFacts DEF ResyncRequest
    <3>2. Transmit(t, ResyncRequest(a)) /\ UNCHANGED resume
      BY <2>2 DEF OnAck
    <3> QED
      BY <3>1, <3>2, TransmitTyped DEF Typed, TypeOK, TabTypes
  <2> QED
    BY <2>1, <2>2
<1> QED
  BY <1>1, <1>5, <1>6, <1>7, ReceiveTyped DEF Typed, TypeOK, TabTypes, ConnTypes

LEMMA OnRejectedTyped == ASSUME Typed, NEW t \in Tabs, OnRejected(t) PROVE Typed'
<1>1. Receive(t, "REJECTED") /\ Head(down[t]).type = "REJECTED" /\ AboutPending(t)
  BY DEF OnRejected, Receive
<1>2. tab[t] \in Tab /\ Head(down[t]).code \in Codes /\ tab[t].pending \in Pending
  BY <1>1, ReceiveTyped, MessageFacts DEF Typed, TypeOK, TabTypes, AboutPending, Tab
<1>3. Forget(tab[t]) \in Tab /\ AskResync(Forget(tab[t])) \in Tab
  BY <1>2, TabFacts
<1>4. told' \in [Tabs -> [ClientSeqs -> Told]]
  BY <1>2, TellTyped DEF OnRejected, Typed, TypeOK
<1>5. tab' \in [Tabs -> Tab] /\ AckShape'
  <2>1. AskResync(Forget(tab[t])).ack = 0
    BY <1>2 DEF AskResync, Forget, Tab
  <2> QED
    BY <1>3, <2>1 DEF OnRejected, Typed, TypeOK, TabTypes, AckShape
<1>6. resume' \in [Users -> Saved]
  BY <1>3, PersistTyped DEF OnRejected, Typed, TypeOK
<1>7. up' \in [Conns -> Seq(Up)]
  <2>1. ResyncRequest(tab[t]) \in Seq(Up)
    BY MessageFacts DEF ResyncRequest
  <2> QED
    BY <2>1, TransmitTyped DEF OnRejected, Typed, TypeOK
<1> QED
  BY <1>1, <1>4, <1>5, <1>6, <1>7, ReceiveTyped DEF Typed, TypeOK, TabTypes, ConnTypes

-----------------------------------------------------------------------------
\* The epochs suffice: a tab hangs up once for each drop and once, at most, for
\* each crash.  Nothing is on its way to a tab that is offline.
EpochShape ==
  \A t \in Tabs :
    /\ tab[t].net = "offline" => ~alive[t] /\ down[t] = <<>>
    /\ tab[t].epoch + (IF tab[t].net # "offline" /\ ~alive[t] THEN 1 ELSE 0)
         <= 1 + (MaxDrops - left.drop) + (MaxCrashes - left.crash)

LEMMA BudgetFacts ==
  /\ MaxDrops \in Nat /\ MaxCrashes \in Nat
  /\ {"auto", "drop", "crash", "failure", "unknown", "stall", "limit"} = DOMAIN Budget
  /\ Budget.drop = MaxDrops /\ Budget.crash = MaxCrashes
BY BudgetAssumption DEF Budget

LEMMA InitEpochs == Init => EpochShape
BY BudgetFacts DEF Init, EpochShape, FreshTab

\* No connection comes or goes.
LEMMA SameEpochs ==
  ASSUME Typed, EpochShape,
         left'.drop = left.drop, left'.crash = left.crash, alive' = alive,
         \A t \in Tabs : /\ tab'[t].epoch = tab[t].epoch
                         /\ tab'[t].net = "offline" => tab[t].net = "offline"
                         /\ tab[t].net = "offline" => tab'[t].net = "offline"
                         /\ ~alive[t] /\ down[t] = <<>> => down'[t] = <<>>
  PROVE  EpochShape'
BY DEF EpochShape

LEMMA SendQuiet ==
  ASSUME ConnTypes, NEW c \in Conns, NEW m, SendTo(c, m), NEW t \in Tabs, ~alive[t]
  PROVE  down'[t] = down[t]
BY ConnFacts DEF ConnTypes, SendTo

LEMMA BroadcastQuiet ==
  ASSUME NEW attached, NEW m, NEW t \in Tabs, ~alive[t]
  PROVE  Broadcast(attached, m)[t] = down[t]
BY DEF Broadcast

LEMMA SpendOther ==
  ASSUME Typed, NEW what \in DOMAIN Budget \ {"drop", "crash"}, Spend(what)
  PROVE  left'.drop = left.drop /\ left'.crash = left.crash
BY BudgetFacts DEF Spend, Typed, TypeOK

LEMMA ConnectEpochs ==
  ASSUME Typed, EpochShape, NEW t \in Tabs, Connect(t) PROVE EpochShape'
BY DEF Connect, EpochShape, Typed, TypeOK, TabTypes, ConnTypes, Tab

LEMMA SendEpochs ==
  ASSUME Typed, EpochShape, NEW t \in Tabs, NEW cmd \in Commands, SendCommand(t, cmd)
  PROVE  EpochShape'
BY SameEpochs DEF SendCommand, Typed, TypeOK, TabTypes, Tab

\* A received message leaves the connection as it is.
LEMMA ReceiveEpochs ==
  ASSUME Typed, EpochShape, NEW t \in Tabs, NEW type, Receive(t, type),
         NEW s, tab' = [tab EXCEPT ![t] = s],
         s.epoch = tab[t].epoch, s.net # "offline" \/ s.net = tab[t].net
  PROVE  EpochShape'
<1>1. tab[t].net # "offline"
  BY DEF Receive, EpochShape
<1>2. \A u \in Tabs : ~alive[u] /\ down[u] = <<>> => down'[u] = <<>>
  BY DEF Receive, Typed, TypeOK, ConnTypes
<1>3. \A u \in Tabs : /\ tab'[u].epoch = tab[u].epoch
                      /\ tab'[u].net = "offline" => tab[u].net = "offline"
                      /\ tab[u].net = "offline" => tab'[u].net = "offline"
  BY <1>1 DEF Typed, TypeOK, TabTypes
<1>4. left'.drop = left.drop /\ left'.crash = left.crash /\ alive' = alive
  BY DEF Receive
<1> QED
  BY <1>2, <1>3, <1>4, SameEpochs

\* What the tab's own steps do to its connection.
LEMMA NetFacts ==
  ASSUME NEW s \in Tab
  PROVE  /\ AskResync(s).epoch = s.epoch /\ AskResync(s).net = "synchronizing"
         /\ Forget(s).epoch = s.epoch /\ Forget(s).net = s.net
         /\ FinishAck(s).epoch = s.epoch /\ FinishAck(s).net = s.net
         /\ \A n \in Nat : Advance(s, n).epoch = s.epoch /\ Advance(s, n).net = "connected"
BY DEF Tab, AskResync, Forget, FinishAck, Advance

LEMMA TabEpochs ==
  ASSUME Typed, EpochShape, NEW t \in Tabs,
         OnRoom(t) \/ OnEvents(t) \/ OnAck(t) \/ OnRejected(t)
  PROVE  EpochShape'
<1>0. tab[t] \in Tab
  BY DEF Typed, TypeOK, TabTypes
<1>1. CASE OnRoom(t)
  <2> DEFINE a == Advance(tab[t], Head(down[t]).seq)
             f == FinishAck(a)
             r == IF f.ack # 0 THEN AskResync(f) ELSE f
             s == [r EXCEPT !.sent = @ \/ Owes(f)]
  <2>1. Receive(t, "ROOM") /\ Head(down[t]).type = "ROOM" /\ tab' = [tab EXCEPT ![t] = s]
    BY <1>1 DEF OnRoom, Receive
  <2>2. Head(down[t]).seq \in Nat
    BY <2>1, ReceiveTyped, MessageFacts
  <2>3. a \in Tab /\ f \in Tab /\ r \in Tab
    BY <1>0, <2>2, TabFacts
  <2>4. r.epoch = tab[t].epoch /\ r.net # "offline"
    BY <1>0, <2>2, <2>3, NetFacts
  <2>5. s.epoch = r.epoch /\ s.net = r.net
    <3> HIDE DEF r, f
    <3> QED
      BY <2>3 DEF Tab
  <2> HIDE DEF s
  <2> QED
    BY <2>1, <2>4, <2>5, ReceiveEpochs
<1>2. CASE OnEvents(t)
  <2> DEFINE seq == Head(down[t]).seq
             a == IF Usable(tab[t], seq) THEN Advance(tab[t], seq) ELSE tab[t]
  <2>1. /\ Receive(t, "EVENTS") /\ Head(down[t]).type = "EVENTS"
        /\ tab' = [tab EXCEPT ![t] = FinishAck(a)]
    BY <1>2 DEF OnEvents, Receive
  <2>2. seq \in Nat
    BY <2>1, ReceiveTyped, MessageFacts
  <2>3. a \in Tab
    BY <1>0, <2>2, TabFacts
  <2>4. FinishAck(a).epoch = tab[t].epoch
        /\ (FinishAck(a).net # "offline" \/ FinishAck(a).net = tab[t].net)
    BY <1>0, <2>2, <2>3, NetFacts
  <2> HIDE DEF a
  <2> QED
    BY <2>1, <2>4, ReceiveEpochs
<1>3. CASE OnAck(t)
  <2> DEFINE a == [tab[t] EXCEPT !.ack = Head(down[t]).seq]
             s == IF Covered(a) THEN Forget(a) ELSE AskResync(a)
  <2>1. /\ Receive(t, "ACK") /\ Head(down[t]).type = "ACK"
        /\ tab' = [tab EXCEPT ![t] = s]
    BY <1>3 DEF OnAck, Receive
  <2>2. Head(down[t]).seq \in Nat
    BY <2>1, ReceiveTyped, MessageFacts
  <2>3. a \in Tab /\ a.epoch = tab[t].epoch /\ a.net = tab[t].net
    BY <1>0, <2>2 DEF Tab
  <2>4. s.epoch = tab[t].epoch /\ (s.net # "offline" \/ s.net = tab[t].net)
    BY <2>3, NetFacts
  <2> HIDE DEF s
  <2> QED
    BY <2>1, <2>4, ReceiveEpochs
<1>4. CASE OnRejected(t)
  <2>1. /\ Receive(t, "REJECTED")
        /\ tab' = [tab EXCEPT ![t] = AskResync(Forget(tab[t]))]
    BY <1>4 DEF OnRejected
  <2>2. AskResync(Forget(tab[t])).epoch = tab[t].epoch
        /\ AskResync(Forget(tab[t])).net # "offline"
    BY <1>0, TabFacts, NetFacts
  <2> QED
    BY <2>1, <2>2, ReceiveEpochs
<1> QED
  BY <1>1, <1>2, <1>3, <1>4

LEMMA HangUpTyped ==
  ASSUME Typed, NEW t \in Tabs, NEW s \in Tab, HangUp(t, s), s.epoch + 1 \in Epochs,
         s.ack # 0 => s.pending \in Pending, up' \in [Conns -> Seq(Up)],
         left' \in [DOMAIN Budget -> Nat]
  PROVE  Typed'
<1>1. Disconnected(s) \in Tab /\ Disconnected(s).ack = s.ack
      /\ Disconnected(s).pending = s.pending
  BY DEF Disconnected, Tab
<1>2. TabTypes' /\ AckShape'
  BY <1>1 DEF HangUp, Typed, TypeOK, TabTypes, AckShape
<1>3. ConnTypes'
  BY DEF HangUp, Typed, TypeOK, ConnTypes
<1> QED
  BY <1>2, <1>3, SameServer DEF HangUp, Typed, TypeOK

\* The tab hangs up, with a drop of the environment's left to it, or because
\* the server is gone.
LEMMA HangUpEpochs ==
  ASSUME Typed, EpochShape, NEW t \in Tabs, NEW s \in Tab, HangUp(t, s),
         s.epoch = tab[t].epoch, tab[t].net # "offline",
         \/ Spend("drop")
         \/ ~alive[t] /\ left' = left
  PROVE  EpochShape' /\ s.epoch + 1 \in Epochs /\ left' \in [DOMAIN Budget -> Nat]
<1>1. /\ Disconnected(s).epoch = tab[t].epoch + 1
      /\ Disconnected(s).net = "offline"
  BY DEF Disconnected, Tab
<1>2. left \in [DOMAIN Budget -> Nat] /\ left' \in [DOMAIN Budget -> Nat]
  BY SpendTyped, BudgetFacts DEF Typed, TypeOK
<1>3. /\ left.drop \in Nat /\ left.crash \in Nat /\ left'.drop \in Nat
      /\ left'.crash = left.crash
      /\ \/ left'.drop = left.drop - 1
         \/ ~alive[t] /\ left'.drop = left.drop
  BY <1>2, BudgetFacts DEF Spend
<1>4. \A u \in Tabs : tab[u].epoch \in Nat
  BY DEF Typed, TypeOK, TabTypes, Tab, Epochs
<1>5. /\ \A u \in Tabs : u # t => tab'[u] = tab[u] /\ alive'[u] = alive[u] /\ down'[u] = down[u]
      /\ tab'[t] = Disconnected(s) /\ alive'[t] = FALSE /\ down'[t] = <<>>
  BY DEF HangUp, Typed, TypeOK, TabTypes, ConnTypes
<1>6. EpochShape'
  <2> SUFFICES ASSUME NEW u \in Tabs
      PROVE /\ tab'[u].net = "offline" => ~alive'[u] /\ down'[u] = <<>>
            /\ tab'[u].epoch + (IF tab'[u].net # "offline" /\ ~alive'[u] THEN 1 ELSE 0)
                 <= 1 + (MaxDrops - left'.drop) + (MaxCrashes - left'.crash)
    BY DEF EpochShape
  <2>0. /\ tab[u].net = "offline" => ~alive[u] /\ down[u] = <<>>
        /\ tab[u].epoch + (IF tab[u].net # "offline" /\ ~alive[u] THEN 1 ELSE 0)
             <= 1 + (MaxDrops - left.drop) + (MaxCrashes - left.crash)
    BY DEF EpochShape
  <2>1. CASE u = t
    <3>1. tab'[u].epoch = tab[u].epoch + 1 /\ tab'[u].net = "offline" /\ ~alive'[u] /\ down'[u] = <<>>
      BY <2>1, <1>1, <1>5
    <3>2. tab[u].epoch + 1 <= 1 + (MaxDrops - left'.drop) + (MaxCrashes - left'.crash)
      <4>1. CASE left'.drop = left.drop - 1
        <5> DEFINE k == tab[u].epoch
        <5>1. k <= 1 + (MaxDrops - left.drop) + (MaxCrashes - left.crash)
          BY <2>0, <1>3, <1>4, BudgetFacts
        <5>2. k \in Nat
          BY <1>4
        <5> HIDE DEF k
        <5>3. k + 1 <= 1 + (MaxDrops - left'.drop) + (MaxCrashes - left'.crash)
          BY <4>1, <5>1, <5>2, <1>3, BudgetFacts
        <5> QED
          BY <5>3 DEF k
      <4>2. CASE ~alive[u] /\ left'.drop = left.drop
        BY <4>2, <2>0, <2>1, <1>3, <1>4, BudgetFacts
      <4> QED
        BY <4>1, <4>2, <1>3, <2>1
    <3>3. tab[u].epoch + 1 \in Nat
      BY <1>4
    <3> QED
      BY <3>1, <3>2, <3>3
  <2>2. CASE u # t
    <3>1. tab'[u] = tab[u] /\ alive'[u] = alive[u] /\ down'[u] = down[u]
      BY <2>2, <1>5
    <3>2. left'.drop <= left.drop /\ left'.drop \in Nat
      BY <1>3
    <3> DEFINE k == tab[u].epoch + (IF tab[u].net # "offline" /\ ~alive[u] THEN 1 ELSE 0)
    <3>3. k \in Nat
      BY <1>4
    <3>4. k <= 1 + (MaxDrops - left.drop) + (MaxCrashes - left.crash)
      BY <2>0
    <3>5. k <= 1 + (MaxDrops - left'.drop) + (MaxCrashes - left'.crash)
      <4> HIDE DEF k
      <4> QED
        BY <3>2, <3>3, <3>4, <1>3, BudgetFacts
    <3> QED
      BY <3>1, <3>5, <2>0
  <2> QED
    BY <2>1, <2>2
<1>7. s.epoch + 1 \in Epochs
  <2>1. tab'[t].epoch = tab[t].epoch + 1 /\ tab'[t].net = "offline"
    BY <1>1, <1>5
  <2>2. tab'[t].epoch + (IF tab'[t].net # "offline" /\ ~alive'[t] THEN 1 ELSE 0)
          <= 1 + (MaxDrops - left'.drop) + (MaxCrashes - left'.crash)
    BY <1>6 DEF EpochShape
  <2>3. tab[t].epoch + 1 <= 1 + (MaxDrops - left'.drop) + (MaxCrashes - left'.crash)
    BY <2>1, <2>2, <1>4
  <2> QED
    BY <2>3, <1>3, <1>4, BudgetFacts DEF Epochs, Budget
<1> QED
  BY <1>2, <1>6, <1>7

LEMMA CutOffTyped ==
  ASSUME Typed, NEW t \in Tabs, NEW n \in 0 .. Len(up[Conn(t)]), CutOff(t, n)
  PROVE  up' \in [Conns -> Seq(Up)]
<1>1. Conn(t) \in Conns
  BY DEF Conn, Conns, Typed, TypeOK, TabTypes, Tab
<1>2. up[Conn(t)] \in Seq(Up)
  BY <1>1 DEF Typed, TypeOK, ConnTypes
<1>3. SubSeq(up[Conn(t)], 1, n) \in Seq(Up)
  BY <1>2
<1>4. SubSeq(up[Conn(t)], 1, n) \o <<[type |-> "CLOSE"]>> \in Seq(Up)
  BY <1>3, MessageFacts
<1> QED
  BY <1>4 DEF CutOff, Typed, TypeOK, ConnTypes

LEMMA HangUpsTyped ==
  ASSUME Typed, EpochShape, NEW t \in Tabs, Drop(t) \/ Reload(t) \/ DetectClose(t)
  PROVE  Typed' /\ EpochShape'
<1>0. tab[t] \in Tab /\ resume[User[t]] \in Saved
  BY ConnFacts DEF Typed, TypeOK, TabTypes
<1>1. CASE Drop(t)
  <2>1. PICK n \in 0 .. Len(up[Conn(t)]) : CutOff(t, n)
    BY <1>1 DEF Drop
  <2> QED
    BY <1>0, <1>1, <2>1, CutOffTyped, HangUpEpochs, HangUpTyped DEF Drop, Typed, AckShape
<1>2. CASE Reload(t)
  <2> DEFINE q == resume[User[t]]
             s == [tab[t] EXCEPT !.pending = q.pending, !.nextSeq = q.nextSeq,
                                 !.lastSeq = q.lastSeq, !.ack = 0]
  <2>1. PICK n \in 0 .. Len(up[Conn(t)]) : CutOff(t, n)
    BY <1>2 DEF Reload
  <2>2. s \in Tab /\ s.ack = 0 /\ s.epoch = tab[t].epoch
    BY <1>0 DEF Tab, Saved
  <2>3. HangUp(t, s)
    BY <1>2 DEF Reload
  <2> HIDE DEF s
  <2> QED
    BY <1>2, <2>1, <2>2, <2>3, CutOffTyped, HangUpEpochs, HangUpTyped DEF Reload
<1>3. CASE DetectClose(t)
  <2>1. up' \in [Conns -> Seq(Up)]
    BY <1>3 DEF DetectClose, Typed, TypeOK, ConnTypes
  <2> QED
    BY <1>0, <1>3, <2>1, HangUpEpochs, HangUpTyped DEF DetectClose, Typed, AckShape
<1> QED
  BY <1>1, <1>2, <1>3

-----------------------------------------------------------------------------
\* The server.

LEMMA Lengths == Typed => Len(log) \in Nat /\ Len(memLog) \in Nat
BY DEF Typed, TypeOK, StoreTypes, RoomTypes

LEMMA RoomStateTyped == Typed => RoomState \in Down
BY Lengths, MessageFacts DEF RoomState

LEMMA ServerEpochs ==
  ASSUME Typed, EpochShape, UNCHANGED <<alive, tab>>,
         left'.drop = left.drop, left'.crash = left.crash,
         \A t \in Tabs : ~alive[t] => down'[t] = down[t]
  PROVE  EpochShape'
BY SameEpochs

LEMMA JoinTyped ==
  ASSUME Typed, EpochShape, NEW c \in Conns, Join(c) \/ SyncJoined(c) PROVE Typed' /\ EpochShape'
<1>1. RoomState \in Down
  BY RoomStateTyped
<1>2. /\ down' \in [Tabs -> Seq(Down)]
      /\ \A t \in Tabs : ~alive[t] => down'[t] = down[t]
  BY <1>1, BroadcastTyped, BroadcastQuiet DEF Join, SyncJoined, Typed, TypeOK
<1>3. ConnTypes'
  BY <1>2, TakeTyped DEF Join, SyncJoined, Typed, TypeOK, ConnTypes
<1>4. WorkTypes' /\ JobShape'
  <2>1. CASE Join(c)
    BY <2>1, ConnFacts DEF Join, Typed, TypeOK, WorkTypes, JobShape, Job
  <2>2. CASE SyncJoined(c)
    BY <2>2, IdleTyped, ConnFacts DEF SyncJoined, Typed, TypeOK, WorkTypes
  <2> QED
    BY <2>1, <2>2
<1>5. StoreTypes' /\ RoomTypes' /\ TabTypes' /\ AckShape' /\ left' = left
  BY SameTabs DEF Join, SyncJoined, Typed, TypeOK, storeVars, roomVars, StoreTypes, RoomTypes
<1>6. EpochShape'
  BY <1>2, ServerEpochs DEF Join, SyncJoined, tabVars
<1> QED
  BY <1>3, <1>4, <1>5, <1>6 DEF Typed, TypeOK

LEMMA ResyncTyped ==
  ASSUME Typed, EpochShape, NEW c \in Conns, Resync(c) PROVE Typed' /\ EpochShape'
<1>1. [type |-> "EVENTS", seq |-> Len(memLog)] \in Down
  BY Lengths, MessageFacts
<1>2. ConnTypes' /\ \A t \in Tabs : ~alive[t] => down'[t] = down[t]
  BY <1>1, SendToTyped, SendQuiet, TakeTyped DEF Resync, Typed, TypeOK, ConnTypes
<1> QED
  BY <1>2, SameServer, SameTabs, ServerEpochs DEF Resync, Typed, TypeOK, tabVars

LEMMA CloseTyped ==
  ASSUME Typed, EpochShape, NEW c \in Conns, Close(c) PROVE Typed' /\ EpochShape'
<1>1. RoomState \in Down
  BY RoomStateTyped
<1>2. /\ down' \in [Tabs -> Seq(Down)]
      /\ \A t \in Tabs : ~alive[t] => down'[t] = down[t]
  BY <1>1, BroadcastTyped, BroadcastQuiet DEF Close, Typed, TypeOK, ConnTypes
<1>3. ConnTypes'
  BY <1>2, TakeTyped DEF Close, Typed, TypeOK, ConnTypes
<1>4. StoreTypes' /\ RoomTypes' /\ WorkTypes' /\ JobShape' /\ TabTypes' /\ AckShape'
  BY SameTabs, SameWork DEF Close, Typed, TypeOK, storeVars, StoreTypes, RoomTypes
<1> QED
  BY <1>2, <1>3, <1>4, ServerEpochs DEF Close, Typed, TypeOK, tabVars

\* A refusal that the room queue need not be held for, a replayed verdict, and
\* the end of a commit: only the cache, the queue and the job may change beside
\* the messages.
LEMMA AnswerTyped ==
  ASSUME Typed, EpochShape, UNCHANGED <<storeVars, joined, alive, tabVars>>,
         RoomTypes', WorkTypes', JobShape',
         up' \in [Conns -> Seq(Up)], down' \in [Tabs -> Seq(Down)],
         \A t \in Tabs : ~alive[t] => down'[t] = down[t],
         left' \in [DOMAIN Budget -> Nat], left'.drop = left.drop, left'.crash = left.crash
  PROVE  Typed' /\ EpochShape'
<1>1. StoreTypes' /\ ConnTypes'
  BY DEF Typed, TypeOK, storeVars, StoreTypes, ConnTypes
<1> QED
  BY <1>1, SameTabs, ServerEpochs DEF Typed, TypeOK, tabVars

LEMMA RejectQuiet ==
  ASSUME Typed, NEW c \in Conns, NEW p, NEW code, Reject(c, p, code)
  PROVE  \A t \in Tabs : ~alive[t] => down'[t] = down[t]
BY SendQuiet DEF Reject, Typed, TypeOK

LEMMA RefusalsTyped ==
  ASSUME Typed, EpochShape, NEW c \in Conns, RefuseLimited(c) \/ RefusePaused(c)
  PROVE  Typed' /\ EpochShape'
<1>1. Take(c, "COMMAND")
  BY DEF RefuseLimited, RefusePaused, TakeInTurn
<1>2. /\ Asked(c) \in Pending /\ up' \in [Conns -> Seq(Up)]
      /\ {"RATE_LIMITED", "ROOM_PAUSED"} \subseteq Codes
  BY <1>1, TakeTyped DEF Typed, TypeOK, Codes
<1>3. PICK code \in Codes : Reject(c, Asked(c), code)
  BY <1>2 DEF RefuseLimited, RefusePaused
<1>4. /\ down' \in [Tabs -> Seq(Down)]
      /\ \A t \in Tabs : ~alive[t] => down'[t] = down[t]
  BY <1>2, <1>3, RejectTyped, RejectQuiet DEF Typed, TypeOK
<1>5. /\ left' \in [DOMAIN Budget -> Nat]
      /\ left'.drop = left.drop /\ left'.crash = left.crash
  BY BudgetFacts, SpendTyped, SpendOther DEF RefuseLimited, RefusePaused, Typed, TypeOK
<1>6. RoomTypes' /\ WorkTypes' /\ JobShape'
  BY SameServer DEF RefuseLimited, RefusePaused
<1> QED
  BY <1>2, <1>4, <1>5, <1>6, AnswerTyped DEF RefuseLimited, RefusePaused

\* A verdict looked up is a verdict.
LEMMA VerdictTyped ==
  ASSUME Typed, NEW k \in Keys, Verdict(k) # None
  PROVE  /\ Verdict(k) \in Result
         /\ Verdict(k).ok => Verdict(k).seq \in Nat
         /\ ~Verdict(k).ok => Verdict(k).code \in Codes
<1>1. Verdict(k) \in Result
  BY DEF Verdict, Typed, TypeOK, StoreTypes, RoomTypes
<1> QED
  BY <1>1 DEF Result, Acceptance, Refusal, Codes

LEMMA ReplayTyped ==
  ASSUME Typed, EpochShape, NEW c \in Conns, Replay(c) PROVE Typed' /\ EpochShape'
<1> DEFINE p == Asked(c)
           k == Key(c, p)
           v == Verdict(k)
<1>1. Take(c, "COMMAND")
  BY DEF Replay, TakeInTurn
<1>2. p \in Pending /\ up' \in [Conns -> Seq(Up)] /\ p.cseq \in ClientSeqs
  BY <1>1, TakeTyped DEF Typed, TypeOK, Pending
<1>3. k \in Keys
  BY <1>2, ConnFacts
<1>4. /\ v # None /\ v \in Result
      /\ v.ok => v.seq \in Nat
      /\ ~v.ok => v.code \in Codes
  BY <1>3, VerdictTyped DEF Replay
<1>5. "CLIENT_SEQ_CONFLICT" \in Codes
  BY DEF Codes
<1> HIDE DEF v, k
<1>6. /\ processed' = [processed EXCEPT ![k] = v]
      /\ IF ~SamePayload(v, p) THEN Reject(c, p, "CLIENT_SEQ_CONFLICT")
         ELSE IF ~v.ok THEN Reject(c, p, v.code)
         ELSE SendTo(c, [type |-> "ACK", cseq |-> p.cseq, seq |-> v.seq])
      /\ UNCHANGED <<storeVars, memLog, paused, busy, job, joined, alive, tabVars, left>>
  BY DEF Replay, v, k
<1> HIDE DEF p
<1>7. /\ down' \in [Tabs -> Seq(Down)]
      /\ \A t \in Tabs : ~alive[t] => down'[t] = down[t]
  <2>1. CASE \E code \in Codes : Reject(c, p, code)
    BY <2>1, <1>2, RejectTyped, RejectQuiet DEF Typed, TypeOK
  <2>2. CASE v.ok /\ SendTo(c, [type |-> "ACK", cseq |-> p.cseq, seq |-> v.seq])
    <3>1. [type |-> "ACK", cseq |-> p.cseq, seq |-> v.seq] \in Down
      BY <2>2, <1>2, <1>4, MessageFacts
    <3> QED
      BY <3>1, <2>2, SendToTyped, SendQuiet DEF Typed, TypeOK
  <2> QED
    BY <2>1, <2>2, <1>4, <1>5, <1>6
<1>8. RoomTypes' /\ WorkTypes' /\ JobShape'
  BY <1>3, <1>4, <1>6, SameWork DEF Typed, TypeOK, RoomTypes
<1> QED
  BY <1>2, <1>6, <1>7, <1>8, BudgetFacts, AnswerTyped DEF Typed, TypeOK

LEMMA DeclineTyped ==
  ASSUME Typed, EpochShape, NEW c \in Conns, Decline(c) PROVE Typed' /\ EpochShape'
<1> DEFINE p == Asked(c)
           code == IF Stale(p) THEN "STALE_STATE" ELSE "RULE_VIOLATION"
           v == [ok |-> FALSE, cmd |-> p.cmd, seq |-> 0, code |-> code]
           j == [step |-> "reject", cmd |-> p, verdict |-> v]
<1>1. Take(c, "COMMAND")
  BY DEF Decline, Fresh, TakeInTurn
<1>2. p \in Pending /\ up' \in [Conns -> Seq(Up)]
  BY <1>1, TakeTyped DEF Typed, TypeOK
<1>3. Key(c, p) \in Keys
  BY <1>2, ConnFacts
<1>4. v \in Refusal /\ v \in Result /\ v.cmd = p.cmd
  BY <1>2 DEF Refusal, Result, FinalCodes, Pending
<1>5. j \in Job /\ j.step = "reject" /\ j.cmd = p /\ j.verdict = v
  BY <1>2, <1>4 DEF Job
<1>6. /\ processed' = [processed EXCEPT ![Key(c, p)] = v]
      /\ job' = [job EXCEPT ![c] = j] /\ busy' = c
      /\ UNCHANGED <<storeVars, memLog, paused, joined, alive, down, tabVars, left>>
  BY DEF Decline
<1> HIDE DEF v, j, p
<1>7. RoomTypes'
  BY <1>3, <1>4, <1>6 DEF Typed, TypeOK, RoomTypes
<1>8. WorkTypes' /\ JobShape'
  BY <1>2, <1>4, <1>5, <1>6, ConnFacts DEF Typed, TypeOK, WorkTypes, JobShape
<1> QED
  BY <1>2, <1>6, <1>7, <1>8, BudgetFacts, AnswerTyped DEF Typed, TypeOK, ConnTypes

\* A worker takes the room to the store.
LEMMA StartCommitTyped ==
  ASSUME Typed, NEW w \in Workers, NEW p, NEW cmd, cmd \in Commands \cup {None},
         p \in Pending \cup {None}, w \in Conns => p \in Pending /\ cmd = p.cmd,
         StartCommit(w, p, cmd)
  PROVE  StoreTypes' /\ RoomTypes' /\ WorkTypes' /\ JobShape'
<1> DEFINE j == [step |-> "commit", cmd |-> p, verdict |-> Accepted(cmd)]
<1>1. Accepted(cmd) \in Acceptance /\ Accepted(cmd).cmd = cmd /\ Accepted(cmd).seq # 0
  BY Lengths DEF Accepted, Acceptance
<1>2. j \in Job /\ j.step = "commit" /\ j.cmd = p /\ j.verdict = Accepted(cmd)
  BY <1>1 DEF Job, Result
<1>3. job' = [job EXCEPT ![w] = j] /\ busy' = w
  BY DEF StartCommit
<1> HIDE DEF j
<1>4. WorkTypes' /\ JobShape'
  BY <1>1, <1>2, <1>3 DEF Typed, TypeOK, WorkTypes, JobShape
<1> QED
  BY <1>4 DEF StartCommit, Typed, TypeOK, storeVars, roomVars, StoreTypes, RoomTypes

LEMMA AcceptTyped ==
  ASSUME Typed, EpochShape, NEW c \in Conns, Accept(c) PROVE Typed' /\ EpochShape'
<1>1. Take(c, "COMMAND") /\ StartCommit(c, Asked(c), Asked(c).cmd)
  BY DEF Accept, Fresh, TakeInTurn
<1>2. Asked(c) \in Pending /\ up' \in [Conns -> Seq(Up)] /\ Asked(c).cmd \in Commands
  BY <1>1, TakeTyped DEF Typed, TypeOK, Pending
<1>3. StoreTypes' /\ RoomTypes' /\ WorkTypes' /\ JobShape'
  BY <1>1, <1>2, ConnFacts, StartCommitTyped
<1> QED
  BY <1>1, <1>2, <1>3, BudgetFacts, AnswerTyped
     DEF Accept, StartCommit, Typed, TypeOK, ConnTypes, storeVars

LEMMA StartAutoTyped == ASSUME Typed, EpochShape, StartAuto PROVE Typed' /\ EpochShape'
<1>1. StoreTypes' /\ RoomTypes' /\ WorkTypes' /\ JobShape'
  BY StartCommitTyped, ConnFacts, AutoAssumption DEF StartAuto
<1>2. /\ left' \in [DOMAIN Budget -> Nat]
      /\ left'.drop = left.drop /\ left'.crash = left.crash
  BY BudgetFacts, SpendTyped, SpendOther DEF StartAuto, Typed, TypeOK
<1> QED
  BY <1>1, <1>2, AnswerTyped
     DEF StartAuto, StartCommit, Typed, TypeOK, ConnTypes, connVars, tabVars, storeVars

LEMMA PersistVerdictTyped ==
  ASSUME Typed, EpochShape, NEW c \in Conns, PersistVerdict(c) \/ PersistVerdictFails(c)
  PROVE  Typed' /\ EpochShape'
<1> DEFINE k == Key(c, job[c].cmd)
<1>1. /\ job[c].cmd \in Pending /\ job[c].verdict \in Refusal
      /\ job[c].verdict.code \in Codes /\ "COMMAND_FAILED" \in Codes
  BY ConnFacts DEF PersistVerdict, PersistVerdictFails, Typed, JobShape, Refusal, Codes
<1>2. k \in Keys /\ job[c].verdict \in Result
  BY <1>1, ConnFacts DEF Result
<1>3. PICK code \in Codes : Reject(c, job[c].cmd, code)
  BY <1>1 DEF PersistVerdict, PersistVerdictFails
<1>4. /\ down' \in [Tabs -> Seq(Down)]
      /\ \A t \in Tabs : ~alive[t] => down'[t] = down[t]
  BY <1>1, <1>3, RejectTyped, RejectQuiet DEF Typed, TypeOK
<1>5. WorkTypes' /\ JobShape'
  BY IdleTyped, ConnFacts DEF PersistVerdict, PersistVerdictFails, Done
<1>6. StoreTypes'
  <2>1. UNCHANGED results \/ StoreResult(c)
    BY DEF PersistVerdict, PersistVerdictFails
  <2>2. results' \in [Keys -> Result \cup {None}]
    BY <2>1, <1>2 DEF StoreResult, Typed, TypeOK, StoreTypes
  <2> QED
    BY <2>2 DEF PersistVerdict, PersistVerdictFails, Typed, TypeOK, StoreTypes
<1>7. RoomTypes'
  BY <1>2 DEF PersistVerdict, PersistVerdictFails, DropFromCache, roomVars,
              Typed, TypeOK, RoomTypes
<1>8. /\ left' \in [DOMAIN Budget -> Nat]
      /\ left'.drop = left.drop /\ left'.crash = left.crash
  BY BudgetFacts, SpendTyped, SpendOther DEF PersistVerdict, PersistVerdictFails, Typed, TypeOK
<1>9. ConnTypes'
  BY <1>4 DEF PersistVerdict, PersistVerdictFails, Typed, TypeOK, ConnTypes
<1>10. UNCHANGED <<alive, tab, resume, told>>
  BY DEF PersistVerdict, PersistVerdictFails, tabVars
<1> QED
  BY <1>4, <1>5, <1>6, <1>7, <1>8, <1>9, <1>10, SameTabs, ServerEpochs DEF Typed, TypeOK, tabVars

LEMMA LogEntryTyped ==
  ASSUME Typed, NEW w \in Workers, job[w].step \in {"commit", "apply"}
  PROVE  /\ LogEntry(w) \in Entry
         /\ w # Automation => Key(w, job[w].cmd) \in Keys /\ job[w].verdict \in Result
<1>1. /\ job[w].verdict.seq \in Nat \ {0} /\ job[w].verdict \in Result
      /\ w # Automation => w \in Conns /\ job[w].cmd \in Pending
  BY ConnFacts DEF Typed, JobShape, Acceptance, Result
<1>2. job[w].verdict.seq - 1 \in Nat
  BY <1>1
<1>3. CASE w = Automation
  BY <1>2, <1>3 DEF LogEntry, Entry
<1>4. CASE w # Automation
  <2>1. Key(w, job[w].cmd) \in Keys
    BY <1>1, <1>4, ConnFacts
  <2> QED
    BY <1>1, <1>4, <2>1 DEF LogEntry, Entry, Pending
<1> QED
  BY <1>1, <1>3, <1>4

LEMMA StoreEventsTyped ==
  ASSUME Typed, NEW w \in Workers, job[w].step = "commit", StoreEvents(w)
  PROVE  StoreTypes'
<1>1. log' \in Seq(Entry)
  BY LogEntryTyped DEF StoreEvents, Typed, TypeOK, StoreTypes
<1>2. results' \in [Keys -> Result \cup {None}]
  BY LogEntryTyped DEF StoreEvents, StoreResult, Typed, TypeOK, StoreTypes
<1> QED
  BY <1>1, <1>2 DEF StoreTypes

LEMMA CommitTyped ==
  ASSUME Typed, EpochShape, NEW w \in Workers, Commit(w) PROVE Typed' /\ EpochShape'
<1>1. StoreTypes'
  BY StoreEventsTyped DEF Commit
<1>2. WorkTypes' /\ JobShape'
  <2>1. busy' \in Workers \cup {None}
    BY DEF Commit, Typed, TypeOK, WorkTypes
  <2> QED
    BY <2>1, AdvanceTyped DEF Commit
<1>3. RoomTypes' /\ ConnTypes' /\ UNCHANGED <<alive, down, tabVars, left>>
  BY DEF Commit, roomVars, connVars, Typed, TypeOK, RoomTypes, ConnTypes
<1> QED
  BY <1>1, <1>2, <1>3, SameTabs, ServerEpochs DEF Typed, TypeOK, tabVars

LEMMA CommitFailsTyped ==
  ASSUME Typed, EpochShape, NEW w \in Workers, CommitFails(w) PROVE Typed' /\ EpochShape'
<1>1. StoreTypes'
  <2>1. UNCHANGED storeVars \/ StoreEvents(w)
    BY DEF CommitFails
  <2>2. ASSUME UNCHANGED storeVars PROVE StoreTypes'
    BY <2>2 DEF storeVars, Typed, TypeOK, StoreTypes
  <2> QED
    BY <2>1, <2>2, StoreEventsTyped DEF CommitFails
<1>2. WorkTypes' /\ JobShape'
  BY IdleTyped DEF CommitFails, Done
<1>3. /\ down' \in [Tabs -> Seq(Down)]
      /\ \A t \in Tabs : ~alive[t] => down'[t] = down[t]
  <2>1. CASE w = Automation
    BY <2>1 DEF CommitFails, Typed, TypeOK, ConnTypes
  <2>2. CASE w # Automation
    <3>1. w \in Conns /\ job[w].cmd \in Pending /\ "EVENT_COMMIT_FAILED" \in Codes
      BY <2>2, ConnFacts DEF CommitFails, Typed, JobShape, Codes
    <3> QED
      BY <2>2, <3>1, RejectTyped, RejectQuiet DEF CommitFails, Typed, TypeOK
  <2> QED
    BY <2>1, <2>2
<1>4. /\ left' \in [DOMAIN Budget -> Nat]
      /\ left'.drop = left.drop /\ left'.crash = left.crash
  BY BudgetFacts, SpendTyped, SpendOther DEF CommitFails, Typed, TypeOK
<1>5. RoomTypes' /\ ConnTypes' /\ UNCHANGED <<alive, tabVars>>
  BY <1>3 DEF CommitFails, roomVars, Typed, TypeOK, RoomTypes, ConnTypes
<1> QED
  BY <1>1, <1>2, <1>3, <1>4, <1>5, SameTabs, ServerEpochs DEF Typed, TypeOK, tabVars

LEMMA ApplyTyped ==
  ASSUME Typed, EpochShape, NEW w \in Workers, Apply(w) PROVE Typed' /\ EpochShape'
<1>1. memLog' \in Seq(Entry)
  BY LogEntryTyped DEF Apply, Typed, TypeOK, RoomTypes
<1>2. processed' \in [Keys -> Result \cup {None}]
  BY LogEntryTyped DEF Apply, Typed, TypeOK, RoomTypes
<1>3. RoomTypes'
  BY <1>1, <1>2 DEF Apply, Typed, TypeOK, RoomTypes
<1>4. WorkTypes' /\ JobShape'
  BY AdvanceTyped DEF Apply
<1>5. StoreTypes' /\ ConnTypes' /\ UNCHANGED <<alive, down, tabVars, left>>
  BY DEF Apply, storeVars, connVars, Typed, TypeOK, StoreTypes, ConnTypes
<1> QED
  BY <1>3, <1>4, <1>5, SameTabs, ServerEpochs DEF Typed, TypeOK, tabVars

LEMMA ReplyTyped ==
  ASSUME Typed, EpochShape, NEW w \in Workers, Reply(w) PROVE Typed' /\ EpochShape'
<1> DEFINE m == [type |-> "EVENTS", seq |-> job[w].verdict.seq]
           ack == [type |-> "ACK", cseq |-> job[w].cmd.cseq, seq |-> job[w].verdict.seq]
           events == Broadcast(joined, m)
<1>1. job[w].verdict.seq \in Nat
  BY DEF Reply, Typed, JobShape, Acceptance
<1>2. m \in Down /\ events \in [Tabs -> Seq(Down)]
  BY <1>1, MessageFacts, BroadcastTyped DEF Typed, TypeOK
<1>3. ASSUME w # Automation PROVE w[1] \in Tabs /\ ack \in Down
  <2>1. w \in Conns /\ job[w].cmd \in Pending
    BY <1>3, ConnFacts DEF Reply, Typed, JobShape
  <2> QED
    BY <1>1, <2>1, ConnFacts, MessageFacts DEF Pending
<1>4. \A t \in Tabs : ~alive[t] => events[t] = down[t]
  BY BroadcastQuiet
<1>5. down' = IF w # Automation /\ w = Conn(w[1]) /\ alive[w[1]]
              THEN [events EXCEPT ![w[1]] = Append(@, ack)] ELSE events
  BY DEF Reply
<1> HIDE DEF events, ack
<1>6. /\ down' \in [Tabs -> Seq(Down)]
      /\ \A t \in Tabs : ~alive[t] => down'[t] = down[t]
  BY <1>2, <1>3, <1>4, <1>5
<1>7. WorkTypes' /\ JobShape'
  BY IdleTyped DEF Reply, Typed, TypeOK, WorkTypes
<1>8. RoomTypes' /\ up' \in [Conns -> Seq(Up)]
  BY DEF Reply, roomVars, Typed, TypeOK, RoomTypes, ConnTypes
<1> QED
  BY <1>6, <1>7, <1>8, BudgetFacts, AnswerTyped DEF Reply, Typed, TypeOK

LEMMA StallTyped == ASSUME Typed, EpochShape, Stall PROVE Typed' /\ EpochShape'
<1>1. /\ left' \in [DOMAIN Budget -> Nat]
      /\ left'.drop = left.drop /\ left'.crash = left.crash
  BY BudgetFacts, SpendTyped, SpendOther DEF Stall, Typed, TypeOK
<1>2. RoomTypes' /\ WorkTypes' /\ JobShape'
  BY SameWork DEF Stall, Typed, TypeOK, RoomTypes
<1> QED
  BY <1>1, <1>2, AnswerTyped DEF Stall, connVars, Typed, TypeOK, ConnTypes

LEMMA CrashTyped == ASSUME Typed, EpochShape, Crash PROVE Typed' /\ EpochShape'
<1>1. left' \in [DOMAIN Budget -> Nat]
  BY BudgetFacts, SpendTyped DEF Crash, Typed, TypeOK
<1>2. left'.drop = left.drop /\ left'.crash = left.crash - 1
  BY BudgetFacts DEF Crash, Spend, Typed, TypeOK
<1>3. StoreTypes' /\ RoomTypes'
  BY DEF Crash, Hydrated, storeVars, Typed, TypeOK, StoreTypes, RoomTypes
<1>4. WorkTypes' /\ JobShape'
  <2>1. IdleJob \in Job
    BY DEF IdleJob, Job
  <2> QED
    BY <2>1 DEF Crash, WorkTypes, JobShape, IdleJob
<1>5. ConnTypes'
  BY DEF Crash, Typed, TypeOK, ConnTypes
<1>6. EpochShape'
  <2> SUFFICES ASSUME NEW t \in Tabs
      PROVE /\ tab'[t].net = "offline" => ~alive'[t] /\ down'[t] = <<>>
            /\ tab'[t].epoch + (IF tab'[t].net # "offline" /\ ~alive'[t] THEN 1 ELSE 0)
                 <= 1 + (MaxDrops - left'.drop) + (MaxCrashes - left'.crash)
    BY DEF EpochShape
  <2> DEFINE k == tab[t].epoch
             d == IF tab[t].net # "offline" /\ ~alive[t] THEN 1 ELSE 0
             d1 == IF tab'[t].net # "offline" /\ ~alive'[t] THEN 1 ELSE 0
  <2>1. /\ tab[t].net = "offline" => ~alive[t] /\ down[t] = <<>>
        /\ k + d <= 1 + (MaxDrops - left.drop) + (MaxCrashes - left.crash)
    BY DEF EpochShape
  <2>2. tab' = tab /\ down' = down /\ alive'[t] = FALSE
    BY DEF Crash, tabVars
  <2>3. k \in Nat /\ d \in {0, 1} /\ d1 \in {0, 1} /\ d1 <= d + 1
    BY DEF Typed, TypeOK, TabTypes, Tab, Epochs
  <2>4. left.drop \in Nat /\ left.crash \in Nat
    BY BudgetFacts DEF Typed, TypeOK
  <2>5. k + d1 <= 1 + (MaxDrops - left'.drop) + (MaxCrashes - left'.crash)
    <3>1. k + d <= 1 + (MaxDrops - left.drop) + (MaxCrashes - left.crash)
      BY <2>1
    <3> HIDE DEF k, d, d1
    <3>2. /\ MaxDrops - left'.drop = MaxDrops - left.drop
          /\ MaxCrashes - left'.crash = (MaxCrashes - left.crash) + 1
      BY <2>4, <1>2, BudgetFacts
    <3> QED
      BY <2>3, <2>4, <3>1, <3>2, BudgetFacts
  <2> QED
    BY <2>1, <2>2, <2>5 DEF k, d1
<1> QED
  BY <1>1, <1>3, <1>4, <1>5, <1>6, SameTabs DEF Crash, Typed, TypeOK

-----------------------------------------------------------------------------
LEMMA NextTyped == Typed /\ EpochShape /\ [Next]_vars => Typed' /\ EpochShape'
<1> SUFFICES ASSUME Typed, EpochShape, [Next]_vars PROVE Typed' /\ EpochShape'
  OBVIOUS
<1>1. ASSUME NEW t \in Tabs, TabStep(t) PROVE Typed' /\ EpochShape'
  BY <1>1, ConnectTyped, ConnectEpochs, HangUpsTyped, OnRoomTyped, OnEventsTyped,
     OnAckTyped, OnRejectedTyped, TabEpochs DEF TabStep
<1>2. ASSUME NEW t \in Tabs, NEW cmd \in Commands, SendCommand(t, cmd) PROVE Typed' /\ EpochShape'
  BY <1>2, SendTyped, SendEpochs
<1>3. ASSUME NEW c \in Conns, HandlerStep(c) PROVE Typed' /\ EpochShape'
  BY <1>3, JoinTyped, ResyncTyped, CloseTyped, RefusalsTyped, ReplayTyped, DeclineTyped,
     AcceptTyped, PersistVerdictTyped DEF HandlerStep
<1>4. ASSUME NEW w \in Workers, WorkerStep(w) PROVE Typed' /\ EpochShape'
  BY <1>4, CommitTyped, CommitFailsTyped, ApplyTyped, ReplyTyped DEF WorkerStep
<1>5. CASE StartAuto
  BY <1>5, StartAutoTyped
<1>6. CASE Fault
  BY <1>6, HangUpsTyped, RefusalsTyped, PersistVerdictTyped, StallTyped, CrashTyped DEF Fault
<1>7. CASE UNCHANGED vars
  <2>1. UNCHANGED <<storeVars, roomVars, busy, job, joined, alive, up, down, tab, resume, told, left>>
    BY <1>7 DEF vars, connVars, tabVars
  <2>2. up' \in [Conns -> Seq(Up)] /\ down' \in [Tabs -> Seq(Down)]
    BY <2>1 DEF Typed, TypeOK, ConnTypes
  <2>3. left' \in [DOMAIN Budget -> Nat]
    BY <2>1 DEF Typed, TypeOK
  <2> QED
    BY <2>1, <2>2, <2>3, SameServer, AnswerTyped DEF tabVars
<1> QED
  BY <1>1, <1>2, <1>3, <1>4, <1>5, <1>6, <1>7 DEF Next

\* Every variable keeps its type: in particular a tab never needs more epochs
\* than there are drops and crashes to hang up for, so the bound on epochs
\* prunes no behaviour, and nothing is sent to a tab that is offline.
THEOREM PipelineTypeCorrect == Spec => []TypeOK
<1>1. Init => Typed /\ EpochShape
  BY InitTyped, InitEpochs
<1>2. Typed => TypeOK
  BY DEF Typed
<1> QED
  BY <1>1, <1>2, NextTyped, PTL DEF Spec

LEMMA AlwaysTyped == Spec => []Typed
<1>1. Init => Typed /\ EpochShape
  BY InitTyped, InitEpochs
<1> QED
  BY <1>1, NextTyped, PTL DEF Spec

-----------------------------------------------------------------------------
(***************************************************************************)
(* The log, the stored verdicts and the room in memory.                    *)
(***************************************************************************)
Holding == {"reject", "commit", "apply"}

\* The room's queue is held exactly by the worker that is at the store.
Holder == \A w \in Workers : job[w].step \in Holding <=> busy = w

\* What it prepared under the queue still describes the room when the store
\* answers.
CommitReady ==
  \A w \in Workers : job[w].step = "commit" =>
    /\ job[w].verdict.seq = Len(memLog) + 1
    /\ w # Automation => job[w].cmd.at = Len(memLog)

ApplyReady ==
  \A w \in Workers : job[w].step = "apply" =>
    /\ Len(log) = Len(memLog) + 1 /\ log[Len(log)] = LogEntry(w)
    /\ w # Automation => results[Key(w, job[w].cmd)] = job[w].verdict

RejectReady ==
  \A c \in Conns : job[c].step = "reject" => processed[Key(c, job[c].cmd)] = job[c].verdict

\* MemoryFollowsLog, entry by entry.
Behind ==
  /\ Len(memLog) <= Len(log)
  /\ \A i \in 1 .. Len(memLog) : memLog[i] = log[i]

\* The inductive invariant.
LogInv == /\ Holder /\ CommitReady /\ ApplyReady /\ RejectReady
          /\ Behind /\ ResultsMatchLog /\ ExecutedAtSeen
          /\ StoreNeverConflicts /\ CacheAgrees

LEMMA InitLog == Init => LogInv
<1> SUFFICES ASSUME Init PROVE LogInv
  OBVIOUS
<1>1. Holder /\ CommitReady /\ ApplyReady /\ RejectReady /\ StoreNeverConflicts
  BY ConnFacts DEF Init, IdleJob, Holder, Holding, CommitReady, ApplyReady, RejectReady,
                   StoreNeverConflicts
<1>2. Behind /\ ResultsMatchLog /\ ExecutedAtSeen /\ CacheAgrees
  BY DEF Init, Behind, ResultsMatchLog, ExecutedAtSeen, CacheAgrees
<1> QED
  BY <1>1, <1>2 DEF LogInv

-----------------------------------------------------------------------------
\* Steps that touch neither the log nor the room, and no worker at the store.
LEMMA QuietLog ==
  ASSUME Typed, LogInv, UNCHANGED <<storeVars, memLog, processed, busy>>,
         \A w \in Workers : \/ job'[w] = job[w]
                            \/ job[w].step \notin Holding /\ job'[w].step \notin Holding
  PROVE  LogInv'
<1>1. UNCHANGED <<log, results>>
  BY DEF storeVars
<1>2. \A w \in Workers : {job[w].step, job'[w].step} \cap Holding # {} => job'[w] = job[w]
  OBVIOUS
<1>3. Holder' /\ CommitReady' /\ RejectReady' /\ StoreNeverConflicts'
  BY <1>1, <1>2, ConnFacts
     DEF LogInv, Holder, Holding, CommitReady, RejectReady, StoreNeverConflicts, Key
<1>4. ApplyReady'
  BY <1>1, <1>2 DEF LogInv, ApplyReady, Holding, LogEntry, Key
<1>5. Behind' /\ ResultsMatchLog' /\ ExecutedAtSeen'
  BY <1>1 DEF LogInv, Behind, ResultsMatchLog, Names, ExecutedAtSeen
<1>6. CacheAgrees'
  BY <1>1, <1>2, ConnFacts DEF LogInv, CacheAgrees, Holding, Key
<1> QED
  BY <1>3, <1>4, <1>5, <1>6 DEF LogInv

\* The queue is free: nobody is at the store.
LEMMA NobodyHolds ==
  ASSUME LogInv, busy = None
  PROVE  /\ \A w \in Workers : job[w].step \notin Holding
         /\ \A k \in Keys : processed[k] \in {None, results[k]}
<1>1. \A w \in Workers : job[w].step \notin Holding
  BY ConnFacts DEF LogInv, Holder
<1> QED
  BY <1>1, ConnFacts DEF LogInv, CacheAgrees, Holding

\* One worker holds it: the others are elsewhere.
LEMMA OneHolds ==
  ASSUME LogInv, NEW w \in Workers, job[w].step \in Holding
  PROVE  \A v \in Workers \ {w} : job[v].step \notin Holding
BY DEF LogInv, Holder

\* A worker takes the queue for a command nothing is stored about.
LEMMA TakeLog ==
  ASSUME Typed, LogInv, busy = None, NEW w \in Workers, busy' = w,
         NEW j, job' = [job EXCEPT ![w] = j], j.step \in {"reject", "commit"},
         UNCHANGED <<storeVars, memLog>>,
         j.step = "commit" => /\ UNCHANGED processed
                              /\ j.verdict.seq = Len(memLog) + 1
                              /\ w # Automation => j.cmd.at = Len(memLog),
         j.step = "reject" => /\ w \in Conns
                              /\ processed' = [processed EXCEPT ![Key(w, j.cmd)] = j.verdict],
         w \in Conns => j.cmd \in Pending /\ results[Key(w, j.cmd)] = None
  PROVE  LogInv'
<1>1. UNCHANGED <<log, results, memLog>>
  BY DEF storeVars
<1>2. /\ \A v \in Workers : job[v].step \notin Holding
      /\ \A k \in Keys : processed[k] \in {None, results[k]}
  BY NobodyHolds
<1>3. /\ job'[w] = j
      /\ \A v \in Workers \ {w} : job'[v] = job[v] /\ job'[v].step \notin Holding
  BY <1>2 DEF Typed, TypeOK, WorkTypes
<1>4. Holder'
  BY <1>3 DEF Holder, Holding
<1>5. CommitReady' /\ StoreNeverConflicts'
  BY <1>1, <1>3, ConnFacts DEF CommitReady, StoreNeverConflicts, Holding, Key
<1>6. ApplyReady'
  BY <1>3 DEF ApplyReady, Holding
<1>7. RejectReady' /\ CacheAgrees'
  <2>1. CASE j.step = "commit"
    BY <2>1, <1>1, <1>2, <1>3, ConnFacts DEF RejectReady, CacheAgrees, Holding
  <2>2. CASE j.step = "reject"
    <3> DEFINE k == Key(w, j.cmd)
    <3>1. w \in Conns /\ k \in Keys /\ processed' = [processed EXCEPT ![k] = j.verdict]
      BY <2>2, ConnFacts
    <3>2. RejectReady'
      <4>1. \A c \in Conns : job'[c].step = "reject" => c = w
        BY <1>3, ConnFacts DEF Holding
      <4>2. processed'[k] = j.verdict
        BY <3>1 DEF Typed, TypeOK, RoomTypes
      <4> QED
        BY <1>3, <4>1, <4>2 DEF RejectReady, Key
    <3>3. CacheAgrees'
      <4>1. job'[w].step = "reject" /\ Key(w, job'[w].cmd) = k
        BY <1>3, <2>2
      <4>2. \A q \in Keys \ {k} : processed'[q] \in {None, results'[q]}
        BY <1>1, <1>2, <3>1 DEF Typed, TypeOK, RoomTypes
      <4> QED
        BY <3>1, <4>1, <4>2 DEF CacheAgrees, Key
    <3> QED
      BY <3>2, <3>3
  <2> QED
    BY <2>1, <2>2
<1>8. Behind' /\ ResultsMatchLog' /\ ExecutedAtSeen'
  BY <1>1 DEF LogInv, Behind, ResultsMatchLog, Names, ExecutedAtSeen
<1> QED
  BY <1>4, <1>5, <1>6, <1>7, <1>8 DEF LogInv

\* A worker leaves the store: it is idle, or on its way to answer.
LEMMA LeaveLog ==
  ASSUME Typed, LogInv, NEW w \in Workers, job[w].step \in Holding,
         busy' = None, NEW j, job' = [job EXCEPT ![w] = j], j.step \notin Holding
  PROVE  /\ Holder' /\ CommitReady' /\ ApplyReady' /\ RejectReady' /\ StoreNeverConflicts'
         /\ \A v \in Workers : job'[v].step \notin Holding
<1>1. \A v \in Workers : job'[v].step \notin Holding
  BY OneHolds DEF Typed, TypeOK, WorkTypes
<1> QED
  BY <1>1, ConnFacts DEF Holder, CommitReady, ApplyReady, RejectReady, StoreNeverConflicts, Holding

LEMMA IdleStep == IdleJob.step \notin Holding
BY DEF IdleJob, Holding

LEMMA LoggedKeys ==
  ASSUME Typed, NEW i \in 1 .. Len(log), log[i].key # AutoKey
  PROVE  log[i].key \in Keys
<1>1. log[i] \in Entry
  BY DEF Typed, TypeOK, StoreTypes
<1>2. log[i].key \in Keys \cup {AutoKey}
  BY <1>1 DEF Entry
<1> QED
  BY <1>2

LEMMA PersistLog ==
  ASSUME Typed, LogInv, NEW c \in Conns, PersistVerdict(c) \/ PersistVerdictFails(c)
  PROVE  LogInv'
<1> DEFINE k == Key(c, job[c].cmd)
           v == job[c].verdict
<1>1. /\ c \in Workers /\ job[c].step = "reject" /\ job[c].step \in Holding
      /\ job' = [job EXCEPT ![c] = IdleJob] /\ busy' = None
      /\ UNCHANGED <<log, memLog>>
  BY ConnFacts DEF PersistVerdict, PersistVerdictFails, Done, Holding, roomVars
<1>2. /\ Holder' /\ CommitReady' /\ ApplyReady' /\ RejectReady' /\ StoreNeverConflicts'
      /\ \A u \in Workers \ {c} : job[u].step \notin Holding
  BY <1>1, IdleStep, LeaveLog, OneHolds
<1>3. k \in Keys /\ v \in Result /\ ~v.ok
  <2>1. job[c].cmd \in Pending /\ v \in Refusal
    BY <1>1, ConnFacts DEF Typed, JobShape
  <2> QED
    BY <2>1, ConnFacts DEF Result, Refusal
<1>4. results[k] = None /\ processed[k] = v
  BY <1>1 DEF LogInv, StoreNeverConflicts, RejectReady
<1>5. results' = results \/ results' = [results EXCEPT ![k] = v]
  BY DEF PersistVerdict, PersistVerdictFails, StoreResult
<1>6. /\ \A q \in Keys \ {k} : results'[q] = results[q] /\ processed'[q] = processed[q]
      /\ processed'[k] \in {None, results'[k]}
      /\ results'[k] # None => ~results'[k].ok
  <2>1. CASE PersistVerdict(c)
    BY <2>1, <1>3, <1>4 DEF PersistVerdict, StoreResult, roomVars, Typed, TypeOK, StoreTypes
  <2>2. CASE PersistVerdictFails(c)
    BY <2>2, <1>3, <1>4, <1>5
       DEF PersistVerdictFails, DropFromCache, Typed, TypeOK, StoreTypes, RoomTypes
  <2> QED
    BY <2>1, <2>2
<1> HIDE DEF k, v
<1>7. CacheAgrees'
  <2>1. \A q \in Keys \ {k} : processed[q] \in {None, results[q]}
    BY <1>2, <1>3, ConnFacts DEF LogInv, CacheAgrees, Holding, k
  <2> QED
    BY <2>1, <1>6 DEF CacheAgrees
<1>8. ResultsMatchLog'
  <2>1. \A q \in Keys : results'[q] # None /\ results'[q].ok => q # k /\ results'[q] = results[q]
    BY <1>6
  <2>2. \A i \in 1 .. Len(log) : log[i].key # AutoKey => Names(log[i].key, i)'
    <3> SUFFICES ASSUME NEW i \in 1 .. Len(log), log[i].key # AutoKey
                 PROVE Names(log[i].key, i)'
      OBVIOUS
    <3>1. Names(log[i].key, i)
      BY DEF LogInv, ResultsMatchLog
    <3>2. log[i].key \in Keys
      BY LoggedKeys
    <3>3. log[i].key # k
      BY <3>1, <1>4 DEF Names
    <3> QED
      BY <3>1, <3>2, <3>3, <1>1, <1>6 DEF Names
  <2> QED
    BY <2>1, <2>2, <1>1 DEF LogInv, ResultsMatchLog
<1>9. Behind' /\ ExecutedAtSeen'
  BY <1>1 DEF LogInv, Behind, ExecutedAtSeen
<1> QED
  BY <1>2, <1>7, <1>8, <1>9 DEF LogInv

-----------------------------------------------------------------------------
\* The transaction: one more entry, and the verdict that names it.
LEMMA StoreEventsLog ==
  ASSUME Typed, LogInv, NEW w \in Workers, job[w].step = "commit", SlotFree(w), StoreEvents(w)
  PROVE  /\ Len(log) = Len(memLog) /\ Len(log') = Len(log) + 1
         /\ log'[Len(log')] = LogEntry(w)
         /\ \A i \in 1 .. Len(log) : log'[i] = log[i]
         /\ w # Automation => results'[Key(w, job[w].cmd)] = job[w].verdict
         /\ \A k \in Keys : \/ results'[k] = results[k]
                            \/ w # Automation /\ k = Key(w, job[w].cmd)
         /\ ResultsMatchLog' /\ ExecutedAtSeen'
<1> DEFINE k == Key(w, job[w].cmd)
           v == job[w].verdict
           e == LogEntry(w)
<1>1. /\ v \in Result /\ v # None /\ v.ok /\ v.seq = Len(log) + 1
      /\ Len(log) = Len(memLog) /\ Len(log) \in Nat
  <2>1. v \in Acceptance
    BY DEF Typed, JobShape
  <2>2. v # None
    BY <2>1, NoneAssumption DEF Result
  <2>3. v.seq = Len(log) + 1 /\ v.seq = Len(memLog) + 1
    BY DEF SlotFree, LogInv, CommitReady
  <2>4. v \in Result /\ v.ok
    BY <2>1 DEF Result, Acceptance
  <2> HIDE DEF v
  <2> QED
    BY <2>2, <2>3, <2>4, Lengths
<1>2. ASSUME w # Automation
      PROVE  /\ w \in Conns /\ k \in Keys /\ k # AutoKey /\ results[k] = None /\ v.cmd = job[w].cmd.cmd
             /\ job[w].cmd.at = Len(log)
  BY <1>1, <1>2, ConnFacts, AutoAssumption
     DEF LogInv, StoreNeverConflicts, CommitReady, Typed, JobShape
<1>3. /\ e \in Entry /\ e.at = Len(log)
      /\ w # Automation => e.key = k /\ e.cmd = v.cmd
      /\ w = Automation => e.key = AutoKey
  <2>1. e \in Entry
    BY LogEntryTyped
  <2>2. CASE w = Automation
    BY <1>1, <2>1, <2>2 DEF LogEntry
  <2>3. CASE w # Automation
    BY <1>2, <2>1, <2>3 DEF LogEntry
  <2> QED
    BY <2>1, <2>2, <2>3
<1>4. log' = Append(log, e) /\ log \in Seq(Entry)
  BY DEF StoreEvents, Typed, TypeOK, StoreTypes
<1>5. /\ Len(log') = Len(log) + 1 /\ log'[Len(log) + 1] = e
      /\ \A i \in 1 .. Len(log) : log'[i] = log[i]
  <2> HIDE DEF e
  <2> QED
    BY <1>3, <1>4, AppendProperties
<1>6. /\ w = Automation => results' = results
      /\ w # Automation => results' = [results EXCEPT ![k] = v]
  BY DEF StoreEvents, StoreResult
<1>7. /\ w # Automation => results'[k] = v
      /\ \A q \in Keys : results'[q] = results[q] \/ (w # Automation /\ q = k)
  <2> HIDE DEF k, v
  <2>1. results \in [Keys -> Result \cup {None}]
    BY DEF Typed, TypeOK, StoreTypes
  <2> QED
    BY <1>2, <1>6, <2>1
<1> HIDE DEF k, v, e
<1>8. ExecutedAtSeen'
  <2>1. ASSUME NEW i \in 1 .. Len(log') PROVE log'[i].at = i - 1
    <3>1. CASE i = Len(log) + 1
      BY <3>1, <1>1, <1>3, <1>5
    <3>2. CASE i # Len(log) + 1
      BY <3>2, <1>1, <1>5 DEF LogInv, ExecutedAtSeen
    <3> QED
      BY <3>1, <3>2
  <2> QED
    BY <2>1 DEF ExecutedAtSeen
<1>9. ResultsMatchLog'
  <2>1. ASSUME NEW i \in 1 .. Len(log'), log'[i].key # AutoKey
        PROVE  results'[log'[i].key] # None /\ results'[log'[i].key].ok
               /\ results'[log'[i].key].seq = i /\ results'[log'[i].key].cmd = log'[i].cmd
    <3>1. CASE i = Len(log) + 1
      <4>1. w # Automation
        BY <3>1, <2>1, <1>3, <1>5
      <4> QED
        BY <3>1, <4>1, <1>1, <1>3, <1>5, <1>7
    <3>2. CASE i # Len(log) + 1
      <4>1. i \in 1 .. Len(log) /\ log'[i] = log[i]
        BY <3>2, <1>1, <1>5
      <4>2. Names(log[i].key, i) /\ log[i].key \in Keys
        BY <4>1, <2>1, LoggedKeys DEF LogInv, ResultsMatchLog
      <4>3. results'[log[i].key] = results[log[i].key]
        BY <4>2, <1>2, <1>7 DEF Names
      <4> QED
        BY <4>1, <4>2, <4>3 DEF Names
    <3> QED
      BY <3>1, <3>2
  <2>2. ASSUME NEW q \in Keys, results'[q] # None, results'[q].ok
        PROVE  results'[q].seq \in 1 .. Len(log') /\ log'[results'[q].seq].key = q
    <3>1. CASE w # Automation /\ q = k
      BY <3>1, <1>1, <1>3, <1>5, <1>7
    <3>2. CASE results'[q] = results[q]
      <4>1. results[q].seq \in 1 .. Len(log) /\ log[results[q].seq].key = q
        BY <2>2, <3>2 DEF LogInv, ResultsMatchLog
      <4> QED
        BY <4>1, <3>2, <1>1, <1>5
    <3> QED
      BY <3>1, <3>2, <1>7
  <2> QED
    BY <2>1, <2>2 DEF ResultsMatchLog, Names
<1> QED
  BY <1>1, <1>5, <1>7, <1>8, <1>9 DEF k, v, e

LEMMA BehindLonger ==
  ASSUME Typed, LogInv, memLog' = memLog, Len(log') = Len(log) + 1,
         \A i \in 1 .. Len(log) : log'[i] = log[i]
  PROVE  Behind'
BY Lengths DEF LogInv, Behind

\* While a worker commits, the cache knows no more than the store.
LEMMA CacheWhileCommitting ==
  ASSUME LogInv, NEW w \in Workers, job[w].step \in {"commit", "apply"}
  PROVE  \A k \in Keys : processed[k] \in {None, results[k]}
<1>1. \A c \in Conns : job[c].step # "reject"
  BY OneHolds, ConnFacts DEF Holding
<1> QED
  BY <1>1 DEF LogInv, CacheAgrees

LEMMA CommitLog == ASSUME Typed, LogInv, NEW w \in Workers, Commit(w) PROVE LogInv'
<1>0. /\ job[w].step = "commit" /\ job[w].step \in Holding /\ SlotFree(w) /\ StoreEvents(w)
      /\ job' = [job EXCEPT ![w].step = "apply"]
      /\ memLog' = memLog /\ processed' = processed /\ busy' = busy
  BY DEF Commit, roomVars, Holding
<1>1. /\ \A v \in Workers \ {w} : job'[v] = job[v] /\ job[v].step \notin Holding
      /\ job'[w].step = "apply" /\ job'[w].cmd = job[w].cmd /\ job'[w].verdict = job[w].verdict
  BY <1>0, OneHolds DEF Typed, TypeOK, WorkTypes, Job
<1>2. Holder'
  BY <1>0, <1>1 DEF LogInv, Holder, Holding
<1>3. CommitReady' /\ RejectReady' /\ StoreNeverConflicts'
  BY <1>1, ConnFacts DEF CommitReady, RejectReady, StoreNeverConflicts, Holding
<1>4. ApplyReady'
  <2>1. LogEntry(w)' = LogEntry(w) /\ Key(w, job'[w].cmd)= Key(w, job[w].cmd)
    BY <1>1 DEF LogEntry, Key
  <2>2. \A v \in Workers : job'[v].step = "apply" => v = w
    BY <1>1 DEF Holding
  <2>3. /\ Len(log') = Len(memLog') + 1 /\ log'[Len(log')] = LogEntry(w)
        /\ w # Automation => results'[Key(w, job[w].cmd)] = job[w].verdict
    BY <1>0, StoreEventsLog
  <2> QED
    BY <1>1, <2>1, <2>2, <2>3 DEF ApplyReady, Key
<1>5. ResultsMatchLog' /\ ExecutedAtSeen' /\ Behind'
  BY <1>0, StoreEventsLog, BehindLonger
<1>6. CacheAgrees'
  <2>1. \A k \in Keys : results'[k] = results[k] \/ results[k] = None
    BY <1>0, StoreEventsLog, ConnFacts DEF LogInv, StoreNeverConflicts
  <2>2. \A k \in Keys : processed[k] \in {None, results[k]}
    BY <1>0, CacheWhileCommitting
  <2> QED
    BY <1>0, <2>1, <2>2 DEF CacheAgrees
<1> QED
  BY <1>2, <1>3, <1>4, <1>5, <1>6 DEF LogInv

LEMMA CommitFailsLog ==
  ASSUME Typed, LogInv, NEW w \in Workers, CommitFails(w) PROVE LogInv'
<1>0. /\ job[w].step = "commit" /\ job[w].step \in Holding
      /\ job' = [job EXCEPT ![w] = IdleJob] /\ busy' = None
      /\ memLog' = memLog /\ processed' = processed
      /\ \/ UNCHANGED <<log, results>>
         \/ SlotFree(w) /\ StoreEvents(w)
  BY DEF CommitFails, Done, roomVars, storeVars, Holding
<1>1. Holder' /\ CommitReady' /\ ApplyReady' /\ RejectReady' /\ StoreNeverConflicts'
  BY <1>0, IdleStep, LeaveLog
<1>2. ResultsMatchLog' /\ ExecutedAtSeen' /\ Behind'
  <2>1. CASE UNCHANGED <<log, results>>
    BY <2>1, <1>0 DEF LogInv, ResultsMatchLog, Names, ExecutedAtSeen, Behind
  <2>2. CASE SlotFree(w) /\ StoreEvents(w)
    BY <2>2, <1>0, StoreEventsLog, BehindLonger
  <2> QED
    BY <1>0, <2>1, <2>2
<1>3. CacheAgrees'
  <2>1. \A k \in Keys : results'[k] = results[k] \/ results[k] = None
    BY <1>0, StoreEventsLog, ConnFacts DEF LogInv, StoreNeverConflicts
  <2>2. \A k \in Keys : processed[k] \in {None, results[k]}
    BY <1>0, CacheWhileCommitting
  <2> QED
    BY <1>0, <2>1, <2>2 DEF CacheAgrees
<1> QED
  BY <1>1, <1>2, <1>3 DEF LogInv

LEMMA ApplyLog == ASSUME Typed, LogInv, NEW w \in Workers, Apply(w) PROVE LogInv'
<1> DEFINE k == Key(w, job[w].cmd)
           e == LogEntry(w)
           j == [job[w] EXCEPT !.step = "reply"]
<1>0. /\ job[w].step = "apply" /\ job[w].step \in Holding
      /\ job' = [job EXCEPT ![w] = j] /\ busy' = None
      /\ UNCHANGED <<log, results>>
      /\ memLog' = Append(memLog, e)
      /\ processed' = IF w = Automation THEN processed ELSE [processed EXCEPT ![k] = job[w].verdict]
  BY DEF Apply, storeVars, Holding
<1>1. Holder' /\ CommitReady' /\ ApplyReady' /\ RejectReady' /\ StoreNeverConflicts'
  <2>1. j.step \notin Holding
    BY DEF Typed, TypeOK, WorkTypes, Job, Holding
  <2> HIDE DEF j
  <2> QED
    BY <1>0, <2>1, LeaveLog
<1>2. /\ Len(log) = Len(memLog) + 1 /\ log[Len(log)] = e
      /\ w # Automation => results[k] = job[w].verdict /\ k \in Keys
  BY <1>0, LogEntryTyped DEF LogInv, ApplyReady
<1> HIDE DEF k, e
<1>3. Behind'
  <2>1. e \in Entry /\ memLog \in Seq(Entry)
    BY <1>0, LogEntryTyped DEF Typed, TypeOK, RoomTypes, e
  <2>2. /\ Len(memLog') = Len(memLog) + 1 /\ memLog'[Len(memLog) + 1] = e
        /\ \A i \in 1 .. Len(memLog) : memLog'[i] = memLog[i]
    BY <1>0, <2>1, AppendProperties
  <2> QED
    BY <1>0, <1>2, <2>2, Lengths DEF LogInv, Behind
<1>4. ResultsMatchLog' /\ ExecutedAtSeen'
  BY <1>0 DEF LogInv, ResultsMatchLog, Names, ExecutedAtSeen
<1>5. CacheAgrees'
  <2>1. \A q \in Keys : processed[q] \in {None, results[q]}
    BY <1>0, CacheWhileCommitting
  <2>2. processed \in [Keys -> Result \cup {None}]
    BY DEF Typed, TypeOK, RoomTypes
  <2>3. \A q \in Keys : processed'[q] \in {None, results[q]}
    BY <1>0, <1>2, <2>1, <2>2
  <2> QED
    BY <1>0, <2>3 DEF CacheAgrees
<1> QED
  BY <1>1, <1>3, <1>4, <1>5 DEF LogInv

LEMMA CrashLog == ASSUME Typed, LogInv, Crash PROVE LogInv'
<1>1. /\ log' = log /\ results' = results /\ memLog' = log
      /\ processed' = [k \in Keys |-> None] /\ busy' = None
      /\ \A w \in Workers : job'[w].step = "idle"
  BY DEF Crash, Hydrated, storeVars, IdleJob
<1>2. Holder' /\ CommitReady' /\ ApplyReady' /\ RejectReady' /\ StoreNeverConflicts'
  BY <1>1, ConnFacts DEF Holder, Holding, CommitReady, ApplyReady, RejectReady, StoreNeverConflicts
<1>3. Behind' /\ CacheAgrees'
  BY <1>1, Lengths DEF Behind, CacheAgrees
<1>4. ResultsMatchLog' /\ ExecutedAtSeen'
  BY <1>1 DEF LogInv, ResultsMatchLog, Names, ExecutedAtSeen
<1> QED
  BY <1>2, <1>3, <1>4 DEF LogInv

LEMMA ReplayLog == ASSUME Typed, LogInv, NEW c \in Conns, Replay(c) PROVE LogInv'
<1> DEFINE k == Key(c, Asked(c))
<1>1. /\ busy = None /\ processed' = [processed EXCEPT ![k] = Verdict(k)]
      /\ UNCHANGED <<log, results, memLog, busy, job>>
  BY DEF Replay, TakeInTurn, storeVars
<1>2. /\ \A w \in Workers : job[w].step \notin Holding
      /\ \A q \in Keys : processed[q] \in {None, results[q]}
  BY <1>1, NobodyHolds
<1>3. Asked(c) \in Pending /\ k \in Keys
  BY TakeTyped, ConnFacts DEF Replay, TakeInTurn, Typed, TypeOK
<1>4. processed \in [Keys -> Result \cup {None}]
  BY DEF Typed, TypeOK, RoomTypes
<1>5. Verdict(k) = results[k]
  BY <1>2, <1>3 DEF Verdict
<1> HIDE DEF k
<1>6. CacheAgrees'
  BY <1>1, <1>2, <1>3, <1>4, <1>5 DEF CacheAgrees
<1>7. Holder' /\ CommitReady' /\ ApplyReady' /\ RejectReady' /\ StoreNeverConflicts'
  BY <1>1, <1>2, ConnFacts
     DEF LogInv, Holder, Holding, CommitReady, ApplyReady, RejectReady, StoreNeverConflicts
<1>8. ResultsMatchLog' /\ ExecutedAtSeen' /\ Behind'
  BY <1>1 DEF LogInv, ResultsMatchLog, Names, ExecutedAtSeen, Behind
<1> QED
  BY <1>6, <1>7, <1>8 DEF LogInv

LEMMA DeclineLog == ASSUME Typed, LogInv, NEW c \in Conns, Decline(c) PROVE LogInv'
<1> DEFINE p == Asked(c)
           code == IF Stale(p) THEN "STALE_STATE" ELSE "RULE_VIOLATION"
           v == [ok |-> FALSE, cmd |-> p.cmd, seq |-> 0, code |-> code]
           j == [step |-> "reject", cmd |-> p, verdict |-> v]
<1>1. /\ Take(c, "COMMAND") /\ busy = None /\ Verdict(Key(c, p)) = None
      /\ processed' = [processed EXCEPT ![Key(c, p)] = v]
      /\ job' = [job EXCEPT ![c] = j] /\ busy' = c
      /\ UNCHANGED <<storeVars, memLog>>
  BY DEF Decline, Fresh, TakeInTurn
<1>2. p \in Pending /\ results[Key(c, p)] = None
  BY <1>1, TakeTyped DEF Typed, TypeOK, Verdict
<1>3. j.step = "reject" /\ j.cmd = p /\ j.verdict = v
  OBVIOUS
<1> HIDE DEF j, v, p
<1> QED
  BY <1>1, <1>2, <1>3, ConnFacts, TakeLog

LEMMA StartCommitLog ==
  ASSUME Typed, LogInv, busy = None, NEW w \in Workers, NEW p, NEW cmd, StartCommit(w, p, cmd),
         w \in Conns => p \in Pending /\ p.at = Len(memLog) /\ results[Key(w, p)] = None
  PROVE  LogInv'
<1> DEFINE j == [step |-> "commit", cmd |-> p, verdict |-> Accepted(cmd)]
<1>1. /\ job' = [job EXCEPT ![w] = j] /\ busy' = w
      /\ UNCHANGED <<storeVars, memLog, processed>>
  BY DEF StartCommit, roomVars
<1>2. j.step = "commit" /\ j.cmd = p /\ j.verdict.seq = Len(memLog) + 1
  BY DEF Accepted
<1> HIDE DEF j
<1> QED
  BY <1>1, <1>2, ConnFacts, TakeLog

LEMMA AcceptLog == ASSUME Typed, LogInv, NEW c \in Conns, Accept(c) PROVE LogInv'
<1>1. /\ Take(c, "COMMAND") /\ busy = None /\ StartCommit(c, Asked(c), Asked(c).cmd)
      /\ results[Key(c, Asked(c))] = None /\ Asked(c).at = Len(memLog)
  BY DEF Accept, Fresh, TakeInTurn, Verdict, Stale
<1>2. Asked(c) \in Pending
  BY <1>1, TakeTyped DEF Typed, TypeOK
<1> QED
  BY <1>1, <1>2, ConnFacts, StartCommitLog

LEMMA StartAutoLog == ASSUME Typed, LogInv, StartAuto PROVE LogInv'
BY StartCommitLog, ConnFacts, AutoAssumption DEF StartAuto

\* Joining, answering and everything the tab does leave the log alone.
LEMMA JobsOff ==
  ASSUME Typed, NEW w \in Workers, job[w].step \notin Holding,
         NEW j, j.step \notin Holding, job' = [job EXCEPT ![w] = j]
  PROVE  \A v \in Workers : \/ job'[v] = job[v]
                            \/ job[v].step \notin Holding /\ job'[v].step \notin Holding
BY DEF Typed, TypeOK, WorkTypes

LEMMA ServerQuiet ==
  ASSUME Typed, LogInv, NEW c \in Conns, Join(c) \/ SyncJoined(c) PROVE LogInv'
<1> DEFINE j == IF Join(c) THEN [job[c] EXCEPT !.step = "syncing"] ELSE IdleJob
<1>1. /\ job' = [job EXCEPT ![c] = j] /\ job[c].step \notin Holding
      /\ UNCHANGED <<storeVars, memLog, processed, busy>>
  BY DEF Join, SyncJoined, Take, Holding, roomVars
<1>2. j.step \notin Holding
  BY ConnFacts DEF Typed, TypeOK, WorkTypes, Job, IdleJob, Holding
<1> HIDE DEF j
<1> QED
  BY <1>1, <1>2, ConnFacts, JobsOff, QuietLog

LEMMA ReplyQuiet == ASSUME Typed, LogInv, NEW w \in Workers, Reply(w) PROVE LogInv'
<1>1. /\ job' = [job EXCEPT ![w] = IdleJob] /\ job[w].step \notin Holding
      /\ UNCHANGED <<storeVars, memLog, processed, busy>>
  BY DEF Reply, Holding, roomVars
<1> QED
  BY <1>1, IdleStep, JobsOff, QuietLog

\* Steps of the tabs, of the network and of the server that leave every worker
\* where it is.
AwayFromStore ==
  \/ \E t \in Tabs : \/ Connect(t) \/ DetectClose(t) \/ Drop(t) \/ Reload(t)
                     \/ OnRoom(t) \/ OnEvents(t) \/ OnAck(t) \/ OnRejected(t)
                     \/ \E cmd \in Commands : SendCommand(t, cmd)
  \/ \E c \in Conns : Resync(c) \/ Close(c) \/ RefuseLimited(c) \/ RefusePaused(c)
  \/ Stall
  \/ UNCHANGED vars

LEMMA AwayQuiet == ASSUME Typed, LogInv, AwayFromStore PROVE LogInv'
<1> DEFINE Kept == UNCHANGED <<storeVars, memLog, processed, busy, job>>
<1>1. ASSUME NEW t \in Tabs, Connect(t) \/ DetectClose(t) \/ Drop(t) \/ Reload(t)
                             \/ \E cmd \in Commands : SendCommand(t, cmd)
      PROVE  Kept
  BY <1>1 DEF Connect, DetectClose, Drop, Reload, HangUp, SendCommand, roomVars
<1>2. ASSUME NEW t \in Tabs, OnRoom(t) \/ OnEvents(t) \/ OnAck(t) \/ OnRejected(t) PROVE Kept
  BY <1>2 DEF OnRoom, OnEvents, OnAck, OnRejected, Receive, roomVars
<1>3. ASSUME NEW c \in Conns, Resync(c) \/ Close(c) \/ RefuseLimited(c) \/ RefusePaused(c) PROVE Kept
  BY <1>3 DEF Resync, Close, RefuseLimited, RefusePaused, roomVars
<1>4. ASSUME Stall \/ UNCHANGED vars PROVE Kept
  BY <1>4 DEF Stall, vars, roomVars
<1>5. Kept
  <2> HIDE DEF Kept
  <2> QED
    BY <1>1, <1>2, <1>3, <1>4 DEF AwayFromStore
<1> QED
  BY <1>5, QuietLog

LEMMA NextLog == Typed /\ LogInv /\ [Next]_vars => LogInv'
<1> SUFFICES ASSUME Typed, LogInv, [Next]_vars PROVE LogInv'
  OBVIOUS
<1>1. CASE AwayFromStore
  BY <1>1, AwayQuiet
<1>2. ASSUME NEW t \in Tabs, TabStep(t) PROVE LogInv'
  BY <1>2, AwayQuiet DEF TabStep, AwayFromStore
<1>3. ASSUME NEW t \in Tabs, NEW cmd \in Commands, SendCommand(t, cmd) PROVE LogInv'
  BY <1>3, AwayQuiet DEF AwayFromStore
<1>4. ASSUME NEW c \in Conns, HandlerStep(c) PROVE LogInv'
  <2>1. CASE Resync(c) \/ Close(c) \/ RefusePaused(c)
    BY <2>1, AwayQuiet DEF AwayFromStore
  <2> QED
    BY <1>4, <2>1, ServerQuiet, ReplayLog, DeclineLog, AcceptLog, PersistLog DEF HandlerStep
<1>5. ASSUME NEW w \in Workers, WorkerStep(w) PROVE LogInv'
  BY <1>5, CommitLog, CommitFailsLog, ApplyLog, ReplyQuiet DEF WorkerStep
<1>6. CASE StartAuto
  BY <1>6, StartAutoLog
<1>7. CASE Fault
  <2>1. CASE \E t \in Tabs : Drop(t) \/ Reload(t)
    BY <2>1, AwayQuiet DEF AwayFromStore
  <2>2. ASSUME NEW c \in Conns, RefuseLimited(c) PROVE LogInv'
    BY <2>2, AwayQuiet DEF AwayFromStore
  <2>3. ASSUME NEW c \in Conns, PersistVerdictFails(c) PROVE LogInv'
    BY <2>3, PersistLog
  <2>4. CASE Stall
    BY <2>4, AwayQuiet DEF AwayFromStore
  <2> QED
    BY <1>7, <2>1, <2>2, <2>3, <2>4, CrashLog DEF Fault
<1>8. CASE UNCHANGED vars
  BY <1>8, AwayQuiet DEF AwayFromStore
<1> QED
  BY <1>2, <1>3, <1>4, <1>5, <1>6, <1>7, <1>8 DEF Next

LEMMA AlwaysLog == Spec => []LogInv
<1> QED
  BY InitLog, NextLog, AlwaysTyped, PTL DEF Spec

-----------------------------------------------------------------------------
\* The stored verdicts and the log agree, through every failed, unknown or
\* interrupted commit: submitCommandNow may answer a retry from
\* command_results alone.
THEOREM StoredVerdictsMatchLog == Spec => []ResultsMatchLog
<1>1. LogInv => ResultsMatchLog
  BY DEF LogInv
<1> QED
  BY <1>1, AlwaysLog, PTL

\* No retransmission, reconnection or crash executes a command twice.
THEOREM CommandsExecuteAtMostOnce == Spec => []AtMostOnce
<1>1. ResultsMatchLog => AtMostOnce
  BY DEF ResultsMatchLog, Names, AtMostOnce
<1> QED
  BY <1>1, StoredVerdictsMatchLog, PTL

\* room.events is a prefix of match_events.
THEOREM MemoryIsDurable == Spec => []MemoryFollowsLog
<1>1. Typed /\ LogInv => MemoryFollowsLog
  <2> SUFFICES ASSUME Typed, LogInv PROVE MemoryFollowsLog
    OBVIOUS
  <2>1. memLog \in Seq(Entry) /\ log \in Seq(Entry) /\ Len(memLog) \in Nat
    BY DEF Typed, TypeOK, StoreTypes, RoomTypes
  <2>2. Len(memLog) <= Len(log) /\ \A i \in 1 .. Len(memLog) : memLog[i] = log[i]
    BY DEF LogInv, Behind
  <2> DEFINE prefix == SubSeq(log, 1, Len(memLog))
  <2>3. \A i \in 1 .. Len(memLog) : log[i] \in Entry
    BY <2>1, <2>2
  <2>4. prefix \in Seq(Entry) /\ Len(prefix) = Len(memLog)
        /\ \A i \in 1 .. Len(memLog) : prefix[i] = log[i]
    BY <2>1, <2>3, SubSeqProperties
  <2>5. memLog = prefix
    <3> HIDE DEF prefix
    <3> QED
      BY <2>1, <2>2, <2>4, SeqEqual
  <2> QED
    BY <2>2, <2>5 DEF MemoryFollowsLog
<1> QED
  BY <1>1, AlwaysTyped, AlwaysLog, PTL

\* A player's command takes effect on the table he issued it for: the check of
\* expectedEventSeq still holds when the store answers, because the room's
\* queue is held in between.
THEOREM CommandsExecuteAsSeen == Spec => []ExecutedAtSeen
<1>1. LogInv => ExecutedAtSeen
  BY DEF LogInv
<1> QED
  BY <1>1, AlwaysLog, PTL

\* With one owner of the room, no verdict is ever stored over another one, so
\* COMMAND_RESULT_CONFLICT cannot be thrown.
THEOREM NoVerdictOverwritten == Spec => []StoreNeverConflicts
<1>1. LogInv => StoreNeverConflicts
  BY DEF LogInv
<1> QED
  BY <1>1, AlwaysLog, PTL

\* processedClientCommands answers as command_results would.
THEOREM CacheFollowsStore == Spec => []CacheAgrees
<1>1. LogInv => CacheAgrees
  BY DEF LogInv
<1> QED
  BY <1>1, AlwaysLog, PTL

\* Log, stored verdicts, cache and requests never contradict one another.
THEOREM VerdictsNeverDisagree == Spec => []VerdictsAgree
BY StoredVerdictsMatchLog, NoVerdictOverwritten, CacheFollowsStore, PTL DEF VerdictsAgree
=============================================================================
