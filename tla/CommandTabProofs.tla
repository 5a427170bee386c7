--------------------------- MODULE CommandTabProofs ---------------------------
(***************************************************************************)
(* The two ends of CommandPipeline: what is on its way between a tab and   *)
(* its handler is about the one command the tab waits for, every answer    *)
(* tells what the store holds, and so does all that players were told.     *)
(***************************************************************************)
EXTENDS CommandPipelineProofs, FiniteSetTheorems

\* The places of the requests and of the answers in a queue.
Asks(q) == {i \in 1 .. Len(q) : q[i].type = "COMMAND"}
Requests(q) == {q[i].cmd : i \in Asks(q)}
Answers(q) == {i \in 1 .. Len(q) : q[i].type \in {"ACK", "REJECTED"}}
Notices(q) == {i \in 1 .. Len(q) : q[i].type \in {"ROOM", "EVENTS"}}

Working(w) == job[w].step \in {"reject", "commit", "apply", "reply"}
Waiting(s) == s.pending # None /\ s.ack = 0 /\ s.sent

\* Nothing is known of a connection before its tab opens it.
Unused(t, e) == e > tab[t].epoch \/ (e = tab[t].epoch /\ tab[t].net = "offline")
FreshConns ==
  \A t \in Tabs, e \in Epochs : Unused(t, e) =>
    up[<<t, e>>] = <<>> /\ job[<<t, e>>].step = "idle" /\ ~joined[<<t, e>>]

\* What is stored of a player's command, and the answers that tell it.
Stored(t, n) == results[<<User[t], n>>]
Tells(t, p, m) ==
  LET r == Stored(t, p.cseq)
  IN /\ m.cseq = p.cseq
     /\ m.type = "ACK" => r # None /\ r.ok /\ r.seq = m.seq /\ r.cmd = p.cmd
     /\ m.type = "REJECTED" /\ m.code \in FinalCodes =>
          r # None /\ ~r.ok /\ r.code = m.code /\ r.cmd = p.cmd
Fits(t, m) == Waiting(tab[t]) /\ Tells(t, tab[t].pending, m)

\* Between a tab and its handler there is one request, one job or one answer,
\* and it is about the command the tab waits for.
Sole(t) ==
  /\ \A i, j \in Asks(up[Conn(t)]) : i = j
  /\ \A i, j \in Answers(down[t]) : i = j
  /\ Asks(up[Conn(t)]) # {} => ~Working(Conn(t)) /\ Answers(down[t]) = {}
  /\ Working(Conn(t)) => Answers(down[t]) = {}
About(t) ==
  /\ \A p \in Requests(up[Conn(t)]) : Waiting(tab[t]) /\ p = tab[t].pending
  /\ Working(Conn(t)) => Waiting(tab[t]) /\ job[Conn(t)].cmd = tab[t].pending
  /\ \A i \in Answers(down[t]) : Fits(t, down[t][i])

\* Tabs, and the snapshots on their way to them, are behind the room in
\* memory; a room state is not behind the tab, nor behind what comes before it.
InOrder(q, shown, last) ==
  \A i \in Notices(q) :
    /\ q[i].seq <= last
    /\ q[i].type = "ROOM" =>
         /\ shown <= q[i].seq
         /\ \A j \in Notices(q) : j < i => q[j].seq <= q[i].seq
Seen(t) ==
  /\ tab[t].lastSeq <= Len(memLog) /\ resume[User[t]].lastSeq <= Len(memLog)
  /\ InOrder(down[t], tab[t].lastSeq, Len(memLog))

\* A handler acknowledges what it stored and what the room in memory holds.
ReplyReady ==
  \A w \in Workers : job[w].step = "reply" =>
    /\ job[w].verdict.seq <= Len(memLog)
    /\ w # Automation => results[Key(w, job[w].cmd)] = job[w].verdict

\* What a tab was acknowledged and what its player was told is stored.
Acked(t) ==
  tab[t].ack # 0 =>
    LET r == Stored(t, tab[t].pending.cseq)
    IN r # None /\ r.ok /\ r.seq = tab[t].ack /\ r.cmd = tab[t].pending.cmd
ToldStored(t) ==
  \A n \in ClientSeqs :
    told[t][n] # None /\ told[t][n].code \in FinalCodes \cup {"confirmed"} =>
      LET r == Stored(t, n)
      IN r # None /\ r.cmd = told[t][n].cmd /\ (r.ok <=> told[t][n].code = "confirmed")

TabTrue(t) == Sole(t) /\ About(t) /\ Seen(t) /\ Acked(t) /\ ToldStored(t)

\* The inductive invariant.
TabInv == FreshConns /\ ReplyReady /\ \A t \in Tabs : TabTrue(t)

AllInv == Typed /\ EpochShape /\ LogInv /\ TabInv

-----------------------------------------------------------------------------
\* Queues.
LEMMA QueueTail ==
  ASSUME NEW S, NEW q \in Seq(S), q # <<>>
  PROVE  /\ Tail(q) \in Seq(S) /\ Head(q) = q[1] /\ 1 \in 1 .. Len(q) /\ Len(q) \in Nat
         /\ Len(Tail(q)) = Len(q) - 1
         /\ \A i \in 1 .. Len(Tail(q)) : i + 1 \in 1 .. Len(q) /\ Tail(q)[i] = q[i + 1]
OBVIOUS

LEMMA QueueAppend ==
  ASSUME NEW S, NEW q \in Seq(S), NEW m \in S
  PROVE  /\ Append(q, m) \in Seq(S) /\ Len(q) \in Nat
         /\ Len(Append(q, m)) = Len(q) + 1 /\ Append(q, m)[Len(q) + 1] = m
         /\ \A i \in 1 .. Len(q) : i \in 1 .. Len(Append(q, m)) /\ Append(q, m)[i] = q[i]
         /\ \A i \in 1 .. Len(Append(q, m)) : i \in 1 .. Len(q) \/ i = Len(q) + 1
BY AppendProperties

\* Taking the head of a queue leaves the rest of its requests and answers.
LEMMA TailAsks ==
  ASSUME NEW q \in Seq(Up), q # <<>>
  PROVE  /\ \A i \in Asks(Tail(q)) : i + 1 \in Asks(q) /\ Tail(q)[i] = q[i + 1] /\ i \in Nat
         /\ Head(q).type = "COMMAND" => 1 \in Asks(q) /\ q[1] = Head(q)
         /\ Head(q).type = "COMMAND" /\ (\A i, j \in Asks(q) : i = j) => Asks(Tail(q)) = {}
<1>1. \A i \in Asks(Tail(q)) : i + 1 \in Asks(q) /\ Tail(q)[i] = q[i + 1] /\ i \in Nat /\ i + 1 # 1
  BY QueueTail DEF Asks
<1>2. Head(q).type = "COMMAND" => 1 \in Asks(q) /\ q[1] = Head(q)
  BY QueueTail DEF Asks
<1> QED
  BY <1>1, <1>2

LEMMA TailRequests ==
  ASSUME NEW q \in Seq(Up), q # <<>> PROVE Requests(Tail(q)) \subseteq Requests(q)
<1>1. \A i \in Asks(Tail(q)) : i + 1 \in Asks(q) /\ Tail(q)[i] = q[i + 1]
  BY TailAsks
<1> QED
  BY <1>1 DEF Requests

LEMMA TailAnswers ==
  ASSUME NEW q \in Seq(Down), q # <<>>
  PROVE  /\ \A i \in Answers(Tail(q)) : i + 1 \in Answers(q) /\ Tail(q)[i] = q[i + 1] /\ i \in Nat
         /\ \A i \in Notices(Tail(q)) : i + 1 \in Notices(q) /\ Tail(q)[i] = q[i + 1] /\ i \in Nat
         /\ Head(q).type \in {"ACK", "REJECTED"} => 1 \in Answers(q) /\ q[1] = Head(q)
         /\ Head(q).type \in {"ROOM", "EVENTS"} => 1 \in Notices(q) /\ q[1] = Head(q)
         /\ Head(q).type \in {"ACK", "REJECTED"} /\ (\A i, j \in Answers(q) : i = j)
              => Answers(Tail(q)) = {}
<1>1. \A i \in Answers(Tail(q)) :
        i + 1 \in Answers(q) /\ Tail(q)[i] = q[i + 1] /\ i \in Nat /\ i + 1 # 1
  BY QueueTail DEF Answers
<1>2. Head(q).type \in {"ACK", "REJECTED"} => 1 \in Answers(q) /\ q[1] = Head(q)
  BY QueueTail DEF Answers
<1>3. \A i \in Notices(Tail(q)) : i + 1 \in Notices(q) /\ Tail(q)[i] = q[i + 1] /\ i \in Nat
  BY QueueTail DEF Notices
<1>4. Head(q).type \in {"ROOM", "EVENTS"} => 1 \in Notices(q) /\ q[1] = Head(q)
  BY QueueTail DEF Notices
<1> QED
  BY <1>1, <1>2, <1>3, <1>4

LEMMA NoAsks == Asks(<<>>) = {} /\ Answers(<<>>) = {} /\ Notices(<<>>) = {}
BY DEF Asks, Answers, Notices

\* A message at the end of a queue adds its own place and no other.
LEMMA AppendPlaces ==
  ASSUME NEW q \in Seq(Down), NEW m \in Down
  PROVE  LET r == Append(q, m)
         IN /\ r \in Seq(Down) /\ Len(q) \in Nat /\ r[Len(q) + 1] = m
            /\ \A i \in Answers(r) : (i \in Answers(q) /\ r[i] = q[i]) \/ i = Len(q) + 1
            /\ \A i \in Notices(r) : (i \in Notices(q) /\ r[i] = q[i]) \/ i = Len(q) + 1
            /\ m.type \notin {"ACK", "REJECTED"} => Answers(r) = Answers(q)
            /\ m.type \notin {"ROOM", "EVENTS"} => Notices(r) = Notices(q)
            /\ \A i \in Answers(q) : r[i] = q[i]
            /\ \A i \in Notices(q) : r[i] = q[i] /\ i < Len(q) + 1
<1> DEFINE r == Append(q, m)
<1>1. /\ r \in Seq(Down) /\ Len(q) \in Nat /\ Len(r) = Len(q) + 1 /\ r[Len(q) + 1] = m
      /\ \A i \in 1 .. Len(q) : i \in 1 .. Len(r) /\ r[i] = q[i] /\ i < Len(q) + 1
      /\ \A i \in 1 .. Len(r) : i \in 1 .. Len(q) \/ i = Len(q) + 1
  BY QueueAppend
<1> HIDE DEF r
<1>2. /\ \A i \in Answers(r) : (i \in Answers(q) /\ r[i] = q[i]) \/ i = Len(q) + 1
      /\ \A i \in Answers(q) : i \in Answers(r) /\ r[i] = q[i]
      /\ m.type \notin {"ACK", "REJECTED"} => Len(q) + 1 \notin Answers(r)
  BY <1>1 DEF Answers
<1>3. /\ \A i \in Notices(r) : (i \in Notices(q) /\ r[i] = q[i]) \/ i = Len(q) + 1
      /\ \A i \in Notices(q) : i \in Notices(r) /\ r[i] = q[i] /\ i < Len(q) + 1
      /\ m.type \notin {"ROOM", "EVENTS"} => Len(q) + 1 \notin Notices(r)
  BY <1>1 DEF Notices
<1>4. /\ m.type \notin {"ACK", "REJECTED"} => Answers(r) = Answers(q)
      /\ m.type \notin {"ROOM", "EVENTS"} => Notices(r) = Notices(q)
  BY <1>2, <1>3
<1> QED
  BY <1>1, <1>2, <1>3, <1>4 DEF r

-----------------------------------------------------------------------------
(***************************************************************************)
(* A step of the server, seen from a tab and its connection.               *)
(***************************************************************************)
NewNotice(m) ==
  /\ m \in Down
  /\ \/ m.type = "ROOM" /\ m.seq = Len(memLog)
     \/ m.type = "EVENTS" /\ m.seq <= Len(memLog)
Noticed(t, q) == q = down[t] \/ \E m : NewNotice(m) /\ q = Append(down[t], m)

\* The handler takes the next message.
Taken(t) == up[Conn(t)] # <<>> /\ up'[Conn(t)] = Tail(up[Conn(t)])
TakenCommand(t) == Taken(t) /\ Head(up[Conn(t)]).type = "COMMAND"

\* No request is taken up or answered,
Quietly(t) ==
  /\ Taken(t) \/ up'[Conn(t)] = up[Conn(t)] \/ up'[Conn(t)] = <<>>
  /\ Working(Conn(t))' => Working(Conn(t)) /\ job'[Conn(t)].cmd = job[Conn(t)].cmd
  /\ Noticed(t, down'[t])
\* one is taken up,
Started(t) ==
  /\ TakenCommand(t) /\ job'[Conn(t)].cmd = Head(up[Conn(t)]).cmd
  /\ down'[t] = down[t]
\* or one is answered, at once or by the job.
Answering(t, p) ==
  \/ TakenCommand(t) /\ p = Head(up[Conn(t)]).cmd /\ job'[Conn(t)] = job[Conn(t)]
  \/ /\ Working(Conn(t)) /\ p = job[Conn(t)].cmd /\ ~Working(Conn(t))'
     /\ up'[Conn(t)] = up[Conn(t)]
Answered(t) ==
  \E p, q, m :
    /\ Answering(t, p) /\ Noticed(t, q)
    /\ m \in Down /\ m.type \in {"ACK", "REJECTED"} /\ Tells(t, p, m)'
    /\ down'[t] = q \/ down'[t] = Append(q, m)

\* What is stored stays, and the room in memory only grows.
StoreKept == \A k \in Keys : results[k] # None => results'[k] = results[k]
MemoryGrows == Len(memLog) <= Len(memLog')

TabStays(t) == tab'[t] = tab[t] /\ resume'[User[t]] = resume[User[t]] /\ told'[t] = told[t]

LEMMA TabPlaces ==
  ASSUME Typed, NEW t \in Tabs
  PROVE  /\ tab[t] \in Tab /\ Conn(t) \in Conns /\ Conn(t)[1] = t
         /\ up[Conn(t)] \in Seq(Up) /\ down[t] \in Seq(Down)
         /\ resume[User[t]] \in Saved /\ job[Conn(t)] \in Job
<1>1. tab[t] \in Tab
  BY DEF Typed, TypeOK, TabTypes
<1>2. Conn(t) \in Conns /\ Conn(t)[1] = t
  BY <1>1 DEF Conn, Conns, Tab
<1> QED
  BY <1>1, <1>2, ConnFacts DEF Typed, TypeOK, ConnTypes, TabTypes, WorkTypes

LEMMA NoticedPlaces ==
  ASSUME Typed, NEW t \in Tabs, NEW q, Noticed(t, q)
  PROVE  /\ q \in Seq(Down) /\ Answers(q) = Answers(down[t])
         /\ \A i \in Answers(q) : q[i] = down[t][i]
<1>1. CASE q = down[t]
  BY <1>1, TabPlaces
<1>2. CASE \E m : NewNotice(m) /\ q = Append(down[t], m)
  <2>1. PICK m : NewNotice(m) /\ q = Append(down[t], m)
    BY <1>2
  <2>2. m \in Down /\ m.type \notin {"ACK", "REJECTED"}
    BY <2>1 DEF NewNotice
  <2>3. down[t] \in Seq(Down)
    BY TabPlaces
  <2>4. /\ Append(down[t], m) \in Seq(Down) /\ Answers(Append(down[t], m)) = Answers(down[t])
        /\ \A i \in Answers(down[t]) : Append(down[t], m)[i] = down[t][i]
    BY <2>2, <2>3, AppendPlaces
  <2> QED
    BY <2>1, <2>4
<1> QED
  BY <1>1, <1>2 DEF Noticed

\* A pending command has a key, and what is stored under it stays.
LEMMA TellsStays ==
  ASSUME Typed, StoreKept, NEW t \in Tabs, NEW p \in Pending, NEW m, Tells(t, p, m)
  PROVE  Tells(t, p, m)'
<1>1. <<User[t], p.cseq>> \in Keys
  BY ConnFacts DEF Keys, Pending
<1>2. Stored(t, p.cseq) # None => Stored(t, p.cseq)' = Stored(t, p.cseq)
  BY <1>1 DEF Stored, StoreKept
<1> QED
  BY <1>2 DEF Tells

LEMMA FitsStays ==
  ASSUME Typed, StoreKept, NEW t \in Tabs, tab'[t] = tab[t], NEW m, Fits(t, m)
  PROVE  Fits(t, m)'
<1>1. tab[t].pending \in Pending
  BY TabPlaces DEF Fits, Waiting, Tab
<1>2. Tells(t, tab[t].pending, m)
  BY DEF Fits
<1> DEFINE p == tab[t].pending
<1>3. PICK q \in Pending : q = p
  BY <1>1
<1>4. Tells(t, q, m)'
  BY <1>2, <1>3, TellsStays
<1>5. tab'[t].pending = q
  BY <1>3
<1>6. Waiting(tab[t])'
  BY DEF Fits, Waiting
<1> QED
  BY <1>4, <1>5, <1>6 DEF Fits, Tells

LEMMA SameConn == ASSUME NEW t, tab'[t].epoch = tab[t].epoch PROVE Conn(t)' = Conn(t)
BY DEF Conn

LEMMA QuietFlight ==
  ASSUME Typed, StoreKept, NEW t \in Tabs, tab'[t] = tab[t], Sole(t), About(t), Quietly(t)
  PROVE  Sole(t)' /\ About(t)'
<1> PICK c : c = Conn(t)
  OBVIOUS
<1>1. Conn(t)' = c /\ up[c] \in Seq(Up)
  BY SameConn, TabPlaces
<1>2. /\ Requests(up'[c]) \subseteq Requests(up[c])
      /\ Asks(up[c]) = {} => Asks(up'[c]) = {}
  <2>1. CASE up'[c] = <<>>
    BY <2>1, NoAsks DEF Requests
  <2>2. CASE up[c] # <<>> /\ up'[c] = Tail(up[c])
    BY <2>2, <1>1, TailAsks, TailRequests
  <2> QED
    BY <2>1, <2>2 DEF Quietly, Taken
<1>3. \A i, j \in Asks(up'[c]) : i = j
  <2>1. CASE up'[c] = up[c]
    BY <2>1 DEF Sole
  <2>2. CASE up'[c] = <<>>
    BY <2>2, NoAsks
  <2>3. CASE up[c] # <<>> /\ up'[c] = Tail(up[c])
    <3>1. \A i \in Asks(up'[c]) : i + 1 \in Asks(up[c]) /\ i \in Nat
      BY <2>3, <1>1, TailAsks
    <3>2. \A i, j \in Asks(up[c]) : i = j
      BY DEF Sole
    <3>3. ASSUME NEW i \in Asks(up'[c]), NEW j \in Asks(up'[c]) PROVE i = j
      BY <3>1, <3>2
    <3> QED
      BY <3>3
  <2> QED
    BY <2>1, <2>2, <2>3 DEF Quietly, Taken
<1>4. /\ Answers(down'[t]) = Answers(down[t])
      /\ \A i \in Answers(down'[t]) : down'[t][i] = down[t][i]
  BY NoticedPlaces DEF Quietly
<1>5. Working(c)' => Working(c) /\ job'[c].cmd = job[c].cmd
  BY <1>1 DEF Quietly, Working
<1>6. Sole(t)'
  BY <1>1, <1>2, <1>3, <1>4, <1>5 DEF Sole
<1>7. About(t)'
  <2>2. Working(c)' => Waiting(tab[t]) /\ job'[c].cmd = tab[t].pending
    BY <1>5 DEF About
  <2>3. (\A i \in Answers(down[t]) : Fits(t, down[t][i]))'
    <3> SUFFICES ASSUME NEW i \in Answers(down'[t]) PROVE Fits(t, down[t][i])'
      OBVIOUS
    <3>1. PICK m : m = down[t][i] /\ m = down'[t][i]
      BY <1>4
    <3>2. Fits(t, m)
      BY <3>1, <1>4 DEF About
    <3>3. Fits(t, m)'
      BY <3>2, FitsStays
    <3> QED
      BY <3>1, <3>3 DEF Fits, Tells
  <2> QED
    BY <1>1, <1>2, <2>2, <2>3 DEF About
<1> QED
  BY <1>6, <1>7

LEMMA TakenFlight ==
  ASSUME Typed, NEW t \in Tabs, Sole(t), About(t), TakenCommand(t)
  PROVE  /\ Asks(up'[Conn(t)]) = {} /\ Answers(down[t]) = {} /\ ~Working(Conn(t))
         /\ Waiting(tab[t]) /\ Head(up[Conn(t)]).cmd = tab[t].pending
<1> PICK c : c = Conn(t)
  OBVIOUS
<1>1. up[c] \in Seq(Up) /\ up[c] # <<>> /\ up'[c] = Tail(up[c]) /\ Head(up[c]).type = "COMMAND"
  BY TabPlaces DEF TakenCommand, Taken
<1>2. \A i, j \in Asks(up[c]) : i = j
  BY DEF Sole
<1>3. Asks(up'[c]) = {} /\ 1 \in Asks(up[c]) /\ up[c][1] = Head(up[c])
  BY <1>1, <1>2, TailAsks
<1> QED
  BY <1>3 DEF Sole, About, Requests

LEMMA StartedFlight ==
  ASSUME Typed, NEW t \in Tabs, tab'[t] = tab[t], Sole(t), About(t), Started(t)
  PROVE  Sole(t)' /\ About(t)'
<1>1. /\ Asks(up'[Conn(t)]) = {} /\ Answers(down'[t]) = {} /\ Waiting(tab[t])
      /\ job'[Conn(t)].cmd = tab[t].pending
  BY TakenFlight DEF Started
<1>2. Conn(t)' = Conn(t)
  BY SameConn
<1> QED
  BY <1>1, <1>2 DEF Sole, About, Requests

LEMMA AnsweredFlight ==
  ASSUME Typed, StoreKept, NEW t \in Tabs, tab'[t] = tab[t], Sole(t), About(t), Answered(t)
  PROVE  Sole(t)' /\ About(t)'
<1> PICK c : c = Conn(t)
  OBVIOUS
<1>0. PICK p, q, m : /\ Answering(t, p) /\ Noticed(t, q)
                     /\ m \in Down /\ m.type \in {"ACK", "REJECTED"} /\ Tells(t, p, m)'
                     /\ down'[t] = q \/ down'[t] = Append(q, m)
  BY DEF Answered
<1>1. Conn(t)' = c
  BY SameConn
<1>2. /\ Asks(up'[c]) = {} /\ Answers(down[t]) = {} /\ ~Working(c)'
      /\ Waiting(tab[t]) /\ p = tab[t].pending
  <2>1. CASE TakenCommand(t) /\ p = Head(up[c]).cmd /\ job'[c] = job[c]
    BY <2>1, TakenFlight DEF Working
  <2>2. CASE Working(c) /\ p = job[c].cmd /\ ~Working(c)' /\ up'[c] = up[c]
    BY <2>2 DEF Sole, About
  <2> QED
    BY <1>0, <1>1, <2>1, <2>2 DEF Answering, Working
<1>3. q \in Seq(Down) /\ Answers(q) = {}
  BY <1>0, <1>2, NoticedPlaces
<1>4. /\ \A i \in Answers(Append(q, m)) : i = Len(q) + 1
      /\ Append(q, m)[Len(q) + 1] = m
  BY <1>0, <1>3, AppendPlaces
<1>5. /\ \A i, j \in Answers(down'[t]) : i = j
      /\ \A i \in Answers(down'[t]) : down'[t][i] = m
  BY <1>0, <1>3, <1>4
<1>6. Fits(t, m)'
  BY <1>0, <1>2 DEF Fits, Waiting, Tells
<1>7. (\A i \in Answers(down[t]) : Fits(t, down[t][i]))'
  BY <1>5, <1>6
<1> QED
  BY <1>1, <1>2, <1>5, <1>7 DEF Sole, About, Requests

-----------------------------------------------------------------------------
\* The notices stay in order.
LEMMA NoticeFacts ==
  ASSUME NEW q \in Seq(Down)
  PROVE  \A i \in Notices(q) : i \in 1 .. Len(q) /\ i \in Nat /\ q[i] \in Down /\ q[i].seq \in Nat
BY MessageFacts DEF Notices

LEMMA OrderKept ==
  ASSUME NEW q \in Seq(Down), NEW n \in Nat, NEW k \in Nat, NEW l \in Nat, k <= l, InOrder(q, n, k)
  PROVE  InOrder(q, n, l)
BY NoticeFacts DEF InOrder

LEMMA OrderAnswer ==
  ASSUME NEW q \in Seq(Down), NEW n \in Nat, NEW k \in Nat, InOrder(q, n, k),
         NEW m \in Down, m.type \in {"ACK", "REJECTED"}
  PROVE  InOrder(Append(q, m), n, k)
<1> DEFINE r == Append(q, m)
<1>1. m.type \notin {"ROOM", "EVENTS"}
  OBVIOUS
<1>2. Notices(r) = Notices(q)
  BY <1>1, AppendPlaces
<1>3. \A i \in Notices(q) : r[i] = q[i]
  BY NoticeFacts, QueueAppend
<1> HIDE DEF r
<1>4. InOrder(r, n, k)
  BY <1>2, <1>3 DEF InOrder
<1> QED
  BY <1>4 DEF r

LEMMA OrderNotice ==
  ASSUME Typed, NEW q \in Seq(Down), NEW n \in Nat, n <= Len(memLog), InOrder(q, n, Len(memLog)),
         NEW m, NewNotice(m)
  PROVE  InOrder(Append(q, m), n, Len(memLog))
<1> DEFINE r == Append(q, m)
           k == Len(memLog)
<1>0. k \in Nat /\ m \in Down /\ m.seq \in Nat /\ m.seq <= k /\ (m.type = "ROOM" => m.seq = k)
  BY Lengths, MessageFacts DEF NewNotice
<1>1. /\ Len(q) \in Nat /\ r[Len(q) + 1] = m
      /\ \A i \in Notices(r) : (i \in Notices(q) /\ r[i] = q[i]) \/ i = Len(q) + 1
      /\ \A i \in Notices(q) : i < Len(q) + 1
  BY <1>0, AppendPlaces
<1> HIDE DEF r, k
<1>2. \A i \in Notices(q) : i \in Nat /\ q[i].seq \in Nat /\ q[i].seq <= k
  BY NoticeFacts DEF InOrder, k
<1>3. ASSUME NEW i \in Notices(r)
      PROVE  /\ r[i].seq <= k
             /\ r[i].type = "ROOM" =>
                  n <= r[i].seq /\ \A j \in Notices(r) : j < i => r[j].seq <= r[i].seq
  <2>1. CASE i = Len(q) + 1
    <3>1. r[i].seq <= k /\ (r[i].type = "ROOM" => r[i].seq = k)
      BY <2>1, <1>0, <1>1
    <3>2. \A j \in Notices(r) : r[j].seq <= k
      BY <1>0, <1>1, <1>2
    <3>3. k \in Nat /\ n \in Nat /\ n <= k
      BY <1>0 DEF k
    <3> HIDE DEF k
    <3> QED
      BY <3>1, <3>2, <3>3
  <2>2. CASE i \in Notices(q) /\ r[i] = q[i]
    <3>1. \A j \in Notices(r) : j < i => j \in Notices(q) /\ r[j] = q[j]
      BY <2>2, <1>1, <1>2
    <3> QED
      BY <2>2, <3>1, <1>2 DEF InOrder
  <2> QED
    BY <2>1, <2>2, <1>1
<1>4. InOrder(r, n, k)
  BY <1>3 DEF InOrder
<1> QED
  BY <1>4 DEF r, k

LEMMA OrderTail ==
  ASSUME NEW q \in Seq(Down), q # <<>>, NEW n \in Nat, NEW k \in Nat, InOrder(q, n, k)
  PROVE  /\ InOrder(Tail(q), n, k)
         /\ Head(q).type \in {"ROOM", "EVENTS"} =>
              Head(q).seq <= k /\ InOrder(Tail(q), Head(q).seq, k)
<1> DEFINE r == Tail(q)
           h == Head(q)
<1>1. /\ \A i \in Notices(r) : i + 1 \in Notices(q) /\ r[i] = q[i + 1] /\ i \in Nat
      /\ h.type \in {"ROOM", "EVENTS"} => 1 \in Notices(q) /\ q[1] = h
  BY TailAnswers
<1>2. \A i \in Notices(r) : i + 1 > 1
  <2>1. r \in Seq(Down)
    BY QueueTail
  <2> HIDE DEF r
  <2> QED
    BY <2>1, NoticeFacts
<1> HIDE DEF r, h
<1>3. InOrder(r, n, k)
  BY <1>1 DEF InOrder
<1>4. h.type \in {"ROOM", "EVENTS"} => h.seq <= k /\ InOrder(r, h.seq, k)
  BY <1>1, <1>2 DEF InOrder
<1> QED
  BY <1>3, <1>4 DEF r, h

\* What a queue holds after a step of the server is in order too.
Delivered(t) ==
  \E q : /\ Noticed(t, q)
         /\ down'[t] = q \/ \E m \in Down : m.type \in {"ACK", "REJECTED"} /\ down'[t] = Append(q, m)

LEMMA SeenServer ==
  ASSUME Typed, Len(memLog') \in Nat, MemoryGrows, NEW t \in Tabs, Seen(t), TabStays(t), Delivered(t)
  PROVE  Seen(t)'
<1> DEFINE n == tab[t].lastSeq
           k == Len(memLog)
           l == Len(memLog')
<1>0. PICK q : /\ Noticed(t, q)
               /\ down'[t] = q \/ \E m \in Down :
                                    m.type \in {"ACK", "REJECTED"} /\ down'[t] = Append(q, m)
  BY DEF Delivered
<1>1. /\ n \in Nat /\ k \in Nat /\ l \in Nat /\ n <= k /\ k <= l
      /\ resume[User[t]].lastSeq \in Nat /\ resume[User[t]].lastSeq <= k
      /\ down[t] \in Seq(Down) /\ InOrder(down[t], n, k)
  BY TabPlaces, Lengths DEF Seen, MemoryGrows, Tab, Saved
<1>2. q \in Seq(Down) /\ InOrder(q, n, k)
  <2>1. CASE q = down[t]
    BY <2>1, <1>1
  <2>2. ASSUME NEW m, NewNotice(m), q = Append(down[t], m) PROVE q \in Seq(Down) /\ InOrder(q, n, k)
    <3>1. q \in Seq(Down)
      BY <1>0, NoticedPlaces
    <3>2. InOrder(Append(down[t], m), n, k)
      BY <1>1, <2>2, OrderNotice
    <3> QED
      BY <2>2, <3>1, <3>2
  <2> QED
    BY <1>0, <2>1, <2>2 DEF Noticed
<1> HIDE DEF n, k, l
<1>3. down'[t] \in Seq(Down) /\ InOrder(down'[t], n, k)
  <2>1. CASE down'[t] = q
    BY <2>1, <1>2
  <2>2. ASSUME NEW m \in Down, m.type \in {"ACK", "REJECTED"}, down'[t] = Append(q, m)
        PROVE  down'[t] \in Seq(Down) /\ InOrder(down'[t], n, k)
    <3>1. InOrder(Append(q, m), n, k) /\ Append(q, m) \in Seq(Down)
      BY <1>1, <1>2, <2>2, OrderAnswer, QueueAppend
    <3> QED
      BY <2>2, <3>1
  <2> QED
    BY <1>0, <2>1, <2>2
<1>4. InOrder(down'[t], n, l)
  BY <1>1, <1>3, OrderKept
<1>5. tab'[t].lastSeq = n /\ resume'[User[t]] = resume[User[t]]
  BY DEF TabStays, n
<1>6. n <= l /\ resume[User[t]].lastSeq <= l
  BY <1>1
<1> QED
  BY <1>4, <1>5, <1>6 DEF Seen, InOrder, l

LEMMA StoredStays ==
  ASSUME Typed, StoreKept, NEW t \in Tabs, NEW n \in ClientSeqs, Stored(t, n) # None
  PROVE  Stored(t, n)' = Stored(t, n)
BY ConnFacts DEF Stored, StoreKept, Keys

LEMMA AckedStays ==
  ASSUME Typed, StoreKept, NEW t \in Tabs, Acked(t),
         tab'[t].ack = tab[t].ack, tab'[t].pending = tab[t].pending
  PROVE  Acked(t)'
<1> SUFFICES ASSUME tab[t].ack # 0 PROVE Acked(t)'
  BY DEF Acked
<1>1. tab[t].pending.cseq \in ClientSeqs
  BY DEF Typed, AckShape, Pending
<1> PICK n, r : n = tab[t].pending.cseq /\ r = Stored(t, n)
  OBVIOUS
<1>2. r # None /\ r.ok /\ r.seq = tab[t].ack /\ r.cmd = tab[t].pending.cmd
  BY DEF Acked
<1>3. Stored(t, n)' = r
  BY <1>1, <1>2, StoredStays
<1>4. Stored(t, tab[t].pending.cseq)' = r
  BY <1>3 DEF Stored
<1> QED
  BY <1>2, <1>4 DEF Acked

LEMMA ToldStays ==
  ASSUME Typed, StoreKept, NEW t \in Tabs, ToldStored(t), told'[t] = told[t]
  PROVE  ToldStored(t)'
<1> SUFFICES ASSUME NEW n \in ClientSeqs, told[t][n] # None,
                    told[t][n].code \in FinalCodes \cup {"confirmed"}
    PROVE LET r == Stored(t, n)'
          IN r # None /\ r.cmd = told[t][n].cmd /\ (r.ok <=> told[t][n].code = "confirmed")
  BY DEF ToldStored
<1>1. LET r == Stored(t, n)
      IN r # None /\ r.cmd = told[t][n].cmd /\ (r.ok <=> told[t][n].code = "confirmed")
  BY DEF ToldStored
<1>2. Stored(t, n)' = Stored(t, n)
  BY <1>1, StoredStays
<1> QED
  BY <1>1, <1>2

\* A step of the server keeps what is true of a tab.
LEMMA ServerTab ==
  ASSUME Typed, Len(memLog') \in Nat, StoreKept, MemoryGrows, NEW t \in Tabs, TabTrue(t), TabStays(t),
         Quietly(t) \/ Started(t) \/ Answered(t)
  PROVE  TabTrue(t)'
<1>0. tab'[t] = tab[t] /\ told'[t] = told[t]
  BY DEF TabStays
<1>1. Sole(t)' /\ About(t)'
  BY <1>0, QuietFlight, StartedFlight, AnsweredFlight DEF TabTrue
<1>2. Delivered(t)
  <2>1. CASE Quietly(t) \/ Started(t)
    BY <2>1 DEF Quietly, Started, Noticed, Delivered
  <2>2. CASE Answered(t)
    BY <2>2 DEF Answered, Delivered
  <2> QED
    BY <2>1, <2>2
<1>3. Seen(t)'
  BY <1>2, SeenServer DEF TabTrue
<1>4. Acked(t)' /\ ToldStored(t)'
  BY <1>0, AckedStays, ToldStays DEF TabTrue
<1> QED
  BY <1>1, <1>3, <1>4 DEF TabTrue

-----------------------------------------------------------------------------
\* What the store holds of a command stays, whatever the step.
LEMMA SameStore == ASSUME Typed, UNCHANGED <<storeVars, memLog>> PROVE StoreKept /\ MemoryGrows
BY Lengths DEF storeVars, StoreKept, MemoryGrows

LEMMA StoreSteps ==
  ASSUME Typed, LogInv, NEW w \in Workers,
         \/ w \in Conns /\ (PersistVerdict(w) \/ PersistVerdictFails(w))
         \/ Commit(w) \/ CommitFails(w)
  PROVE  StoreKept /\ MemoryGrows
<1>1. MemoryGrows
  BY Lengths DEF MemoryGrows, PersistVerdict, PersistVerdictFails, Commit, CommitFails, roomVars
<1>2. CASE w \in Conns /\ (PersistVerdict(w) \/ PersistVerdictFails(w))
  <2>1. results' = results \/ results' = [results EXCEPT ![Key(w, job[w].cmd)] = job[w].verdict]
    BY <1>2 DEF PersistVerdict, PersistVerdictFails, StoreResult
  <2>2. results[Key(w, job[w].cmd)] = None
    BY <1>2 DEF PersistVerdict, PersistVerdictFails, LogInv, StoreNeverConflicts
  <2>3. results \in [Keys -> Result \cup {None}]
    BY DEF Typed, TypeOK, StoreTypes
  <2>4. StoreKept
    BY <2>1, <2>2, <2>3 DEF StoreKept
  <2> QED
    BY <1>1, <2>4
<1>3. CASE Commit(w) \/ CommitFails(w)
  <2>1. job[w].step = "commit" /\ (results' = results \/ (SlotFree(w) /\ StoreEvents(w)))
    BY <1>3 DEF Commit, CommitFails, storeVars
  <2>2. CASE SlotFree(w) /\ StoreEvents(w)
    <3>1. \A k \in Keys : results'[k] = results[k] \/ (w # Automation /\ k = Key(w, job[w].cmd))
      BY <2>1, <2>2, StoreEventsLog
    <3>2. w # Automation => results[Key(w, job[w].cmd)] = None
      BY <2>1, ConnFacts DEF LogInv, StoreNeverConflicts
    <3>3. StoreKept
      BY <3>1, <3>2 DEF StoreKept
    <3> QED
      BY <1>1, <3>3
  <2>3. CASE results' = results
    BY <1>1, <2>3 DEF StoreKept
  <2> QED
    BY <2>1, <2>2, <2>3
<1> QED
  BY <1>2, <1>3

LEMMA ApplyGrows == ASSUME Typed, NEW w \in Workers, Apply(w) PROVE StoreKept /\ MemoryGrows
<1>1. memLog \in Seq(Entry) /\ memLog' = Append(memLog, LogEntry(w)) /\ results' = results
  BY DEF Apply, storeVars, Typed, TypeOK, RoomTypes
<1>2. Len(memLog') = Len(memLog) + 1 /\ Len(memLog) \in Nat
  BY <1>1
<1> QED
  BY <1>1, <1>2 DEF StoreKept, MemoryGrows

LEMMA CrashGrows == ASSUME Typed, LogInv, Crash PROVE StoreKept /\ MemoryGrows
BY DEF Crash, Hydrated, storeVars, LogInv, Behind, StoreKept, MemoryGrows

-----------------------------------------------------------------------------
\* The messages of the server, seen from a tab.
Effect(t) == Quietly(t) \/ Started(t) \/ Answered(t)

LEMMA SendNotice ==
  ASSUME Typed, NEW c \in Conns, NEW m, NewNotice(m), SendTo(c, m), NEW t \in Tabs
  PROVE  Noticed(t, down'[t])
<1>1. down'[t] = down[t] \/ down'[t] = Append(down[t], m)
  BY ConnFacts DEF SendTo, Typed, TypeOK, ConnTypes
<1> QED
  BY <1>1 DEF Noticed

LEMMA BroadcastNotice ==
  ASSUME Typed, NEW attached, NEW m, NewNotice(m), NEW t \in Tabs
  PROVE  Noticed(t, Broadcast(attached, m)[t])
<1>1. Broadcast(attached, m)[t] = down[t] \/ Broadcast(attached, m)[t] = Append(down[t], m)
  BY DEF Broadcast
<1> QED
  BY <1>1 DEF Noticed

LEMMA SendOther ==
  ASSUME Typed, NEW c \in Conns, NEW m, SendTo(c, m), NEW t \in Tabs, c # Conn(t)
  PROVE  down'[t] = down[t]
BY ConnFacts DEF SendTo, Typed, TypeOK, ConnTypes

LEMMA SendOwn ==
  ASSUME Typed, NEW t \in Tabs, NEW m, SendTo(Conn(t), m)
  PROVE  down'[t] = down[t] \/ down'[t] = Append(down[t], m)
BY TabPlaces DEF SendTo, Typed, TypeOK, ConnTypes

LEMMA TakeOn ==
  ASSUME Typed, NEW c \in Conns, NEW type, Take(c, type), NEW t \in Tabs
  PROVE  /\ c # Conn(t) => up'[Conn(t)] = up[Conn(t)]
         /\ c = Conn(t) => Taken(t) /\ Head(up[Conn(t)]).type = type
BY TabPlaces DEF Take, Taken, Typed, TypeOK, ConnTypes

LEMMA RoomNotice ==
  ASSUME Typed PROVE NewNotice(RoomState) /\ NewNotice([type |-> "EVENTS", seq |-> Len(memLog)])
<1> PICK k : k = Len(memLog)
  OBVIOUS
<1>1. k \in Nat /\ k <= k
  BY Lengths
<1>2. [type |-> "ROOM", seq |-> k] \in Down /\ [type |-> "EVENTS", seq |-> k] \in Down
  BY <1>1, MessageFacts
<1> QED
  BY <1>1, <1>2 DEF RoomState, NewNotice

LEMMA IdleNotWorking == IdleJob.step \notin {"reject", "commit", "apply", "reply"}
BY DEF IdleJob

\* Another connection's request or answer.
LEMMA OtherQuiet ==
  ASSUME Typed, UNCHANGED tabVars, NEW t \in Tabs,
         up'[Conn(t)] = up[Conn(t)], job'[Conn(t)] = job[Conn(t)], Noticed(t, down'[t])
  PROVE  Effect(t)
<1>1. Conn(t)' = Conn(t)
  BY SameConn DEF tabVars
<1> QED
  BY <1>1 DEF Effect, Quietly, Working

LEMMA OwnAnswer ==
  ASSUME Typed, NEW t \in Tabs, NEW p, Answering(t, p), NEW m \in Down,
         m.type \in {"ACK", "REJECTED"}, Tells(t, p, m)', SendTo(Conn(t), m)
  PROVE  Effect(t)
<1>1. down'[t] = down[t] \/ down'[t] = Append(down[t], m)
  BY SendOwn
<1>2. Noticed(t, down[t])
  BY DEF Noticed
<1> QED
  BY <1>1, <1>2 DEF Effect, Answered

LEMMA OwnRefusal ==
  ASSUME Typed, NEW t \in Tabs, NEW p \in Pending, NEW code \in Codes, Answering(t, p),
         Reject(Conn(t), p, code),
         code \in FinalCodes =>
           LET r == results'[Key(Conn(t), p)]
           IN r # None /\ ~r.ok /\ r.code = code /\ r.cmd = p.cmd
  PROVE  Effect(t)
<1> DEFINE m == [type |-> "REJECTED", cseq |-> p.cseq, code |-> code]
<1>1. m \in Down /\ m.type \in {"ACK", "REJECTED"} /\ SendTo(Conn(t), m)
  BY MessageFacts DEF Reject, Pending
<1>2. Key(Conn(t), p) = <<User[t], p.cseq>>
  BY TabPlaces DEF Key
<1>3. Tells(t, p, m)'
  BY <1>2 DEF Tells, Stored
<1> HIDE DEF m
<1> QED
  BY <1>1, <1>3, OwnAnswer

-----------------------------------------------------------------------------
\* The steps of the server, seen from a tab.

\* Joining, resynchronising and closing answer with the present table.
LEMMA RoomEffect ==
  ASSUME Typed, NEW c \in Conns, Join(c) \/ SyncJoined(c) \/ Resync(c) \/ Close(c), NEW t \in Tabs
  PROVE  Effect(t)
<1>1. Conn(t)' = Conn(t)
  BY SameConn DEF Join, SyncJoined, Resync, Close, tabVars
<1>2. Taken(t) \/ up'[Conn(t)] = up[Conn(t)]
  BY TakeOn DEF Join, SyncJoined, Resync, Close
<1>3. Noticed(t, down'[t])
  <2>1. CASE Resync(c)
    <3>1. NewNotice([type |-> "EVENTS", seq |-> Len(memLog)])
      BY RoomNotice
    <3> QED
      BY <2>1, <3>1, SendNotice DEF Resync
  <2>2. CASE Join(c) \/ SyncJoined(c) \/ Close(c)
    <3>1. \/ down' = down
          \/ \E attached : down' = Broadcast(attached, RoomState)
      BY <2>2 DEF Join, SyncJoined, Close
    <3> QED
      BY <3>1, RoomNotice, BroadcastNotice DEF Noticed
  <2> QED
    BY <2>1, <2>2
<1>4. job'[Conn(t)] = job[Conn(t)] \/ job'[Conn(t)].step \in {"syncing", "idle"}
  BY TabPlaces, ConnFacts
     DEF Join, SyncJoined, Resync, Close, IdleJob, Typed, TypeOK, WorkTypes, Job
<1> QED
  BY <1>1, <1>2, <1>3, <1>4 DEF Effect, Quietly, Working

\* Refusals before the room is asked.
LEMMA RefusalEffect ==
  ASSUME Typed, NEW c \in Conns, RefuseLimited(c) \/ RefusePaused(c), NEW t \in Tabs
  PROVE  Effect(t)
<1> DEFINE p == Asked(c)
<1>1. /\ Take(c, "COMMAND") /\ job' = job /\ UNCHANGED tabVars
      /\ \E code \in {"RATE_LIMITED", "ROOM_PAUSED"} : Reject(c, p, code)
  BY DEF RefuseLimited, RefusePaused, TakeInTurn
<1>2. p \in Pending
  BY <1>1, TakeTyped DEF Typed, TypeOK
<1>3. PICK code \in {"RATE_LIMITED", "ROOM_PAUSED"} : Reject(c, p, code)
  BY <1>1
<1>4. code \in Codes /\ code \notin FinalCodes
  BY DEF Codes, FinalCodes
<1>5. CASE c = Conn(t)
  <2>1. Answering(t, p)
    BY <1>1, <1>5, TakeOn DEF Answering, TakenCommand, Asked
  <2> HIDE DEF p
  <2> QED
    BY <1>2, <1>3, <1>4, <1>5, <2>1, OwnRefusal
<1>6. CASE c # Conn(t)
  BY <1>1, <1>3, <1>6, SendOther, TakeOn, OtherQuiet DEF Reject, Noticed
<1> QED
  BY <1>5, <1>6

\* A verdict given again is the stored one.
LEMMA ReplayEffect ==
  ASSUME Typed, LogInv, NEW c \in Conns, Replay(c), NEW t \in Tabs
  PROVE  Effect(t)
<1> PICK p, v : p = Asked(c) /\ v = results[Key(c, p)]
  OBVIOUS
<1> DEFINE ack == [type |-> "ACK", cseq |-> p.cseq, seq |-> v.seq]
<1>1. /\ Take(c, "COMMAND") /\ busy = None /\ job' = job /\ results' = results /\ UNCHANGED tabVars
  BY DEF Replay, TakeInTurn, storeVars
<1>2. p \in Pending /\ Key(c, p) \in Keys
  BY <1>1, TakeTyped, ConnFacts DEF Typed, TypeOK
<1>3. Verdict(Key(c, p)) = v
  BY <1>1, <1>2, NobodyHolds DEF Verdict
<1>4. v # None /\ v \in Result
  <2>1. v # None
    BY <1>3 DEF Replay
  <2>2. v \in Result \cup {None}
    BY <1>2 DEF Typed, TypeOK, StoreTypes
  <2> QED
    BY <2>1, <2>2
<1>5. \/ v.cmd # p.cmd /\ Reject(c, p, "CLIENT_SEQ_CONFLICT")
      \/ v.cmd = p.cmd /\ ~v.ok /\ Reject(c, p, v.code)
      \/ v.cmd = p.cmd /\ v.ok /\ SendTo(c, ack)
  BY <1>3 DEF Replay, SamePayload
<1>6. CASE c = Conn(t)
  <2>1. Answering(t, p)
    BY <1>1, <1>6, TakeOn DEF Answering, TakenCommand, Asked
  <2>2. v = results[Key(Conn(t), p)] /\ Key(Conn(t), p) = <<User[t], p.cseq>>
    BY <1>6, TabPlaces DEF Key
  <2>3. CASE v.cmd # p.cmd /\ Reject(c, p, "CLIENT_SEQ_CONFLICT")
    BY <1>2, <1>6, <2>1, <2>3, OwnRefusal DEF Codes, FinalCodes
  <2>4. CASE v.cmd = p.cmd /\ ~v.ok /\ Reject(c, p, v.code)
    <3>1. v.code \in FinalCodes /\ v.code \in Codes
      BY <1>4, <2>4 DEF Result, Acceptance, Refusal, Codes
    <3> PICK code \in Codes : code = v.code
      BY <3>1
    <3> QED
      BY <1>1, <1>2, <1>4, <1>6, <2>1, <2>2, <2>4, OwnRefusal
  <2>5. CASE v.cmd = p.cmd /\ v.ok /\ SendTo(c, ack)
    <3>1. v.seq \in Nat
      BY <1>4, <2>5 DEF Result, Acceptance, Refusal
    <3>2. p.cseq \in ClientSeqs
      BY <1>2 DEF Pending
    <3>3. ack \in Down
      BY <3>1, <3>2, MessageFacts
    <3>4. ack.type = "ACK" /\ ack.cseq = p.cseq /\ ack.seq = v.seq
      OBVIOUS
    <3> HIDE DEF ack
    <3>5. Tells(t, p, ack)'
      BY <1>1, <1>4, <2>2, <2>5, <3>4 DEF Tells, Stored
    <3> QED
      BY <1>6, <2>1, <2>5, <3>3, <3>4, <3>5, OwnAnswer
  <2> QED
    BY <1>5, <2>3, <2>4, <2>5
<1>7. CASE c # Conn(t)
  <2>1. down'[t] = down[t]
    BY <1>5, <1>7, SendOther DEF Reject
  <2> QED
    BY <1>1, <1>7, <2>1, TakeOn, OtherQuiet DEF Noticed
<1> QED
  BY <1>6, <1>7

\* A command is taken up for the store.
LEMMA TakeUpEffect ==
  ASSUME Typed, NEW c \in Conns, Decline(c) \/ Accept(c), NEW t \in Tabs
  PROVE  Effect(t)
<1>1. /\ Take(c, "COMMAND") /\ down' = down /\ UNCHANGED tabVars
      /\ \E j : j.cmd = Asked(c) /\ job' = [job EXCEPT ![c] = j]
  <2>1. CASE Decline(c)
    <3>1. \E v : job' = [job EXCEPT ![c] = [step |-> "reject", cmd |-> Asked(c), verdict |-> v]]
      BY <2>1, Zenon DEF Decline
    <3> QED
      BY <2>1, <3>1 DEF Decline, Fresh, TakeInTurn
  <2>2. CASE Accept(c)
    BY <2>2 DEF Accept, StartCommit, Fresh, TakeInTurn
  <2> QED
    BY <2>1, <2>2
<1>2. PICK j : j.cmd = Asked(c) /\ job' = [job EXCEPT ![c] = j]
  BY <1>1
<1>3. CASE c = Conn(t)
  <2>1. job'[Conn(t)] = j
    BY <1>2, <1>3, ConnFacts DEF Typed, TypeOK, WorkTypes
  <2> QED
    BY <1>1, <1>2, <1>3, <2>1, TakeOn DEF Effect, Started, TakenCommand, Asked
<1>4. CASE c # Conn(t)
  <2>1. job'[Conn(t)] = job[Conn(t)]
    BY <1>2, <1>4, TabPlaces, ConnFacts DEF Typed, TypeOK, WorkTypes
  <2> QED
    BY <1>1, <1>4, <2>1, TakeOn, OtherQuiet DEF Noticed
<1> QED
  BY <1>3, <1>4

\* A handler leaves the store with a refusal.
LEMMA PersistEffect ==
  ASSUME Typed, LogInv, NEW c \in Conns, PersistVerdict(c) \/ PersistVerdictFails(c), NEW t \in Tabs
  PROVE  Effect(t)
<1> PICK p, v : p = job[c].cmd /\ v = job[c].verdict
  OBVIOUS
<1>1. /\ job[c].step = "reject" /\ job' = [job EXCEPT ![c] = IdleJob] /\ up' = up
      /\ UNCHANGED tabVars
  BY DEF PersistVerdict, PersistVerdictFails, Done
<1>2. p \in Pending /\ v \in Refusal /\ v.cmd = p.cmd /\ Key(c, p) \in Keys
  BY <1>1, ConnFacts DEF Typed, JobShape
<1>3. v \in Result /\ v # None /\ ~v.ok /\ v.code \in FinalCodes /\ v.code \in Codes
  BY <1>2, NoneAssumption DEF Result, Refusal, Codes
<1>4. \/ Reject(c, p, v.code) /\ results'[Key(c, p)] = v
      \/ Reject(c, p, "COMMAND_FAILED")
  <2>1. CASE PersistVerdict(c)
    BY <2>1, <1>2 DEF PersistVerdict, StoreResult, Typed, TypeOK, StoreTypes
  <2>2. CASE PersistVerdictFails(c)
    BY <2>2 DEF PersistVerdictFails
  <2> QED
    BY <2>1, <2>2
<1>5. CASE c = Conn(t)
  <2>1. job'[c] = IdleJob /\ Conn(t)' = Conn(t)
    BY <1>1, ConnFacts, SameConn DEF Typed, TypeOK, WorkTypes, tabVars
  <2>2. Answering(t, p)
    BY <1>1, <1>5, <2>1, IdleNotWorking DEF Answering, Working
  <2>3. CASE Reject(c, p, v.code) /\ results'[Key(c, p)] = v
    BY <1>2, <1>3, <1>5, <2>2, <2>3, OwnRefusal
  <2>4. CASE Reject(c, p, "COMMAND_FAILED")
    BY <1>2, <1>5, <2>2, <2>4, OwnRefusal DEF Codes, FinalCodes
  <2> QED
    BY <1>4, <2>3, <2>4
<1>6. CASE c # Conn(t)
  <2>1. down'[t] = down[t]
    BY <1>4, <1>6, SendOther DEF Reject
  <2>2. job'[Conn(t)] = job[Conn(t)]
    BY <1>1, <1>6, TabPlaces, ConnFacts DEF Typed, TypeOK, WorkTypes
  <2> QED
    BY <1>1, <2>1, <2>2, OtherQuiet DEF Noticed
<1> QED
  BY <1>5, <1>6

LEMMA CommitFailsEffect ==
  ASSUME Typed, NEW w \in Workers, CommitFails(w), NEW t \in Tabs
  PROVE  Effect(t)
<1> PICK p : p = job[w].cmd
  OBVIOUS
<1>1. /\ job[w].step = "commit" /\ job' = [job EXCEPT ![w] = IdleJob] /\ up' = up
      /\ UNCHANGED tabVars
      /\ IF w = Automation THEN down' = down ELSE Reject(w, p, "EVENT_COMMIT_FAILED")
  BY DEF CommitFails, Done
<1>2. CASE w = Conn(t)
  <2>1. w \in Conns /\ w # Automation
    BY <1>2, TabPlaces, AutoAssumption
  <2>2. p \in Pending
    BY <1>1, <2>1 DEF Typed, JobShape
  <2>3. job'[w] = IdleJob /\ Conn(t)' = Conn(t)
    BY <1>1, SameConn DEF Typed, TypeOK, WorkTypes, tabVars
  <2>4. Answering(t, p)
    BY <1>1, <1>2, <2>3, IdleNotWorking DEF Answering, Working
  <2> QED
    BY <1>1, <1>2, <2>1, <2>2, <2>4, OwnRefusal DEF Codes, FinalCodes
<1>3. CASE w # Conn(t)
  <2>1. down'[t] = down[t]
    BY <1>1, <1>3, ConnFacts, SendOther DEF Reject
  <2>2. job'[Conn(t)] = job[Conn(t)]
    BY <1>1, <1>3, TabPlaces, ConnFacts DEF Typed, TypeOK, WorkTypes
  <2> QED
    BY <1>1, <2>1, <2>2, OtherQuiet DEF Noticed
<1> QED
  BY <1>2, <1>3

\* A handler goes on with the command it holds.
LEMMA OnwardEffect ==
  ASSUME Typed, NEW w \in Workers, Commit(w) \/ Apply(w), NEW t \in Tabs
  PROVE  Effect(t)
<1>1. /\ up' = up /\ down' = down /\ UNCHANGED tabVars /\ job[w].step \in {"commit", "apply"}
      /\ \E step \in {"apply", "reply"} : job' = [job EXCEPT ![w].step = step]
  BY DEF Commit, Apply, connVars
<1>2. Conn(t)' = Conn(t)
  BY <1>1, SameConn DEF tabVars
<1>3. /\ job'[Conn(t)].cmd = job[Conn(t)].cmd
      /\ job'[Conn(t)] = job[Conn(t)] \/ (w = Conn(t) /\ Working(w))
  BY <1>1, TabPlaces, ConnFacts DEF Typed, TypeOK, WorkTypes, Job, Working
<1> QED
  BY <1>1, <1>2, <1>3 DEF Effect, Quietly, Working, Noticed

\* The events go to every tab, the acknowledgement to the one that asked.
LEMMA ReplyEffect ==
  ASSUME Typed, ReplyReady, NEW w \in Workers, Reply(w), NEW t \in Tabs
  PROVE  Effect(t)
<1> PICK p, v : p = job[w].cmd /\ v = job[w].verdict
  OBVIOUS
<1> DEFINE note == [type |-> "EVENTS", seq |-> v.seq]
           ack == [type |-> "ACK", cseq |-> p.cseq, seq |-> v.seq]
           q == Broadcast(joined, note)[t]
<1>1. /\ job[w].step = "reply" /\ job' = [job EXCEPT ![w] = IdleJob] /\ up' = up
      /\ results' = results /\ UNCHANGED tabVars
  BY DEF Reply, storeVars
<1>2. v \in Acceptance /\ v.seq \in Nat /\ v.seq <= Len(memLog)
  BY <1>1 DEF Typed, JobShape, Acceptance, ReplyReady
<1>3. Noticed(t, q)
  <2>1. NewNotice(note)
    BY <1>2, MessageFacts DEF NewNotice
  <2> HIDE DEF note
  <2> QED
    BY <2>1, BroadcastNotice
<1>4. /\ w # Conn(t) => down'[t] = q
      /\ w = Conn(t) => down'[t] = q \/ down'[t] = Append(q, ack)
  <2>1. DOMAIN Broadcast(joined, note) = Tabs
    BY DEF Broadcast
  <2>2. CASE w # Automation /\ w = Conn(w[1]) /\ alive[w[1]]
    <3>1. down' = [Broadcast(joined, note) EXCEPT ![w[1]] = Append(@, ack)]
      BY <1>1, <2>2 DEF Reply
    <3>2. w[1] = t <=> w = Conn(t)
      BY <2>2, TabPlaces
    <3> QED
      BY <2>1, <3>1, <3>2
  <2>3. CASE ~(w # Automation /\ w = Conn(w[1]) /\ alive[w[1]])
    BY <2>3 DEF Reply
  <2> QED
    BY <2>2, <2>3
<1> HIDE DEF q
<1>5. CASE w = Conn(t)
  <2>1. w \in Conns /\ w # Automation
    BY <1>5, TabPlaces, AutoAssumption
  <2>2. p \in Pending /\ v.cmd = p.cmd /\ v.ok /\ v # None /\ p.cseq \in ClientSeqs
    BY <1>1, <1>2, <2>1, NoneAssumption DEF Typed, JobShape, Result, Acceptance, Pending
  <2>3. job'[w] = IdleJob /\ Conn(t)' = Conn(t)
    BY <1>1, SameConn DEF Typed, TypeOK, WorkTypes, tabVars
  <2>4. Answering(t, p)
    BY <1>1, <1>5, <2>3, IdleNotWorking DEF Answering, Working
  <2>5. results[Key(w, p)] = v /\ Key(w, p) = <<User[t], p.cseq>>
    BY <1>1, <1>5, <2>1, TabPlaces DEF ReplyReady, Key
  <2>6. ack \in Down /\ ack.type = "ACK" /\ ack.cseq = p.cseq /\ ack.seq = v.seq
    BY <1>2, <2>2, MessageFacts
  <2> HIDE DEF ack
  <2>7. Tells(t, p, ack)'
    BY <1>1, <2>2, <2>5, <2>6 DEF Tells, Stored
  <2>8. Answered(t)
    BY <1>3, <1>4, <1>5, <2>4, <2>6, <2>7 DEF Answered
  <2> QED
    BY <2>8 DEF Effect
<1>6. CASE w # Conn(t)
  <2>1. job'[Conn(t)] = job[Conn(t)]
    BY <1>1, <1>6, TabPlaces, ConnFacts DEF Typed, TypeOK, WorkTypes
  <2> QED
    BY <1>1, <1>3, <1>4, <1>6, <2>1, OtherQuiet
<1> QED
  BY <1>5, <1>6

\* The rest leaves the tabs' commands alone, or loses them.
LEMMA RestEffect ==
  ASSUME Typed, StartAuto \/ Stall \/ Crash, NEW t \in Tabs
  PROVE  Effect(t)
<1>1. down' = down /\ UNCHANGED tabVars
  BY DEF StartAuto, Stall, Crash, connVars
<1>2. Conn(t)' = Conn(t)
  BY <1>1, SameConn DEF tabVars
<1>3. CASE StartAuto \/ Stall
  <2>1. up' = up /\ job'[Conn(t)] = job[Conn(t)]
    BY <1>3, TabPlaces, AutoAssumption, ConnFacts
       DEF StartAuto, Stall, StartCommit, connVars, Typed, TypeOK, WorkTypes
  <2> QED
    BY <1>1, <2>1, OtherQuiet DEF Noticed
<1>4. CASE Crash
  <2>1. up'[Conn(t)] = <<>> /\ job'[Conn(t)] = IdleJob
    BY <1>4, TabPlaces, ConnFacts DEF Crash
  <2> QED
    BY <1>1, <1>2, <2>1, IdleNotWorking DEF Effect, Quietly, Working, Noticed
<1> QED
  BY <1>3, <1>4

-----------------------------------------------------------------------------
\* The server does nothing for a connection it has not heard of.
Idle(c) == up[c] = <<>> /\ job[c].step = "idle" /\ ~joined[c]

LEMMA FreshServer ==
  ASSUME Typed, FreshConns, tab' = tab, \A c \in Conns : Idle(c) => Idle(c)'
  PROVE  FreshConns'
BY DEF FreshConns, Unused, Idle, Conns

LEMMA AcceptanceGiven == ASSUME NEW v \in Acceptance PROVE v \in Result /\ v # None /\ v.ok
BY NoneAssumption DEF Result, Acceptance

LEMMA ReplyKept ==
  ASSUME Typed, ReplyReady, StoreKept, MemoryGrows, Len(memLog') \in Nat,
         \A w \in Workers : job'[w].step = "reply" => job'[w] = job[w]
  PROVE  ReplyReady'
<1> SUFFICES ASSUME NEW w \in Workers, job'[w].step = "reply"
             PROVE  /\ job'[w].verdict.seq <= Len(memLog')
                    /\ w # Automation => results'[Key(w, job'[w].cmd)] = job'[w].verdict
  BY DEF ReplyReady, Key
<1> PICK v, p : v = job[w].verdict /\ p = job[w].cmd
  OBVIOUS
<1>1. /\ job[w].step = "reply" /\ job'[w].verdict = v /\ job'[w].cmd = p
      /\ v \in Acceptance /\ v.seq \in Nat
      /\ w # Automation => Key(w, p) \in Keys
  BY ConnFacts DEF Typed, JobShape, Acceptance
<1>2. v.seq <= Len(memLog) /\ (w # Automation => results[Key(w, p)] = v)
  BY <1>1 DEF ReplyReady
<1>3. v.seq <= Len(memLog')
  BY <1>1, <1>2, Lengths DEF MemoryGrows
<1>4. w # Automation => results'[Key(w, p)] = v
  BY <1>1, <1>2, AcceptanceGiven DEF StoreKept
<1> QED
  BY <1>1, <1>3, <1>4

\* What was applied was stored, at the end of the log.
LEMMA ApplyReply ==
  ASSUME Typed, Typed', LogInv, ReplyReady, NEW w \in Workers, Apply(w)
  PROVE  ReplyReady'
<1> PICK v, p, e : v = job[w].verdict /\ p = job[w].cmd /\ e = LogEntry(w)
  OBVIOUS
<1>1. /\ job[w].step = "apply" /\ job' = [job EXCEPT ![w].step = "reply"]
      /\ memLog' = Append(memLog, e) /\ log' = log /\ results' = results
  BY DEF Apply, storeVars
<1>2. /\ Len(log) = Len(memLog) + 1 /\ log[Len(log)] = e /\ Len(log) \in Nat
      /\ w # Automation => results[Key(w, p)] = v
  BY <1>1, Lengths DEF LogInv, ApplyReady
<1>3. v.seq = Len(log)
  <2>1. Len(log) \in 1 .. Len(log) /\ v \in Acceptance
    BY <1>1, <1>2, Lengths DEF Typed, JobShape
  <2>2. CASE w = Automation
    <3>1. e.at = v.seq - 1 /\ v.seq \in Nat
      BY <2>1, <2>2 DEF LogEntry, Acceptance
    <3>2. e.at = Len(log) - 1
      BY <1>2, <2>1 DEF LogInv, ExecutedAtSeen
    <3> QED
      BY <1>2, <3>1, <3>2
  <2>3. CASE w # Automation
    <3>1. e.key = Key(w, p) /\ Key(w, p) # AutoKey
      BY <1>1, <2>3, ConnFacts, AutoAssumption DEF LogEntry, Typed, JobShape
    <3>2. Names(e.key, Len(log))
      BY <1>2, <2>1, <3>1 DEF LogInv, ResultsMatchLog
    <3> QED
      BY <1>2, <2>3, <3>1, <3>2 DEF Names
  <2> QED
    BY <2>2, <2>3
<1>4. Len(memLog') = Len(memLog) + 1 /\ Len(memLog) \in Nat
  <2>1. memLog \in Seq(Entry)
    BY DEF Typed, TypeOK, RoomTypes
  <2> QED
    BY <1>1, <2>1
<1>5. \A u \in Workers : job'[u].step = "reply" =>
        /\ job'[u].verdict = job[u].verdict /\ job'[u].cmd = job[u].cmd
        /\ u = w \/ job[u].step = "reply"
  BY <1>1 DEF Typed, TypeOK, WorkTypes, Job
<1>6. \A u \in Workers : job[u].step = "reply" => job[u].verdict.seq \in Nat
  BY DEF Typed, JobShape, Acceptance
<1>7. ASSUME NEW u \in Workers, job'[u].step = "reply"
      PROVE  /\ job'[u].verdict.seq <= Len(memLog')
             /\ u # Automation => results'[Key(u, job'[u].cmd)] = job'[u].verdict
  <2>1. CASE u = w
    BY <1>1, <1>2, <1>3, <1>4, <1>5, <1>7, <2>1
  <2>2. CASE u # w
    <3>1. job[u].step = "reply"
      BY <1>5, <1>7, <2>2
    <3>2. /\ job[u].verdict.seq <= Len(memLog)
          /\ u # Automation => results[Key(u, job[u].cmd)] = job[u].verdict
      BY <3>1 DEF ReplyReady
    <3> QED
      BY <1>1, <1>4, <1>5, <1>6, <1>7, <3>1, <3>2
  <2> QED
    BY <2>1, <2>2
<1> QED
  BY <1>7 DEF ReplyReady, Key

-----------------------------------------------------------------------------
\* The steps of the server keep the invariant.
ServerStep ==
  \/ \E c \in Conns : \/ HandlerStep(c) \/ RefuseLimited(c) \/ PersistVerdictFails(c)
  \/ \E w \in Workers : WorkerStep(w)
  \/ StartAuto \/ Stall \/ Crash

LEMMA ServerTabs == ASSUME ServerStep PROVE UNCHANGED tabVars
BY DEF ServerStep, HandlerStep, WorkerStep, Join, SyncJoined, Resync, Close, RefusePaused, Replay,
       Decline, Accept, PersistVerdict, RefuseLimited, PersistVerdictFails, Commit, CommitFails,
       Apply, Reply, StartAuto, Stall, Crash

LEMMA ServerGrows == ASSUME Typed, LogInv, ServerStep PROVE StoreKept /\ MemoryGrows
<1>1. ASSUME NEW c \in Conns, HandlerStep(c) \/ RefuseLimited(c) \/ PersistVerdictFails(c)
      PROVE  StoreKept /\ MemoryGrows
  <2>1. CASE PersistVerdict(c) \/ PersistVerdictFails(c)
    BY <2>1, ConnFacts, StoreSteps
  <2>2. CASE UNCHANGED <<storeVars, memLog>>
    BY <2>2, SameStore
  <2> QED
    BY <1>1, <2>1, <2>2
       DEF HandlerStep, Join, SyncJoined, Resync, Close, RefusePaused, Replay, Decline, Accept,
           StartCommit, RefuseLimited, roomVars
<1>2. ASSUME NEW w \in Workers, WorkerStep(w) PROVE StoreKept /\ MemoryGrows
  <2>1. CASE Reply(w)
    BY <2>1, SameStore DEF Reply, roomVars
  <2> QED
    BY <1>2, <2>1, StoreSteps, ApplyGrows DEF WorkerStep
<1>3. CASE StartAuto \/ Stall
  BY <1>3, SameStore DEF StartAuto, Stall, StartCommit, roomVars
<1> QED
  BY <1>1, <1>2, <1>3, CrashGrows DEF ServerStep

LEMMA ServerEffects ==
  ASSUME Typed, LogInv, ReplyReady, ServerStep, NEW t \in Tabs PROVE Effect(t)
<1>1. ASSUME NEW c \in Conns, HandlerStep(c) \/ RefuseLimited(c) \/ PersistVerdictFails(c)
      PROVE  Effect(t)
  BY <1>1, RoomEffect, RefusalEffect, ReplayEffect, TakeUpEffect, PersistEffect DEF HandlerStep
<1>2. ASSUME NEW w \in Workers, WorkerStep(w) PROVE Effect(t)
  BY <1>2, OnwardEffect, CommitFailsEffect, ReplyEffect DEF WorkerStep
<1> QED
  BY <1>1, <1>2, RestEffect DEF ServerStep

LEMMA ServerFresh == ASSUME Typed, ServerStep, FreshConns PROVE FreshConns'
<1>0. tab' = tab
  BY ServerTabs DEF tabVars
<1>1. ASSUME NEW d \in Conns, Idle(d),
             NEW c \in Conns, HandlerStep(c) \/ RefuseLimited(c) \/ PersistVerdictFails(c)
      PROVE  Idle(d)'
  <2>1. c # d
    BY <1>1 DEF Idle, HandlerStep, Join, SyncJoined, Resync, Close, RefusePaused, Replay, Decline,
                Accept, Fresh, TakeInTurn, Take, PersistVerdict, RefuseLimited, PersistVerdictFails
  <2>2. up'[d] = up[d] /\ job'[d] = job[d] /\ joined'[d] = joined[d]
    BY <1>1, <2>1, ConnFacts
       DEF HandlerStep, Join, SyncJoined, Resync, Close, RefusePaused, Replay, Decline, Accept,
           StartCommit, Fresh, TakeInTurn, Take, PersistVerdict, RefuseLimited,
           PersistVerdictFails, Done, connVars, Typed, TypeOK, WorkTypes, ConnTypes
  <2> QED
    BY <1>1, <2>2 DEF Idle
<1>2. ASSUME NEW d \in Conns, Idle(d), NEW w \in Workers, WorkerStep(w) PROVE Idle(d)'
  <2>1. w # d
    BY <1>2 DEF Idle, WorkerStep, Commit, CommitFails, Apply, Reply
  <2>2. up'[d] = up[d] /\ job'[d] = job[d] /\ joined'[d] = joined[d]
    BY <1>2, <2>1, ConnFacts
       DEF WorkerStep, Commit, CommitFails, Apply, Reply, Done, connVars,
           Typed, TypeOK, WorkTypes, ConnTypes
  <2> QED
    BY <1>2, <2>2 DEF Idle
<1>3. ASSUME NEW d \in Conns, Idle(d), StartAuto \/ Stall PROVE Idle(d)'
  BY <1>3, ConnFacts, AutoAssumption
     DEF Idle, StartAuto, Stall, StartCommit, connVars, Typed, TypeOK, WorkTypes
<1>4. ASSUME NEW d \in Conns, Crash PROVE Idle(d)'
  BY <1>4, ConnFacts DEF Idle, Crash, IdleJob
<1>5. \A d \in Conns : Idle(d) => Idle(d)'
  BY <1>1, <1>2, <1>3, <1>4 DEF ServerStep
<1> QED
  BY <1>0, <1>5, FreshServer

\* A worker that goes on to anything but its reply.
LEMMA NoNewReply ==
  ASSUME Typed, NEW u \in Workers, NEW j, j.step # "reply", job' = [job EXCEPT ![u] = j]
  PROVE  \A w \in Workers : job'[w].step = "reply" => job'[w] = job[w]
BY DEF Typed, TypeOK, WorkTypes

LEMMA ServerReplies ==
  ASSUME Typed, Typed', LogInv, ReplyReady, ServerStep PROVE ReplyReady'
<1>1. ASSUME NEW w \in Workers, Apply(w) PROVE ReplyReady'
  BY <1>1, ApplyReply
<1>2. ASSUME \A w \in Workers : job'[w].step = "reply" => job'[w] = job[w] PROVE ReplyReady'
  BY <1>2, ReplyKept, ServerGrows, Lengths
<1>3. ASSUME NEW c \in Conns, HandlerStep(c) \/ RefuseLimited(c) \/ PersistVerdictFails(c)
      PROVE  \A w \in Workers : job'[w].step = "reply" => job'[w] = job[w]
  <2>1. CASE Join(c)
    <3>1. job' = [job EXCEPT ![c] = [job[c] EXCEPT !.step = "syncing"]]
      BY <2>1 DEF Join
    <3>2. [job[c] EXCEPT !.step = "syncing"].step # "reply"
      BY ConnFacts DEF Typed, TypeOK, WorkTypes, Job
    <3> QED
      BY <3>1, <3>2, ConnFacts, NoNewReply
  <2>2. CASE SyncJoined(c) \/ PersistVerdict(c) \/ PersistVerdictFails(c)
    BY <2>2, ConnFacts, IdleNotWorking, NoNewReply
       DEF SyncJoined, PersistVerdict, PersistVerdictFails, Done
  <2>3. CASE Decline(c)
    <3>1. \E v : job' = [job EXCEPT ![c] = [step |-> "reject", cmd |-> Asked(c), verdict |-> v]]
      BY <2>3, Zenon DEF Decline
    <3> QED
      BY <3>1, ConnFacts, NoNewReply
  <2>4. CASE Accept(c)
    BY <2>4, ConnFacts, NoNewReply DEF Accept, StartCommit
  <2>5. CASE job' = job
    BY <2>5
  <2> QED
    BY <1>3, <2>1, <2>2, <2>3, <2>4, <2>5
       DEF HandlerStep, Resync, Close, RefusePaused, Replay, RefuseLimited
<1>4. ASSUME NEW u \in Workers, Commit(u) \/ CommitFails(u) \/ Reply(u)
      PROVE  \A w \in Workers : job'[w].step = "reply" => job'[w] = job[w]
  <2>1. CASE Commit(u)
    <3>1. job' = [job EXCEPT ![u] = [job[u] EXCEPT !.step = "apply"]]
      BY <2>1 DEF Commit
    <3>2. [job[u] EXCEPT !.step = "apply"].step # "reply"
      BY DEF Typed, TypeOK, WorkTypes, Job
    <3> QED
      BY <3>1, <3>2, NoNewReply
  <2>2. CASE CommitFails(u) \/ Reply(u)
    BY <2>2, IdleNotWorking, NoNewReply DEF CommitFails, Reply, Done
  <2> QED
    BY <1>4, <2>1, <2>2
<1>5. ASSUME StartAuto \/ Stall \/ Crash
      PROVE  \A w \in Workers : job'[w].step = "reply" => job'[w] = job[w]
  BY <1>5 DEF StartAuto, Stall, Crash, StartCommit, IdleJob, Typed, TypeOK, WorkTypes
<1> QED
  BY <1>1, <1>2, <1>3, <1>4, <1>5 DEF ServerStep, WorkerStep

LEMMA ServerInv ==
  ASSUME Typed, Typed', LogInv, TabInv, ServerStep PROVE TabInv'
<1>1. UNCHANGED tabVars /\ StoreKept /\ MemoryGrows /\ Len(memLog') \in Nat
  BY ServerTabs, ServerGrows, Lengths
<1>2. ASSUME NEW t \in Tabs PROVE TabTrue(t)'
  <2>1. TabStays(t) /\ TabTrue(t)
    BY <1>1 DEF TabInv, TabStays, tabVars
  <2>2. Quietly(t) \/ Started(t) \/ Answered(t)
    BY ServerEffects DEF TabInv, Effect
  <2> QED
    BY <1>1, <2>1, <2>2, ServerTab
<1> QED
  BY <1>2, ServerFresh, ServerReplies DEF TabInv

-----------------------------------------------------------------------------
(***************************************************************************)
(* A step of a tab.                                                        *)
(***************************************************************************)
\* Nothing is on its way between the tab and its handler.
NoFlight(t) == Asks(up[Conn(t)]) = {} /\ ~Working(Conn(t)) /\ Answers(down[t]) = {}

LEMMA NothingAsked ==
  ASSUME NEW t, Sole(t), About(t), ~Waiting(tab[t]) PROVE NoFlight(t)
<1>1. Requests(up[Conn(t)]) = {} /\ ~Working(Conn(t)) /\ Answers(down[t]) = {}
  BY DEF About, Fits
<1>2. Asks(up[Conn(t)]) = {}
  BY <1>1 DEF Requests
<1> QED
  BY <1>1, <1>2 DEF NoFlight

LEMMA FlightOver == ASSUME NEW t, NoFlight(t)' PROVE Sole(t)' /\ About(t)'
BY DEF NoFlight, Sole, About, Requests

\* What the tab writes.
LEMMA TransmitOn ==
  ASSUME Typed, NEW t \in Tabs, NEW messages, Transmit(t, messages)
  PROVE  /\ up'[Conn(t)] = up[Conn(t)] \/ (alive[t] /\ up'[Conn(t)] = up[Conn(t)] \o messages)
         /\ \A c \in Conns \ {Conn(t)} : up'[c] = up[c]
         /\ ~alive[t] => up' = up
BY TabPlaces DEF Transmit, Typed, TypeOK, ConnTypes

LEMMA ConcatPlaces ==
  ASSUME NEW q \in Seq(Up), NEW r \in Seq(Up)
  PROVE  /\ Len(q) \in Nat
         /\ \A i \in Asks(q \o r) : \/ i \in Asks(q) /\ (q \o r)[i] = q[i]
                                    \/ i - Len(q) \in Asks(r) /\ (q \o r)[i] = r[i - Len(q)]
<1> DEFINE s == q \o r
<1>1. /\ Len(s) = Len(q) + Len(r) /\ Len(q) \in Nat /\ Len(r) \in Nat
      /\ \A i \in 1 .. Len(s) : s[i] = IF i <= Len(q) THEN q[i] ELSE r[i - Len(q)]
  BY ConcatProperties
<1> HIDE DEF s
<1>2. ASSUME NEW i \in Asks(s)
      PROVE  \/ i \in Asks(q) /\ s[i] = q[i]
             \/ i - Len(q) \in Asks(r) /\ s[i] = r[i - Len(q)]
  <2>1. i \in 1 .. Len(s) /\ s[i].type = "COMMAND"
    BY DEF Asks
  <2>2. CASE i <= Len(q)
    BY <1>1, <2>1, <2>2 DEF Asks
  <2>3. CASE i > Len(q)
    BY <1>1, <2>1, <2>3 DEF Asks
  <2> QED
    BY <1>1, <2>1, <2>2, <2>3
<1> QED
  BY <1>1, <1>2 DEF s

\* Messages that ask nothing, and one request alone.
LEMMA QuietConcat ==
  ASSUME NEW q \in Seq(Up), NEW r \in Seq(Up), Asks(r) = {}
  PROVE  Asks(q \o r) \subseteq Asks(q) /\ Requests(q \o r) \subseteq Requests(q)
<1>1. \A i \in Asks(q \o r) : i \in Asks(q) /\ (q \o r)[i] = q[i]
  BY ConcatPlaces
<1> QED
  BY <1>1 DEF Requests

LEMMA AskConcat ==
  ASSUME NEW q \in Seq(Up), NEW p \in Pending, Asks(q) = {}
  PROVE  LET s == q \o <<Commanding(p)>>
         IN (\A i, j \in Asks(s) : i = j) /\ Requests(s) \subseteq {p}
<1> DEFINE r == <<Commanding(p)>>
           s == q \o r
<1>1. r \in Seq(Up) /\ Asks(r) \subseteq {1} /\ r[1].cmd = p
  BY MessageFacts DEF Commanding, Asks
<1> HIDE DEF r
<1>2. /\ Len(q) \in Nat
      /\ \A i \in Asks(s) : i - Len(q) \in Asks(r) /\ s[i] = r[i - Len(q)]
  BY <1>1, ConcatPlaces
<1>3. \A i \in Asks(s) : i \in Int
  BY <1>1, ConcatProperties DEF Asks
<1> HIDE DEF s
<1>4. \A i \in Asks(s) : i = Len(q) + 1 /\ s[i] = r[1]
  BY <1>1, <1>2, <1>3
<1>5. (\A i, j \in Asks(s) : i = j) /\ Requests(s) \subseteq {p}
  BY <1>1, <1>4 DEF Requests
<1> QED
  BY <1>5 DEF s, r

\* A tab that did nothing sees at most its browser's storage change.
LEMMA OtherTab ==
  ASSUME Typed, UNCHANGED <<results, memLog, job>>, NEW u \in Tabs, TabTrue(u),
         tab'[u] = tab[u], told'[u] = told[u], down'[u] = down[u], up'[Conn(u)] = up[Conn(u)],
         resume'[User[u]].lastSeq <= Len(memLog)
  PROVE  TabTrue(u)'
<1>1. StoreKept
  BY DEF StoreKept
<1>2. Conn(u)' = Conn(u)
  BY SameConn
<1>3. Quietly(u)
  BY <1>2 DEF Quietly, Working, Noticed
<1>4. Sole(u)' /\ About(u)'
  BY <1>1, <1>3, QuietFlight DEF TabTrue
<1>5. Seen(u)'
  BY DEF TabTrue, Seen, InOrder
<1>6. Acked(u)' /\ ToldStored(u)'
  BY <1>1, AckedStays, ToldStays DEF TabTrue
<1> QED
  BY <1>4, <1>5, <1>6 DEF TabTrue

-----------------------------------------------------------------------------
\* A message taken from the queue of a tab that waits, or that waits for nothing.
QuietUp(t) ==
  \/ up'[Conn(t)] = up[Conn(t)]
  \/ \E r \in Seq(Up) : Asks(r) = {} /\ up'[Conn(t)] = up[Conn(t)] \o r

LEMMA StillNothing ==
  ASSUME Typed, NEW t \in Tabs, job' = job, tab'[t].epoch = tab[t].epoch, QuietUp(t),
         Asks(up[Conn(t)]) = {}, ~Working(Conn(t)), Answers(down'[t]) = {}
  PROVE  Sole(t)' /\ About(t)'
<1> PICK c : c = Conn(t)
  OBVIOUS
<1>1. Conn(t)' = c /\ up[c] \in Seq(Up)
  BY SameConn, TabPlaces
<1>2. Asks(up'[c]) = {}
  <2>1. CASE up'[c] = up[c]
    BY <2>1
  <2>2. ASSUME NEW r \in Seq(Up), Asks(r) = {}, up'[c] = up[c] \o r PROVE Asks(up'[c]) = {}
    <3>1. Asks(up[c] \o r) \subseteq Asks(up[c])
      BY <1>1, <2>2, QuietConcat
    <3> QED
      BY <2>2, <3>1
  <2> QED
    BY <2>1, <2>2 DEF QuietUp
<1>3. ~Working(c)'
  BY <1>1 DEF Working
<1>4. NoFlight(t)'
  BY <1>1, <1>2, <1>3 DEF NoFlight, Working
<1> QED
  BY <1>4, FlightOver

LEMMA OneAsked ==
  ASSUME Typed, NEW t \in Tabs, job' = job, tab'[t].epoch = tab[t].epoch, NEW p \in Pending,
         tab'[t].pending = p, tab'[t].ack = 0, tab'[t].sent = TRUE,
         up'[Conn(t)] = up[Conn(t)] \/ up'[Conn(t)] = up[Conn(t)] \o <<Commanding(p)>>,
         Asks(up[Conn(t)]) = {}, ~Working(Conn(t)), Answers(down'[t]) = {}
  PROVE  Sole(t)' /\ About(t)'
<1> PICK c : c = Conn(t)
  OBVIOUS
<1>1. Conn(t)' = c /\ up[c] \in Seq(Up)
  BY SameConn, TabPlaces
<1>2. (\A i, j \in Asks(up'[c]) : i = j) /\ Requests(up'[c]) \subseteq {p}
  <2>1. CASE up'[c] = up[c]
    BY <2>1 DEF Requests
  <2>2. CASE up'[c] = up[c] \o <<Commanding(p)>>
    BY <1>1, <2>2, AskConcat
  <2> QED
    BY <2>1, <2>2
<1>3. ~Working(c)'
  BY <1>1 DEF Working
<1>4. p # None /\ Waiting(tab'[t])
  BY NoneAssumption DEF Waiting
<1>5. Waiting(tab[t])'
  BY <1>4 DEF Waiting
<1> QED
  BY <1>1, <1>2, <1>3, <1>5 DEF Sole, About, Working

LEMMA RestAnswers ==
  ASSUME NEW q \in Seq(Down), q # <<>>, NEW r, r = Tail(q)
  PROVE  \A i \in Answers(r) : i + 1 \in Answers(q) /\ r[i] = q[i + 1] /\ i \in Nat
<1>1. \A i \in Answers(Tail(q)) : i + 1 \in Answers(q) /\ Tail(q)[i] = q[i + 1] /\ i \in Nat
  BY TailAnswers
<1> QED
  BY <1>1, Zenon

\* The tab takes a message that is no answer while it waits.
LEMMA NoticeFlight ==
  ASSUME Typed, UNCHANGED <<results, job>>, NEW t \in Tabs, Sole(t), About(t),
         down[t] # <<>>, down'[t] = Tail(down[t]), up'[Conn(t)] = up[Conn(t)],
         tab'[t].epoch = tab[t].epoch, tab'[t].pending = tab[t].pending,
         tab'[t].ack = tab[t].ack, tab'[t].sent = tab[t].sent
  PROVE  Sole(t)' /\ About(t)'
<1> PICK c : c = Conn(t)
  OBVIOUS
<1>1. Conn(t)' = c /\ down[t] \in Seq(Down)
  BY SameConn, TabPlaces
<1>2. \A i \in Answers(down'[t]) : i + 1 \in Answers(down[t]) /\ down'[t][i] = down[t][i + 1] /\ i \in Nat
  BY <1>1, RestAnswers
<1>3. \A i, j \in Answers(down'[t]) : i = j
  <2>1. \A i, j \in Answers(down[t]) : i = j
    BY DEF Sole
  <2> QED
    BY <1>2, <2>1
<1>4. Answers(down[t]) = {} => Answers(down'[t]) = {}
  BY <1>2
<1>5. Sole(t)'
  BY <1>1, <1>3, <1>4 DEF Sole, Working
<1>6. ASSUME NEW i \in Answers(down'[t]) PROVE Fits(t, down[t][i])'
  <2> PICK m : m = down'[t][i]
    OBVIOUS
  <2>1. Fits(t, down[t][i + 1]) /\ m = down[t][i + 1]
    BY <1>2, <1>6 DEF About
  <2>2. Fits(t, m)
    BY <2>1
  <2>3. Fits(t, m)'
    BY <2>2 DEF Fits, Waiting, Tells, Stored
  <2> QED
    BY <2>3
<1>7. About(t)'
  BY <1>1, <1>6 DEF About, Working, Waiting
<1> QED
  BY <1>5, <1>7

\* What is told of a command is what is stored of it.
LEMMA TellStored ==
  ASSUME Typed, results' = results, NEW t \in Tabs, ToldStored(t), NEW p \in Pending,
         tab[t].pending = p, NEW code, Tell(t, code),
         code \in FinalCodes \cup {"confirmed"} =>
           LET r == Stored(t, p.cseq)
           IN r # None /\ r.cmd = p.cmd /\ (r.ok <=> code = "confirmed")
  PROVE  ToldStored(t)' /\ \A u \in Tabs \ {t} : told'[u] = told[u]
<1> PICK n, what : n = p.cseq /\ what = [cmd |-> p.cmd, code |-> code]
  OBVIOUS
<1>1. n \in ClientSeqs /\ told \in [Tabs -> [ClientSeqs -> Told]]
  BY DEF Pending, Typed, TypeOK, TabTypes
<1>2. told' = [told EXCEPT ![t][n] = what]
  BY DEF Tell
<1>3. /\ told'[t][n] = what
      /\ \A k \in ClientSeqs \ {n} : told'[t][k] = told[t][k]
      /\ \A u \in Tabs \ {t} : told'[u] = told[u]
  BY <1>1, <1>2
<1>4. what.cmd = p.cmd /\ what.code = code
  OBVIOUS
<1>5. ASSUME NEW k \in ClientSeqs, told'[t][k] # None,
             told'[t][k].code \in FinalCodes \cup {"confirmed"}
      PROVE  LET r == Stored(t, k)
             IN r # None /\ r.cmd = told'[t][k].cmd /\ (r.ok <=> told'[t][k].code = "confirmed")
  <2>1. CASE k = n
    BY <1>3, <1>4, <1>5, <2>1
  <2>2. CASE k # n
    BY <1>3, <1>5, <2>2 DEF ToldStored
  <2> QED
    BY <2>1, <2>2
<1> QED
  BY <1>3, <1>5 DEF ToldStored, Stored

-----------------------------------------------------------------------------
\* The other tabs, and the connections to come, see nothing of a tab's step.
OnlyTab(t) ==
  /\ UNCHANGED <<results, memLog, job, joined>>
  /\ \A u \in Tabs \ {t} : tab'[u] = tab[u] /\ told'[u] = told[u] /\ down'[u] = down[u]
  /\ \A c \in Conns \ {Conn(t)} : up'[c] = up[c]
  /\ \/ tab'[t].epoch = tab[t].epoch /\ tab'[t].net # "offline"
     \/ tab'[t].epoch = tab[t].epoch + 1
  /\ \A u \in Users : \/ resume'[u].lastSeq = resume[u].lastSeq
                      \/ u = User[t] /\ resume'[u].lastSeq = tab'[t].lastSeq

LEMMA TabKeepsFresh ==
  ASSUME Typed, FreshConns, NEW t \in Tabs, OnlyTab(t) PROVE FreshConns'
<1> SUFFICES ASSUME NEW u \in Tabs, NEW e \in Epochs, Unused(u, e)'
             PROVE  up'[<<u, e>>] = <<>> /\ job'[<<u, e>>].step = "idle" /\ ~joined'[<<u, e>>]
  BY DEF FreshConns
<1>1. Unused(u, e) /\ <<u, e>> # Conn(t)
  <2>1. CASE u = t
    <3>1. tab[t].epoch \in Int /\ e \in Int
      BY TabPlaces DEF Tab, Epochs
    <3> QED
      BY <2>1, <3>1 DEF OnlyTab, Unused, Conn
  <2>2. CASE u # t
    BY <2>2 DEF OnlyTab, Unused, Conn
  <2> QED
    BY <2>1, <2>2
<1>2. <<u, e>> \in Conns
  BY DEF Conns
<1> QED
  BY <1>1, <1>2 DEF FreshConns, OnlyTab

LEMMA OnlyTabInv ==
  ASSUME Typed, TabInv, NEW t \in Tabs, OnlyTab(t), TabTrue(t)' PROVE TabInv'
<1>1. FreshConns' /\ ReplyReady'
  BY TabKeepsFresh DEF TabInv, OnlyTab, ReplyReady, Key
<1>2. tab'[t].lastSeq <= Len(memLog)
  BY DEF TabTrue, Seen, OnlyTab
<1>3. ASSUME NEW u \in Tabs \ {t} PROVE TabTrue(u)'
  <2>1. TabTrue(u)
    BY DEF TabInv
  <2>2. User[u] \in Users /\ Conn(u) \in Conns /\ Conn(u) # Conn(t)
    BY ConnFacts, TabPlaces DEF Conn
  <2>3. resume'[User[u]].lastSeq <= Len(memLog)
    BY <1>2, <2>1, <2>2 DEF OnlyTab, TabTrue, Seen
  <2> QED
    BY <2>1, <2>2, <2>3, OtherTab DEF OnlyTab
<1> QED
  BY <1>1, <1>3 DEF TabInv

-----------------------------------------------------------------------------
\* A new connection, and the end of one.
LEMMA ConnectInv == ASSUME Typed, EpochShape, TabInv, NEW t \in Tabs, Connect(t) PROVE TabInv'
<1> PICK c : c = Conn(t)
  OBVIOUS
<1>1. /\ tab[t] \in Tab /\ c \in Conns /\ tab[t].net = "offline" /\ down[t] = <<>>
      /\ job[c].step = "idle" /\ c = <<t, tab[t].epoch>> /\ tab[t].epoch \in Epochs
  <2>1. tab[t] \in Tab /\ c \in Conns /\ tab[t].epoch \in Epochs
    BY TabPlaces DEF Tab
  <2>2. tab[t].net = "offline" /\ Unused(t, tab[t].epoch)
    BY DEF Connect, Unused
  <2> QED
    BY <2>1, <2>2 DEF TabInv, FreshConns, EpochShape, Conn
<1>2. /\ tab' = [tab EXCEPT ![t].net = "joining"] /\ down' = down /\ told' = told
      /\ up' = [up EXCEPT ![c] = <<[type |-> "JOIN"]>>] /\ resume' = resume
      /\ UNCHANGED <<results, memLog, job, joined>>
  BY DEF Connect, storeVars, roomVars
<1>3. /\ tab'[t].epoch = tab[t].epoch /\ tab'[t].lastSeq = tab[t].lastSeq /\ tab'[t].ack = tab[t].ack
      /\ tab'[t].pending = tab[t].pending /\ tab'[t].net = "joining"
      /\ \A u \in Tabs \ {t} : tab'[u] = tab[u]
  BY <1>1, <1>2 DEF Typed, TypeOK, TabTypes, Tab
<1>4. OnlyTab(t)
  BY <1>2, <1>3, <1>1 DEF OnlyTab, Typed, TypeOK, ConnTypes
<1>5. Conn(t)' = c
  BY <1>3, SameConn
<1>6. Sole(t)' /\ About(t)'
  <2>1. up'[c] = <<[type |-> "JOIN"]>>
    BY <1>1, <1>2 DEF Typed, TypeOK, ConnTypes
  <2>2. Asks(<<[type |-> "JOIN"]>>) = {}
    BY DEF Asks
  <2>3. Answers(down'[t]) = {}
    BY <1>1, <1>2, NoAsks
  <2>4. ~Working(c)'
    BY <1>1, <1>2 DEF Working
  <2> QED
    BY <1>5, <2>1, <2>2, <2>3, <2>4, FlightOver DEF NoFlight, Working
<1>7. Seen(t)'
  BY <1>2, <1>3 DEF TabInv, TabTrue, Seen, InOrder
<1>8. Acked(t)' /\ ToldStored(t)'
  BY <1>2, <1>3, AckedStays, ToldStays DEF TabInv, TabTrue, StoreKept
<1> QED
  BY <1>4, <1>6, <1>7, <1>8, OnlyTabInv DEF TabTrue

LEMMA HangUpInv ==
  ASSUME Typed, Typed', TabInv, NEW t \in Tabs, NEW s \in Tab, HangUp(t, s), s.epoch = tab[t].epoch,
         s = tab[t] \/ (s.ack = 0 /\ s.lastSeq = resume[User[t]].lastSeq),
         \A c \in Conns \ {Conn(t)} : up'[c] = up[c]
  PROVE  TabInv'
<1> PICK e : e = tab[t].epoch + 1
  OBVIOUS
<1>1. tab' = [tab EXCEPT ![t] = Disconnected(s)] /\ tab[t] \in Tab
  BY TabPlaces DEF HangUp
<1>2. /\ tab'[t] = Disconnected(s) /\ \A u \in Tabs \ {t} : tab'[u] = tab[u]
  BY <1>1 DEF Typed, TypeOK, TabTypes
<1>3. /\ Disconnected(s).epoch = e /\ Disconnected(s).lastSeq = s.lastSeq
      /\ Disconnected(s).ack = s.ack /\ Disconnected(s).pending = s.pending
  BY DEF Disconnected, Tab
<1>4. /\ down'[t] = <<>> /\ \A u \in Tabs \ {t} : down'[u] = down[u]
      /\ UNCHANGED <<results, memLog, job, joined, resume, told>>
  BY DEF HangUp, storeVars, roomVars, Typed, TypeOK, ConnTypes
<1>5. OnlyTab(t)
  BY <1>2, <1>3, <1>4 DEF OnlyTab
<1>6. /\ Conn(t)' = <<t, e>> /\ <<t, e>> \in Conns /\ e \in Epochs /\ <<t, e>> # Conn(t)
      /\ Unused(t, e)
  <2>1. tab'[t] \in Tab /\ tab'[t].epoch = e
    BY <1>2, <1>3 DEF Typed, TypeOK, TabTypes
  <2>2. e \in Epochs /\ tab[t].epoch \in Epochs
    BY <1>1, <2>1 DEF Tab
  <2>3. e > tab[t].epoch /\ e # tab[t].epoch
    BY <2>2 DEF Epochs
  <2> QED
    BY <2>1, <2>2, <2>3 DEF Conn, Conns, Unused
<1>7. Sole(t)' /\ About(t)'
  <2>1. up[<<t, e>>] = <<>> /\ job[<<t, e>>].step = "idle"
    BY <1>6 DEF TabInv, FreshConns
  <2>2. Asks(up'[<<t, e>>]) = {} /\ Answers(down'[t]) = {}
    BY <1>4, <1>6, <2>1, NoAsks
  <2>3. job'[<<t, e>>].step = "idle"
    BY <1>4, <2>1
  <2> QED
    BY <1>6, <2>2, <2>3, FlightOver DEF NoFlight, Working
<1>8. Seen(t)'
  <2>1. tab'[t].lastSeq <= Len(memLog)
    BY <1>2, <1>3 DEF TabInv, TabTrue, Seen
  <2>2. Notices(down'[t]) = {}
    BY <1>4, NoAsks
  <2>3. resume'[User[t]].lastSeq <= Len(memLog)
    BY <1>4 DEF TabInv, TabTrue, Seen
  <2> QED
    BY <1>4, <2>1, <2>2, <2>3 DEF Seen, InOrder
<1>9. Acked(t)' /\ ToldStored(t)'
  <2>1. StoreKept
    BY <1>4 DEF StoreKept
  <2>2. ToldStored(t)'
    BY <1>4, <2>1, ToldStays DEF TabInv, TabTrue
  <2>3. Acked(t)'
    <3>1. CASE s = tab[t]
      BY <1>2, <1>3, <2>1, <3>1, AckedStays DEF TabInv, TabTrue
    <3>2. CASE s.ack = 0
      BY <1>2, <1>3, <3>2 DEF Acked
    <3> QED
      BY <3>1, <3>2
  <2> QED
    BY <2>2, <2>3
<1> QED
  BY <1>5, <1>7, <1>8, <1>9, OnlyTabInv DEF TabTrue

\* Drop, Reload and DetectClose.
LEMMA CutOffElsewhere ==
  ASSUME Typed, NEW t \in Tabs, NEW n, CutOff(t, n) PROVE \A c \in Conns \ {Conn(t)} : up'[c] = up[c]
BY DEF CutOff, Typed, TypeOK, ConnTypes

LEMMA HangUpsInv ==
  ASSUME Typed, Typed', TabInv, NEW t \in Tabs, Drop(t) \/ Reload(t) \/ DetectClose(t)
  PROVE  TabInv'
<1>1. tab[t] \in Tab /\ resume[User[t]] \in Saved
  BY TabPlaces
<1>2. \A c \in Conns \ {Conn(t)} : up'[c] = up[c]
  BY CutOffElsewhere DEF Drop, Reload, DetectClose
<1>3. CASE Drop(t) \/ DetectClose(t)
  BY <1>1, <1>2, <1>3, HangUpInv DEF Drop, DetectClose
<1>4. CASE Reload(t)
  <2> DEFINE r == resume[User[t]]
             s == [tab[t] EXCEPT !.pending = r.pending, !.nextSeq = r.nextSeq,
                                 !.lastSeq = r.lastSeq, !.ack = 0]
  <2>1. HangUp(t, s)
    BY <1>4 DEF Reload
  <2>2. s \in Tab /\ s.epoch = tab[t].epoch /\ s.ack = 0 /\ s.lastSeq = r.lastSeq
    <3>1. r.pending \in Pending \cup {None} /\ r.nextSeq \in Nat /\ r.lastSeq \in Nat
      BY <1>1 DEF Saved
    <3> HIDE DEF r
    <3> QED
      BY <1>1, <3>1 DEF Tab
  <2> HIDE DEF s
  <2> QED
    BY <1>2, <2>1, <2>2, HangUpInv
<1> QED
  BY <1>3, <1>4

-----------------------------------------------------------------------------
\* What each message leaves in the tab that receives it.  The pending command
\* is settled when its acknowledgement is covered.
Settles(s, n) == s.ack # 0 /\ n >= s.ack
Settled(t, d) ==
  /\ tab'[t].pending = IF d THEN None ELSE tab[t].pending
  /\ tab'[t].ack = IF d THEN 0 ELSE tab[t].ack
Told1(t, d) == IF d THEN Tell(t, "confirmed") ELSE told' = told

LEMMA CoverFields ==
  ASSUME NEW s \in Tab
  PROVE  /\ Covered(s) = Settles(s, s.lastSeq)
         /\ FinishAck(s).pending = (IF Covered(s) THEN None ELSE s.pending)
         /\ FinishAck(s).ack = (IF Covered(s) THEN 0 ELSE s.ack)
         /\ FinishAck(s).sent = (IF Covered(s) THEN FALSE ELSE s.sent)
         /\ FinishAck(s).lastSeq = s.lastSeq /\ FinishAck(s).nextSeq = s.nextSeq
BY DEF Covered, Settles, FinishAck, Forget, Tab

LEMMA AdvanceFields ==
  ASSUME NEW s \in Tab, NEW n \in Nat
  PROVE  LET a == Advance(s, n)
         IN /\ a \in Tab /\ a.pending = s.pending /\ a.ack = s.ack /\ a.sent = s.sent
            /\ a.lastSeq = n /\ a.nextSeq = s.nextSeq
BY TabFacts DEF Advance, Tab

LEMMA ResyncFields ==
  ASSUME NEW s \in Tab
  PROVE  LET a == AskResync(s)
         IN /\ a \in Tab /\ a.pending = s.pending /\ a.ack = s.ack /\ a.sent = s.sent
            /\ a.lastSeq = s.lastSeq /\ a.nextSeq = s.nextSeq
            /\ ResyncRequest(s) \in Seq(Up) /\ Asks(ResyncRequest(s)) = {}
<1>1. ResyncRequest(s) \in Seq(Up) /\ Asks(ResyncRequest(s)) = {}
  BY MessageFacts DEF ResyncRequest, Asks
<1> QED
  BY <1>1, TabFacts DEF AskResync, Tab

LEMMA PersistFields ==
  ASSUME Typed, NEW t \in Tabs, NEW s, Persist(t, s)
  PROVE  /\ \A u \in Users \ {User[t]} : resume'[u] = resume[u]
         /\ resume'[User[t]] = [pending |-> s.pending, nextSeq |-> s.nextSeq, lastSeq |-> s.lastSeq]
BY ConnFacts DEF Persist, Typed, TypeOK, TabTypes

LEMMA ReceiveFields ==
  ASSUME Typed, EpochShape, NEW t \in Tabs, NEW type, Receive(t, type)
  PROVE  /\ tab[t] \in Tab /\ tab[t].net # "offline"
         /\ down[t] \in Seq(Down) /\ down[t] # <<>> /\ down'[t] = Tail(down[t])
         /\ Head(down[t]) \in Down /\ Head(down[t]).type = type
         /\ \A u \in Tabs \ {t} : down'[u] = down[u]
         /\ UNCHANGED <<log, results, memLog, job, joined>>
<1>1. down[t] \in Seq(Down) /\ down \in [Tabs -> Seq(Down)] /\ tab[t] \in Tab
  BY DEF Typed, TypeOK, ConnTypes, TabTypes
<1> QED
  BY <1>1 DEF Receive, EpochShape, storeVars, roomVars

LEMMA RoomFields ==
  ASSUME Typed, EpochShape, NEW t \in Tabs, OnRoom(t)
  PROVE  LET s == tab[t]
             n == Head(down[t]).seq
             d == Settles(s, n)
             owes == s.pending # None /\ s.ack = 0 /\ ~s.sent
         IN /\ Receive(t, "ROOM") /\ n \in Nat /\ s.lastSeq <= n
            /\ tab'[t].epoch = s.epoch /\ tab'[t].net # "offline" /\ tab'[t].lastSeq = n
            /\ \A u \in Tabs \ {t} : tab'[u] = tab[u]
            /\ Settled(t, d) /\ (~d => tab'[t].sent = (s.sent \/ owes))
            /\ Told1(t, d)
            /\ \A u \in Users \ {User[t]} : resume'[u] = resume[u]
            /\ resume'[User[t]].lastSeq = n
            /\ \/ owes /\ Transmit(t, <<Commanding(s.pending)>>)
               \/ ~owes /\ Transmit(t, <<>>)
               \/ s.ack # 0 /\ \E r \in Seq(Up) : Asks(r) = {} /\ Transmit(t, r)
<1> PICK s, n : s = tab[t] /\ n = Head(down[t]).seq
  OBVIOUS
<1> DEFINE a == Advance(s, n)
           f == FinishAck(a)
           d == Settles(s, n)
           owes == s.pending # None /\ s.ack = 0 /\ ~s.sent
           r == IF f.ack # 0 THEN AskResync(f) ELSE f
           z == [r EXCEPT !.sent = @ \/ Owes(f)]
           asks == IF f.ack # 0 THEN ResyncRequest(f) ELSE <<>>
           sends == IF Owes(f) THEN <<Commanding(f.pending)>> ELSE <<>>
<1>1. Receive(t, "ROOM") /\ s \in Tab /\ n \in Nat /\ n >= s.lastSeq /\ s.lastSeq \in Nat
  BY ReceiveTyped, MessageFacts, TabPlaces DEF OnRoom, Receive, Tab
<1>2. /\ a \in Tab /\ a.pending = s.pending /\ a.ack = s.ack /\ a.sent = s.sent /\ a.lastSeq = n
  BY <1>1, AdvanceFields
<1>3. f \in Tab /\ Covered(a) = d
  BY <1>2, TabFacts, CoverFields DEF Settles
<1>4. /\ f.pending = (IF d THEN None ELSE s.pending) /\ f.ack = (IF d THEN 0 ELSE s.ack)
      /\ f.sent = (IF d THEN FALSE ELSE s.sent) /\ f.lastSeq = n
  BY <1>2, <1>3, CoverFields
<1>5. Owes(f) = (~d /\ owes)
  BY <1>4 DEF Owes
<1>6. /\ tab' = [tab EXCEPT ![t] = z] /\ Transmit(t, asks \o sends) /\ Persist(t, f)
      /\ TellIfCovered(t, a)
  BY DEF OnRoom
<1>7. /\ r \in Tab /\ r.pending = f.pending /\ r.ack = f.ack /\ r.sent = f.sent /\ r.lastSeq = n
      /\ r.epoch = s.epoch /\ r.net # "offline"
  <2>1. f.epoch = s.epoch /\ f.net = "connected"
    BY <1>1, <1>2, NetFacts
  <2> HIDE DEF f
  <2> QED
    BY <1>3, <1>4, <2>1, ResyncFields, NetFacts
<1>8. /\ z.pending = f.pending /\ z.ack = f.ack /\ z.sent = (f.sent \/ Owes(f)) /\ z.lastSeq = n
      /\ z.epoch = s.epoch /\ z.net # "offline"
  <2> HIDE DEF r, f
  <2> QED
    BY <1>7 DEF Tab
<1>9. tab'[t] = z /\ \A u \in Tabs \ {t} : tab'[u] = tab[u]
  <2> HIDE DEF z
  <2> QED
    BY <1>6 DEF Typed, TypeOK, TabTypes
<1>10. Told1(t, d)
  BY <1>3, <1>6 DEF TellIfCovered, Told1
<1>11. (\A u \in Users \ {User[t]} : resume'[u] = resume[u]) /\ resume'[User[t]].lastSeq = n
  <2> HIDE DEF f
  <2>1. /\ \A u \in Users \ {User[t]} : resume'[u] = resume[u]
        /\ resume'[User[t]] = [pending |-> f.pending, nextSeq |-> f.nextSeq, lastSeq |-> f.lastSeq]
    BY <1>6, PersistFields
  <2> QED
    BY <1>4, <2>1
<1>12. \/ owes /\ Transmit(t, <<Commanding(s.pending)>>)
       \/ ~owes /\ Transmit(t, <<>>)
       \/ s.ack # 0 /\ \E q \in Seq(Up) : Asks(q) = {} /\ Transmit(t, q)
  <2> HIDE DEF f
  <2>1. CASE owes
    <3>1. ~d /\ f.ack = 0 /\ f.pending = s.pending
      BY <1>4, <2>1 DEF Settles
    <3>2. asks = <<>> /\ sends = <<Commanding(s.pending)>>
      BY <1>5, <2>1, <3>1
    <3>3. \A m : <<m>> \in Seq({m}) /\ <<>> \o <<m>> = <<m>>
      <4>1. \A m : <<m>> \in Seq({m})
        OBVIOUS
      <4> QED
        BY <4>1, ConcatEmptySeq
    <3> HIDE DEF asks, sends
    <3>4. Transmit(t, <<>> \o <<Commanding(s.pending)>>)
      BY <1>6, <3>2
    <3>5. PICK q : q = <<Commanding(s.pending)>> /\ q = <<>> \o <<Commanding(s.pending)>>
      BY <3>3, Zenon
    <3>6. Transmit(t, q)
      BY <3>4, <3>5, Zenon
    <3>7. Transmit(t, <<Commanding(s.pending)>>)
      BY <3>5, <3>6, Zenon
    <3> QED
      BY <2>1, <3>7
  <2>2. CASE ~owes /\ f.ack = 0
    <3>1. asks = <<>> /\ sends = <<>>
      BY <1>5, <2>2
    <3>2. asks \o sends = <<>>
      BY <3>1, EmptySeq, ConcatEmptySeq
    <3> QED
      BY <1>6, <2>2, <3>2
  <2>3. CASE f.ack # 0
    <3>1. s.ack # 0 /\ ~Owes(f)
      BY <1>4, <2>3 DEF Owes
    <3>2. ResyncRequest(f) \in Seq(Up) /\ Asks(ResyncRequest(f)) = {}
      BY <1>3, ResyncFields
    <3>3. asks = ResyncRequest(f) /\ sends = <<>>
      BY <2>3, <3>1
    <3>4. asks \o sends = asks
      BY <3>2, <3>3, ConcatEmptySeq
    <3> QED
      BY <1>6, <3>1, <3>2, <3>3, <3>4
  <2> QED
    BY <2>1, <2>2, <2>3
<1>13. Settled(t, d) /\ (~d => tab'[t].sent = (s.sent \/ owes))
  <2> HIDE DEF z, f, r
  <2> QED
    BY <1>4, <1>5, <1>8, <1>9 DEF Settled
<1> HIDE DEF z, f, r, a, asks, sends
<1> QED
  BY <1>1, <1>8, <1>9, <1>10, <1>11, <1>12, <1>13

LEMMA EventsFields ==
  ASSUME Typed, EpochShape, NEW t \in Tabs, OnEvents(t)
  PROVE  LET s == tab[t]
             n == Head(down[t]).seq
         IN /\ Receive(t, "EVENTS") /\ n \in Nat
            /\ \E l \in Nat :
                 /\ l = s.lastSeq \/ (l = n /\ s.lastSeq <= n)
                 /\ tab'[t].epoch = s.epoch /\ tab'[t].net # "offline" /\ tab'[t].lastSeq = l
                 /\ \A u \in Tabs \ {t} : tab'[u] = tab[u]
                 /\ Settled(t, Settles(s, l)) /\ (~Settles(s, l) => tab'[t].sent = s.sent)
                 /\ Told1(t, Settles(s, l))
                 /\ \A u \in Users \ {User[t]} : resume'[u] = resume[u]
                 /\ resume'[User[t]].lastSeq = l
                 /\ up' = up
<1> PICK s, n : s = tab[t] /\ n = Head(down[t]).seq
  OBVIOUS
<1> DEFINE a == IF Usable(s, n) THEN Advance(s, n) ELSE s
           l == IF Usable(s, n) THEN n ELSE s.lastSeq
           d == Settles(s, l)
           f == FinishAck(a)
<1>1. /\ Receive(t, "EVENTS") /\ s \in Tab /\ n \in Nat /\ s.lastSeq \in Nat /\ s.net # "offline"
  BY ReceiveTyped, MessageFacts, TabPlaces, ReceiveFields DEF OnEvents, Receive, Tab
<1>2. /\ a \in Tab /\ a.pending = s.pending /\ a.ack = s.ack /\ a.sent = s.sent /\ a.lastSeq = l
      /\ a.epoch = s.epoch /\ a.net # "offline"
  <2>1. CASE Usable(s, n)
    <3>1. a = Advance(s, n) /\ l = n
      BY <2>1
    <3> HIDE DEF a, l
    <3> QED
      BY <1>1, <3>1, AdvanceFields, NetFacts
  <2>2. CASE ~Usable(s, n)
    <3>1. a = s /\ l = s.lastSeq
      BY <2>2
    <3> HIDE DEF a, l
    <3> QED
      BY <1>1, <3>1
  <2> QED
    BY <2>1, <2>2
<1>3. l \in Nat /\ (l = s.lastSeq \/ (l = n /\ s.lastSeq <= n))
  BY <1>1 DEF Usable
<1> HIDE DEF l
<1>4. f \in Tab /\ Covered(a) = d
  <2> HIDE DEF a
  <2> QED
    BY <1>2, TabFacts, CoverFields DEF Settles
<1>5. /\ f.pending = (IF d THEN None ELSE s.pending) /\ f.ack = (IF d THEN 0 ELSE s.ack)
      /\ f.sent = (IF d THEN FALSE ELSE s.sent) /\ f.lastSeq = l
      /\ f.epoch = s.epoch /\ f.net # "offline"
  <2> HIDE DEF a
  <2> QED
    BY <1>2, <1>4, CoverFields, NetFacts
<1>6. tab' = [tab EXCEPT ![t] = f] /\ Persist(t, f) /\ TellIfCovered(t, a) /\ up' = up
  BY DEF OnEvents
<1>7. tab'[t] = f /\ \A u \in Tabs \ {t} : tab'[u] = tab[u]
  <2> HIDE DEF f
  <2> QED
    BY <1>6 DEF Typed, TypeOK, TabTypes
<1>8. Told1(t, d)
  <2> HIDE DEF a
  <2> QED
    BY <1>4, <1>6 DEF TellIfCovered, Told1
<1>9. (\A u \in Users \ {User[t]} : resume'[u] = resume[u]) /\ resume'[User[t]].lastSeq = l
  <2> HIDE DEF f
  <2>1. /\ \A u \in Users \ {User[t]} : resume'[u] = resume[u]
        /\ resume'[User[t]] = [pending |-> f.pending, nextSeq |-> f.nextSeq, lastSeq |-> f.lastSeq]
    BY <1>6, PersistFields
  <2> QED
    BY <1>5, <2>1
<1>10. Settled(t, d) /\ (~d => tab'[t].sent = s.sent)
  <2> HIDE DEF f
  <2> QED
    BY <1>5, <1>7 DEF Settled
<1> HIDE DEF a, f
<1> QED
  BY <1>1, <1>3, <1>5, <1>6, <1>7, <1>8, <1>9, <1>10

LEMMA AckFields ==
  ASSUME Typed, EpochShape, NEW t \in Tabs, OnAck(t)
  PROVE  LET s == tab[t]
             n == Head(down[t]).seq
             d == n # 0 /\ s.lastSeq >= n
         IN /\ Receive(t, "ACK") /\ n \in Nat
            /\ s.pending \in Pending /\ Head(down[t]).cseq = s.pending.cseq
            /\ tab'[t].epoch = s.epoch /\ tab'[t].net # "offline" /\ tab'[t].lastSeq = s.lastSeq
            /\ tab'[t].pending = (IF d THEN None ELSE s.pending)
            /\ tab'[t].ack = (IF d THEN 0 ELSE n)
            /\ \A u \in Tabs \ {t} : tab'[u] = tab[u]
            /\ Told1(t, d)
            /\ \A u \in Users \ {User[t]} : resume'[u] = resume[u]
            /\ resume'[User[t]].lastSeq \in {resume[User[t]].lastSeq, s.lastSeq}
            /\ \E r \in Seq(Up) : Asks(r) = {} /\ Transmit(t, r)
<1> PICK s, n : s = tab[t] /\ n = Head(down[t]).seq
  OBVIOUS
<1> DEFINE a == [s EXCEPT !.ack = n]
           d == n # 0 /\ s.lastSeq >= n
           f == IF Covered(a) THEN Forget(a) ELSE AskResync(a)
<1>1. /\ Receive(t, "ACK") /\ AboutPending(t) /\ s \in Tab /\ n \in Nat /\ s.net # "offline"
      /\ s.pending \in Pending /\ Head(down[t]).cseq = s.pending.cseq
  <2>1. Receive(t, "ACK") /\ AboutPending(t)
    BY DEF OnAck
  <2> QED
    BY <2>1, ReceiveFields, MessageFacts DEF AboutPending, Tab
<1>2. /\ a \in Tab /\ a.pending = s.pending /\ a.ack = n /\ a.sent = s.sent
      /\ a.lastSeq = s.lastSeq /\ a.epoch = s.epoch /\ a.net = s.net
  BY <1>1 DEF Tab
<1> HIDE DEF a
<1>3. Covered(a) = d
  BY <1>2, CoverFields DEF Settles
<1>4. /\ Forget(a).pending = None /\ Forget(a).ack = 0 /\ Forget(a).lastSeq = s.lastSeq
      /\ Forget(a).epoch = s.epoch /\ Forget(a).net # "offline"
  BY <1>1, <1>2, NetFacts DEF Forget, Tab
<1>5. /\ AskResync(a).pending = s.pending /\ AskResync(a).ack = n /\ AskResync(a).lastSeq = s.lastSeq
      /\ AskResync(a).epoch = s.epoch /\ AskResync(a).net # "offline"
  BY <1>2, NetFacts, ResyncFields
<1>6. /\ tab' = [tab EXCEPT ![t] = f] /\ TellIfCovered(t, a)
      /\ IF Covered(a) THEN Persist(t, Forget(a)) /\ UNCHANGED up
                       ELSE Transmit(t, ResyncRequest(a)) /\ UNCHANGED resume
  BY DEF OnAck, a
<1>7. tab'[t] = f /\ \A u \in Tabs \ {t} : tab'[u] = tab[u]
  <2> HIDE DEF f
  <2> QED
    BY <1>6 DEF Typed, TypeOK, TabTypes
<1>8. /\ tab'[t].epoch = s.epoch /\ tab'[t].net # "offline" /\ tab'[t].lastSeq = s.lastSeq
      /\ tab'[t].pending = (IF d THEN None ELSE s.pending) /\ tab'[t].ack = (IF d THEN 0 ELSE n)
  BY <1>3, <1>4, <1>5, <1>7
<1>9. Told1(t, d)
  BY <1>3, <1>6 DEF TellIfCovered, Told1
<1>10. /\ \A u \in Users \ {User[t]} : resume'[u] = resume[u]
       /\ resume'[User[t]].lastSeq \in {resume[User[t]].lastSeq, s.lastSeq}
  <2>1. CASE Covered(a)
    <3>1. /\ \A u \in Users \ {User[t]} : resume'[u] = resume[u]
          /\ resume'[User[t]] = [pending |-> Forget(a).pending, nextSeq |-> Forget(a).nextSeq,
                                 lastSeq |-> Forget(a).lastSeq]
      BY <1>6, <2>1, PersistFields
    <3> QED
      BY <1>4, <3>1
  <2> QED
    BY <1>6, <2>1
<1>11. \E r \in Seq(Up) : Asks(r) = {} /\ Transmit(t, r)
  <2>1. CASE Covered(a)
    <3>1. up' = up
      BY <1>6, <2>1
    <3>2. Transmit(t, <<>>)
      <4>1. up \in [Conns -> Seq(Up)] /\ Conn(t) \in Conns
        BY TabPlaces DEF Typed, TypeOK, ConnTypes
      <4>2. up[Conn(t)] \o <<>> = up[Conn(t)]
        BY <4>1, ConcatEmptySeq
      <4>3. [up EXCEPT ![Conn(t)] = up[Conn(t)] \o <<>>] = up
        BY <4>1, <4>2
      <4> QED
        BY <3>1, <4>3 DEF Transmit
    <3> QED
      BY <3>2, NoAsks, EmptySeq
  <2>2. CASE ~Covered(a)
    BY <1>2, <1>6, <2>2, ResyncFields
  <2> QED
    BY <2>1, <2>2
<1> HIDE DEF f
<1> QED
  BY <1>1, <1>7, <1>8, <1>9, <1>10, <1>11

LEMMA RejectedFields ==
  ASSUME Typed, EpochShape, NEW t \in Tabs, OnRejected(t)
  PROVE  LET s == tab[t]
         IN /\ Receive(t, "REJECTED") /\ Head(down[t]).code \in Codes
            /\ s.pending \in Pending /\ Head(down[t]).cseq = s.pending.cseq
            /\ tab'[t].epoch = s.epoch /\ tab'[t].net # "offline" /\ tab'[t].lastSeq = s.lastSeq
            /\ tab'[t].pending = None /\ tab'[t].ack = 0
            /\ \A u \in Tabs \ {t} : tab'[u] = tab[u]
            /\ Tell(t, Head(down[t]).code)
            /\ \A u \in Users \ {User[t]} : resume'[u] = resume[u]
            /\ resume'[User[t]].lastSeq = s.lastSeq
            /\ \E r \in Seq(Up) : Asks(r) = {} /\ Transmit(t, r)
<1> PICK s : s = tab[t]
  OBVIOUS
<1> DEFINE f == Forget(s)
<1>1. /\ Receive(t, "REJECTED") /\ s \in Tab /\ Head(down[t]).code \in Codes
      /\ s.pending \in Pending /\ Head(down[t]).cseq = s.pending.cseq
  <2>1. Receive(t, "REJECTED") /\ AboutPending(t)
    BY DEF OnRejected
  <2> QED
    BY <2>1, ReceiveFields, MessageFacts DEF AboutPending, Tab
<1>2. f \in Tab /\ f.pending = None /\ f.ack = 0 /\ f.lastSeq = s.lastSeq /\ f.epoch = s.epoch
  BY <1>1, TabFacts, NetFacts DEF Forget, Tab
<1>3. /\ tab' = [tab EXCEPT ![t] = AskResync(f)] /\ Persist(t, f)
      /\ Transmit(t, ResyncRequest(s)) /\ Tell(t, Head(down[t]).code)
  BY DEF OnRejected
<1> HIDE DEF f
<1>4. tab'[t] = AskResync(f) /\ \A u \in Tabs \ {t} : tab'[u] = tab[u]
  BY <1>3 DEF Typed, TypeOK, TabTypes
<1>5. /\ tab'[t].epoch = s.epoch /\ tab'[t].net # "offline" /\ tab'[t].lastSeq = s.lastSeq
      /\ tab'[t].pending = None /\ tab'[t].ack = 0
  BY <1>2, <1>4, NetFacts, ResyncFields
<1>6. (\A u \in Users \ {User[t]} : resume'[u] = resume[u]) /\ resume'[User[t]].lastSeq = s.lastSeq
  <2>1. /\ \A u \in Users \ {User[t]} : resume'[u] = resume[u]
        /\ resume'[User[t]] = [pending |-> f.pending, nextSeq |-> f.nextSeq, lastSeq |-> f.lastSeq]
    BY <1>3, PersistFields
  <2> QED
    BY <1>2, <2>1
<1>7. \E r \in Seq(Up) : Asks(r) = {} /\ Transmit(t, r)
  BY <1>1, <1>3, ResyncFields
<1> QED
  BY <1>1, <1>3, <1>4, <1>5, <1>6, <1>7

-----------------------------------------------------------------------------
\* The steps in which a tab takes a message keep the invariant.
LEMMA TellConfirmed ==
  ASSUME Typed, results' = results, NEW t \in Tabs, ToldStored(t), NEW d \in BOOLEAN, Told1(t, d),
         d => /\ tab[t].pending \in Pending
              /\ LET r == Stored(t, tab[t].pending.cseq)
                 IN r # None /\ r.ok /\ r.cmd = tab[t].pending.cmd
  PROVE  ToldStored(t)' /\ \A u \in Tabs \ {t} : told'[u] = told[u]
<1>1. CASE d
  <2>1. PICK p \in Pending : p = tab[t].pending
    BY <1>1
  <2>2. LET r == Stored(t, p.cseq) IN r # None /\ r.ok /\ r.cmd = p.cmd
    BY <1>1, <2>1
  <2>3. Tell(t, "confirmed")
    BY <1>1 DEF Told1
  <2>4. "confirmed" \in FinalCodes \cup {"confirmed"} /\ "confirmed" = "confirmed"
    OBVIOUS
  <2> QED
    BY <2>1, <2>2, <2>3, <2>4, TellStored
<1>2. CASE ~d
  <2>1. told' = told
    BY <1>2 DEF Told1
  <2>2. StoreKept
    BY DEF StoreKept
  <2> QED
    BY <2>1, <2>2, ToldStays
<1> QED
  BY <1>1, <1>2

\* Whether the pending command is settled or not, what is acknowledged is stored.
LEMMA SettleAcked ==
  ASSUME Typed, results' = results, NEW t \in Tabs, Acked(t), NEW d \in BOOLEAN, Settled(t, d)
  PROVE  Acked(t)'
<1>1. CASE d
  BY <1>1 DEF Settled, Acked
<1>2. CASE ~d
  BY <1>2, AckedStays DEF Settled, StoreKept
<1> QED
  BY <1>1, <1>2

LEMMA SettleTold ==
  ASSUME Typed, results' = results, NEW t \in Tabs, Acked(t), ToldStored(t), NEW n \in Nat,
         Told1(t, Settles(tab[t], n))
  PROVE  ToldStored(t)' /\ \A u \in Tabs \ {t} : told'[u] = told[u]
<1> PICK d \in BOOLEAN : d = Settles(tab[t], n)
  BY DEF Settles
<1>1. d => tab[t].ack # 0 /\ tab[t].pending \in Pending
  BY DEF Settles, Typed, AckShape
<1> QED
  BY <1>1, TellConfirmed DEF Acked

\* What the tab shows and what comes after it stay in order.
LEMMA SeenOn ==
  ASSUME Typed, memLog' = memLog, NEW t \in Tabs, Seen(t), NEW l \in Nat,
         tab'[t].lastSeq = l, resume'[User[t]].lastSeq <= Len(memLog),
         down[t] # <<>>, down'[t] = Tail(down[t]),
         l = tab[t].lastSeq \/ (Head(down[t]).type \in {"ROOM", "EVENTS"} /\ l = Head(down[t]).seq)
  PROVE  Seen(t)'
<1> PICK q, r : q = down[t] /\ r = Tail(q)
  OBVIOUS
<1>1. /\ q \in Seq(Down) /\ q # <<>> /\ tab[t].lastSeq \in Nat /\ Len(memLog) \in Nat
      /\ tab[t].lastSeq <= Len(memLog) /\ InOrder(q, tab[t].lastSeq, Len(memLog))
  BY TabPlaces, Lengths DEF Tab, Seen
<1>2. InOrder(r, l, Len(memLog)) /\ l <= Len(memLog)
  BY <1>1, OrderTail
<1>3. down'[t] = r
  OBVIOUS
<1> QED
  BY <1>2, <1>3 DEF Seen, InOrder

\* A tab that waits for nothing takes a message that is no answer.
LEMMA NoticeNothing ==
  ASSUME Typed, NEW t \in Tabs, Sole(t), About(t), ~Waiting(tab[t]),
         down[t] # <<>>, down'[t] = Tail(down[t])
  PROVE  Asks(up[Conn(t)]) = {} /\ ~Working(Conn(t)) /\ Answers(down'[t]) = {}
<1>1. NoFlight(t)
  BY NothingAsked
<1>2. \A i \in Answers(down'[t]) : i + 1 \in Answers(down[t])
  BY TabPlaces, RestAnswers
<1> QED
  BY <1>1, <1>2 DEF NoFlight

LEMMA TransmitQuiet ==
  ASSUME Typed, NEW t \in Tabs, NEW r \in Seq(Up), Asks(r) = {}, Transmit(t, r) PROVE QuietUp(t)
BY TransmitOn DEF QuietUp

LEMMA TransmitNothing ==
  ASSUME Typed, NEW t \in Tabs, Transmit(t, <<>>) PROVE up'[Conn(t)] = up[Conn(t)]
<1>1. up[Conn(t)] \o <<>> = up[Conn(t)]
  BY TabPlaces, ConcatEmptySeq
<1> QED
  BY <1>1, TransmitOn

LEMMA OnEventsInv ==
  ASSUME Typed, EpochShape, TabInv, NEW t \in Tabs, OnEvents(t) PROVE TabInv'
<1>1. PICK l \in Nat :
        LET s == tab[t]
            n == Head(down[t]).seq
        IN /\ Receive(t, "EVENTS") /\ n \in Nat
           /\ l = s.lastSeq \/ (l = n /\ s.lastSeq <= n)
           /\ tab'[t].epoch = s.epoch /\ tab'[t].net # "offline" /\ tab'[t].lastSeq = l
           /\ \A u \in Tabs \ {t} : tab'[u] = tab[u]
           /\ Settled(t, Settles(s, l)) /\ (~Settles(s, l) => tab'[t].sent = s.sent)
           /\ Told1(t, Settles(s, l))
           /\ \A u \in Users \ {User[t]} : resume'[u] = resume[u]
           /\ resume'[User[t]].lastSeq = l
           /\ up' = up
  BY EventsFields
<1> PICK d \in BOOLEAN : d = Settles(tab[t], l)
  BY DEF Settles
<1>2. /\ down[t] # <<>> /\ down'[t] = Tail(down[t]) /\ Head(down[t]).type = "EVENTS"
      /\ \A u \in Tabs \ {t} : down'[u] = down[u]
      /\ UNCHANGED <<results, memLog, job, joined>>
  BY <1>1, ReceiveFields
<1>3. TabTrue(t)
  BY DEF TabInv
<1>4. Acked(t)' /\ ToldStored(t)' /\ \A u \in Tabs \ {t} : told'[u] = told[u]
  BY <1>1, <1>2, <1>3, SettleAcked, SettleTold DEF TabTrue
<1>5. Seen(t)'
  <2>1. l <= Len(memLog)
    <3>1. InOrder(down[t], tab[t].lastSeq, Len(memLog)) /\ tab[t].lastSeq <= Len(memLog)
      BY <1>3 DEF TabTrue, Seen
    <3>2. Head(down[t]).seq <= Len(memLog)
      BY <1>2, <3>1, TabPlaces, Lengths, OrderTail DEF Tab
    <3> QED
      BY <1>1, <3>1, <3>2
  <2> QED
    BY <1>1, <1>2, <1>3, <2>1, SeenOn DEF TabTrue
<1>6. Sole(t)' /\ About(t)'
  <2>1. CASE Waiting(tab[t])
    <3>1. ~Settles(tab[t], l)
      BY <2>1 DEF Waiting, Settles
    <3>2. /\ tab'[t].pending = tab[t].pending /\ tab'[t].ack = tab[t].ack
          /\ tab'[t].sent = tab[t].sent
      BY <1>1, <3>1 DEF Settled
    <3> QED
      BY <1>1, <1>2, <1>3, <3>2, NoticeFlight DEF TabTrue
  <2>2. CASE ~Waiting(tab[t])
    <3>1. Asks(up[Conn(t)]) = {} /\ ~Working(Conn(t)) /\ Answers(down'[t]) = {}
      BY <1>2, <1>3, <2>2, NoticeNothing DEF TabTrue
    <3> QED
      BY <1>1, <1>2, <3>1, StillNothing DEF QuietUp
  <2> QED
    BY <2>1, <2>2
<1>7. OnlyTab(t)
  BY <1>1, <1>2, <1>4 DEF OnlyTab
<1> QED
  BY <1>4, <1>5, <1>6, <1>7, OnlyTabInv DEF TabTrue

LEMMA OnRoomInv ==
  ASSUME Typed, Typed', EpochShape, TabInv, NEW t \in Tabs, OnRoom(t) PROVE TabInv'
<1> PICK s, n : s = tab[t] /\ n = Head(down[t]).seq
  OBVIOUS
<1> PICK d \in BOOLEAN : d = Settles(s, n)
  BY DEF Settles
<1> PICK owes \in BOOLEAN : owes = (s.pending # None /\ s.ack = 0 /\ ~s.sent)
  OBVIOUS
<1>1. /\ Receive(t, "ROOM") /\ n \in Nat
      /\ tab'[t].epoch = s.epoch /\ tab'[t].net # "offline" /\ tab'[t].lastSeq = n
      /\ \A u \in Tabs \ {t} : tab'[u] = tab[u]
      /\ Settled(t, d) /\ (~d => tab'[t].sent = (s.sent \/ owes))
      /\ Told1(t, Settles(tab[t], n))
      /\ \A u \in Users \ {User[t]} : resume'[u] = resume[u]
      /\ resume'[User[t]].lastSeq = n
      /\ \/ owes /\ Transmit(t, <<Commanding(s.pending)>>)
         \/ ~owes /\ Transmit(t, <<>>)
         \/ s.ack # 0 /\ \E r \in Seq(Up) : Asks(r) = {} /\ Transmit(t, r)
  BY RoomFields
<1>2. /\ down[t] # <<>> /\ down'[t] = Tail(down[t]) /\ Head(down[t]).type = "ROOM"
      /\ \A u \in Tabs \ {t} : down'[u] = down[u]
      /\ UNCHANGED <<results, memLog, job, joined>>
      /\ s \in Tab
  BY <1>1, ReceiveFields
<1>3. TabTrue(t)
  BY DEF TabInv
<1>4. Acked(t)' /\ ToldStored(t)' /\ \A u \in Tabs \ {t} : told'[u] = told[u]
  BY <1>1, <1>2, <1>3, SettleAcked, SettleTold DEF TabTrue
<1>5. Seen(t)'
  <2>1. n <= Len(memLog)
    <3>1. InOrder(down[t], tab[t].lastSeq, Len(memLog)) /\ tab[t].lastSeq <= Len(memLog)
      BY <1>3 DEF TabTrue, Seen
    <3> QED
      BY <1>2, <3>1, TabPlaces, Lengths, OrderTail DEF Tab
  <2> QED
    BY <1>1, <1>2, <1>3, <2>1, SeenOn DEF TabTrue
<1>6. Sole(t)' /\ About(t)'
  <2>1. CASE Waiting(tab[t])
    <3>1. ~d /\ ~owes /\ s.ack = 0
      BY <2>1 DEF Waiting, Settles
    <3>2. /\ tab'[t].pending = tab[t].pending /\ tab'[t].ack = tab[t].ack
          /\ tab'[t].sent = tab[t].sent
      BY <1>1, <1>2, <2>1, <3>1 DEF Settled, Waiting, Tab
    <3>3. up'[Conn(t)] = up[Conn(t)]
      BY <1>1, <3>1, TransmitNothing
    <3> QED
      BY <1>1, <1>2, <1>3, <3>2, <3>3, NoticeFlight DEF TabTrue
  <2>2. CASE ~Waiting(tab[t])
    <3>1. Asks(up[Conn(t)]) = {} /\ ~Working(Conn(t)) /\ Answers(down'[t]) = {}
      BY <1>2, <1>3, <2>2, NoticeNothing DEF TabTrue
    <3>2. CASE owes /\ Transmit(t, <<Commanding(s.pending)>>)
      <4>1. PICK p \in Pending : p = s.pending
        BY <1>2, <3>2 DEF Tab
      <4>2. ~d /\ s.ack = 0
        BY <3>2 DEF Settles
      <4>3. tab'[t].pending = p /\ tab'[t].ack = 0 /\ tab'[t].sent = TRUE
        <5>1. tab'[t].sent = (s.sent \/ owes)
          BY <1>1, <4>2
        <5> QED
          BY <1>1, <3>2, <4>1, <4>2, <5>1 DEF Settled
      <4>4. Transmit(t, <<Commanding(p)>>)
        BY <3>2, <4>1
      <4>5. up'[Conn(t)] = up[Conn(t)] \/ up'[Conn(t)] = up[Conn(t)] \o <<Commanding(p)>>
        BY <4>4, TransmitOn
      <4> QED
        BY <1>1, <1>2, <3>1, <4>3, <4>5, OneAsked
    <3>3. CASE Transmit(t, <<>>) \/ \E r \in Seq(Up) : Asks(r) = {} /\ Transmit(t, r)
      <4>1. QuietUp(t)
        BY <3>3, TransmitQuiet, TransmitNothing DEF QuietUp
      <4> QED
        BY <1>1, <1>2, <3>1, <4>1, StillNothing
    <3> QED
      BY <1>1, <3>2, <3>3
  <2> QED
    BY <2>1, <2>2
<1>7. \A c \in Conns \ {Conn(t)} : up'[c] = up[c]
  BY <1>1, TransmitOn
<1>8. OnlyTab(t)
  BY <1>1, <1>2, <1>4, <1>7 DEF OnlyTab
<1> QED
  BY <1>4, <1>5, <1>6, <1>8, OnlyTabInv DEF TabTrue

\* An answer is the only one, and it tells what is stored.
LEMMA TheAnswer ==
  ASSUME Typed, NEW t \in Tabs, TabTrue(t), down[t] # <<>>, down'[t] = Tail(down[t]),
         Head(down[t]).type \in {"ACK", "REJECTED"}
  PROVE  /\ Asks(up[Conn(t)]) = {} /\ ~Working(Conn(t)) /\ Answers(down'[t]) = {}
         /\ Waiting(tab[t]) /\ Tells(t, tab[t].pending, Head(down[t]))
<1> PICK q, h : q = down[t] /\ h = Head(q)
  OBVIOUS
<1>1. q \in Seq(Down) /\ 1 \in Answers(q) /\ q[1] = h
  BY TabPlaces, TailAnswers
<1>2. (\A i, j \in Answers(q) : i = j) /\ Asks(up[Conn(t)]) = {} /\ ~Working(Conn(t))
  BY <1>1 DEF TabTrue, Sole
<1>3. Answers(Tail(q)) = {}
  BY <1>1, <1>2, TailAnswers
<1>4. Fits(t, q[1])
  BY <1>1 DEF TabTrue, About
<1>5. Fits(t, h)
  BY <1>1, <1>4
<1> QED
  BY <1>2, <1>3, <1>5 DEF Fits

LEMMA OnAckInv == ASSUME Typed, EpochShape, TabInv, NEW t \in Tabs, OnAck(t) PROVE TabInv'
<1> PICK s, n : s = tab[t] /\ n = Head(down[t]).seq
  OBVIOUS
<1> PICK d \in BOOLEAN : d = (n # 0 /\ s.lastSeq >= n)
  OBVIOUS
<1>1. /\ Receive(t, "ACK") /\ n \in Nat /\ s.pending \in Pending
      /\ tab'[t].epoch = s.epoch /\ tab'[t].net # "offline" /\ tab'[t].lastSeq = s.lastSeq
      /\ tab'[t].pending = (IF d THEN None ELSE s.pending)
      /\ tab'[t].ack = (IF d THEN 0 ELSE n)
      /\ \A u \in Tabs \ {t} : tab'[u] = tab[u]
      /\ Told1(t, d)
      /\ \A u \in Users \ {User[t]} : resume'[u] = resume[u]
      /\ resume'[User[t]].lastSeq \in {resume[User[t]].lastSeq, s.lastSeq}
      /\ \E r \in Seq(Up) : Asks(r) = {} /\ Transmit(t, r)
  BY AckFields
<1>2. /\ down[t] # <<>> /\ down'[t] = Tail(down[t]) /\ Head(down[t]).type = "ACK"
      /\ \A u \in Tabs \ {t} : down'[u] = down[u]
      /\ UNCHANGED <<results, memLog, job, joined>>
      /\ s \in Tab
  BY <1>1, ReceiveFields
<1>3. TabTrue(t)
  BY DEF TabInv
<1>4. /\ Asks(up[Conn(t)]) = {} /\ ~Working(Conn(t)) /\ Answers(down'[t]) = {}
      /\ Tells(t, s.pending, Head(down[t]))
  BY <1>2, <1>3, TheAnswer
<1>5. LET r == Stored(t, s.pending.cseq) IN r # None /\ r.ok /\ r.seq = n /\ r.cmd = s.pending.cmd
  BY <1>2, <1>4 DEF Tells
<1>6. Acked(t)'
  <2>1. CASE d
    BY <1>1, <2>1 DEF Acked
  <2>2. CASE ~d
    <3>1. tab'[t].pending = s.pending /\ tab'[t].ack = n
      BY <1>1, <2>2
    <3> QED
      BY <1>2, <1>5, <3>1 DEF Acked, Stored
  <2> QED
    BY <2>1, <2>2
<1>7. ToldStored(t)' /\ \A u \in Tabs \ {t} : told'[u] = told[u]
  BY <1>1, <1>2, <1>3, <1>5, TellConfirmed DEF TabTrue
<1>8. Seen(t)'
  <2>1. s.lastSeq <= Len(memLog) /\ resume[User[t]].lastSeq <= Len(memLog) /\ s.lastSeq \in Nat
    BY <1>2, <1>3 DEF TabTrue, Seen, Tab
  <2> QED
    BY <1>1, <1>2, <1>3, <2>1, SeenOn DEF TabTrue
<1>9. Sole(t)' /\ About(t)'
  <2>1. QuietUp(t)
    BY <1>1, TransmitQuiet
  <2> QED
    BY <1>1, <1>2, <1>4, <2>1, StillNothing
<1>10. OnlyTab(t)
  <2>1. \A c \in Conns \ {Conn(t)} : up'[c] = up[c]
    BY <1>1, TransmitOn
  <2> QED
    BY <1>1, <1>2, <1>7, <2>1 DEF OnlyTab
<1> QED
  BY <1>6, <1>7, <1>8, <1>9, <1>10, OnlyTabInv DEF TabTrue

LEMMA OnRejectedInv ==
  ASSUME Typed, EpochShape, TabInv, NEW t \in Tabs, OnRejected(t) PROVE TabInv'
<1> PICK s, code : s = tab[t] /\ code = Head(down[t]).code
  OBVIOUS
<1>1. /\ Receive(t, "REJECTED") /\ code \in Codes /\ s.pending \in Pending
      /\ tab'[t].epoch = s.epoch /\ tab'[t].net # "offline" /\ tab'[t].lastSeq = s.lastSeq
      /\ tab'[t].pending = None /\ tab'[t].ack = 0
      /\ \A u \in Tabs \ {t} : tab'[u] = tab[u]
      /\ Tell(t, code)
      /\ \A u \in Users \ {User[t]} : resume'[u] = resume[u]
      /\ resume'[User[t]].lastSeq = s.lastSeq
      /\ \E r \in Seq(Up) : Asks(r) = {} /\ Transmit(t, r)
  BY RejectedFields
<1>2. /\ down[t] # <<>> /\ down'[t] = Tail(down[t]) /\ Head(down[t]).type = "REJECTED"
      /\ \A u \in Tabs \ {t} : down'[u] = down[u]
      /\ UNCHANGED <<results, memLog, job, joined>>
      /\ s \in Tab
  BY <1>1, ReceiveFields
<1>3. TabTrue(t)
  BY DEF TabInv
<1>4. /\ Asks(up[Conn(t)]) = {} /\ ~Working(Conn(t)) /\ Answers(down'[t]) = {}
      /\ Tells(t, s.pending, Head(down[t]))
  BY <1>2, <1>3, TheAnswer
<1>5. ToldStored(t)' /\ \A u \in Tabs \ {t} : told'[u] = told[u]
  <2>1. PICK p \in Pending : p = s.pending
    BY <1>1
  <2>2. code \in FinalCodes =>
          LET r == Stored(t, p.cseq) IN r # None /\ ~r.ok /\ r.cmd = p.cmd
    BY <1>2, <1>4, <2>1 DEF Tells
  <2>3. code # "confirmed"
    BY <1>1 DEF Codes, FinalCodes
  <2>4. code \in FinalCodes \cup {"confirmed"} =>
          LET r == Stored(t, p.cseq)
          IN r # None /\ r.cmd = p.cmd /\ (r.ok <=> code = "confirmed")
    BY <2>2, <2>3
  <2> QED
    BY <1>1, <1>2, <1>3, <2>1, <2>4, TellStored DEF TabTrue
<1>6. Seen(t)'
  <2>1. s.lastSeq <= Len(memLog) /\ s.lastSeq \in Nat
    BY <1>2, <1>3 DEF TabTrue, Seen, Tab
  <2> QED
    BY <1>1, <1>2, <1>3, <2>1, SeenOn DEF TabTrue
<1>7. Acked(t)'
  BY <1>1 DEF Acked
<1>8. Sole(t)' /\ About(t)'
  <2>1. QuietUp(t)
    BY <1>1, TransmitQuiet
  <2> QED
    BY <1>1, <1>2, <1>4, <2>1, StillNothing
<1>9. OnlyTab(t)
  <2>1. \A c \in Conns \ {Conn(t)} : up'[c] = up[c]
    BY <1>1, TransmitOn
  <2> QED
    BY <1>1, <1>2, <1>5, <2>1 DEF OnlyTab
<1> QED
  BY <1>5, <1>6, <1>7, <1>8, <1>9, OnlyTabInv DEF TabTrue

\* A new command is sent by a tab that waits for nothing.
LEMMA SendFields ==
  ASSUME Typed, NEW t \in Tabs, NEW cmd \in Commands, SendCommand(t, cmd)
  PROVE  /\ tab[t] \in Tab /\ tab[t].net = "connected" /\ tab[t].pending = None
         /\ \E p \in Pending :
              /\ tab'[t].pending = p /\ tab'[t].ack = 0 /\ tab'[t].sent = TRUE
              /\ tab'[t].epoch = tab[t].epoch /\ tab'[t].net = "connected"
              /\ tab'[t].lastSeq = tab[t].lastSeq
              /\ \A u \in Tabs \ {t} : tab'[u] = tab[u]
              /\ Transmit(t, <<Commanding(p)>>)
         /\ \A u \in Users \ {User[t]} : resume'[u] = resume[u]
         /\ resume'[User[t]].lastSeq = tab[t].lastSeq
<1> DEFINE p == [cseq |-> tab[t].nextSeq, at |-> tab[t].lastSeq, cmd |-> cmd]
           s == [tab[t] EXCEPT !.pending = p, !.nextSeq = @ + 1, !.ack = 0, !.sent = TRUE]
<1>1. tab[t] \in Tab /\ tab[t].nextSeq \in ClientSeqs /\ tab[t].lastSeq \in Nat
  BY TabPlaces DEF SendCommand, Tab
<1>2. p \in Pending
  BY <1>1 DEF Pending
<1>3. /\ tab' = [tab EXCEPT ![t] = s] /\ Persist(t, s) /\ Transmit(t, <<Commanding(p)>>)
      /\ tab[t].net = "connected" /\ tab[t].pending = None
  BY DEF SendCommand
<1> HIDE DEF p
<1>4. /\ s.pending = p /\ s.ack = 0 /\ s.sent = TRUE /\ s.epoch = tab[t].epoch
      /\ s.net = tab[t].net /\ s.lastSeq = tab[t].lastSeq
  BY <1>1 DEF Tab
<1> HIDE DEF s
<1>5. tab'[t] = s /\ \A u \in Tabs \ {t} : tab'[u] = tab[u]
  BY <1>3 DEF Typed, TypeOK, TabTypes
<1>6. /\ \A u \in Users \ {User[t]} : resume'[u] = resume[u]
      /\ resume'[User[t]] = [pending |-> s.pending, nextSeq |-> s.nextSeq, lastSeq |-> s.lastSeq]
  BY <1>3, PersistFields
<1>7. resume'[User[t]].lastSeq = tab[t].lastSeq
  BY <1>4, <1>6
<1> QED
  BY <1>1, <1>2, <1>3, <1>4, <1>5, <1>6, <1>7

LEMMA SendInv ==
  ASSUME Typed, TabInv, NEW t \in Tabs, NEW cmd \in Commands, SendCommand(t, cmd) PROVE TabInv'
<1>1. PICK p \in Pending :
        /\ tab'[t].pending = p /\ tab'[t].ack = 0 /\ tab'[t].sent = TRUE
        /\ tab'[t].epoch = tab[t].epoch /\ tab'[t].net = "connected"
        /\ tab'[t].lastSeq = tab[t].lastSeq
        /\ \A u \in Tabs \ {t} : tab'[u] = tab[u]
        /\ Transmit(t, <<Commanding(p)>>)
  BY SendFields
<1>2. /\ tab[t].pending = None /\ resume'[User[t]].lastSeq = tab[t].lastSeq
      /\ \A u \in Users \ {User[t]} : resume'[u] = resume[u]
  BY SendFields
<1>3. UNCHANGED <<results, memLog, job, joined, down, told>>
  BY DEF SendCommand, storeVars, roomVars
<1>4. TabTrue(t)
  BY DEF TabInv
<1>5. NoFlight(t)
  BY <1>2, <1>4, NothingAsked DEF TabTrue, Waiting
<1>6. Sole(t)' /\ About(t)'
  <2>1. up'[Conn(t)] = up[Conn(t)] \/ up'[Conn(t)] = up[Conn(t)] \o <<Commanding(p)>>
    BY <1>1, TransmitOn
  <2>2. Answers(down'[t]) = {}
    BY <1>3, <1>5 DEF NoFlight
  <2> QED
    BY <1>1, <1>3, <1>5, <2>1, <2>2, OneAsked DEF NoFlight
<1>7. Seen(t)'
  BY <1>1, <1>2, <1>3, <1>4 DEF TabTrue, Seen, InOrder
<1>8. Acked(t)' /\ ToldStored(t)'
  BY <1>1, <1>3, <1>4, ToldStays DEF TabTrue, Acked, StoreKept
<1>9. OnlyTab(t)
  <2>1. \A c \in Conns \ {Conn(t)} : up'[c] = up[c]
    BY <1>1, TransmitOn
  <2> QED
    BY <1>1, <1>2, <1>3, <2>1 DEF OnlyTab
<1> QED
  BY <1>6, <1>7, <1>8, <1>9, OnlyTabInv DEF TabTrue

-----------------------------------------------------------------------------
LEMMA InitTab == Init => TabInv
<1> SUFFICES ASSUME Init PROVE TabInv
  OBVIOUS
<1>1. FreshConns
  BY ConnFacts DEF Init, FreshConns, Conns, IdleJob
<1>2. ReplyReady
  BY DEF Init, ReplyReady, IdleJob
<1>3. ASSUME NEW t \in Tabs PROVE TabTrue(t)
  <2>1. /\ tab[t].epoch = 1 /\ tab[t].lastSeq = 0 /\ tab[t].ack = 0 /\ User[t] \in Users
        /\ resume[User[t]].lastSeq = 0 /\ down[t] = <<>> /\ memLog = <<>>
        /\ \A n \in ClientSeqs : told[t][n] = None
    BY ConnFacts DEF Init, FreshTab
  <2>2. Conn(t) \in Conns
    BY <2>1, BudgetAssumption DEF Conn, Conns, Epochs, Budget
  <2>3. up[Conn(t)] = <<>> /\ job[Conn(t)].step = "idle"
    BY <2>2, ConnFacts DEF Init, IdleJob
  <2>4. Sole(t) /\ About(t)
    BY <2>1, <2>3, NoAsks DEF Sole, About, Working, Requests
  <2>5. Seen(t)
    BY <2>1, NoAsks DEF Seen, InOrder
  <2>6. Acked(t) /\ ToldStored(t)
    BY <2>1 DEF Acked, ToldStored
  <2> QED
    BY <2>4, <2>5, <2>6 DEF TabTrue
<1> QED
  BY <1>1, <1>2, <1>3 DEF TabInv

LEMMA StillTab == ASSUME Typed, TabInv, UNCHANGED vars PROVE TabInv'
<1>1. UNCHANGED <<log, results, memLog, job, joined, alive, up, down, tab, resume, told>>
  BY DEF vars, storeVars, roomVars, connVars, tabVars
<1>2. FreshConns' /\ ReplyReady'
  BY <1>1 DEF TabInv, FreshConns, Unused, ReplyReady, Key
<1>3. ASSUME NEW t \in Tabs PROVE TabTrue(t)'
  <2>1. Seen(t) /\ TabTrue(t)
    BY DEF TabInv, TabTrue
  <2>2. resume'[User[t]].lastSeq <= Len(memLog)
    BY <1>1, <2>1 DEF Seen
  <2> QED
    BY <1>1, <2>1, <2>2, OtherTab
<1> QED
  BY <1>2, <1>3 DEF TabInv

LEMMA NextTab ==
  Typed /\ Typed' /\ EpochShape /\ LogInv /\ TabInv /\ [Next]_vars => TabInv'
<1> SUFFICES ASSUME Typed, Typed', EpochShape, LogInv, TabInv, [Next]_vars PROVE TabInv'
  OBVIOUS
<1>1. ASSUME NEW t \in Tabs, TabStep(t) PROVE TabInv'
  BY <1>1, ConnectInv, HangUpsInv, OnRoomInv, OnEventsInv, OnAckInv, OnRejectedInv DEF TabStep
<1>2. ASSUME NEW t \in Tabs, NEW cmd \in Commands, SendCommand(t, cmd) PROVE TabInv'
  BY <1>2, SendInv
<1>3. CASE ServerStep
  BY <1>3, ServerInv
<1>4. CASE Fault
  BY <1>4, HangUpsInv, ServerInv DEF Fault, ServerStep
<1>5. CASE UNCHANGED vars
  BY <1>5, StillTab
<1> QED
  BY <1>1, <1>2, <1>3, <1>4, <1>5 DEF Next, ServerStep

LEMMA AlwaysEpochs == Spec => [](Typed /\ EpochShape)
<1>1. Init => Typed /\ EpochShape
  BY InitTyped, InitEpochs
<1> QED
  BY <1>1, NextTyped, PTL DEF Spec

LEMMA AlwaysTabs == Spec => []TabInv
<1> QED
  BY InitTab, NextTab, AlwaysEpochs, AlwaysLog, PTL DEF Spec

-----------------------------------------------------------------------------
\* Whatever was lost, repeated or answered late, a player told that a command
\* was confirmed or refused for good was told what became of it: confirmed
\* commands are in command_results for good, refused ones never in match_events.
THEOREM PlayersToldTheTruth == Spec => []VerdictsKept
<1>1. Typed /\ LogInv /\ TabInv => VerdictsKept
  <2> SUFFICES ASSUME Typed, LogInv, TabInv, NEW t \in Tabs, NEW n \in ClientSeqs,
                      told[t][n] # None, told[t][n].code \in FinalCodes \cup {"confirmed"}
               PROVE  LET r == results[<<User[t], n>>]
                      IN /\ r # None /\ r.cmd = told[t][n].cmd
                         /\ told[t][n].code = "confirmed" => r.ok
                         /\ told[t][n].code \in FinalCodes =>
                              \A i \in 1 .. Len(log) : log[i].key # <<User[t], n>>
    BY DEF VerdictsKept, ConfirmedIsDurable, RejectedNeverExecutes
  <2>1. LET r == Stored(t, n)
        IN r # None /\ r.cmd = told[t][n].cmd /\ (r.ok <=> told[t][n].code = "confirmed")
    BY DEF TabInv, TabTrue, ToldStored
  <2>2. ASSUME told[t][n].code \in FinalCodes, NEW i \in 1 .. Len(log), log[i].key = <<User[t], n>>
        PROVE  FALSE
    <3>1. log[i].key \in Keys
      BY <2>2, ConnFacts DEF Keys
    <3>2. log[i].key # AutoKey
      BY <3>1, AutoAssumption
    <3>3. results[<<User[t], n>>].ok
      BY <2>2, <3>2 DEF LogInv, ResultsMatchLog, Names
    <3> QED
      BY <2>1, <2>2, <3>3 DEF Stored, FinalCodes
  <2> QED
    BY <2>1, <2>2 DEF Stored
<1> QED
  BY <1>1, AlwaysTyped, AlwaysLog, AlwaysTabs, PTL

-----------------------------------------------------------------------------
(***************************************************************************)
(* A player with one tab: nobody else writes what it keeps in localStorage. *)
(***************************************************************************)
OneTabEach == \A s, t \in Tabs : User[s] = User[t] => s = t

\* What a reload brings back is what the tab showed, and every command the
\* player was told is confirmed is in it.
ShownInv ==
  /\ \A t \in Tabs : resume[User[t]].lastSeq = tab[t].lastSeq
  /\ ConfirmedIsShown

\* A step of the tab: what it shows does not go back, what it stores is what it
\* shows, and what it newly confirms is in it.
Shows(t) ==
  /\ tab'[t].lastSeq >= tab[t].lastSeq /\ resume'[User[t]].lastSeq = tab'[t].lastSeq
  /\ \A u \in Tabs \ {t} : tab'[u] = tab[u] /\ told'[u] = told[u]
  /\ \A u \in Users \ {User[t]} : resume'[u] = resume[u]
  /\ results' = results
  /\ \A n \in ClientSeqs :
       \/ told'[t][n] = told[t][n]
       \/ told'[t][n].code = "confirmed" => results[<<User[t], n>>].seq <= tab'[t].lastSeq

LEMMA TellOne ==
  ASSUME Typed, NEW t \in Tabs, NEW code, Tell(t, code), tab[t].pending \in Pending
  PROVE  /\ \A n \in ClientSeqs :
              told'[t][n] = told[t][n]
              \/ (n = tab[t].pending.cseq /\ told'[t][n].code = code)
         /\ \A u \in Tabs \ {t} : told'[u] = told[u]
<1> PICK p \in Pending : p = tab[t].pending
  OBVIOUS
<1> PICK what : what = [cmd |-> p.cmd, code |-> code]
  OBVIOUS
<1>1. p.cseq \in ClientSeqs /\ told \in [Tabs -> [ClientSeqs -> Told]] /\ what.code = code
  BY DEF Pending, Typed, TypeOK, TabTypes
<1>2. told' = [told EXCEPT ![t][p.cseq] = what]
  BY DEF Tell
<1> QED
  BY <1>1, <1>2

LEMMA ToldOne ==
  ASSUME Typed, NEW t \in Tabs, NEW d \in BOOLEAN, Told1(t, d), d => tab[t].pending \in Pending
  PROVE  /\ \A n \in ClientSeqs :
              told'[t][n] = told[t][n] \/ (d /\ n = tab[t].pending.cseq)
         /\ \A u \in Tabs \ {t} : told'[u] = told[u]
<1>1. CASE d
  BY <1>1, TellOne DEF Told1
<1>2. CASE ~d
  BY <1>2 DEF Told1
<1> QED
  BY <1>1, <1>2

\* Messages that may settle an acknowledged command.
LEMMA SettleShows ==
  ASSUME Typed, TabInv, NEW t \in Tabs, NEW l \in Nat, tab[t].lastSeq <= l, tab'[t].lastSeq = l,
         \A u \in Tabs \ {t} : tab'[u] = tab[u], resume'[User[t]].lastSeq = l,
         \A u \in Users \ {User[t]} : resume'[u] = resume[u], results' = results,
         Told1(t, Settles(tab[t], l))
  PROVE  Shows(t)
<1> PICK d \in BOOLEAN : d = Settles(tab[t], l)
  BY DEF Settles
<1>1. d => tab[t].ack # 0 /\ tab[t].ack <= l /\ tab[t].pending \in Pending
  BY TabPlaces DEF Settles, Typed, AckShape, Tab
<1>2. /\ \A n \in ClientSeqs : told'[t][n] = told[t][n] \/ (d /\ n = tab[t].pending.cseq)
      /\ \A u \in Tabs \ {t} : told'[u] = told[u]
  BY <1>1, ToldOne
<1>3. d => results[<<User[t], tab[t].pending.cseq>>].seq = tab[t].ack
  BY <1>1 DEF TabInv, TabTrue, Acked, Stored
<1>4. l >= tab[t].lastSeq
  BY TabPlaces DEF Tab
<1> QED
  BY <1>1, <1>2, <1>3, <1>4 DEF Shows

LEMMA MessagesShow ==
  ASSUME Typed, EpochShape, TabInv, ShownInv, NEW t \in Tabs,
         OnRoom(t) \/ OnEvents(t) \/ OnAck(t) \/ OnRejected(t)
  PROVE  Shows(t)
<1>1. tab[t].lastSeq \in Nat /\ resume[User[t]].lastSeq = tab[t].lastSeq
  BY TabPlaces DEF Tab, ShownInv
<1>2. CASE OnRoom(t)
  <2> PICK n : n = Head(down[t]).seq
    OBVIOUS
  <2>1. /\ Receive(t, "ROOM") /\ n \in Nat /\ tab[t].lastSeq <= n /\ tab'[t].lastSeq = n
        /\ \A u \in Tabs \ {t} : tab'[u] = tab[u]
        /\ Told1(t, Settles(tab[t], n)) /\ resume'[User[t]].lastSeq = n
        /\ \A u \in Users \ {User[t]} : resume'[u] = resume[u]
    BY <1>2, RoomFields
  <2>2. results' = results
    BY <2>1, ReceiveFields
  <2> QED
    BY <2>1, <2>2, SettleShows
<1>3. CASE OnEvents(t)
  <2>1. PICK l \in Nat :
          LET s == tab[t]
              n == Head(down[t]).seq
          IN /\ l = s.lastSeq \/ (l = n /\ s.lastSeq <= n)
             /\ Receive(t, "EVENTS") /\ tab'[t].lastSeq = l
             /\ \A u \in Tabs \ {t} : tab'[u] = tab[u]
             /\ Told1(t, Settles(s, l)) /\ resume'[User[t]].lastSeq = l
             /\ \A u \in Users \ {User[t]} : resume'[u] = resume[u]
    BY <1>3, EventsFields
  <2>2. results' = results
    BY <2>1, ReceiveFields
  <2>3. tab[t].lastSeq <= l
    BY <1>1, <2>1
  <2> QED
    BY <2>1, <2>2, <2>3, SettleShows
<1>4. CASE OnAck(t)
  <2> PICK n : n = Head(down[t]).seq
    OBVIOUS
  <2> PICK d \in BOOLEAN : d = (n # 0 /\ tab[t].lastSeq >= n)
    OBVIOUS
  <2>1. /\ Receive(t, "ACK") /\ n \in Nat /\ tab[t].pending \in Pending
        /\ tab'[t].lastSeq = tab[t].lastSeq /\ Told1(t, d)
        /\ \A u \in Tabs \ {t} : tab'[u] = tab[u]
        /\ \A u \in Users \ {User[t]} : resume'[u] = resume[u]
        /\ resume'[User[t]].lastSeq \in {resume[User[t]].lastSeq, tab[t].lastSeq}
    BY <1>4, AckFields
  <2>2. /\ results' = results /\ down[t] # <<>> /\ down'[t] = Tail(down[t])
        /\ Head(down[t]).type = "ACK"
    BY <2>1, ReceiveFields
  <2>3. TabTrue(t)
    BY DEF TabInv
  <2>4. Tells(t, tab[t].pending, Head(down[t]))
    BY <2>2, <2>3, TheAnswer
  <2>5. results[<<User[t], tab[t].pending.cseq>>].seq = n
    BY <2>2, <2>4 DEF Tells, Stored
  <2>6. /\ \A m \in ClientSeqs : told'[t][m] = told[t][m] \/ (d /\ m = tab[t].pending.cseq)
        /\ \A u \in Tabs \ {t} : told'[u] = told[u]
    BY <2>1, ToldOne
  <2>7. d => n <= tab'[t].lastSeq
    BY <1>1, <2>1
  <2>8. tab'[t].lastSeq >= tab[t].lastSeq
    BY <1>1, <2>1
  <2> QED
    BY <1>1, <2>1, <2>2, <2>5, <2>6, <2>7, <2>8 DEF Shows
<1>5. CASE OnRejected(t)
  <2> PICK code : code = Head(down[t]).code
    OBVIOUS
  <2>1. /\ Receive(t, "REJECTED") /\ code \in Codes /\ tab[t].pending \in Pending
        /\ tab'[t].lastSeq = tab[t].lastSeq /\ Tell(t, code)
        /\ \A u \in Tabs \ {t} : tab'[u] = tab[u]
        /\ \A u \in Users \ {User[t]} : resume'[u] = resume[u]
        /\ resume'[User[t]].lastSeq = tab[t].lastSeq
    BY <1>5, RejectedFields
  <2>2. results' = results
    BY <2>1, ReceiveFields
  <2>3. code # "confirmed"
    BY <2>1 DEF Codes, FinalCodes
  <2>4. /\ \A m \in ClientSeqs : told'[t][m] = told[t][m] \/ told'[t][m].code # "confirmed"
        /\ \A u \in Tabs \ {t} : told'[u] = told[u]
    BY <2>1, <2>3, TellOne
  <2>5. tab'[t].lastSeq >= tab[t].lastSeq
    BY <1>1, <2>1
  <2> QED
    BY <2>1, <2>2, <2>4, <2>5 DEF Shows
<1> QED
  BY <1>2, <1>3, <1>4, <1>5

LEMMA QuietShows ==
  ASSUME Typed, NEW t \in Tabs, results' = results, told' = told,
         tab'[t].lastSeq = tab[t].lastSeq, resume'[User[t]].lastSeq = tab[t].lastSeq,
         \A u \in Tabs \ {t} : tab'[u] = tab[u],
         \A u \in Users \ {User[t]} : resume'[u] = resume[u]
  PROVE  Shows(t)
<1>1. tab'[t].lastSeq >= tab[t].lastSeq
  BY TabPlaces DEF Tab
<1> QED
  BY <1>1 DEF Shows

LEMMA OthersShow ==
  ASSUME Typed, ShownInv, NEW t \in Tabs,
         \/ Connect(t) \/ Drop(t) \/ Reload(t) \/ DetectClose(t)
         \/ \E cmd \in Commands : SendCommand(t, cmd)
  PROVE  Shows(t)
<1>1. /\ tab[t] \in Tab /\ tab \in [Tabs -> Tab] /\ resume[User[t]].lastSeq = tab[t].lastSeq
      /\ resume[User[t]] \in Saved
  BY TabPlaces DEF Typed, TypeOK, TabTypes, ShownInv
<1>2. CASE Connect(t)
  <2>1. /\ tab' = [tab EXCEPT ![t] = [tab[t] EXCEPT !.net = "joining"]]
        /\ results' = results /\ told' = told /\ resume' = resume
    BY <1>2 DEF Connect, storeVars
  <2>2. [tab[t] EXCEPT !.net = "joining"].lastSeq = tab[t].lastSeq
    BY <1>1 DEF Tab
  <2>3. /\ tab'[t].lastSeq = tab[t].lastSeq /\ \A u \in Tabs \ {t} : tab'[u] = tab[u]
    BY <1>1, <2>1, <2>2
  <2> QED
    BY <1>1, <2>1, <2>3, QuietShows
<1>3. ASSUME NEW s \in Tab, HangUp(t, s), s.lastSeq = tab[t].lastSeq PROVE Shows(t)
  <2>1. /\ tab' = [tab EXCEPT ![t] = Disconnected(s)]
        /\ results' = results /\ told' = told /\ resume' = resume
    BY <1>3 DEF HangUp, storeVars
  <2>2. Disconnected(s).lastSeq = tab[t].lastSeq
    BY <1>3 DEF Disconnected, Tab
  <2>3. /\ tab'[t].lastSeq = tab[t].lastSeq /\ \A u \in Tabs \ {t} : tab'[u] = tab[u]
    BY <1>1, <2>1, <2>2
  <2> QED
    BY <1>1, <2>1, <2>3, QuietShows
<1>4. CASE Drop(t) \/ DetectClose(t)
  BY <1>1, <1>3, <1>4 DEF Drop, DetectClose
<1>5. CASE Reload(t)
  <2> DEFINE r == resume[User[t]]
             s == [tab[t] EXCEPT !.pending = r.pending, !.nextSeq = r.nextSeq,
                                 !.lastSeq = r.lastSeq, !.ack = 0]
  <2>1. HangUp(t, s)
    BY <1>5 DEF Reload
  <2>2. s \in Tab /\ s.lastSeq = r.lastSeq
    <3>1. r.pending \in Pending \cup {None} /\ r.nextSeq \in Nat /\ r.lastSeq \in Nat
      BY <1>1 DEF Saved
    <3> HIDE DEF r
    <3> QED
      BY <1>1, <3>1 DEF Tab
  <2> HIDE DEF s
  <2> QED
    BY <1>1, <1>3, <2>1, <2>2
<1>6. ASSUME NEW cmd \in Commands, SendCommand(t, cmd) PROVE Shows(t)
  <2>1. results' = results /\ told' = told
    BY <1>6 DEF SendCommand, storeVars
  <2>2. /\ tab'[t].lastSeq = tab[t].lastSeq /\ resume'[User[t]].lastSeq = tab[t].lastSeq
        /\ \A u \in Tabs \ {t} : tab'[u] = tab[u]
        /\ \A u \in Users \ {User[t]} : resume'[u] = resume[u]
    BY <1>6, SendFields
  <2> QED
    BY <2>1, <2>2, QuietShows
<1> QED
  BY <1>2, <1>4, <1>5, <1>6

\* Every step is a step of a tab that shows no less, or leaves the tabs alone.
LEMMA StepShows ==
  ASSUME Typed, EpochShape, LogInv, TabInv, ShownInv, [Next]_vars
  PROVE  (\E t \in Tabs : Shows(t)) \/ (UNCHANGED tabVars /\ StoreKept)
<1>1. CASE ServerStep
  BY <1>1, ServerTabs, ServerGrows
<1>2. CASE UNCHANGED vars
  BY <1>2 DEF vars, storeVars, StoreKept
<1>3. ASSUME NEW t \in Tabs, TabStep(t) \/ Drop(t) \/ Reload(t) \/ \E cmd \in Commands : SendCommand(t, cmd)
      PROVE  Shows(t)
  BY <1>3, MessagesShow, OthersShow DEF TabStep
<1> QED
  BY <1>1, <1>2, <1>3 DEF Next, Fault, ServerStep

LEMMA ShownKept ==
  ASSUME OneTabEach, Typed, Typed', TabInv, ShownInv,
         (\E t \in Tabs : Shows(t)) \/ (UNCHANGED tabVars /\ StoreKept)
  PROVE  ShownInv' /\ \A t \in Tabs : tab'[t].lastSeq >= tab[t].lastSeq
<1>0. \A t \in Tabs : tab[t].lastSeq \in Nat /\ tab'[t].lastSeq \in Nat /\ User[t] \in Users
  BY ConnFacts DEF Typed, TypeOK, TabTypes, Tab
<1>1. ASSUME NEW t \in Tabs, Shows(t)
      PROVE  ShownInv' /\ \A u \in Tabs : tab'[u].lastSeq >= tab[u].lastSeq
  <2>1. ASSUME NEW u \in Tabs
        PROVE  tab'[u].lastSeq >= tab[u].lastSeq /\ resume'[User[u]].lastSeq = tab'[u].lastSeq
    <3>1. CASE u = t
      BY <1>1, <3>1 DEF Shows
    <3>2. CASE u # t
      <4>1. User[u] \in Users \ {User[t]}
        BY <1>0, <3>2 DEF OneTabEach
      <4> QED
        BY <1>0, <1>1, <3>2, <4>1 DEF Shows, ShownInv
    <3> QED
      BY <3>1, <3>2
  <2>2. ASSUME NEW u \in Tabs, NEW n \in ClientSeqs,
               told'[u][n] # None, told'[u][n].code = "confirmed"
        PROVE  tab'[u].lastSeq >= results'[<<User[u], n>>].seq
    <3>1. CASE told'[u][n] = told[u][n]
      <4>1. tab[u].lastSeq >= results[<<User[u], n>>].seq
        BY <2>2, <3>1 DEF ShownInv, ConfirmedIsShown
      <4>2. results[<<User[u], n>>] # None /\ results[<<User[u], n>>].ok
        BY <2>2, <3>1 DEF TabInv, TabTrue, ToldStored, Stored
      <4>3. <<User[u], n>> \in Keys
        BY <1>0 DEF Keys
      <4>4. results[<<User[u], n>>].seq \in Nat
        BY <4>2, <4>3 DEF Typed, TypeOK, StoreTypes, Result, Acceptance, Refusal
      <4> QED
        BY <1>0, <1>1, <2>1, <4>1, <4>4 DEF Shows
    <3>2. CASE told'[u][n] # told[u][n]
      <4>1. u = t
        BY <1>1, <3>2 DEF Shows
      <4> QED
        BY <1>1, <2>2, <3>2, <4>1 DEF Shows
    <3> QED
      BY <3>1, <3>2
  <2> QED
    BY <2>1, <2>2 DEF ShownInv, ConfirmedIsShown
<1>2. CASE UNCHANGED tabVars /\ StoreKept
  <2>1. UNCHANGED <<tab, resume, told>>
    BY <1>2 DEF tabVars
  <2>2. ASSUME NEW u \in Tabs, NEW n \in ClientSeqs, told[u][n] # None, told[u][n].code = "confirmed"
        PROVE  results'[<<User[u], n>>] = results[<<User[u], n>>]
    <3>1. results[<<User[u], n>>] # None
      BY <2>2 DEF TabInv, TabTrue, ToldStored, Stored
    <3>2. <<User[u], n>> \in Keys
      BY <1>0 DEF Keys
    <3> QED
      BY <1>2, <3>1, <3>2 DEF StoreKept
  <2>3. ShownInv'
    BY <2>1, <2>2 DEF ShownInv, ConfirmedIsShown
  <2> QED
    BY <1>0, <2>1, <2>3
<1> QED
  BY <1>1, <1>2

LEMMA InitShown == Init => ShownInv
BY ConnFacts DEF Init, ShownInv, ConfirmedIsShown, FreshTab

LEMMA AlwaysShown == OneTabEach => (Spec => []ShownInv)
<1> SUFFICES ASSUME OneTabEach PROVE Spec => []ShownInv
  OBVIOUS
<1>1. Typed /\ EpochShape /\ LogInv /\ TabInv /\ ShownInv /\ Typed' /\ [Next]_vars => ShownInv'
  BY StepShows, ShownKept
<1> QED
  BY <1>1, InitShown, AlwaysEpochs, AlwaysLog, AlwaysTabs, PTL DEF Spec

\* With one tab to a player, the table a tab shows never goes back: neither a
\* late snapshot nor a reload nor a crash of the server takes an event from it.
THEOREM TablesOnlyAdvance == ASSUME OneTabEach PROVE Spec => TableNeverGoesBack
<1>1. Typed /\ Typed' /\ EpochShape /\ LogInv /\ TabInv /\ ShownInv /\ [Next]_vars =>
        [\A t \in Tabs : tab'[t].lastSeq >= tab[t].lastSeq]_vars
  BY StepShows, ShownKept
<1> QED
  BY <1>1, AlwaysShown, AlwaysEpochs, AlwaysLog, AlwaysTabs, PTL DEF Spec, TableNeverGoesBack

\* With one tab to a player, what a tab shows is durable, every answer on its
\* way is the one it waits for, and a confirmed command is on the table it shows.
THEOREM TabsAreTrue == ASSUME OneTabEach PROVE Spec => []TabsTrue
<1>1. Typed /\ LogInv /\ TabInv /\ ShownInv => TabsTrue
  <2> SUFFICES ASSUME Typed, LogInv, TabInv, ShownInv PROVE TabsTrue
    OBVIOUS
  <2>1. ASSUME NEW t \in Tabs
        PROVE  /\ tab[t].lastSeq <= Len(log) /\ Seen(t) /\ Sole(t) /\ About(t)
               /\ Len(memLog) \in Nat /\ Len(log) \in Nat /\ Len(memLog) <= Len(log)
               /\ down[t] \in Seq(Down)
    BY Lengths, TabPlaces DEF LogInv, Behind, TabInv, TabTrue, Seen, Tab
  <2>2. ASSUME NEW t \in Tabs, NEW i \in 1 .. Len(down[t]), down[t][i].type \in {"ROOM", "EVENTS"}
        PROVE  /\ down[t][i].seq <= Len(log)
               /\ down[t][i].type = "ROOM" => down[t][i].seq >= tab[t].lastSeq
    <3>1. i \in Notices(down[t])
      BY <2>2 DEF Notices
    <3>2. down[t][i].seq \in Nat /\ tab[t].lastSeq \in Nat
      BY <2>1, <3>1, NoticeFacts, TabPlaces DEF Tab
    <3> QED
      BY <2>1, <3>1, <3>2 DEF Seen, InOrder
  <2>3. AnswersAwaited
    <3> SUFFICES ASSUME NEW t \in Tabs
                 PROVE  /\ \A i \in Answers(down[t]) :
                             /\ tab[t].pending # None /\ tab[t].ack = 0
                             /\ down[t][i].cseq = tab[t].pending.cseq
                        /\ Cardinality(Answers(down[t])) <= 1
      BY DEF AnswersAwaited, Answers
    <3>1. \A i \in Answers(down[t]) : Fits(t, down[t][i])
      BY <2>1 DEF About
    <3>2. Cardinality(Answers(down[t])) <= 1
      <4>1. \A i, j \in Answers(down[t]) : i = j
        BY <2>1 DEF Sole
      <4>2. Answers(down[t]) = {} \/ \E i : Answers(down[t]) = {i}
        BY <4>1
      <4>3. Cardinality(Answers(down[t])) \in {0, 1}
        BY <4>2, FS_EmptySet, FS_Singleton, Zenon
      <4> QED
        BY <4>3
    <3> QED
      BY <3>1, <3>2 DEF Fits, Waiting, Tells
  <2> QED
    BY <2>1, <2>2, <2>3 DEF TabsTrue, TabsShowDurable, RoomNeverOld, ShownInv
<1> QED
  BY <1>1, AlwaysShown, AlwaysTyped, AlwaysLog, AlwaysTabs, PTL

-----------------------------------------------------------------------------
(***************************************************************************)
(* The refinement: every step of the pipeline is a step of the ledger or   *)
(* leaves the ledger as it is.                                             *)
(***************************************************************************)
\* A command of the ledger.
LedgerStep == Ledger!Next \/ UNCHANGED <<log, results, told>>

LEMMA LedgerInit == Init => Ledger!Init
BY DEF Init, Ledger!Init

LEMMA VerdictShapes ==
  /\ \A v \in Refusal : v = Ledger!Rejected(v.cmd, v.code) /\ v.cmd \in Commands /\ v.code \in FinalCodes
  /\ \A v \in Acceptance : v = Ledger!Accepted(v.cmd, v.seq)
<1>1. ASSUME NEW v \in Refusal
      PROVE  v = Ledger!Rejected(v.cmd, v.code) /\ v.cmd \in Commands /\ v.code \in FinalCodes
  <2>1. /\ v = [ok |-> v.ok, cmd |-> v.cmd, seq |-> v.seq, code |-> v.code]
        /\ v.ok = FALSE /\ v.seq = 0 /\ v.cmd \in Commands /\ v.code \in FinalCodes
    BY DEF Refusal
  <2> QED
    BY <2>1, Zenon DEF Ledger!Rejected
<1>2. ASSUME NEW v \in Acceptance PROVE v = Ledger!Accepted(v.cmd, v.seq)
  <2>1. /\ v = [ok |-> v.ok, cmd |-> v.cmd, seq |-> v.seq, code |-> v.code]
        /\ v.ok = TRUE /\ v.code = "none"
    BY DEF Acceptance
  <2> QED
    BY <2>1, Zenon DEF Ledger!Accepted
<1> QED
  BY <1>1, <1>2

\* A command is executed and its verdict stored, or an automatic move is made.
LEMMA StoreEventsLedger ==
  ASSUME Typed, LogInv, NEW w \in Workers, job[w].step = "commit", SlotFree(w), StoreEvents(w),
         told' = told
  PROVE  Ledger!Next
<1> PICK p, v : p = job[w].cmd /\ v = job[w].verdict
  OBVIOUS
<1>1. /\ v \in Acceptance /\ v.seq = Len(memLog) + 1 /\ Len(log) = Len(memLog) /\ Len(log) \in Nat
      /\ w # Automation => /\ w \in Conns /\ p \in Pending /\ p.at = Len(memLog)
                           /\ v.cmd = p.cmd /\ Key(w, p) \in Keys /\ results[Key(w, p)] = None
  BY StoreEventsLog, ConnFacts, Lengths
     DEF Typed, JobShape, LogInv, CommitReady, StoreNeverConflicts
<1>2. CASE w = Automation
  <2>1. LogEntry(w) = [key |-> AutoKey, cmd |-> None, at |-> Len(log)]
    <3>1. v.seq - 1 = Len(log)
      BY <1>1
    <3> QED
      BY <1>2, <3>1 DEF LogEntry
  <2>2. Ledger!Automate
    BY <1>2, <2>1 DEF StoreEvents, Ledger!Automate
  <2> QED
    BY <2>2 DEF Ledger!Next
<1>3. CASE w # Automation
  <2> PICK k, cmd : k = Key(w, p) /\ cmd = p.cmd
    OBVIOUS
  <2>1. k \in Keys /\ cmd \in Commands /\ results[k] = None
    BY <1>1, <1>3 DEF Pending
  <2>2. LogEntry(w) = [key |-> k, cmd |-> cmd, at |-> Len(log)]
    BY <1>1, <1>3 DEF LogEntry
  <2>3. v = Ledger!Accepted(cmd, Len(log) + 1)
    BY <1>1, <1>3, VerdictShapes
  <2>4. log' = Append(log, LogEntry(w)) /\ results' = [results EXCEPT ![k] = v]
    BY <1>3 DEF StoreEvents, StoreResult
  <2>5. Ledger!Execute(k, cmd)
    BY <2>1, <2>2, <2>3, <2>4 DEF Ledger!Execute
  <2> QED
    BY <2>1, <2>5 DEF Ledger!Next
<1> QED
  BY <1>2, <1>3

LEMMA StoreLedger ==
  ASSUME Typed, LogInv, NEW w \in Workers,
         \/ w \in Conns /\ (PersistVerdict(w) \/ PersistVerdictFails(w))
         \/ Commit(w) \/ CommitFails(w)
  PROVE  LedgerStep
<1>1. told' = told
  BY DEF PersistVerdict, PersistVerdictFails, Commit, CommitFails, tabVars
<1>2. CASE Commit(w) \/ CommitFails(w)
  <2>1. /\ job[w].step = "commit"
        /\ UNCHANGED <<log, results>> \/ (SlotFree(w) /\ StoreEvents(w))
    BY <1>2 DEF Commit, CommitFails, storeVars
  <2> QED
    BY <1>1, <2>1, StoreEventsLedger DEF LedgerStep
<1>3. CASE w \in Conns /\ (PersistVerdict(w) \/ PersistVerdictFails(w))
  <2> PICK k, v : k = Key(w, job[w].cmd) /\ v = job[w].verdict
    OBVIOUS
  <2>1. /\ job[w].step = "reject" /\ log' = log
        /\ results' = results \/ results' = [results EXCEPT ![k] = v]
    BY <1>3 DEF PersistVerdict, PersistVerdictFails, StoreResult
  <2>2. v \in Refusal /\ k \in Keys /\ results[k] = None
    BY <1>3, <2>1, ConnFacts DEF Typed, JobShape, LogInv, StoreNeverConflicts
  <2>3. CASE results' = results
    BY <1>1, <2>1, <2>3 DEF LedgerStep
  <2>4. CASE results' = [results EXCEPT ![k] = v]
    <3>1. v = Ledger!Rejected(v.cmd, v.code) /\ v.cmd \in Commands /\ v.code \in FinalCodes
      BY <2>2, VerdictShapes
    <3>2. results' = [results EXCEPT ![k] = Ledger!Rejected(v.cmd, v.code)]
      BY <2>4, <3>1
    <3>3. Ledger!Refuse(k, v.cmd, v.code)
      BY <1>1, <2>1, <2>2, <3>2 DEF Ledger!Refuse
    <3> QED
      BY <2>2, <3>1, <3>3 DEF Ledger!Next, LedgerStep
  <2> QED
    BY <2>1, <2>3, <2>4
<1> QED
  BY <1>2, <1>3

\* A player is told what is recorded of his command.
LEMMA TellRecorded ==
  ASSUME NEW t \in Tabs, NEW code, Tell(t, code), UNCHANGED <<log, results>>,
         tab[t].pending \in Pending,
         LET r == Stored(t, tab[t].pending.cseq)
         IN /\ r # None /\ r.cmd = tab[t].pending.cmd
            /\ IF r.ok THEN code = "confirmed" ELSE code = r.code
  PROVE  LedgerStep
<1> PICK p \in Pending : p = tab[t].pending
  OBVIOUS
<1> PICK r : r = results[<<User[t], p.cseq>>]
  OBVIOUS
<1>1. /\ p.cseq \in ClientSeqs /\ r # None /\ r.cmd = p.cmd
      /\ code = (IF r.ok THEN "confirmed" ELSE r.code)
  BY DEF Pending, Stored
<1>2. told' = [told EXCEPT ![t][p.cseq] = [cmd |-> p.cmd, code |-> code]]
  BY DEF Tell
<1>3. told' = [told EXCEPT ![t][p.cseq] =
                 [cmd |-> r.cmd, code |-> IF r.ok THEN "confirmed" ELSE r.code]]
  BY <1>1, <1>2
<1>4. Ledger!TellVerdict(t, p.cseq)
  BY <1>1, <1>3 DEF Ledger!TellVerdict
<1> QED
  BY <1>1, <1>4 DEF Ledger!Next, LedgerStep

LEMMA ToldRecorded ==
  ASSUME NEW t \in Tabs, NEW d \in BOOLEAN, Told1(t, d), UNCHANGED <<log, results>>,
         d => /\ tab[t].pending \in Pending
              /\ LET r == Stored(t, tab[t].pending.cseq)
                 IN r # None /\ r.ok /\ r.cmd = tab[t].pending.cmd
  PROVE  LedgerStep
<1>1. CASE d
  BY <1>1, TellRecorded DEF Told1
<1>2. CASE ~d
  BY <1>2 DEF Told1, LedgerStep
<1> QED
  BY <1>1, <1>2

LEMMA MessagesLedger ==
  ASSUME Typed, EpochShape, TabInv, NEW t \in Tabs,
         OnRoom(t) \/ OnEvents(t) \/ OnAck(t) \/ OnRejected(t)
  PROVE  LedgerStep
<1>0. TabTrue(t)
  BY DEF TabInv
<1>1. ASSUME NEW l \in Nat, Told1(t, Settles(tab[t], l)), UNCHANGED <<log, results>> PROVE LedgerStep
  <2> PICK d \in BOOLEAN : d = Settles(tab[t], l)
    BY DEF Settles
  <2>1. d => tab[t].ack # 0 /\ tab[t].pending \in Pending
    BY DEF Settles, Typed, AckShape
  <2> QED
    BY <1>0, <1>1, <2>1, ToldRecorded DEF TabTrue, Acked
<1>2. CASE OnRoom(t)
  <2>1. /\ Receive(t, "ROOM") /\ Head(down[t]).seq \in Nat
        /\ Told1(t, Settles(tab[t], Head(down[t]).seq))
    BY <1>2, RoomFields
  <2> QED
    BY <1>1, <2>1, ReceiveFields
<1>3. CASE OnEvents(t)
  <2>1. Receive(t, "EVENTS") /\ \E l \in Nat : Told1(t, Settles(tab[t], l))
    BY <1>3, EventsFields
  <2> QED
    BY <1>1, <2>1, ReceiveFields
<1>4. CASE OnAck(t)
  <2> PICK n : n = Head(down[t]).seq
    OBVIOUS
  <2> PICK d \in BOOLEAN : d = (n # 0 /\ tab[t].lastSeq >= n)
    OBVIOUS
  <2>1. Receive(t, "ACK") /\ Told1(t, d) /\ tab[t].pending \in Pending
    BY <1>4, AckFields
  <2>2. /\ UNCHANGED <<log, results>> /\ down[t] # <<>> /\ down'[t] = Tail(down[t])
        /\ Head(down[t]).type = "ACK"
    BY <2>1, ReceiveFields
  <2>3. Tells(t, tab[t].pending, Head(down[t]))
    BY <1>0, <2>2, TheAnswer
  <2> QED
    BY <2>1, <2>2, <2>3, ToldRecorded DEF Tells
<1>5. CASE OnRejected(t)
  <2> PICK code : code = Head(down[t]).code
    OBVIOUS
  <2>1. Receive(t, "REJECTED") /\ code \in Codes /\ tab[t].pending \in Pending /\ Tell(t, code)
    BY <1>5, RejectedFields
  <2>2. /\ UNCHANGED <<log, results>> /\ down[t] # <<>> /\ down'[t] = Tail(down[t])
        /\ Head(down[t]).type = "REJECTED"
    BY <2>1, ReceiveFields
  <2>3. Tells(t, tab[t].pending, Head(down[t]))
    BY <1>0, <2>2, TheAnswer
  <2>4. CASE code \in FinalCodes
    BY <2>1, <2>2, <2>3, <2>4, TellRecorded DEF Tells
  <2>5. CASE code \notin FinalCodes
    <3> PICK p \in Pending : p = tab[t].pending
      BY <2>1
    <3>1. p.cseq \in ClientSeqs /\ p.cmd \in Commands /\ code \in Codes \ FinalCodes
      BY <2>1, <2>5 DEF Pending
    <3>2. Ledger!TellMomentary(t, p.cseq, p.cmd, code)
      BY <2>1, <2>2 DEF Tell, Ledger!TellMomentary
    <3> QED
      BY <3>1, <3>2 DEF Ledger!Next, LedgerStep
  <2> QED
    BY <2>4, <2>5
<1> QED
  BY <1>2, <1>3, <1>4, <1>5

\* All other steps.
LEMMA QuietLedger ==
  ASSUME Typed, EpochShape, LogInv, TabInv, [Next]_vars PROVE LedgerStep
<1>1. ASSUME NEW t \in Tabs,
             \/ Connect(t) \/ Drop(t) \/ Reload(t) \/ DetectClose(t)
             \/ \E cmd \in Commands : SendCommand(t, cmd)
      PROVE  LedgerStep
  BY <1>1 DEF Connect, Drop, Reload, DetectClose, HangUp, SendCommand, storeVars, LedgerStep
<1>2. ASSUME NEW c \in Conns, HandlerStep(c) \/ RefuseLimited(c) \/ PersistVerdictFails(c)
      PROVE  LedgerStep
  <2>1. CASE PersistVerdict(c) \/ PersistVerdictFails(c)
    BY <2>1, ConnFacts, StoreLedger
  <2>2. CASE UNCHANGED <<log, results, told>>
    BY <2>2 DEF LedgerStep
  <2> QED
    BY <1>2, <2>1, <2>2
       DEF HandlerStep, Join, SyncJoined, Resync, Close, RefusePaused, Replay, Decline, Accept,
           StartCommit, RefuseLimited, storeVars, tabVars
<1>3. ASSUME NEW w \in Workers, WorkerStep(w) PROVE LedgerStep
  <2>1. CASE Commit(w) \/ CommitFails(w)
    BY <2>1, StoreLedger
  <2>2. CASE Apply(w) \/ Reply(w)
    BY <2>2 DEF Apply, Reply, storeVars, tabVars, LedgerStep
  <2> QED
    BY <1>3, <2>1, <2>2 DEF WorkerStep
<1>4. CASE StartAuto \/ Stall \/ Crash \/ UNCHANGED vars
  BY <1>4 DEF StartAuto, StartCommit, Stall, Crash, vars, storeVars, tabVars, LedgerStep
<1> QED
  BY <1>1, <1>2, <1>3, <1>4, MessagesLedger DEF Next, TabStep, Fault

\* The pipeline, with its retries, crashes and caches, implements CommandLedger:
\* a verdict is recorded once, with its effect, before anyone is told of it.
THEOREM PipelineImplementsLedger == Spec => ImplementsLedger
<1>1. Typed /\ EpochShape /\ LogInv /\ TabInv /\ [Next]_vars => [Ledger!Next]_(Ledger!vars)
  BY QuietLedger DEF LedgerStep, Ledger!vars
<1> QED
  BY <1>1, LedgerInit, AlwaysEpochs, AlwaysLog, AlwaysTabs, PTL
     DEF Spec, ImplementsLedger, Ledger!Spec

-----------------------------------------------------------------------------
(***************************************************************************)
(* The retry of an accepted command, of a player with one tab.             *)
(***************************************************************************)
Open(q) == \A i \in 1 .. Len(q) : q[i].type # "CLOSE"

\* A room without stalls or rate limits pauses only when nobody is in it.
Unhurried ==
  /\ left.stall = 0 /\ left.limit = 0
  /\ paused # "STALLED_AUTOMATION"
  /\ paused = "EMPTY_ROOM" => \A c \in Conns : ~joined[c]

\* A connection that is heard is in the room, or its JOIN comes first.
HeardInv ==
  \A t \in Tabs : alive[t] =>
    /\ joined[Conn(t)] \/ (up[Conn(t)] # <<>> /\ Head(up[Conn(t)]).type = "JOIN")
    /\ Open(up[Conn(t)])

\* A number of the player, if it is that of the pending command, means it.
Means(t, n, cmd) ==
  /\ n < tab[t].nextSeq
  /\ tab[t].pending # None /\ tab[t].pending.cseq = n => tab[t].pending.cmd = cmd

\* What may yet be stored for a connection.
Asking(c) ==
  Requests(up[c]) \cup (IF job[c].step \in {"reject", "commit"} THEN {job[c].cmd} ELSE {})

\* Whatever is asked or stored under a number of the player is the command it
\* stands for, and a reload changes nothing about that.
SaidInv ==
  \A t \in Tabs :
    /\ resume[User[t]].pending = tab[t].pending /\ resume[User[t]].nextSeq = tab[t].nextSeq
    /\ tab[t].pending # None => tab[t].pending.cseq < tab[t].nextSeq
    /\ \A c \in Conns : c[1] = t => \A p \in Asking(c) : Means(t, p.cseq, p.cmd)
    /\ \A n \in ClientSeqs : Stored(t, n) # None => Means(t, n, Stored(t, n).cmd)

-----------------------------------------------------------------------------
(***************************************************************************)
(* Pauses.                                                                 *)
(***************************************************************************)
LEMMA SpendKeeps ==
  ASSUME Typed, left.stall = 0, left.limit = 0,
         left' = left \/ \E what \in DOMAIN Budget : Spend(what)
  PROVE  left'.stall = 0 /\ left'.limit = 0
<1>1. CASE left' = left
  BY <1>1
<1>2. ASSUME NEW what \in DOMAIN Budget, Spend(what) PROVE left'.stall = 0 /\ left'.limit = 0
  <2>1. left \in [DOMAIN Budget -> Nat] /\ "stall" \in DOMAIN Budget /\ "limit" \in DOMAIN Budget
    BY BudgetFacts DEF Typed, TypeOK
  <2>2. what # "stall" /\ what # "limit"
    BY <1>2 DEF Spend
  <2> QED
    BY <1>2, <2>1, <2>2 DEF Spend
<1> QED
  BY <1>1, <1>2

LEMMA StepSpends ==
  ASSUME [Next]_vars PROVE left' = left \/ \E what \in DOMAIN Budget : Spend(what)
<1>1. \A what \in {"auto", "drop", "crash", "failure", "unknown", "stall", "limit"} : what \in DOMAIN Budget
  BY BudgetFacts
<1>2. ASSUME NEW t \in Tabs, TabStep(t) \/ \E cmd \in Commands : SendCommand(t, cmd) PROVE left' = left
  BY <1>2 DEF TabStep, Connect, DetectClose, OnRoom, OnEvents, OnAck, OnRejected, Receive, SendCommand
<1>3. ASSUME NEW c \in Conns, HandlerStep(c) PROVE left' = left
  BY <1>3 DEF HandlerStep, Join, SyncJoined, Resync, Close, RefusePaused, Replay, Decline, Accept,
              PersistVerdict
<1>4. ASSUME NEW w \in Workers, WorkerStep(w)
      PROVE  left' = left \/ Spend("failure") \/ Spend("unknown")
  BY <1>4 DEF WorkerStep, Commit, CommitFails, Apply, Reply
<1>5. CASE StartAuto
  BY <1>1, <1>5 DEF StartAuto
<1>6. CASE Fault
  BY <1>1, <1>6 DEF Fault, Drop, Reload, RefuseLimited, PersistVerdictFails, Stall, Crash
<1>7. CASE UNCHANGED vars
  BY <1>7 DEF vars
<1> QED
  BY <1>1, <1>2, <1>3, <1>4, <1>5, <1>6, <1>7 DEF Next

\* Who is in the room, and whether it is paused, changes by these steps alone.
LEMMA RoomStays ==
  ASSUME [Next]_vars, \A c \in Conns : ~Join(c) /\ ~Close(c), ~Stall
  PROVE  paused' = paused /\ (joined' = joined \/ Crash)
<1>1. ASSUME NEW t \in Tabs, \/ TabStep(t) \/ Drop(t) \/ Reload(t)
                             \/ \E cmd \in Commands : SendCommand(t, cmd)
      PROVE  UNCHANGED <<paused, joined>>
  BY <1>1 DEF TabStep, Connect, DetectClose, OnRoom, OnEvents, OnAck, OnRejected, Receive, SendCommand,
              Drop, Reload, HangUp, roomVars
<1>2. ASSUME NEW c \in Conns, HandlerStep(c) \/ RefuseLimited(c) \/ PersistVerdictFails(c)
      PROVE  UNCHANGED <<paused, joined>>
  BY <1>2 DEF HandlerStep, SyncJoined, Resync, RefusePaused, Replay, Decline, Accept, StartCommit,
              PersistVerdict, RefuseLimited, PersistVerdictFails, roomVars
<1>3. ASSUME NEW w \in Workers, WorkerStep(w) PROVE UNCHANGED <<paused, joined>>
  BY <1>3 DEF WorkerStep, Commit, CommitFails, Apply, Reply, roomVars, connVars
<1>4. CASE StartAuto \/ UNCHANGED vars
  BY <1>4 DEF StartAuto, StartCommit, vars, roomVars, connVars
<1>5. CASE Crash
  BY <1>5 DEF Crash
<1> QED
  BY <1>1, <1>2, <1>3, <1>4, <1>5 DEF Next, Fault

LEMMA UnhurriedKept == ASSUME Typed, Unhurried, [Next]_vars PROVE Unhurried'
<1>1. left'.stall = 0 /\ left'.limit = 0
  BY SpendKeeps, StepSpends DEF Unhurried
<1>2. ~Stall
  BY DEF Stall, Spend, Unhurried
<1>3. ASSUME NEW c \in Conns, Join(c) PROVE paused' = "no"
  BY <1>3 DEF Join, Unhurried, Typed, TypeOK, RoomTypes
<1>4. ASSUME NEW c \in Conns, Close(c)
      PROVE  paused' # "STALLED_AUTOMATION" /\ (paused' = "EMPTY_ROOM" => \A d \in Conns : ~joined'[d])
  <2>1. joined \in [Conns -> BOOLEAN] /\ joined' = [joined EXCEPT ![c] = FALSE]
    BY <1>4 DEF Close, Typed, TypeOK, ConnTypes
  <2>2. CASE paused = "EMPTY_ROOM"
    <3>1. paused' = "EMPTY_ROOM" /\ \A d \in Conns : ~joined[d]
      BY <1>4, <2>2 DEF Close, Unhurried
    <3> QED
      BY <2>1, <3>1
  <2>3. CASE paused # "EMPTY_ROOM"
    BY <1>4, <2>3 DEF Close, Unhurried
  <2> QED
    BY <1>4, <2>1, <2>2, <2>3 DEF Close, Unhurried
<1>5. CASE \A c \in Conns : ~Join(c) /\ ~Close(c)
  <2>1. paused' = paused /\ (joined' = joined \/ Crash)
    BY <1>2, <1>5, RoomStays
  <2> QED
    BY <1>1, <2>1 DEF Unhurried, Crash
<1> QED
  BY <1>1, <1>3, <1>4, <1>5 DEF Unhurried

LEMMA InitUnhurried == ASSUME MaxStalls = 0, MaxLimited = 0 PROVE Init => Unhurried
BY DEF Init, Unhurried, Budget

-----------------------------------------------------------------------------
(***************************************************************************)
(* Connections that are heard.                                             *)
(***************************************************************************)
LEMMA TailOpen ==
  ASSUME NEW q \in Seq(Up), q # <<>>, Open(q) PROVE Open(Tail(q)) /\ Head(q).type # "CLOSE"
BY QueueTail DEF Open

LEMMA ConcatOpen ==
  ASSUME NEW q \in Seq(Up), NEW r \in Seq(Up), Open(q), Open(r)
  PROVE  Open(q \o r) /\ (q # <<>> => q \o r # <<>> /\ Head(q \o r) = Head(q))
<1> PICK s : s = q \o r
  OBVIOUS
<1>1. /\ s \in Seq(Up) /\ Len(s) = Len(q) + Len(r) /\ Len(q) \in Nat /\ Len(r) \in Nat
      /\ \A i \in 1 .. Len(s) : s[i] = IF i <= Len(q) THEN q[i] ELSE r[i - Len(q)]
  BY ConcatProperties
<1>2. Open(s)
  <2> SUFFICES ASSUME NEW i \in 1 .. Len(s) PROVE s[i].type # "CLOSE"
    BY DEF Open
  <2>1. CASE i <= Len(q)
    BY <1>1, <2>1 DEF Open
  <2>2. CASE i > Len(q)
    BY <1>1, <2>2 DEF Open
  <2> QED
    BY <1>1, <2>1, <2>2
<1>3. ASSUME q # <<>> PROVE s # <<>> /\ Head(s) = Head(q)
  <2>1. Len(q) > 0 /\ Head(q) = q[1]
    BY <1>1, <1>3
  <2>2. Len(s) > 0 /\ s[1] = q[1]
    BY <1>1, <2>1
  <2>3. s # <<>> /\ Head(s) = s[1]
    BY <1>1, <2>2
  <2> QED
    BY <2>1, <2>2, <2>3
<1> QED
  BY <1>2, <1>3

\* What a tab writes closes nothing.
LEMMA WrittenOpen ==
  ASSUME Typed, NEW t \in Tabs,
         \/ OnRoom(t) \/ OnEvents(t) \/ OnAck(t) \/ OnRejected(t)
         \/ \E cmd \in Commands : SendCommand(t, cmd)
  PROVE  up' = up \/ \E r \in Seq(Up) : Open(r) /\ Transmit(t, r)
<1>1. \A s : ResyncRequest(s) \in Seq(Up) /\ Open(ResyncRequest(s))
  BY MessageFacts DEF ResyncRequest, Open
<1>2. <<>> \in Seq(Up) /\ Open(<<>>)
  BY DEF Open
<1>3. ASSUME NEW p \in Pending PROVE <<Commanding(p)>> \in Seq(Up) /\ Open(<<Commanding(p)>>)
  <2>1. Commanding(p) \in Up /\ Commanding(p).type # "CLOSE"
    BY MessageFacts DEF Commanding
  <2> QED
    BY <2>1 DEF Open
<1>4. CASE OnEvents(t)
  BY <1>4 DEF OnEvents
<1>5. CASE OnAck(t)
  BY <1>1, <1>5 DEF OnAck
<1>6. CASE OnRejected(t)
  BY <1>1, <1>6 DEF OnRejected
<1>7. ASSUME NEW cmd \in Commands, SendCommand(t, cmd)
      PROVE  \E r \in Seq(Up) : Open(r) /\ Transmit(t, r)
  <2> PICK p : p = [cseq |-> tab[t].nextSeq, at |-> tab[t].lastSeq, cmd |-> cmd]
    OBVIOUS
  <2>1. p \in Pending /\ Transmit(t, <<Commanding(p)>>)
    BY <1>7, TabPlaces DEF SendCommand, Pending, Tab
  <2> QED
    BY <1>3, <2>1
<1>8. CASE OnRoom(t)
  <2> PICK n : n = Head(down[t]).seq
    OBVIOUS
  <2> PICK f : f = FinishAck(Advance(tab[t], n))
    OBVIOUS
  <2> DEFINE asks == IF f.ack # 0 THEN ResyncRequest(f) ELSE <<>>
             sends == IF Owes(f) THEN <<Commanding(f.pending)>> ELSE <<>>
  <2>1. Transmit(t, asks \o sends)
    BY <1>8 DEF OnRoom
  <2>2. f.pending \in Pending \cup {None}
    <3>1. tab[t] \in Tab /\ n \in Nat
      BY <1>8, TabPlaces, ReceiveTyped, MessageFacts DEF OnRoom, Receive
    <3> PICK a : a = Advance(tab[t], n)
      OBVIOUS
    <3>2. a \in Tab
      BY <3>1, AdvanceFields
    <3>3. f.pending \in {None, a.pending}
      BY <3>2, CoverFields
    <3> QED
      BY <3>2, <3>3 DEF Tab
  <2>3. asks \in Seq(Up) /\ Open(asks)
    BY <1>1, <1>2
  <2>4. sends \in Seq(Up) /\ Open(sends)
    BY <1>2, <1>3, <2>2 DEF Owes
  <2> HIDE DEF asks, sends
  <2>5. asks \o sends \in Seq(Up) /\ Open(asks \o sends)
    BY <2>3, <2>4, ConcatOpen, ConcatProperties
  <2> QED
    BY <2>1, <2>5
<1> QED
  BY <1>4, <1>5, <1>6, <1>7, <1>8

LEMMA HeardByTab ==
  ASSUME Typed, EpochShape, HeardInv, NEW t \in Tabs,
         \/ TabStep(t) \/ Drop(t) \/ Reload(t) \/ \E cmd \in Commands : SendCommand(t, cmd)
  PROVE  HeardInv'
<1>0. /\ tab \in [Tabs -> Tab] /\ up \in [Conns -> Seq(Up)] /\ alive \in [Tabs -> BOOLEAN]
      /\ \A u \in Tabs : Conn(u) \in Conns /\ (u # t => Conn(u) # Conn(t))
  BY TabPlaces DEF Typed, TypeOK, TabTypes, ConnTypes, Conn
<1>1. ASSUME UNCHANGED <<joined, alive>>, \A u \in Tabs : tab'[u].epoch = tab[u].epoch,
             up' = up \/ \E r \in Seq(Up) : Open(r) /\ Transmit(t, r)
      PROVE  HeardInv'
  <2>1. \A u \in Tabs : Conn(u)' = Conn(u)
    BY <1>1, SameConn
  <2>2. ASSUME NEW r \in Seq(Up), Open(r), Transmit(t, r), NEW u \in Tabs, alive[u]
        PROVE  /\ joined[Conn(u)] \/ (up'[Conn(u)] # <<>> /\ Head(up'[Conn(u)]).type = "JOIN")
               /\ Open(up'[Conn(u)])
    <3>1. CASE up'[Conn(u)] = up[Conn(u)]
      BY <2>2, <3>1 DEF HeardInv
    <3>2. CASE up'[Conn(u)] # up[Conn(u)]
      <4>1. u = t /\ up'[Conn(t)] = up[Conn(t)] \o r
        BY <1>0, <2>2, <3>2, TransmitOn
      <4>2. up[Conn(t)] \in Seq(Up) /\ Open(up[Conn(t)])
        BY <1>0, <2>2, <4>1 DEF HeardInv
      <4> QED
        BY <2>2, <4>1, <4>2, ConcatOpen DEF HeardInv
    <3> QED
      BY <3>1, <3>2
  <2> QED
    BY <1>1, <2>1, <2>2 DEF HeardInv
<1>2. CASE OnRoom(t) \/ OnEvents(t) \/ OnAck(t) \/ OnRejected(t) \/ \E cmd \in Commands : SendCommand(t, cmd)
  <2>1. UNCHANGED <<joined, alive>>
    BY <1>2 DEF OnRoom, OnEvents, OnAck, OnRejected, Receive, SendCommand
  <2>2. \A u \in Tabs : tab'[u].epoch = tab[u].epoch
    <3>1. tab'[t].epoch = tab[t].epoch /\ \A u \in Tabs \ {t} : tab'[u] = tab[u]
      BY <1>2, RoomFields, EventsFields, AckFields, RejectedFields, SendFields
    <3> QED
      BY <3>1
  <2> QED
    BY <1>1, <1>2, <2>1, <2>2, WrittenOpen
<1>3. CASE Connect(t)
  <2>1. /\ joined' = joined /\ alive' = [alive EXCEPT ![t] = TRUE]
        /\ tab' = [tab EXCEPT ![t] = [tab[t] EXCEPT !.net = "joining"]]
        /\ up' = [up EXCEPT ![Conn(t)] = <<[type |-> "JOIN"]>>]
    BY <1>3 DEF Connect
  <2>2. [tab[t] EXCEPT !.net = "joining"].epoch = tab[t].epoch
    BY <1>0 DEF Tab
  <2>3. \A u \in Tabs : Conn(u)' = Conn(u)
    BY <1>0, <2>1, <2>2, SameConn
  <2>4. /\ up'[Conn(t)] = <<[type |-> "JOIN"]>>
        /\ \A u \in Tabs \ {t} : up'[Conn(u)] = up[Conn(u)] /\ alive'[u] = alive[u]
    BY <1>0, <2>1
  <2>5. /\ <<[type |-> "JOIN"]>> # <<>> /\ Head(<<[type |-> "JOIN"]>>).type = "JOIN"
        /\ Open(<<[type |-> "JOIN"]>>)
    BY DEF Open
  <2> QED
    BY <2>1, <2>3, <2>4, <2>5 DEF HeardInv
<1>4. CASE Drop(t) \/ Reload(t) \/ DetectClose(t)
  <2>1. PICK s : HangUp(t, s)
    BY <1>4 DEF Drop, Reload, DetectClose
  <2>2. /\ tab' = [tab EXCEPT ![t] = Disconnected(s)] /\ alive' = [alive EXCEPT ![t] = FALSE]
        /\ joined' = joined
    BY <2>1 DEF HangUp
  <2>3. \A c \in Conns \ {Conn(t)} : up'[c] = up[c]
    BY <1>4, CutOffElsewhere DEF Drop, Reload, DetectClose
  <2>4. ~alive'[t]
    BY <1>0, <2>2
  <2>5. ASSUME NEW u \in Tabs \ {t}
        PROVE  Conn(u)' = Conn(u) /\ alive'[u] = alive[u] /\ up'[Conn(u)] = up[Conn(u)]
    BY <1>0, <2>2, <2>3, SameConn
  <2> QED
    BY <2>2, <2>4, <2>5 DEF HeardInv
<1> QED
  BY <1>2, <1>3, <1>4 DEF TabStep

LEMMA HeardByServer ==
  ASSUME Typed, HeardInv, ServerStep PROVE HeardInv'
<1>0. /\ up \in [Conns -> Seq(Up)] /\ joined \in [Conns -> BOOLEAN]
      /\ \A u \in Tabs : Conn(u) \in Conns /\ Conn(u)' = Conn(u)
  BY TabPlaces, ServerTabs, SameConn DEF Typed, TypeOK, ConnTypes, tabVars
<1>1. CASE Crash
  BY <1>1 DEF Crash, HeardInv
<1>2. ASSUME alive' = alive, NEW c \in Conns, up[c] # <<>>,
             up' = [up EXCEPT ![c] = Tail(@)],
             \/ joined' = joined /\ Head(up[c]).type # "JOIN"
             \/ joined' = [joined EXCEPT ![c] = TRUE]
             \/ joined' = [joined EXCEPT ![c] = FALSE] /\ Head(up[c]).type = "CLOSE"
      PROVE  HeardInv'
  <2> SUFFICES ASSUME NEW u \in Tabs, alive[u]
               PROVE  /\ joined'[Conn(u)] \/ (up'[Conn(u)] # <<>> /\ Head(up'[Conn(u)]).type = "JOIN")
                      /\ Open(up'[Conn(u)])
    BY <1>0, <1>2 DEF HeardInv
  <2>1. /\ joined[Conn(u)] \/ (up[Conn(u)] # <<>> /\ Head(up[Conn(u)]).type = "JOIN")
        /\ Open(up[Conn(u)])
    BY DEF HeardInv
  <2>2. CASE c = Conn(u)
    <3>1. up'[c] = Tail(up[c]) /\ Open(Tail(up[c])) /\ Head(up[c]).type # "CLOSE"
      BY <1>0, <1>2, <2>1, <2>2, TailOpen
    <3>2. joined'[c]
      BY <1>0, <1>2, <2>1, <2>2, <3>1
    <3> QED
      BY <2>2, <3>1, <3>2
  <2>3. CASE c # Conn(u)
    <3>1. up'[Conn(u)] = up[Conn(u)] /\ joined'[Conn(u)] = joined[Conn(u)]
      BY <1>0, <1>2, <2>3
    <3> QED
      BY <2>1, <3>1
  <2> QED
    BY <2>2, <2>3
<1>3. ASSUME NEW c \in Conns,
             \/ Join(c) \/ Resync(c) \/ Close(c) \/ RefusePaused(c) \/ Replay(c)
             \/ Decline(c) \/ Accept(c) \/ RefuseLimited(c)
      PROVE  HeardInv'
  BY <1>2, <1>3 DEF Join, Resync, Close, RefusePaused, Replay, Decline, Accept, RefuseLimited,
                    Fresh, TakeInTurn, Take
<1>4. ASSUME UNCHANGED <<alive, up, joined>> PROVE HeardInv'
  BY <1>0, <1>4 DEF HeardInv
<1>5. ASSUME NEW c \in Conns, SyncJoined(c) \/ PersistVerdict(c) \/ PersistVerdictFails(c)
      PROVE  HeardInv'
  BY <1>4, <1>5 DEF SyncJoined, PersistVerdict, PersistVerdictFails
<1>6. ASSUME NEW w \in Workers, WorkerStep(w) PROVE HeardInv'
  BY <1>4, <1>6 DEF WorkerStep, Commit, CommitFails, Apply, Reply, connVars
<1>7. CASE StartAuto \/ Stall
  BY <1>4, <1>7 DEF StartAuto, Stall, connVars
<1> QED
  BY <1>1, <1>3, <1>5, <1>6, <1>7 DEF ServerStep, HandlerStep

LEMMA HeardKept == ASSUME Typed, EpochShape, HeardInv, [Next]_vars PROVE HeardInv'
<1>1. CASE UNCHANGED vars
  BY <1>1 DEF vars, connVars, tabVars, HeardInv, Conn
<1> QED
  BY <1>1, HeardByTab, HeardByServer DEF Next, Fault, ServerStep

-----------------------------------------------------------------------------
(***************************************************************************)
(* One number, one command.                                                *)
(***************************************************************************)
LEMMA RequestConcat ==
  ASSUME NEW q \in Seq(Up), NEW r \in Seq(Up)
  PROVE  Requests(q \o r) \subseteq Requests(q) \cup Requests(r)
<1> SUFFICES ASSUME NEW i \in Asks(q \o r)
             PROVE  (q \o r)[i].cmd \in Requests(q) \cup Requests(r)
  BY Zenon DEF Requests
<1>1. \/ i \in Asks(q) /\ (q \o r)[i] = q[i]
      \/ i - Len(q) \in Asks(r) /\ (q \o r)[i] = r[i - Len(q)]
  BY ConcatPlaces
<1>2. CASE i \in Asks(q) /\ (q \o r)[i] = q[i]
  BY <1>2, Zenon DEF Requests
<1>3. CASE i - Len(q) \in Asks(r) /\ (q \o r)[i] = r[i - Len(q)]
  BY <1>3, Zenon DEF Requests
<1> QED
  BY <1>1, <1>2, <1>3

LEMMA OneRequest ==
  ASSUME NEW p \in Pending PROVE <<Commanding(p)>> \in Seq(Up) /\ Requests(<<Commanding(p)>>) = {p}
<1>1. Commanding(p) \in Up /\ Commanding(p).type = "COMMAND" /\ Commanding(p).cmd = p
  BY MessageFacts DEF Commanding
<1>2. Asks(<<Commanding(p)>>) = {1} /\ <<Commanding(p)>>[1] = Commanding(p)
  BY <1>1 DEF Asks
<1> QED
  BY <1>1, <1>2 DEF Requests

\* What is lost of a queue adds no request.
LEMMA CutRequests ==
  ASSUME NEW q \in Seq(Up), NEW n \in 0 .. Len(q)
  PROVE  Requests(SubSeq(q, 1, n) \o <<[type |-> "CLOSE"]>>) \subseteq Requests(q)
<1> PICK a : a = SubSeq(q, 1, n)
  OBVIOUS
<1>1. a \in Seq(Up) /\ Len(a) = n /\ n <= Len(q) /\ \A i \in 1 .. n : a[i] = q[i]
  <2>1. Len(q) \in Nat /\ n \in Nat
    OBVIOUS
  <2> QED
    BY <2>1
<1>2. Requests(a) \subseteq Requests(q)
  BY <1>1 DEF Requests, Asks
<1>3. <<[type |-> "CLOSE"]>> \in Seq(Up) /\ Requests(<<[type |-> "CLOSE"]>>) = {}
  <2>1. [type |-> "CLOSE"] \in Up /\ [type |-> "CLOSE"].type # "COMMAND"
    BY MessageFacts
  <2>2. Asks(<<[type |-> "CLOSE"]>>) = {}
    BY <2>1 DEF Asks
  <2> QED
    BY <2>1, <2>2 DEF Requests
<1> PICK b : b = <<[type |-> "CLOSE"]>>
  OBVIOUS
<1>4. Requests(a \o b) \subseteq Requests(a) \cup Requests(b)
  BY <1>1, <1>3, RequestConcat
<1> QED
  BY <1>2, <1>3, <1>4

\* The tab keeps to what it asked, or asks under its next number.
Asks1(t, p) == \A c \in Conns : Requests(up'[c]) \subseteq Requests(up[c]) \cup (IF c[1] = t /\ p # None THEN {p} ELSE {})
Repeats(t) ==
  /\ tab'[t].nextSeq = tab[t].nextSeq /\ tab'[t].pending \in {tab[t].pending, None}
  /\ Asks1(t, tab[t].pending)
AsksNext(t) ==
  /\ tab[t].pending = None /\ tab'[t].pending # None
  /\ tab'[t].pending.cseq = tab[t].nextSeq /\ tab'[t].nextSeq = tab[t].nextSeq + 1
  /\ Asks1(t, tab'[t].pending)
Speaks(t) ==
  /\ UNCHANGED <<results, job>>
  /\ \A u \in Tabs \ {t} : tab'[u] = tab[u]
  /\ \A u \in Users \ {User[t]} : resume'[u] = resume[u]
  /\ resume'[User[t]].pending = tab'[t].pending /\ resume'[User[t]].nextSeq = tab'[t].nextSeq
  /\ Repeats(t) \/ AsksNext(t)

LEMMA AskingPending == ASSUME Typed, NEW c \in Conns PROVE Asking(c) \subseteq Pending
<1>1. up[c] \in Seq(Up)
  BY DEF Typed, TypeOK, ConnTypes
<1>2. \A i \in Asks(up[c]) : up[c][i] \in Up /\ up[c][i].type = "COMMAND"
  BY <1>1 DEF Asks
<1>3. Requests(up[c]) \subseteq Pending
  BY <1>2, MessageFacts DEF Requests
<1>4. job[c].step \in {"reject", "commit"} => job[c].cmd \in Pending
  BY ConnFacts DEF Typed, JobShape
<1> QED
  BY <1>3, <1>4 DEF Asking

LEMMA SaidWhenSpoken ==
  ASSUME OneTabEach, Typed, SaidInv, NEW t \in Tabs, Speaks(t) PROVE SaidInv'
<1>0. /\ \A u \in Tabs : User[u] \in Users /\ tab[u].nextSeq \in Nat
      /\ \A u \in Tabs \ {t} : User[u] # User[t]
  BY ConnFacts, TabPlaces DEF Tab, OneTabEach
<1>1. ASSUME NEW u \in Tabs \ {t}
      PROVE  /\ tab'[u] = tab[u] /\ resume'[User[u]] = resume[User[u]]
             /\ \A c \in Conns : c[1] = u => Asking(c)' \subseteq Asking(c)
  <2>1. resume'[User[u]] = resume[User[u]] /\ tab'[u] = tab[u]
    BY <1>0 DEF Speaks
  <2>2. ASSUME NEW c \in Conns, c[1] = u PROVE Requests(up'[c]) \subseteq Requests(up[c])
    BY <2>2 DEF Speaks, Repeats, AsksNext, Asks1
  <2> QED
    BY <2>1, <2>2 DEF Asking, Speaks
<1>2. ASSUME NEW n \in ClientSeqs, NEW cmd, Means(t, n, cmd) PROVE Means(t, n, cmd)'
  <2>1. CASE Repeats(t)
    BY <1>2, <2>1 DEF Repeats, Means
  <2>2. CASE AsksNext(t)
    BY <1>0, <1>2, <2>2, ConnFacts DEF AsksNext, Means
  <2> QED
    BY <2>1, <2>2 DEF Speaks
<1>3. ASSUME NEW p, p = tab'[t].pending, p # None PROVE p.cseq < tab'[t].nextSeq /\ Means(t, p.cseq, p.cmd)'
  <2>1. p.cseq < tab'[t].nextSeq
    BY <1>0, <1>3 DEF Speaks, Repeats, AsksNext, SaidInv
  <2> QED
    BY <1>3, <2>1 DEF Means
<1>4. ASSUME NEW c \in Conns, c[1] = t, NEW p \in Asking(c)' PROVE Means(t, p.cseq, p.cmd)'
  <2>1. CASE p \in Asking(c)
    <3>1. Means(t, p.cseq, p.cmd) /\ p.cseq \in ClientSeqs
      BY <1>4, <2>1, AskingPending DEF SaidInv, Pending
    <3> QED
      BY <1>2, <3>1
  <2>2. CASE tab[t].pending # None /\ p = tab[t].pending /\ Repeats(t)
    <3>1. Means(t, p.cseq, p.cmd) /\ p.cseq \in ClientSeqs
      BY <2>2, TabPlaces DEF SaidInv, Means, Tab, Pending
    <3> QED
      BY <1>2, <3>1
  <2>3. CASE p = tab'[t].pending /\ AsksNext(t)
    BY <1>3, <2>3 DEF AsksNext
  <2>4. p \in Requests(up'[c]) \/ p \in Asking(c)
    BY <1>4 DEF Asking, Speaks
  <2>5. p \in Requests(up[c]) => p \in Asking(c)
    BY DEF Asking
  <2> QED
    BY <1>4, <2>1, <2>2, <2>3, <2>4, <2>5 DEF Speaks, Repeats, AsksNext, Asks1
<1>5. ASSUME NEW n \in ClientSeqs, Stored(t, n)' # None PROVE Means(t, n, Stored(t, n).cmd)'
  <2> PICK v : v = Stored(t, n)
    OBVIOUS
  <2>1. Stored(t, n)' = v /\ v # None
    BY <1>5 DEF Stored, Speaks
  <2>2. Means(t, n, v.cmd)'
    BY <1>2, <2>1 DEF SaidInv
  <2> QED
    BY <2>1, <2>2 DEF Means
<1>6. ASSUME NEW u \in Tabs
      PROVE  /\ resume'[User[u]].pending = tab'[u].pending /\ resume'[User[u]].nextSeq = tab'[u].nextSeq
             /\ tab'[u].pending # None => tab'[u].pending.cseq < tab'[u].nextSeq
             /\ \A c \in Conns : c[1] = u => \A p \in Asking(c)' : Means(u, p.cseq, p.cmd)'
             /\ \A n \in ClientSeqs : Stored(u, n)' # None => Means(u, n, Stored(u, n).cmd)'
  <2>1. CASE u = t
    <3> PICK p : p = tab'[t].pending
      OBVIOUS
    <3> QED
      BY <1>3, <1>4, <1>5, <2>1 DEF Speaks
  <2>2. CASE u # t
    BY <1>1, <2>2 DEF SaidInv, Means, Stored, Speaks
  <2> QED
    BY <2>1, <2>2
<1> QED
  BY <1>6 DEF SaidInv

LEMMA WordsKept ==
  ASSUME Typed, EpochShape, NEW t \in Tabs,
         OnRoom(t) \/ OnEvents(t) \/ OnAck(t) \/ OnRejected(t),
         resume[User[t]].pending = tab[t].pending, resume[User[t]].nextSeq = tab[t].nextSeq
  PROVE  /\ tab'[t].nextSeq = tab[t].nextSeq /\ tab'[t].pending \in {tab[t].pending, None}
         /\ resume'[User[t]].pending = tab'[t].pending /\ resume'[User[t]].nextSeq = tab'[t].nextSeq
<1>1. tab[t] \in Tab /\ tab \in [Tabs -> Tab] /\ User[t] \in Users
  BY TabPlaces, ConnFacts DEF Typed, TypeOK, TabTypes
<1>2. ASSUME NEW f, NEW r, Persist(t, f), tab' = [tab EXCEPT ![t] = r],
             r.pending = f.pending, r.nextSeq = f.nextSeq,
             f.nextSeq = tab[t].nextSeq, f.pending \in {tab[t].pending, None}
      PROVE  /\ tab'[t].nextSeq = tab[t].nextSeq /\ tab'[t].pending \in {tab[t].pending, None}
             /\ resume'[User[t]].pending = tab'[t].pending /\ resume'[User[t]].nextSeq = tab'[t].nextSeq
  <2>1. tab'[t] = r
    BY <1>1, <1>2
  <2>2. resume'[User[t]] = [pending |-> f.pending, nextSeq |-> f.nextSeq, lastSeq |-> f.lastSeq]
    BY <1>2, PersistFields
  <2> QED
    BY <1>2, <2>1, <2>2
<1>3. ASSUME NEW n \in Nat, NEW a \in Tab, a = tab[t] \/ a = Advance(tab[t], n)
      PROVE  /\ FinishAck(a) \in Tab /\ FinishAck(a).nextSeq = tab[t].nextSeq
             /\ FinishAck(a).pending \in {tab[t].pending, None}
  <2>1. a.nextSeq = tab[t].nextSeq /\ a.pending = tab[t].pending
    BY <1>1, <1>3, AdvanceFields
  <2> QED
    BY <2>1, CoverFields, TabFacts
<1>4. CASE OnRoom(t)
  <2> PICK n : n = Head(down[t]).seq
    OBVIOUS
  <2> PICK f : f = FinishAck(Advance(tab[t], n))
    OBVIOUS
  <2> DEFINE b == IF f.ack # 0 THEN AskResync(f) ELSE f
             r == [b EXCEPT !.sent = @ \/ Owes(f)]
  <2>1. Persist(t, f) /\ tab' = [tab EXCEPT ![t] = r] /\ n \in Nat
    BY <1>4, RoomFields DEF OnRoom
  <2>2. f \in Tab /\ f.nextSeq = tab[t].nextSeq /\ f.pending \in {tab[t].pending, None}
    BY <1>1, <1>3, <2>1, AdvanceFields
  <2>3. b \in Tab /\ b.pending = f.pending /\ b.nextSeq = f.nextSeq
    BY <2>2, ResyncFields
  <2> HIDE DEF b
  <2>4. r.pending = f.pending /\ r.nextSeq = f.nextSeq
    BY <2>3 DEF Tab
  <2> HIDE DEF r
  <2> QED
    BY <1>2, <2>1, <2>2, <2>4
<1>5. CASE OnEvents(t)
  <2> PICK n : n = Head(down[t]).seq
    OBVIOUS
  <2> PICK a : a = IF Usable(tab[t], n) THEN Advance(tab[t], n) ELSE tab[t]
    OBVIOUS
  <2>1. Persist(t, FinishAck(a)) /\ tab' = [tab EXCEPT ![t] = FinishAck(a)] /\ n \in Nat
    BY <1>5, EventsFields DEF OnEvents
  <2>2. a \in Tab
    BY <1>1, <2>1, AdvanceFields
  <2> PICK f : f = FinishAck(a)
    OBVIOUS
  <2>3. f.nextSeq = tab[t].nextSeq /\ f.pending \in {tab[t].pending, None}
    BY <1>3, <2>1, <2>2
  <2> QED
    BY <1>2, <2>1, <2>3
<1>6. CASE OnAck(t)
  <2> PICK n : n = Head(down[t]).seq
    OBVIOUS
  <2> PICK a : a = [tab[t] EXCEPT !.ack = n]
    OBVIOUS
  <2>1. a \in Tab /\ a.pending = tab[t].pending /\ a.nextSeq = tab[t].nextSeq
    <3>1. n \in Nat
      BY <1>6, AckFields
    <3> QED
      BY <1>1, <3>1 DEF Tab
  <2>2. /\ Forget(a).pending = None /\ Forget(a).nextSeq = a.nextSeq
        /\ AskResync(a).pending = a.pending /\ AskResync(a).nextSeq = a.nextSeq
    BY <2>1, ResyncFields DEF Forget, Tab
  <2>3. CASE Covered(a)
    <3>1. tab' = [tab EXCEPT ![t] = Forget(a)] /\ Persist(t, Forget(a))
      BY <1>6, <2>3 DEF OnAck
    <3> QED
      BY <1>2, <2>1, <2>2, <3>1
  <2>4. CASE ~Covered(a)
    <3>1. tab' = [tab EXCEPT ![t] = AskResync(a)] /\ resume' = resume
      BY <1>6, <2>4 DEF OnAck
    <3>2. tab'[t] = AskResync(a)
      BY <1>1, <3>1
    <3> QED
      BY <2>1, <2>2, <3>1, <3>2
  <2> QED
    BY <2>3, <2>4
<1>7. CASE OnRejected(t)
  <2> PICK f : f = Forget(tab[t])
    OBVIOUS
  <2>1. tab' = [tab EXCEPT ![t] = AskResync(f)] /\ Persist(t, f)
    BY <1>7 DEF OnRejected
  <2>2. f \in Tab /\ f.pending = None /\ f.nextSeq = tab[t].nextSeq
    BY <1>1, TabFacts DEF Forget, Tab
  <2>3. AskResync(f).pending = f.pending /\ AskResync(f).nextSeq = f.nextSeq
    BY <2>2, ResyncFields
  <2> QED
    BY <1>2, <2>1, <2>2, <2>3
<1> QED
  BY <1>4, <1>5, <1>6, <1>7

\* What is written to a connection is asked there, and nowhere else.
LEMMA WrittenRequests ==
  ASSUME Typed, NEW t \in Tabs, NEW r \in Seq(Up), Transmit(t, r)
  PROVE  \A c \in Conns : Requests(up'[c]) \subseteq Requests(up[c]) \cup (IF c[1] = t THEN Requests(r) ELSE {})
<1>1. Conn(t)[1] = t /\ up[Conn(t)] \in Seq(Up)
  BY TabPlaces
<1>2. Requests(up[Conn(t)] \o r) \subseteq Requests(up[Conn(t)]) \cup Requests(r)
  BY <1>1, RequestConcat
<1>3. \A c \in Conns : c = Conn(t) \/ up'[c] = up[c]
  BY TransmitOn
<1>4. Requests(up'[Conn(t)]) \subseteq Requests(up[Conn(t)]) \cup Requests(r)
  <2>1. CASE up'[Conn(t)] = up[Conn(t)]
    BY <2>1
  <2>2. CASE up'[Conn(t)] = up[Conn(t)] \o r
    BY <1>2, <2>2
  <2> QED
    BY <2>1, <2>2, TransmitOn
<1> QED
  BY <1>1, <1>3, <1>4

LEMMA MessagesSpeak ==
  ASSUME Typed, EpochShape, SaidInv, NEW t \in Tabs,
         OnRoom(t) \/ OnEvents(t) \/ OnAck(t) \/ OnRejected(t)
  PROVE  Speaks(t)
<1>1. /\ tab'[t].nextSeq = tab[t].nextSeq /\ tab'[t].pending \in {tab[t].pending, None}
      /\ resume'[User[t]].pending = tab'[t].pending /\ resume'[User[t]].nextSeq = tab'[t].nextSeq
  BY WordsKept DEF SaidInv
<1>2. /\ \A u \in Tabs \ {t} : tab'[u] = tab[u]
      /\ \A u \in Users \ {User[t]} : resume'[u] = resume[u]
  BY RoomFields, EventsFields, AckFields, RejectedFields
<1>3. UNCHANGED <<results, job>>
  BY DEF OnRoom, OnEvents, OnAck, OnRejected, Receive, storeVars
<1>4. ASSUME NEW r \in Seq(Up), Transmit(t, r),
             Asks(r) = {} \/ (tab[t].pending \in Pending /\ r = <<Commanding(tab[t].pending)>>)
      PROVE  Asks1(t, tab[t].pending)
  <2>1. Requests(r) \subseteq (IF tab[t].pending # None THEN {tab[t].pending} ELSE {})
    <3>1. CASE Asks(r) = {}
      BY <3>1 DEF Requests
    <3>2. CASE tab[t].pending \in Pending /\ r = <<Commanding(tab[t].pending)>>
      BY <3>2, OneRequest, NoneAssumption
    <3> QED
      BY <1>4, <3>1, <3>2
  <2> QED
    BY <1>4, <2>1, WrittenRequests DEF Asks1
<1>5. Asks1(t, tab[t].pending)
  <2>1. <<>> \in Seq(Up) /\ Asks(<<>>) = {}
    BY NoAsks
  <2>2. CASE OnRoom(t)
    <3>1. tab[t].pending # None => tab[t].pending \in Pending /\ <<Commanding(tab[t].pending)>> \in Seq(Up)
      BY TabPlaces, OneRequest DEF Tab
    <3>2. \/ tab[t].pending # None /\ Transmit(t, <<Commanding(tab[t].pending)>>)
          \/ Transmit(t, <<>>)
          \/ \E r \in Seq(Up) : Asks(r) = {} /\ Transmit(t, r)
      BY <2>2, RoomFields
    <3> QED
      BY <1>4, <2>1, <3>1, <3>2
  <2>3. CASE OnEvents(t)
    BY <2>3, EventsFields DEF Asks1
  <2>4. CASE OnAck(t) \/ OnRejected(t)
    <3>1. \E r \in Seq(Up) : Asks(r) = {} /\ Transmit(t, r)
      BY <2>4, AckFields, RejectedFields
    <3> QED
      BY <1>4, <3>1
  <2> QED
    BY <2>2, <2>3, <2>4
<1> QED
  BY <1>1, <1>2, <1>3, <1>5 DEF Speaks, Repeats

LEMMA OthersSpeak ==
  ASSUME Typed, SaidInv, NEW t \in Tabs,
         \/ Connect(t) \/ Drop(t) \/ Reload(t) \/ DetectClose(t)
         \/ \E cmd \in Commands : SendCommand(t, cmd)
  PROVE  Speaks(t)
<1>1. /\ tab[t] \in Tab /\ tab \in [Tabs -> Tab] /\ up \in [Conns -> Seq(Up)] /\ User[t] \in Users
      /\ resume[User[t]].pending = tab[t].pending /\ resume[User[t]].nextSeq = tab[t].nextSeq
      /\ resume[User[t]] \in Saved /\ Conn(t) \in Conns /\ Conn(t)[1] = t
  BY TabPlaces, ConnFacts DEF Typed, TypeOK, TabTypes, ConnTypes, SaidInv
<1>2. ASSUME UNCHANGED <<results, job, resume>>, NEW s, tab' = [tab EXCEPT ![t] = s],
             s.pending = tab[t].pending, s.nextSeq = tab[t].nextSeq,
             \A c \in Conns : Requests(up'[c]) \subseteq Requests(up[c])
      PROVE  Speaks(t)
  <2>1. tab'[t] = s /\ \A u \in Tabs \ {t} : tab'[u] = tab[u]
    BY <1>1, <1>2
  <2> QED
    BY <1>1, <1>2, <2>1 DEF Speaks, Repeats, Asks1
<1>3. CASE Connect(t)
  <2>1. /\ tab' = [tab EXCEPT ![t] = [tab[t] EXCEPT !.net = "joining"]]
        /\ UNCHANGED <<results, job, resume>> /\ up' = [up EXCEPT ![Conn(t)] = <<[type |-> "JOIN"]>>]
    BY <1>3 DEF Connect, storeVars
  <2> PICK s : s = [tab[t] EXCEPT !.net = "joining"]
    OBVIOUS
  <2>2. s.pending = tab[t].pending /\ s.nextSeq = tab[t].nextSeq
    BY <1>1 DEF Tab
  <2>3. Requests(<<[type |-> "JOIN"]>>) = {}
    <3>1. Asks(<<[type |-> "JOIN"]>>) = {}
      BY DEF Asks
    <3> QED
      BY <3>1 DEF Requests
  <2>4. \A c \in Conns : up'[c] = up[c] \/ up'[c] = <<[type |-> "JOIN"]>>
    BY <1>1, <2>1
  <2>5. \A c \in Conns : Requests(up'[c]) \subseteq Requests(up[c])
    BY <2>3, <2>4
  <2> QED
    BY <1>2, <2>1, <2>2, <2>5
<1>4. ASSUME NEW s \in Tab, HangUp(t, s), s.pending = tab[t].pending, s.nextSeq = tab[t].nextSeq,
             \A c \in Conns : Requests(up'[c]) \subseteq Requests(up[c])
      PROVE  Speaks(t)
  <2>1. tab' = [tab EXCEPT ![t] = Disconnected(s)] /\ UNCHANGED <<results, job, resume>>
    BY <1>4 DEF HangUp, storeVars
  <2> PICK z : z = Disconnected(s)
    OBVIOUS
  <2>2. z.pending = tab[t].pending /\ z.nextSeq = tab[t].nextSeq
    BY <1>4 DEF Disconnected, Tab
  <2> QED
    BY <1>2, <1>4, <2>1, <2>2
<1>5. ASSUME NEW n \in 0 .. Len(up[Conn(t)]), CutOff(t, n)
      PROVE  \A c \in Conns : Requests(up'[c]) \subseteq Requests(up[c])
  <2>1. up'[Conn(t)] \in {up[Conn(t)], SubSeq(up[Conn(t)], 1, n) \o <<[type |-> "CLOSE"]>>}
    BY <1>1, <1>5 DEF CutOff
  <2>2. Requests(up'[Conn(t)]) \subseteq Requests(up[Conn(t)])
    BY <1>1, <2>1, CutRequests
  <2>3. \A c \in Conns : c = Conn(t) \/ up'[c] = up[c]
    BY <1>5, CutOffElsewhere
  <2> QED
    BY <2>2, <2>3
<1>6. CASE Drop(t)
  BY <1>1, <1>4, <1>5, <1>6 DEF Drop
<1>7. CASE DetectClose(t)
  BY <1>1, <1>4, <1>7 DEF DetectClose
<1>8. CASE Reload(t)
  <2> PICK r : r = resume[User[t]]
    OBVIOUS
  <2> PICK s : s = [tab[t] EXCEPT !.pending = r.pending, !.nextSeq = r.nextSeq,
                                  !.lastSeq = r.lastSeq, !.ack = 0]
    OBVIOUS
  <2>1. HangUp(t, s) /\ \E n \in 0 .. Len(up[Conn(t)]) : CutOff(t, n)
    BY <1>8 DEF Reload
  <2>2. s \in Tab /\ s.pending = tab[t].pending /\ s.nextSeq = tab[t].nextSeq
    BY <1>1 DEF Tab, Saved
  <2> QED
    BY <1>4, <1>5, <2>1, <2>2
<1>9. ASSUME NEW cmd \in Commands, SendCommand(t, cmd) PROVE Speaks(t)
  <2> PICK p : p = [cseq |-> tab[t].nextSeq, at |-> tab[t].lastSeq, cmd |-> cmd]
    OBVIOUS
  <2> PICK s : s = [tab[t] EXCEPT !.pending = p, !.nextSeq = @ + 1, !.ack = 0, !.sent = TRUE]
    OBVIOUS
  <2>1. /\ tab[t].pending = None /\ tab[t].nextSeq \in ClientSeqs /\ tab' = [tab EXCEPT ![t] = s]
        /\ Persist(t, s) /\ Transmit(t, <<Commanding(p)>>) /\ UNCHANGED <<results, job>>
    BY <1>9 DEF SendCommand, storeVars
  <2>2. p \in Pending /\ p # None /\ p.cseq = tab[t].nextSeq
    BY <1>1, <2>1, NoneAssumption DEF Pending, Tab
  <2>3. s.pending = p /\ s.nextSeq = tab[t].nextSeq + 1
    BY <1>1 DEF Tab
  <2>4. tab'[t] = s /\ \A u \in Tabs \ {t} : tab'[u] = tab[u]
    BY <1>1, <2>1
  <2>5. /\ \A u \in Users \ {User[t]} : resume'[u] = resume[u]
        /\ resume'[User[t]] = [pending |-> s.pending, nextSeq |-> s.nextSeq, lastSeq |-> s.lastSeq]
    <3>1. Persist(t, s)
      BY <2>1
    <3>2. ASSUME NEW z, Persist(t, z)
          PROVE  /\ \A u \in Users \ {User[t]} : resume'[u] = resume[u]
                 /\ resume'[User[t]] = [pending |-> z.pending, nextSeq |-> z.nextSeq, lastSeq |-> z.lastSeq]
      BY <3>2, PersistFields
    <3> QED
      BY <3>1, <3>2
  <2>6. Asks1(t, p)
    BY <2>1, <2>2, OneRequest, WrittenRequests DEF Asks1
  <2>7. AsksNext(t)
    BY <2>1, <2>2, <2>3, <2>4, <2>6 DEF AsksNext
  <2>8. UNCHANGED <<results, job>>
    BY <2>1
  <2>9. tab'[t].pending = s.pending /\ tab'[t].nextSeq = s.nextSeq
    BY <2>4
  <2>10. resume'[User[t]].pending = tab'[t].pending /\ resume'[User[t]].nextSeq = tab'[t].nextSeq
    <3> PICK z : z = resume'[User[t]]
      OBVIOUS
    <3>1. z.pending = s.pending /\ z.nextSeq = s.nextSeq
      BY <2>5
    <3> QED
      BY <2>9, <3>1
  <2> QED
    BY <2>4, <2>5, <2>7, <2>8, <2>10 DEF Speaks
<1> QED
  BY <1>3, <1>6, <1>7, <1>8, <1>9

\* The server takes requests from their queues into jobs, and stores what the
\* jobs are about.
AsksNoMore == \A c \in Conns : Asking(c)' \subseteq Asking(c)
StoresAsked ==
  \A k \in Keys : \/ results'[k] = results[k]
                  \/ \E c \in Conns : /\ job[c].cmd \in Asking(c) /\ k = Key(c, job[c].cmd)
                                       /\ results'[k].cmd = job[c].cmd.cmd

LEMMA JobOver ==
  ASSUME Typed, up' = up, NEW w \in Workers, NEW j, job' = [job EXCEPT ![w] = j],
         j.step \notin {"reject", "commit"}
  PROVE  AsksNoMore
<1>1. job'[w] = j /\ \A c \in Conns : c # w => job'[c] = job[c]
  BY ConnFacts DEF Typed, TypeOK, WorkTypes
<1> QED
  BY <1>1 DEF AsksNoMore, Asking

\* A request taken, and the job that is about it or asks for nothing.
Takes(c, type, j) ==
  /\ Take(c, type)
  /\ job' = [job EXCEPT ![c] = j]
  /\ j.step \in {"reject", "commit"} => type = "COMMAND" /\ j.cmd = Asked(c)

LEMMA RequestTaken ==
  ASSUME Typed, NEW c \in Conns, NEW type, Take(c, type),
         job' = job \/ \E j : Takes(c, type, j)
  PROVE  AsksNoMore
<1>1. up[c] \in Seq(Up) /\ up \in [Conns -> Seq(Up)] /\ job \in [Workers -> Job] /\ c \in Workers
  BY ConnFacts DEF Typed, TypeOK, ConnTypes, WorkTypes
<1>2. /\ up[c] # <<>> /\ up'[c] = Tail(up[c]) /\ Head(up[c]).type = type
      /\ \A d \in Conns \ {c} : up'[d] = up[d] /\ job'[d] = job[d]
  <2>1. up[c] # <<>> /\ Head(up[c]).type = type /\ up' = [up EXCEPT ![c] = Tail(up[c])]
    BY DEF Take
  <2>2. up'[c] = Tail(up[c]) /\ \A d \in Conns \ {c} : up'[d] = up[d]
    BY <1>1, <2>1
  <2>3. job' = job \/ \E j : job' = [job EXCEPT ![c] = j]
    BY DEF Takes
  <2>4. \A d \in Conns \ {c} : job'[d] = job[d]
    BY <1>1, <2>3, ConnFacts
  <2> QED
    BY <2>1, <2>2, <2>4
<1>3. Requests(up'[c]) \subseteq Requests(up[c])
  BY <1>1, <1>2, TailRequests
<1>4. type = "COMMAND" => Asked(c) \in Requests(up[c])
  BY <1>1, <1>2, TailAsks DEF Asked, Requests
<1>5. Asking(c)' \subseteq Asking(c)
  <2>1. CASE job' = job
    BY <1>3, <2>1 DEF Asking
  <2>2. ASSUME NEW j, Takes(c, type, j) PROVE Asking(c)' \subseteq Asking(c)
    <3>1. job'[c] = j
      BY <1>1, <2>2 DEF Takes
    <3> QED
      BY <1>3, <1>4, <2>2, <3>1 DEF Asking, Takes
  <2> QED
    BY <2>1, <2>2
<1>6. \A d \in Conns \ {c} : Asking(d)' \subseteq Asking(d)
  BY <1>2 DEF Asking
<1> QED
  BY <1>5, <1>6 DEF AsksNoMore

LEMMA ResultStored ==
  ASSUME Typed, NEW c \in Conns, job[c].step \in {"reject", "commit"}, StoreResult(c)
  PROVE  StoresAsked
<1>1. job[c].cmd \in Asking(c)
  BY DEF Asking
<1>2. job[c].verdict.cmd = job[c].cmd.cmd
  BY ConnFacts DEF Typed, JobShape
<1>3. /\ results'[Key(c, job[c].cmd)] = job[c].verdict
      /\ \A k \in Keys : k # Key(c, job[c].cmd) => results'[k] = results[k]
  <2>1. Key(c, job[c].cmd) \in Keys /\ results \in [Keys -> Result \cup {None}]
    BY ConnFacts DEF Typed, TypeOK, StoreTypes, JobShape
  <2> QED
    BY <2>1 DEF StoreResult
<1> QED
  BY <1>1, <1>2, <1>3 DEF StoresAsked

LEMMA ServerAsks ==
  ASSUME Typed, ServerStep PROVE AsksNoMore /\ StoresAsked
<1>1. results' = results => StoresAsked
  BY DEF StoresAsked
<1>2. IdleJob.step \notin {"reject", "commit"}
  BY DEF IdleJob
<1>3. ASSUME NEW c \in Conns,
             Resync(c) \/ Close(c) \/ RefusePaused(c) \/ Replay(c) \/ RefuseLimited(c)
      PROVE  AsksNoMore /\ results' = results
  <2>1. job' = job /\ results' = results /\ \E type : Take(c, type)
    BY <1>3 DEF Resync, Close, RefusePaused, Replay, RefuseLimited, TakeInTurn, storeVars
  <2> QED
    BY <2>1, RequestTaken
<1>4. ASSUME NEW c \in Conns, Join(c) PROVE AsksNoMore /\ results' = results
  <2>1. results' = results /\ Take(c, "JOIN") /\ job' = [job EXCEPT ![c].step = "syncing"]
    BY <1>4 DEF Join, storeVars
  <2> PICK j : j = [job[c] EXCEPT !.step = "syncing"]
    OBVIOUS
  <2>2. job' = [job EXCEPT ![c] = j]
    BY <2>1
  <2>3. j.step \notin {"reject", "commit"}
    BY ConnFacts DEF Typed, TypeOK, WorkTypes, Job
  <2>4. Takes(c, "JOIN", j)
    BY <2>1, <2>2, <2>3 DEF Takes
  <2> QED
    BY <2>1, <2>4, RequestTaken
<1>5. ASSUME NEW c \in Conns, Decline(c) \/ Accept(c) PROVE AsksNoMore /\ results' = results
  <2>1. results' = results /\ Take(c, "COMMAND")
    BY <1>5 DEF Decline, Accept, Fresh, TakeInTurn, StartCommit, storeVars
  <2>2. \E j : job' = [job EXCEPT ![c] = j] /\ j.cmd = Asked(c)
    <3>1. CASE Decline(c)
      <4> PICK v : job' = [job EXCEPT ![c] = [step |-> "reject", cmd |-> Asked(c), verdict |-> v]]
        BY <3>1 DEF Decline
      <4> PICK j : j = [step |-> "reject", cmd |-> Asked(c), verdict |-> v]
        OBVIOUS
      <4>1. job' = [job EXCEPT ![c] = j] /\ j.cmd = Asked(c)
        OBVIOUS
      <4> QED
        BY <4>1, Zenon
    <3>2. CASE Accept(c)
      <4> PICK j : j = [step |-> "commit", cmd |-> Asked(c), verdict |-> Accepted(Asked(c).cmd)]
        OBVIOUS
      <4>1. job' = [job EXCEPT ![c] = j]
        BY <3>2 DEF Accept, StartCommit
      <4>2. j.cmd = Asked(c)
        OBVIOUS
      <4> QED
        BY <4>1, <4>2, Zenon
    <3> QED
      BY <1>5, <3>1, <3>2
  <2>3. \E j : Takes(c, "COMMAND", j)
    BY <2>1, <2>2 DEF Takes
  <2> QED
    BY <2>1, <2>3, RequestTaken
<1>6. ASSUME NEW c \in Conns, SyncJoined(c) PROVE AsksNoMore /\ results' = results
  BY <1>2, <1>6, JobOver, ConnFacts DEF SyncJoined, storeVars
<1>7. ASSUME NEW c \in Conns, PersistVerdict(c) \/ PersistVerdictFails(c)
      PROVE  AsksNoMore /\ (results' = results \/ StoresAsked)
  <2>1. /\ job[c].step = "reject" /\ (StoreResult(c) \/ results' = results)
        /\ Done(c) /\ up' = up
    BY <1>7 DEF PersistVerdict, PersistVerdictFails
  <2> QED
    BY <1>2, <2>1, JobOver, ResultStored, ConnFacts DEF Done
<1>8. ASSUME NEW w \in Workers, Commit(w) \/ CommitFails(w)
      PROVE  results' = results \/ StoresAsked
  <2>1. job[w].step = "commit" /\ (results' = results \/ StoreEvents(w))
    BY <1>8 DEF Commit, CommitFails, storeVars
  <2>2. StoreEvents(w) => results' = results \/ (w \in Conns /\ StoreResult(w))
    BY ConnFacts DEF StoreEvents
  <2> QED
    BY <2>1, <2>2, ResultStored
<1>9. ASSUME NEW w \in Workers, WorkerStep(w) PROVE AsksNoMore /\ (results' = results \/ StoresAsked)
  <2>1. \E j : job' = [job EXCEPT ![w] = j] /\ j.step \notin {"reject", "commit"}
    <3>1. \A x \in {"apply", "reply"} : [job[w] EXCEPT !.step = x].step = x
      BY DEF Typed, TypeOK, WorkTypes, Job
    <3>2. CASE Commit(w)
      BY <3>1, <3>2 DEF Commit
    <3>3. CASE Apply(w)
      BY <3>1, <3>3 DEF Apply
    <3>4. CASE CommitFails(w) \/ Reply(w)
      BY <1>2, <3>4 DEF CommitFails, Reply, Done
    <3> QED
      BY <1>9, <3>2, <3>3, <3>4 DEF WorkerStep
  <2>2. up' = up
    BY <1>9 DEF WorkerStep, Commit, CommitFails, Apply, Reply, connVars
  <2>3. results' = results \/ StoresAsked
    BY <1>8, <1>9 DEF WorkerStep, Apply, Reply, storeVars
  <2> QED
    BY <2>1, <2>2, <2>3, JobOver
<1>10. CASE StartAuto
  <2>1. /\ results' = results /\ up' = up
        /\ job' = [job EXCEPT ![Automation] = [step |-> "commit", cmd |-> None, verdict |-> Accepted(None)]]
    BY <1>10 DEF StartAuto, StartCommit, storeVars, connVars
  <2>2. \A c \in Conns : job'[c] = job[c]
    BY <2>1, ConnFacts, AutoAssumption DEF Typed, TypeOK, WorkTypes
  <2> QED
    BY <1>1, <2>1, <2>2 DEF AsksNoMore, Asking
<1>11. CASE Stall
  BY <1>1, <1>11 DEF Stall, AsksNoMore, Asking, connVars, storeVars
<1>12. CASE Crash
  <2>1. \A c \in Conns : up'[c] = <<>> /\ job'[c] = IdleJob
    BY <1>12, ConnFacts DEF Crash
  <2>2. Requests(<<>>) = {}
    BY NoAsks DEF Requests
  <2>3. results' = results
    BY <1>12 DEF Crash, storeVars
  <2> QED
    BY <1>1, <1>2, <2>1, <2>2, <2>3 DEF AsksNoMore, Asking
<1> QED
  BY <1>1, <1>3, <1>4, <1>5, <1>6, <1>7, <1>9, <1>10, <1>11, <1>12 DEF ServerStep, HandlerStep

LEMMA SaidWhenServed ==
  ASSUME OneTabEach, Typed, SaidInv, UNCHANGED tabVars, AsksNoMore, StoresAsked PROVE SaidInv'
<1>1. UNCHANGED <<tab, resume>>
  BY DEF tabVars
<1>2. ASSUME NEW t \in Tabs, NEW n \in ClientSeqs, NEW v, v = Stored(t, n)', v # None
      PROVE  Means(t, n, v.cmd)
  <2> PICK k : k = <<User[t], n>>
    OBVIOUS
  <2>1. k \in Keys /\ v = results'[k]
    BY <1>2, ConnFacts DEF Keys, Stored
  <2>2. CASE results'[k] = results[k]
    BY <1>2, <2>1, <2>2 DEF SaidInv, Stored
  <2>3. ASSUME NEW c \in Conns, job[c].cmd \in Asking(c), k = Key(c, job[c].cmd),
               results'[k].cmd = job[c].cmd.cmd
        PROVE  Means(t, n, v.cmd)
    <3>1. User[c[1]] = User[t] /\ job[c].cmd.cseq = n
      BY <2>3 DEF Key
    <3>2. c[1] = t
      BY <3>1, ConnFacts DEF OneTabEach
    <3>3. Means(t, job[c].cmd.cseq, job[c].cmd.cmd)
      BY <2>3, <3>2 DEF SaidInv
    <3> QED
      BY <2>1, <2>3, <3>1, <3>3
  <2> QED
    BY <2>1, <2>2, <2>3 DEF StoresAsked
<1>3. ASSUME NEW t \in Tabs, NEW n, NEW cmd, Means(t, n, cmd) PROVE Means(t, n, cmd)'
  BY <1>1, <1>3 DEF Means
<1>4. ASSUME NEW t \in Tabs, NEW n \in ClientSeqs, Stored(t, n)' # None PROVE Means(t, n, Stored(t, n).cmd)'
  <2> PICK v : v = Stored(t, n)'
    OBVIOUS
  <2>1. Means(t, n, v.cmd)'
    BY <1>2, <1>3, <1>4
  <2> QED
    BY <2>1 DEF Means
<1>5. ASSUME NEW t \in Tabs, NEW c \in Conns, c[1] = t, NEW p \in Asking(c)' PROVE Means(t, p.cseq, p.cmd)'
  BY <1>3, <1>5 DEF SaidInv, AsksNoMore
<1> QED
  BY <1>1, <1>4, <1>5 DEF SaidInv

LEMMA SaidKept == ASSUME OneTabEach, Typed, EpochShape, SaidInv, [Next]_vars PROVE SaidInv'
<1>1. CASE UNCHANGED vars
  BY <1>1 DEF vars, connVars, tabVars, storeVars, SaidInv, Means, Stored, Asking
<1>2. CASE ServerStep
  BY <1>2, ServerTabs, ServerAsks, SaidWhenServed
<1>3. ASSUME NEW t \in Tabs, TabStep(t) \/ Drop(t) \/ Reload(t) \/ \E cmd \in Commands : SendCommand(t, cmd)
      PROVE  Speaks(t)
  BY <1>3, MessagesSpeak, OthersSpeak DEF TabStep
<1> QED
  BY <1>1, <1>2, <1>3, SaidWhenSpoken DEF Next, Fault, ServerStep

-----------------------------------------------------------------------------
(***************************************************************************)
(* Refusals.                                                               *)
(***************************************************************************)
LEMMA InitHeard == Init => HeardInv
BY DEF Init, HeardInv

LEMMA InitSaid == Init => SaidInv
<1> SUFFICES ASSUME Init PROVE SaidInv
  OBVIOUS
<1>1. ASSUME NEW c \in Conns PROVE Asking(c) = {}
  <2>1. up[c] = <<>> /\ job[c] = IdleJob
    BY ConnFacts DEF Init
  <2>2. Requests(<<>>) = {}
    BY NoAsks DEF Requests
  <2> QED
    BY <2>1, <2>2 DEF Asking, IdleJob
<1>2. ASSUME NEW t \in Tabs
      PROVE  /\ tab[t].pending = None /\ tab[t].nextSeq = 1
             /\ resume[User[t]].pending = None /\ resume[User[t]].nextSeq = 1
             /\ \A n \in ClientSeqs : Stored(t, n) = None
  BY ConnFacts DEF Init, FreshTab, Stored, Keys
<1> QED
  BY <1>1, <1>2 DEF SaidInv

\* What is sent to one connection reaches its tab as the last message.
LEMMA SentLast ==
  ASSUME Typed, NEW c \in Conns, NEW m \in Down, SendTo(c, m),
         NEW t \in Tabs, NEW n \in ClientSeqs, Refuses(t, n)
  PROVE  c = Conn(t) /\ alive[t] /\ m.type = "REJECTED" /\ m.cseq = n
<1>1. down \in [Tabs -> Seq(Down)] /\ c[1] \in Tabs
  BY ConnFacts DEF Typed, TypeOK, ConnTypes
<1>2. Len(down'[t]) > Len(down[t]) /\ Len(down[t]) \in Nat
  BY <1>1 DEF Refuses
<1>3. c = Conn(t) /\ alive[t] /\ down'[t] = Append(down[t], m)
  <2>1. down'[t] # down[t]
    BY <1>2
  <2>2. c = Conn(c[1]) /\ alive[c[1]] /\ down' = [down EXCEPT ![c[1]] = Append(@, m)]
    BY <2>1 DEF SendTo
  <2>3. c[1] = t
    BY <1>1, <2>1, <2>2
  <2> QED
    BY <1>1, <2>2, <2>3
<1>4. Len(down'[t]) = Len(down[t]) + 1 /\ down'[t][Len(down'[t])] = m
  BY <1>1, <1>3, QueueAppend
<1> QED
  BY <1>3, <1>4 DEF Refuses

LEMMA RejectedLast ==
  ASSUME Typed, NEW c \in Conns, NEW p \in Pending, NEW code \in Codes, Reject(c, p, code),
         NEW t \in Tabs, NEW n \in ClientSeqs, Refuses(t, n)
  PROVE  c = Conn(t) /\ alive[t] /\ p.cseq = n
<1> PICK m : m = [type |-> "REJECTED", cseq |-> p.cseq, code |-> code]
  OBVIOUS
<1>1. m \in Down /\ SendTo(c, m) /\ m.cseq = p.cseq
  BY MessageFacts DEF Reject, Pending
<1> QED
  BY <1>1, SentLast

LEMMA NoticesRefuseNothing ==
  ASSUME Typed, NEW t \in Tabs, Noticed(t, down'[t]), NEW n \in ClientSeqs
  PROVE  ~Refuses(t, n)
<1>1. down[t] \in Seq(Down) /\ Len(down[t]) \in Nat
  BY TabPlaces
<1>2. CASE down'[t] = down[t]
  BY <1>1, <1>2 DEF Refuses
<1>3. ASSUME NEW m, NewNotice(m), down'[t] = Append(down[t], m) PROVE ~Refuses(t, n)
  <2>1. m \in Down /\ m.type # "REJECTED"
    BY <1>3 DEF NewNotice
  <2>2. down'[t][Len(down'[t])] = m
    BY <1>1, <1>3, <2>1, QueueAppend
  <2> QED
    BY <2>1, <2>2 DEF Refuses
<1> QED
  BY <1>2, <1>3 DEF Noticed

\* The tab itself only takes from its queue.
LEMMA TabsRefuseNothing ==
  ASSUME Typed, NEW u \in Tabs,
         TabStep(u) \/ Drop(u) \/ Reload(u) \/ \E cmd \in Commands : SendCommand(u, cmd),
         NEW t \in Tabs, NEW n \in ClientSeqs
  PROVE  ~Refuses(t, n)
<1>1. down \in [Tabs -> Seq(Down)] /\ Len(down[t]) \in Nat
  BY TabPlaces DEF Typed, TypeOK, ConnTypes
<1>2. CASE down' = down
  BY <1>1, <1>2 DEF Refuses
<1>3. ASSUME NEW s, HangUp(u, s) PROVE ~Refuses(t, n)
  <2>1. down'[t] \in {<<>>, down[t]}
    BY <1>1, <1>3 DEF HangUp
  <2> QED
    BY <1>1, <2>1 DEF Refuses
<1>4. ASSUME NEW type, Receive(u, type) PROVE ~Refuses(t, n)
  <2>1. down[u] # <<>> /\ down' = [down EXCEPT ![u] = Tail(@)]
    BY <1>4 DEF Receive
  <2>2. CASE t # u
    <3>1. down'[t] = down[t]
      BY <1>1, <2>1, <2>2
    <3> QED
      BY <1>1, <3>1 DEF Refuses
  <2>3. CASE t = u
    <3>1. down'[t] = Tail(down[t]) /\ Len(Tail(down[t])) = Len(down[t]) - 1
      BY <1>1, <2>1, <2>3, QueueTail
    <3> QED
      BY <1>1, <3>1 DEF Refuses
  <2> QED
    BY <2>2, <2>3
<1>5. CASE Connect(u) \/ \E cmd \in Commands : SendCommand(u, cmd)
  BY <1>2, <1>5 DEF Connect, SendCommand
<1>6. CASE Drop(u) \/ Reload(u) \/ DetectClose(u)
  BY <1>3, <1>6 DEF Drop, Reload, DetectClose
<1>7. CASE OnRoom(u) \/ OnEvents(u) \/ OnAck(u) \/ OnRejected(u)
  BY <1>4, <1>7 DEF OnRoom, OnEvents, OnAck, OnRejected
<1> QED
  BY <1>5, <1>6, <1>7 DEF TabStep

\* What the store is still asked about was never accepted.
LEMMA StoreRefusesFresh ==
  ASSUME Typed, LogInv, NEW c \in Conns, job[c].step \in {"reject", "commit"},
         NEW code \in Codes, Reject(c, job[c].cmd, code),
         NEW t \in Tabs, NEW n \in ClientSeqs, Refuses(t, n)
  PROVE  ~WasAccepted(<<User[t], n>>)
<1>1. job[c].cmd \in Pending
  BY ConnFacts DEF Typed, JobShape
<1>2. c = Conn(t) /\ job[c].cmd.cseq = n
  BY <1>1, RejectedLast
<1>3. Key(c, job[c].cmd) = <<User[t], n>>
  BY <1>2, TabPlaces DEF Key
<1>4. results[Key(c, job[c].cmd)] = None
  BY DEF LogInv, StoreNeverConflicts
<1> QED
  BY <1>3, <1>4 DEF WasAccepted

\* A verdict given again is the one the store holds, and it is about the
\* command the tab asks for.
LEMMA ReplayRefusesRefused ==
  ASSUME Typed, LogInv, TabInv, SaidInv, NEW c \in Conns, Replay(c),
         NEW t \in Tabs, NEW n \in ClientSeqs, Refuses(t, n)
  PROVE  ~WasAccepted(<<User[t], n>>)
<1> PICK p, k : p = Asked(c) /\ k = Key(c, p)
  OBVIOUS
<1> PICK v : v = results[k]
  OBVIOUS
<1>1. Take(c, "COMMAND") /\ busy = None
  BY DEF Replay, TakeInTurn
<1>2. p \in Pending /\ k \in Keys
  BY <1>1, TakeTyped, ConnFacts DEF Typed, TypeOK
<1>3. Verdict(k) = v
  BY <1>1, <1>2, NobodyHolds DEF Verdict
<1>4. v # None /\ v \in Result
  <2>1. v # None
    BY <1>3 DEF Replay
  <2>2. v \in Result \cup {None}
    BY <1>2 DEF Typed, TypeOK, StoreTypes
  <2> QED
    BY <2>1, <2>2
<1>5. \/ v.cmd # p.cmd /\ Reject(c, p, "CLIENT_SEQ_CONFLICT")
      \/ ~v.ok /\ Reject(c, p, v.code)
      \/ SendTo(c, [type |-> "ACK", cseq |-> p.cseq, seq |-> v.seq]) /\ v.ok
  BY <1>3 DEF Replay, SamePayload
<1>6. CASE v.cmd # p.cmd /\ Reject(c, p, "CLIENT_SEQ_CONFLICT")
  <2>1. c = Conn(t) /\ p.cseq = n
    BY <1>2, <1>6, RejectedLast DEF Codes
  <2>2. v = Stored(t, n)
    BY <2>1, TabPlaces DEF Key, Stored
  <2>3. p \in Requests(up[c])
    <3>1. up[c] \in Seq(Up) /\ up[c] # <<>> /\ Head(up[c]).type = "COMMAND"
      BY <1>1 DEF Take, Typed, TypeOK, ConnTypes
    <3>2. 1 \in Asks(up[c]) /\ up[c][1] = Head(up[c])
      BY <3>1, TailAsks
    <3> QED
      BY <3>2 DEF Asked, Requests
  <2>4. p = tab[t].pending /\ p # None
    BY <2>1, <2>3 DEF TabInv, TabTrue, About, Waiting
  <2>5. Means(t, n, v.cmd)
    BY <1>4, <2>2 DEF SaidInv
  <2> QED
    BY <1>6, <2>1, <2>4, <2>5 DEF Means
<1>7. CASE ~v.ok /\ Reject(c, p, v.code)
  <2>1. v.code \in Codes
    BY <1>4, <1>7 DEF Result, Acceptance, Refusal, Codes
  <2> PICK code \in Codes : code = v.code
    BY <2>1
  <2>2. c = Conn(t) /\ p.cseq = n
    BY <1>2, <1>7, RejectedLast
  <2>3. k = <<User[t], n>>
    BY <2>2, TabPlaces DEF Key
  <2> QED
    BY <1>7, <2>3 DEF WasAccepted
<1>8. CASE SendTo(c, [type |-> "ACK", cseq |-> p.cseq, seq |-> v.seq]) /\ v.ok
  <2>1. p.cseq \in ClientSeqs /\ v.seq \in Nat
    BY <1>2, <1>4, <1>8 DEF Pending, Result, Acceptance, Refusal
  <2> PICK m : m = [type |-> "ACK", cseq |-> p.cseq, seq |-> v.seq]
    OBVIOUS
  <2>2. m \in Down /\ m.type # "REJECTED"
    BY <2>1, MessageFacts
  <2> QED
    BY <1>8, <2>2, SentLast
<1> QED
  BY <1>5, <1>6, <1>7, <1>8

\* A paused room refuses nobody who is heard: he is in it.
LEMMA PauseRefusesNobody ==
  ASSUME Typed, Unhurried, HeardInv, NEW c \in Conns, RefusePaused(c),
         NEW t \in Tabs, NEW n \in ClientSeqs
  PROVE  ~Refuses(t, n)
<1> SUFFICES ASSUME Refuses(t, n) PROVE FALSE
  OBVIOUS
<1>1. Take(c, "COMMAND") /\ paused # "no" /\ Reject(c, Asked(c), "ROOM_PAUSED")
  BY DEF RefusePaused, TakeInTurn
<1>2. Asked(c) \in Pending
  BY <1>1, TakeTyped DEF Typed, TypeOK
<1>3. c = Conn(t) /\ alive[t]
  BY <1>1, <1>2, RejectedLast DEF Codes
<1>4. joined[c]
  BY <1>1, <1>3 DEF HeardInv, Take
<1>5. paused = "no"
  BY <1>4 DEF Unhurried, Typed, TypeOK, RoomTypes
<1> QED
  BY <1>1, <1>5

LEMMA ReplyRefusesNothing ==
  ASSUME Typed, TabInv, NEW w \in Workers, Reply(w), NEW t \in Tabs, NEW n \in ClientSeqs
  PROVE  ~Refuses(t, n)
<1> PICK events : events = Broadcast(joined, [type |-> "EVENTS", seq |-> job[w].verdict.seq])
  OBVIOUS
<1>1. job[w].step = "reply" /\ job[w].verdict.seq \in Nat /\ job[w].verdict.seq <= Len(memLog)
  BY DEF Reply, TabInv, ReplyReady, Typed, JobShape, Acceptance
<1>2. Noticed(t, events[t])
  <2> PICK m : m = [type |-> "EVENTS", seq |-> job[w].verdict.seq]
    OBVIOUS
  <2>1. m \in Down /\ m.type = "EVENTS" /\ m.seq <= Len(memLog)
    BY <1>1, MessageFacts
  <2> QED
    BY <2>1, BroadcastNotice DEF NewNotice
<1>3. events[t] \in Seq(Down)
  BY <1>2, NoticedPlaces
<1>4. CASE down'[t] = events[t]
  BY <1>2, <1>4, NoticesRefuseNothing
<1>5. ASSUME NEW m \in Down, m.type = "ACK", down'[t] = Append(events[t], m) PROVE ~Refuses(t, n)
  <2>1. down'[t][Len(down'[t])] = m
    BY <1>3, <1>5, QueueAppend
  <2> QED
    BY <1>5, <2>1 DEF Refuses
<1>6. events \in [Tabs -> Seq(Down)]
  <2>1. [type |-> "EVENTS", seq |-> job[w].verdict.seq] \in Down
    BY <1>1, MessageFacts
  <2> QED
    BY <2>1, BroadcastTyped DEF Typed, TypeOK
<1>7. CASE w # Automation /\ w = Conn(w[1]) /\ alive[w[1]]
  <2> PICK m : m = [type |-> "ACK", cseq |-> job[w].cmd.cseq, seq |-> job[w].verdict.seq]
    OBVIOUS
  <2>1. down' = [events EXCEPT ![w[1]] = Append(@, m)]
    BY <1>7 DEF Reply
  <2>2. job[w].cmd \in Pending
    BY <1>1, <1>7, ConnFacts DEF Typed, JobShape
  <2>3. m \in Down /\ m.type = "ACK"
    BY <1>1, <2>2, MessageFacts DEF Pending
  <2>4. down'[t] = events[t] \/ down'[t] = Append(events[t], m)
    BY <1>6, <2>1
  <2> QED
    BY <1>4, <1>5, <2>3, <2>4
<1>8. CASE ~(w # Automation /\ w = Conn(w[1]) /\ alive[w[1]])
  <2>1. down' = events
    BY <1>8 DEF Reply
  <2> QED
    BY <1>4, <2>1
<1> QED
  BY <1>7, <1>8

LEMMA RetryStep ==
  ASSUME Typed, LogInv, TabInv, Unhurried, HeardInv, SaidInv, [Next]_vars,
         NEW t \in Tabs, NEW n \in ClientSeqs, Refuses(t, n)
  PROVE  ~WasAccepted(<<User[t], n>>)
<1>1. ASSUME down' = down PROVE FALSE
  <2>1. Noticed(t, down'[t])
    BY <1>1 DEF Noticed
  <2> QED
    BY <2>1, NoticesRefuseNothing
<1>2. ASSUME NEW c \in Conns, Join(c) \/ SyncJoined(c) \/ Resync(c) \/ Close(c) PROVE FALSE
  <2>1. Noticed(t, down'[t])
    <3>1. CASE Resync(c)
      <4>1. NewNotice([type |-> "EVENTS", seq |-> Len(memLog)])
        BY RoomNotice
      <4> QED
        BY <3>1, <4>1, SendNotice DEF Resync
    <3>2. CASE Join(c) \/ SyncJoined(c) \/ Close(c)
      <4>1. \/ down' = down
            \/ \E attached : down' = Broadcast(attached, RoomState)
        BY <3>2 DEF Join, SyncJoined, Close
      <4> QED
        BY <4>1, RoomNotice, BroadcastNotice DEF Noticed
    <3> QED
      BY <1>2, <3>1, <3>2
  <2> QED
    BY <2>1, NoticesRefuseNothing
<1>3. ASSUME NEW c \in Conns, RefuseLimited(c) PROVE FALSE
  BY <1>3 DEF RefuseLimited, Spend, Unhurried
<1>4. ASSUME NEW c \in Conns, Decline(c) \/ Accept(c) PROVE FALSE
  BY <1>1, <1>4 DEF Decline, Accept
<1>5. ASSUME NEW c \in Conns, PersistVerdict(c) \/ PersistVerdictFails(c)
      PROVE  ~WasAccepted(<<User[t], n>>)
  <2>1. job[c].step = "reject" /\ job[c].verdict.code \in Codes /\ "COMMAND_FAILED" \in Codes
    BY <1>5, ConnFacts DEF PersistVerdict, PersistVerdictFails, Typed, JobShape, Refusal, Codes
  <2>2. \E code \in Codes : Reject(c, job[c].cmd, code)
    BY <1>5, <2>1 DEF PersistVerdict, PersistVerdictFails
  <2> QED
    BY <2>1, <2>2, StoreRefusesFresh
<1>6. ASSUME NEW w \in Workers, Commit(w) \/ Apply(w) PROVE FALSE
  BY <1>1, <1>6 DEF Commit, Apply, connVars
<1>7. ASSUME NEW w \in Workers, CommitFails(w) PROVE ~WasAccepted(<<User[t], n>>)
  <2>1. CASE w = Automation
    BY <1>1, <1>7, <2>1 DEF CommitFails
  <2>2. CASE w # Automation
    BY <1>7, <2>2, ConnFacts, StoreRefusesFresh DEF CommitFails, Codes
  <2> QED
    BY <2>1, <2>2
<1>8. CASE StartAuto \/ Stall \/ Crash \/ UNCHANGED vars
  BY <1>1, <1>8 DEF StartAuto, Stall, Crash, vars, connVars
<1>9. ASSUME NEW c \in Conns, HandlerStep(c) PROVE ~WasAccepted(<<User[t], n>>)
  BY <1>2, <1>4, <1>5, <1>9, PauseRefusesNobody, ReplayRefusesRefused DEF HandlerStep
<1>10. ASSUME NEW w \in Workers, WorkerStep(w) PROVE ~WasAccepted(<<User[t], n>>)
  BY <1>6, <1>7, <1>10, ReplyRefusesNothing DEF WorkerStep
<1> QED
  BY <1>3, <1>5, <1>8, <1>9, <1>10, TabsRefuseNothing DEF Next, Fault

\* With one tab to a player, and where automation never stalls and the limiter
\* refuses nothing, the retry of an accepted command is answered with its
\* acknowledgement: neither the lookup nor a pause of an empty room refuses it.
THEOREM RetriesNeverRefused ==
  ASSUME OneTabEach, MaxStalls = 0, MaxLimited = 0 PROVE Spec => RetryNeverRefused
<1>1. Init => Unhurried /\ HeardInv /\ SaidInv
  BY InitUnhurried, InitHeard, InitSaid
<1>2. Typed /\ EpochShape /\ Unhurried /\ HeardInv /\ SaidInv /\ [Next]_vars
        => (Unhurried /\ HeardInv /\ SaidInv)'
  BY UnhurriedKept, HeardKept, SaidKept
<1>3. Typed /\ LogInv /\ TabInv /\ Unhurried /\ HeardInv /\ SaidInv /\ [Next]_vars =>
        [\A t \in Tabs, n \in ClientSeqs : Refuses(t, n) => ~WasAccepted(<<User[t], n>>)]_vars
  BY RetryStep
<1> QED
  BY <1>1, <1>2, <1>3, AlwaysEpochs, AlwaysLog, AlwaysTabs, PTL DEF Spec, RetryNeverRefused
=============================================================================
